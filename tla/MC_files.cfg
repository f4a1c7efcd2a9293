SPECIFICATION FsSpec
CONSTANTS
    HeapSize = 16
    Header = 3
    Align = 2
    Least = 2
    Word = 64
    Sizes = {0, 4, 63}
    Names <- ShortNames
    Stored <- AsTheyAre
    Initrd <- OneFile
    Contents <- OneText
    MaxFiles = 3
    Fds = {3}
    TouchBuffer = 2
INVARIANTS FsTypeOK  EntriesOwnTheirData SaveReallySaves FdsReadTheirFile
 
