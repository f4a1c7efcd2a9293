SPECIFICATION FsSpec
CONSTANTS
    HeapSize = 16
    Header = 3
    Align = 2
    Least = 2
    Word = 64
    Sizes = {4}
    Names <- LongNames
    Stored <- CutLong
    Initrd <- OneFile
    Contents <- OneText
    MaxFiles = 3
    Fds = {3}
    TouchBuffer = 2
INVARIANT SaveReallySaves
