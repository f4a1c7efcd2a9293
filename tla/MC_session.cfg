SPECIFICATION SesSpec
CONSTANTS
    Chars = {"x", "nl"}
    NL = "nl"
    Files = {"f"}
    NoFile = NoFile
    Contents <- SomeContents
    Size = 6
    Letters = {"a", "r", " "}
    SPACE = " "
    MaxName = 3
    Avi <- AnA
    Root <- AnR
    Power <- ARA
    Lines <- SomeLines
    Tails <- SomeTails
    MaxDepth = 5
    LF = "nl"
    Flags <- SomeFlags
    Chunk = 2
INVARIANTS EditorInBounds UnmodifiedIsSaved SegmentsInOrder 
PROPERTIES TextIsEdited LinesEnd
CHECK_DEADLOCK FALSE
