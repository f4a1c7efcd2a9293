SPECIFICATION EdSpec
CONSTANTS
    MaxLine = 5
    HistSize = 2
    PrefixMax = 2
    MaxHist = 3
    Chars <- Typed
    Commands <- OneCommand
    Files <- TwoFiles
    FileCommands <- TakesFile
    Lines <- ThreeLines
INVARIANT EdTypeOK
PROPERTIES RecallIsRight DraftComesBack EditsAreAtTheCursor CompletionExcludesNothing
