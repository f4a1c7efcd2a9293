SPECIFICATION ConSpec
CONSTANTS
    Width = 5
    Height = 3
    Tab = 2
    SgrLists <- SomeLists
    Nearest = {3, 12}
INVARIANTS ConTypeOK CursorComesBack
