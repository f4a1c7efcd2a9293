SPECIFICATION AsSpec
CONSTANTS
    TotalPages = 5
    BitmapPage = 99
    RunLengths = {2}
    Slots <- TwoSlots
    BootTables <- ThreeTables
    BootEntries <- BiosEntries
    TestAddresses <- Tried
INVARIANTS AsTypeOK TablesAreKept TestMappingIsPrivate CountersExact GrantsMatchBitmap ScanIsFirstFit
PROPERTIES OnlyTheLeafChanges GrantsAreFreshAndZero
