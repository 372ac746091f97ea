SPECIFICATION Spec
CONSTANTS
    Categories <- MCCategories
    EntryName <- MCEntryName
    Versions = 1
    Level = {3}
    MaxNodes = 12
INVARIANTS
    TypeOK
    IsTree
    SiblingsDiffer
    OneOfEach
PROPERTIES
    NothingIsLost
CHECK_DEADLOCK FALSE
