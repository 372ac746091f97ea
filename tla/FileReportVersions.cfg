SPECIFICATION Spec
CONSTANTS
    Categories <- MCCategories
    EntryName <- MCEntryName
    Versions = 2
    Level = {3}
    MaxNodes = 13
INVARIANTS
    SiblingsDiffer
CHECK_DEADLOCK FALSE
