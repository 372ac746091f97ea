SPECIFICATION FairSpec
CONSTANTS
    Path = {1, 2, 3, 4, 5}
    FlushEvery = 2
    Category <- MCCategory
    Library = {"l", "m"}
    Id = {"s", "a"}
    StaticId <- MCStaticId
INVARIANTS
    TypeOK
    NothingLostNorSplit
    SmallJsonWellFormed
    NothingOutlivesLibrary
    DynamicIdsAreUnique
PROPERTIES
    Terminates
