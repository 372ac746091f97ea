SPECIFICATION Spec
CONSTANTS
    Path = {1, 2, 3}
    FlushEvery = 2
    Category <- MCCategory
    Library = {"l", "m"}
    Id = {"s", "a"}
    StaticId <- MCStaticId
INVARIANT
    JsonWellFormed
