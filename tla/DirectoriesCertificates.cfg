SPECIFICATION Spec
CONSTANTS
    Wrap = 40
    TableSize <- MCTableSize
    Available = 28
    ConfigSize <- MCConfigSize
    ConfigAvailable <- MCConfigAvailable
    Word = {"Rich", "DanS", "a"}
    MaxWords = 8
    Lfanew <- MCLfanew
    FileSizes <- MCFileSizes
    HeaderOffsets = {64, 300}
    OptionalSizes = {0, 112}
    RvaCounts = {1, 17}
    MaxSections = 2
    MaxSymbols = 2
    SymbolPointers = {0, 280}
    StringSizes <- MCStringSizes
    LibraryNames = {"a", "b"}
    LookupEntries <- MCLookupEntries
    OrdinalMap <- MCOrdinalMap
    ImportLimit = 1
    MaxLibraries = 2
    MaxFunctions = 2
    MaxNames = 3
    ExportNames = {"x", "y"}
    DebugSize <- MCDebugSize
    DebugEnd = 84
    DebugPointers <- MCDebugPointers
    DebugLengths <- MCDebugLengths
    TlsEnds = {0, 24, 40}
    CallbackEnds = {0, 7, 20}
    Blocks = 2
    MaxEntries = 2
    Places = {"p", "q"}
    LengthWrap = 24
    KeyBytes = {2, 4}
    VersionStart = {0, 1}
    VersionEnd = 110
    MaxIcons = 3
    IconSizes = {0, 4, 5, 9}
    SectionHeaders <- MCSectionHeaders
    AddressSet <- MCAddressSet
    Alignments = {1, 4}
    ImageBases = {2}
    SecurityOffsets = {200, 224, 240, 500}
    Chunk = 16
INVARIANTS
    FittingCertificateIsRead
