SPECIFICATION FairSpec
CONSTANTS
    N = 3
    FileSize = 5
    Wrap = 8
    Requests <- MCRequests
    HasConf = {1, 3}
INVARIANTS
    TypeOK
    SoleReaderBytesAreRight
    ReportInRegistrationOrder
    NoThreadOutlivesPE
PROPERTIES
    AnalysisEnds
    ImplementsReport
