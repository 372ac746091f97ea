SPECIFICATION Spec
CONSTANTS
    N = 3
    FileSize = 5
    Wrap = 8
    Requests <- MCRequests
    HasConf = {1, 3}
INVARIANT
    BytesAreRight
