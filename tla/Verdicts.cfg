SPECIFICATION Spec
CONSTANTS
    Plugin <- MCPlugin
    MaxCertificates = 1
INVARIANTS
    OpinionIsShown
    OpinionIsSummarised
