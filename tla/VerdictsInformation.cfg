SPECIFICATION Spec
CONSTANTS
    Plugin = {"packer"}
    MaxCertificates = 1
INVARIANT
    OpinionNeedsInformation
