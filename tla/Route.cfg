SPECIFICATION FairSpec
CONSTANTS
    Absent = Absent
    Broken = Broken
    None = None
    v1 = v1
    v2 = v2
    Versions = {v1, v2}
    StartInputs = {v1}
    Specs <- SpecsTLS
    MaxChanges = 1
    MaxFaults = 1
INVARIANT CertificatesAreUsable RestIsExposed
PROPERTY NeverPlainAgain Converges
CHECK_DEADLOCK FALSE
