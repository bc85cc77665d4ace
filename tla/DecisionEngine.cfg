SPECIFICATION FairSpec
CONSTANTS
    Absent = Absent
    Broken = Broken
    NoHash = NoHash
    v1 = v1
    v2 = v2
    c1 = c1
    c2 = c2
    i1 = i1
    i2 = i2
    m1 = m1
    Versions = {v1, v2}
    StartInputs = {v1, Absent}
    Specs <- SpecsScale
    MaxChanges = 2
    MaxFaults = 1
    MaxBoth = 2
INVARIANT TypeOK RestIsTruthful
PROPERTY Converges DeletionCompletes KeepsPromise
CHECK_DEADLOCK FALSE
