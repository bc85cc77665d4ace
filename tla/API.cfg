SPECIFICATION FairSpec
CONSTANTS
    Absent = Absent
    Broken = Broken
    NoHash = NoHash
    NoURL = NoURL
    v1 = v1
    v2 = v2
    c1 = c1
    c2 = c2
    i1 = i1
    m1 = m1
    u1 = u1
    u2 = u2
    Versions = {v1}
    StartInputs = {v1, Absent}
    Specs <- SpecsURL
    MaxChanges = 1
    MaxFaults = 1
    MaxBoth = 2
INVARIANT TypeOK RestIsTruthful NothingHeldBack
PROPERTY KeepsPromise Converges DeletionCompletes
CHECK_DEADLOCK FALSE
