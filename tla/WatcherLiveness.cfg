SPECIFICATION FairSpec
CONSTANTS
    Absent = Absent
    Broken = Broken
    None = None
    v1 = v1
    v2 = v2
    i1 = i1
    i2 = i2
    c1 = c1
    c2 = c2
    a1 = a1
    a2 = a2
    p1 = p1
    p2 = p2
    Kinds = {"api"}
    Versions = {v1}
    StartInputs = {v1, Absent}
    Volatile = {"secret", "transport", "prometheus", "database", "ingress", "keystone", "services"}
    Specs <- SpecsOne
    MaxChanges = 1
    MaxFaults = 1
    MaxBoth = 1
INVARIANT RestIsTruthful
PROPERTY Converges DeletionCompletes
CHECK_DEADLOCK FALSE
