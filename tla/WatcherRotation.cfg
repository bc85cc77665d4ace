SPECIFICATION Spec
CONSTANTS
    Absent = Absent
    Broken = Broken
    None = None
    v1 = v1
    v2 = v2
    i1 = i1
    i2 = i2
    c1 = c1
    c2 = c2
    a1 = a1
    a2 = a2
    p1 = p1
    p2 = p2
    Kinds = {"api"}
    Versions = {v1}
    StartInputs = {v1}
    Volatile = {"secret", "transport", "prometheus", "database", "ingress", "keystone", "services"}
    Specs <- SpecsRotate
    MaxChanges = 1
    MaxFaults = 0
    MaxBoth = 2
INVARIANT RunningAccountHeld
CHECK_DEADLOCK FALSE
