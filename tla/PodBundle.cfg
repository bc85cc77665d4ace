SPECIFICATION Spec
CONSTANTS
    p1 = p1
    p2 = p2
    None = None
    Kinds = {"decisionengine", "applier"}
    Optional = {"caBundle"}
    Pods = {p1, p2}
    MaxChanges = 2
SYMMETRY PodSymmetry
INVARIANT MountsInPods
CHECK_DEADLOCK FALSE
