SPECIFICATION FairSpec
CONSTANTS
    p1 = p1
    p2 = p2
    None = None
    Kinds = {"api", "decisionengine", "applier"}
    Optional = {"caBundle", "certs", "prometheusCA"}
    Pods = {p1}
    MaxChanges = 3
INVARIANT TypeOK NeverBehindItsHash InputsInPods
PROPERTY PodsConverge
CHECK_DEADLOCK FALSE
