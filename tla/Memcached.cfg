SPECIFICATION FairSpec
CONSTANTS
    decisionengine = decisionengine
    applier = applier
    m1 = m1
    m2 = m2
    None = None
    Resources = {decisionengine, applier}
    Kinds <- AllKinds
    KindOf <- TwoKinds
    Instances = {m1, m2}
    MaxChanges = 3
    MaxFaults = 1
INVARIANT UsedIsHeld NothingHeldAfterwards
PROPERTY InstanceGoes
CHECK_DEADLOCK FALSE
