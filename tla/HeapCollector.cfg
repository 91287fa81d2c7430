CONSTANTS
    o1 = o1
    o2 = o2
    o3 = o3
    r1 = r1
    r2 = r2
    r3 = r3
    NULL = NULL
    Objs <- ThreeObjs
    Roots <- TwoRoots
    Names = {"x"}
    Kinds = {"instance"}
    MaxMiscounted = 3
SYMMETRY Symmetric
CHECK_DEADLOCK FALSE
SPECIFICATION Spec
INVARIANTS
    CollectorSparesReachable
