CONSTANTS
    Providers = {p1, p2}
    Operations = {o1, o2, o3}
    Absent = absent
    NoKey = nokey
SPECIFICATION Spec
INVARIANTS KeyIsThere NoKeyIsLeft RunFindsItsKey
CHECK_DEADLOCK FALSE
