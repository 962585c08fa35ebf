SPECIFICATION Spec
CONSTANTS
    n1 = n1  n2 = n2  k1 = k1  k2 = k2  k3 = k3  k4 = k4
    Node = {n1}
    Call = {k1, k2, k3}
    NodeOf <- CallsOnOneNode
    Address <- OneAddress
    TimeSize = 8
    SeqSize = 2
    MachineSize = 4
    Horizon = 7
    Lead = 2
    MayStepBack = TRUE
INVARIANT Unique
SYMMETRY Interchangeable
CHECK_DEADLOCK FALSE
