\* Any traffic between two participants and a coordinator without a protocol.
SPECIFICATION Spec
CONSTANTS
    n1 = n1
    n2 = n2
    Nodes = {n1, n2}
    CoordinatorId = CoordinatorId
SYMMETRY NodeSymmetry
INVARIANTS
    TypeOK
    NoFalsePass
    NoFalseAlarm
