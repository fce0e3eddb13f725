SPECIFICATION Spec
CONSTANTS
    n1 = n1
    n2 = n2
    n3 = n3
    NONE = NONE
    NodeIDs = {n1, n2, n3}
    Protocol <- MCProtocol
    DefaultOrder <- MCOrder
    MaxServers = 3
    MaxRTT = 2
CHECK_DEADLOCK FALSE
INVARIANTS WalkIsOrdered
PROPERTIES ImplementsWalk
