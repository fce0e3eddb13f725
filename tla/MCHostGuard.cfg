CONSTANTS
    NoTunnel = NoTunnel
    p1 = p1
    p2 = p2
    p3 = p3
    Luids <- MCLuids
    Ptrs <- MCPtrs
SPECIFICATION Spec
INVARIANTS TypeOK EnforcementIsReal NoStalePermit
PROPERTIES FailClosed NoFalseAbsence
