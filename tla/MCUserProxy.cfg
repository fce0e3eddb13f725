SPECIFICATION FairSpec
CONSTANTS
    Users = {u1, u2}
    Sessions = {1, 2}
    MaxEdits = 1
    MaxLogons = 2
    MaxFaults = 1
    PartialWrites = {"apply"}
CHECK_DEADLOCK FALSE
INVARIANTS RestoredIsTheUsers LeaseFollowsProxy
PROPERTIES CommandEnds
