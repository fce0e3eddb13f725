SPECIFICATION FairCheckSpec
CONSTANTS
    Servers <- MCServers
    Targets = 3
    MaxAnswer = 2
    checkFanout = 1
    probeStartAttempts = 2
    Ports = 4
    MaxChecks = 2
CHECK_DEADLOCK FALSE
INVARIANTS VerdictsAreMeasured
PROPERTIES SlotIsReleased
