SPECIFICATION LaunchFairSpec
CONSTANTS
    Platforms = {"linux", "windows"}
    Callers = {c1, c2}
    MaxRuns = 2
    MaxChunks = 1
    MaxPending = 2
    MaxCrashes = 1
    Bits = 2
    Ifaces <- MCIfaces
    Rows <- MCRows
    MaxRows = 5
    MaxMetric = 3
CHECK_DEADLOCK FALSE
INVARIANTS EngineIsOwned LastWordsKept SweepIsCover
PROPERTIES StopCompletes RefusalIsJustified
