SPECIFICATION FairSpec
CONSTANTS
    Transports = {"listener", "stdio"}
    outQueueDepth = 2
    Cmds = {"status", "check_nodes"}
    MaxDials = 2
    MaxLines = 2
    MaxEvents = 2
CHECK_DEADLOCK FALSE

PROPERTY StopCompletes
