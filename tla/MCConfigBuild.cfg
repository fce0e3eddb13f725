CONSTANTS
  MaxSet = 3
  MaxServers = 3
  MaxPort = 3
  Texts = {"", "-", "node", "a", "quote"}
  MaxChanges = 1
  Cases <- MCCases
CHECK_DEADLOCK FALSE
SPECIFICATION AttemptSpec
INVARIANTS NoDNSLeak DirectIsMeant ConfigWorks
