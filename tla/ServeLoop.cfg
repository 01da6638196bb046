SPECIFICATION FairLoopSpec
CONSTANTS
  monitor = monitor
  Node <- MCNode
  Under <- MCUnder
  Period = {2}
  MaxTime = 3
  MaxArmings = 3
  MaxReaders = 2
  MaxNoted = 2
  MaxRequests = 3
  Kinds = {"arm", "beat", "disarm", "revoke", "other"}
CHECK_DEADLOCK FALSE
INVARIANTS
  LoopTypeOK
  RevocationGoesFirst
PROPERTIES
  JudgedFairly
  DeadlineIsKept
