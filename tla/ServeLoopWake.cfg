SPECIFICATION FairLoopSpec
CONSTANTS
  monitor = monitor
  Node <- MCNode
  Under <- MCUnder
  Period = {2}
  MaxTime = 1
  MaxArmings = 1
  MaxReaders = 2
  MaxNoted = 2
  MaxRequests = 1
  Kinds = {"revoke"}
CHECK_DEADLOCK FALSE
PROPERTY RevocationIsHandled
