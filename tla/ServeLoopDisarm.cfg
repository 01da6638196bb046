SPECIFICATION LoopSpec
CONSTANTS
  monitor = monitor
  Node <- MCNode
  Under <- MCUnder
  Period = {2}
  MaxTime = 3
  MaxArmings = 2
  MaxReaders = 2
  MaxNoted = 2
  MaxRequests = 2
  Kinds = {"arm", "disarm"}
CHECK_DEADLOCK FALSE
PROPERTY DisarmJudgedByArrival
