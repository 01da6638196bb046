SPECIFICATION Spec
CONSTANTS
  monitor = monitor
  run = run
  Node <- MCNode
  Under <- MCUnder
  Period = {1, 2}
  Slack = 1
  MaxWall = 6
  MaxTime = 6
  MaxArmings = 2
CHECK_DEADLOCK FALSE
INVARIANTS
  NeverLapsesSilently
PROPERTIES
  HeardTimeIsReal
  DeadlinesHold
