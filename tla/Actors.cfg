SPECIFICATION ActorsSpec
CONSTANTS
  w1 = w1
  w2 = w2
  a = a
  b = b
  Worker = {w1, w2}
  Main = main
  Actor = {a, b}
  Home <- MCHome
  Unbounded = Unbounded
  NoOne = NoOne
  Policies <- MCPolicies
  Starts <- MCStarts
  MaxJob = 4
CHECK_DEADLOCK FALSE
INVARIANTS
  ActorsTypeOK
  MailboxesHold
  EndsWhenQuiet
PROPERTIES
  EndsUnlessCycle
