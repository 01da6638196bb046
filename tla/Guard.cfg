SPECIFICATION GuardSpec
CONSTANTS
  Node = {n1, n2}
  NoNode = NoNode
  AnyName = "any"
  NameWithin <- MCNameWithin
  Rule <- MCRule
  Edit <- MCEdit
  Subset <- MCSubset
  Grant <- MCGrant
  Use <- MCUse
  Count = {0, 1}
  NoLimit = NoLimit
  Absent = Absent
  Corrupt = Corrupt
  PermitTtl = 1
  RequestTtl = 1
  MaxTime = 1
  MaxId = 1
CHECK_DEADLOCK FALSE
SYMMETRY Symmetry
INVARIANTS
  GuardTypeOK
  SealsHoldOverApprovals
  RulesStand
PROPERTIES
  PermitsAreKept
