SPECIFICATION GuardSpec
CONSTANTS
  Node = {n1, n2}
  NoNode = NoNode
  AnyName = "any"
  NameWithin <- SendWithin
  Rule <- SendRule
  Edit <- SendEdit
  Subset <- SendSubset
  Grant <- SendGrant
  Use <- SendUse
  Count = {}
  NoLimit = NoLimit
  Absent = Absent
  Corrupt = Corrupt
  PermitTtl = 1
  RequestTtl = 1
  MaxTime = 0
  MaxId = 1
CHECK_DEADLOCK FALSE
SYMMETRY Symmetry
INVARIANTS
  SealsHoldOverApprovals
