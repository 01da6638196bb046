SPECIFICATION GuardSpec
CONSTANTS
  Node = {n1, n2}
  NoNode = NoNode
  AnyName = "any"
  NameWithin <- MCNameWithin
  Rule <- DeviceRule
  Edit <- DeviceEdit
  Subset <- DeviceSubset
  Grant <- DeviceGrant
  Use <- DeviceUse
  Count = {}
  NoLimit = NoLimit
  Absent = Absent
  Corrupt = Corrupt
  PermitTtl = 1
  RequestTtl = 1
  MaxTime = 0
  MaxId = 1
CHECK_DEADLOCK FALSE
SYMMETRY Symmetry
INVARIANTS
  MintsCovered
