SPECIFICATION ProposalsSpec
CONSTANTS
  Node = {n1, n2, n3}
  NoNode = NoNode
  AnyName = "any"
  NameWithin <- MCNameWithin
  Rule <- MCRule
  Edit = {}
  Subset <- MCSubset
  Grant <- MCGrant
  Use = {}
  Count = {}
  NoLimit = NoLimit
  Absent = Absent
  Corrupt = Corrupt
  PermitTtl = 1
  RequestTtl = 1
  MaxTime = 0
  MaxId = 1
  Wanted <- MCWanted
  MaxProposal = 2
CHECK_DEADLOCK FALSE
SYMMETRY Symmetry
INVARIANTS
  ProposalsTypeOK
  ProposalsAccounted
PROPERTIES
  ApprovalIsFromAbove
