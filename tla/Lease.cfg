SPECIFICATION LeaseSpec
CONSTANTS
  x = x
  Node = {n1, n2, n3}
  NoNode = NoNode
  NoTtl = NoTtl
  NoBudget = NoBudget
  Scope <- MCScope
  ScopeWithin <- MCScopeWithin
  Request <- MCRequest
  Deadline = {2}
  Reading = {1, 2}
  Floor = {0}
  MinTime = 0
  MaxHops = 4
  MaxSeq = 5
  Peer = {a, b}
  NoPeer = NoPeer
  Key = {k1, k2}
  Torn = Torn
CHECK_DEADLOCK FALSE
SYMMETRY Symmetry
INVARIANTS
  LeaseTypeOK
  RedeemedOnce
PROPERTIES
  RotationIsFinal
