SPECIFICATION Spec
CONSTANTS
  Node = {n1, n2, n3}
  NoNode = NoNode
  NoTtl = NoTtl
  NoBudget = NoBudget
  Scope <- MCScope
  ScopeWithin <- MCScopeWithin
  Content <- MCContent
  Uses <- MCUses
  Request <- MCRequest
  Deadline = {2, 3}
  Reading = {1, 2}
  Floor <- MCFloor
  MinTime = 0
  MaxHops = 4
  MaxSeq = 4
SYMMETRY Symmetry
INVARIANTS
  TypeOK
  NothingWidens
  RevocationReaches
  UsesOnlyShrink
PROPERTIES
  EndsAreFinal
  KeepsPromise
