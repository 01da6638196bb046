SPECIFICATION AdoptionSpec
CONSTANTS
  x = x
  y = y
  g = g
  v = v
  w = w
  ground = ground
  hand = hand
  extend = extend
  widen = widen
  forge = forge
  own = own
  Node = {n1, n2, n3}
  NoNode = NoNode
  NoTtl = NoTtl
  NoBudget = NoBudget
  Scope <- MCScope
  ScopeWithin <- MCScopeWithin
  Request <- MCRequest
  Deadline = {}
  Reading = {1, 2, 3}
  Floor = {0}
  MinTime = 0
  MaxHops = 4
  MaxSeq = 5
  Party = {g, v, w}
  Nobody = Nobody
  Cert = {ground, hand, extend, widen, forge, own}
  Anchored = Anchored
  Body <- MCBody
  Receipt <- MCReceipt
  NoPin = NoPin
  BadPolicy = BadPolicy
  Unparsed = Unparsed
  Unread = Unread
  Chain <- MCChain
  Anchors <- MCAnchors
  Policy = {NoPin, g, BadPolicy}
  Damage = {Unparsed}
SYMMETRY Symmetry
INVARIANTS
  AdoptionTypeOK
  AdoptionsAccounted
  BoundedByGround
  StrictRootsAnchored
PROPERTIES
  RetirementLasts
