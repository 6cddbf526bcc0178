CONSTANTS
  Callers = {c1}
  Addrs = {a1, a2}
  Ids = {i1, i2}
  None = None
SPECIFICATION FairSpec
INVARIANTS
  NoLeakedClient
  BroadcastResult
  OwnErrorFirst
PROPERTIES
  BroadcastEnds
