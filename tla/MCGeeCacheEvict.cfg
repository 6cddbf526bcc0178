\* Two nodes, two keys and room for one of them in each cache.  A peer reads the
\* second key where the first was meant.
CONSTANTS
  Nodes = {n1, n2}
  Keys = {k1, k2}
  Users = {u1}
  CacheCap = 1
  ReplicaHashes <- Replicas
  KeyHash <- HashOf
  Lists <- PeerLists
  Wire <- BlankWire
  None = None
  Error = Error
SPECIFICATION FairSpec
INVARIANTS
  ResultCorrect
PROPERTY EveryGetReturns
