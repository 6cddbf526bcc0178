\* Three nodes whose lists of peers differ and change, one key.
CONSTANTS
  Nodes = {n1, n2, n3}
  Keys = {k1}
  Users = {u1, u2}
  CacheCap = 1
  ReplicaHashes <- Replicas
  KeyHash <- HashOf
  Lists <- PeerLists
  Wire <- BlankWire
  None = None
  Error = Error
SPECIFICATION Spec
SYMMETRY Symmetry
INVARIANTS
  OneLoadPerKey
  NoWaiterLost
  NoCyclicWait
PROPERTY MovesOnlyWhatItMust
