------------------------------ MODULE HashRing ------------------------------
(***************************************************************************)
(* The hash ring by which geecache divides the keys among the nodes: each  *)
(* node is put on it once for each of its replicas, and a key belongs to   *)
(* the first replica from its own hash onwards, the ring being closed.     *)
(*                                                                         *)
(* What crc32 makes of a replica's name or of a key is a constant.  No two *)
(* replicas have one hash; if they had, the last added would own it, and   *)
(* nodes that add their peers in different orders would disagree.          *)
(***************************************************************************)
EXTENDS Naturals, FiniteSetsExt

CONSTANTS
  Nodes, Keys,
  ReplicaHashes,   \* ReplicaHashes[n]: the hashes of the replicas of node n
  KeyHash          \* KeyHash[k]: the hash of key k

ASSUME RingAssumption ==
  /\ ReplicaHashes \in [Nodes -> (SUBSET Nat) \ {{}}]
  /\ \A n, p \in Nodes : ReplicaHashes[n] \cap ReplicaHashes[p] # {} => n = p
  /\ KeyHash \in [Keys -> Nat]

\* New and Add: the hashes on the ring of a set of peers.
Ring(peers) == UNION {ReplicaHashes[n] : n \in peers}

\* Where on a ring key k belongs: at the first hash that is not smaller than
\* its own, or at the first of all.
From(hash, ring) == {h \in ring : h >= hash}
NearestModulo(ring, k) == Min(From(KeyHash[k] % Cardinality(ring), ring))
Nearest(ring, k) ==
  LET onwards == From(KeyHash[k], ring)
  IN  Min(IF onwards = {} THEN ring ELSE onwards)

\* Get: the owner of each key among the peers.
OwnerAmong == [peers \in (SUBSET Nodes) \ {{}} |-> [k \in Keys |->
  CHOOSE n \in peers : Nearest(Ring(peers), k) \in ReplicaHashes[n]]]

=============================================================================
