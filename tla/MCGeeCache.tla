----------------------------- MODULE MCGeeCache -----------------------------
(* Instances of GeeCache for TLC. *)
EXTENDS GeeCache, SequencesExt, TLC

NodeOrder == SetToSeq(Nodes)
Place(n) == CHOOSE i \in DOMAIN NodeOrder : NodeOrder[i] = n

\* Two replicas of each node.  From beyond the largest hash a key finds the
\* nodes in their order, from the middle of the ring in the opposite order.
Replicas == [n \in Nodes |-> {Place(n), 2 * Cardinality(Nodes) + 1 - Place(n)}]
KeyOrder == SetToSeq(Keys)
HashOf == [k \in Keys |-> IF k = KeyOrder[1] THEN 2 * Cardinality(Nodes) + 3
                          ELSE Cardinality(Nodes) + 1]

\* A node lists itself and every node behind some point of that order, so that
\* it finds the first, the second, or nobody before itself.
PeerLists == [n \in Nodes |->
  {{q \in Nodes : Place(q) >= i} : i \in {j \in 1..2 : j <= Place(n)}}]

\* The first of several keys is like "a b": a peer reads the last, "a+b", in its
\* place.  The others, and a key that is alone, travel unchanged.
BlankWire == [k \in Keys |-> IF k = KeyOrder[1] THEN KeyOrder[Len(KeyOrder)] ELSE k]

\* Users are interchangeable; nodes are not, the ring orders them.
Symmetry == Permutations(Users)

=============================================================================
