--------------------------- MODULE GeeCacheProofs ---------------------------
(***************************************************************************)
(* What GeeCache promises, proved for any nodes, keys, hashes, lists of    *)
(* peers and room in the caches, and whatever key a peer reads for one     *)
(* that was sent (Wire).                                                   *)
(***************************************************************************)
EXTENDS GeeCache, WellFoundedInduction, FiniteSetTheorems, TLAPS

\* Going round from key k, node m comes before node n: by its replica nearest
\* to k, and those at or after the key come before those the ring wraps to.
Mark(n, k) == Nearest(ReplicaHashes[n], k)
Wrapped(n, k) == Mark(n, k) < KeyHash[k]
Closer(m, n, k) == IF Wrapped(m, k) = Wrapped(n, k) THEN Mark(m, k) < Mark(n, k)
                   ELSE Wrapped(n, k)

VarsType ==
  /\ pc \in [Tasks -> Labels]
  /\ at \in [Tasks -> Nodes \cup {None}]
  /\ key \in [Tasks -> Keys \cup {None}]
  /\ result \in [Tasks -> Keys \cup {Error, None}]
  /\ waitFor \in [Tasks -> Tasks \cup {None}]
  /\ flight \in [Handlers -> Calls \cup {None}]
  /\ DOMAIN view = Nodes
  /\ \A n \in Nodes : view[n] \in Lists[n]

CacheInv ==
  /\ cache \in [Nodes -> SUBSET Keys]
  /\ \A n \in Nodes : IsFiniteSet(cache[n]) /\ Cardinality(cache[n]) <= CacheCap

\* A task inside Get has a node and a key.
PlaceInv ==
  \A t \in Tasks :
    IF pc[t] = "idle" THEN at[t] = None
                      ELSE at[t] \in Nodes /\ key[t] \in Keys

\* A call is registered just while its leader is at work, and has a value
\* just when that is through.
FlightInv ==
  /\ \A t \in Tasks : pc[t] \in Leading => /\ Flight(t) # None
                                           /\ Flight(t).leader = t
  /\ \A f \in Handlers : flight[f] # None =>
       LET l == flight[f].leader IN
       /\ pc[l] \in Leading /\ at[l] = f[1] /\ key[l] = f[2]
       /\ flight[f].val = None <=> pc[l] # "unregister"

\* Who waits for a call waits for the leader of one that has no value yet.
WaitInv ==
  \A t \in Tasks : pc[t] = "waiting" => /\ Flight(t) # None
                                         /\ Flight(t).leader = waitFor[t]
                                         /\ Flight(t).val = None

\* Who is through has a result.
ResultInv == \A t \in Tasks : pc[t] \in {"unregister", "done"} => result[t] # None

\* A handler asks for its key on a node that is closer to it.
HandlerInv ==
  \A hd \in Handlers : pc[hd] # "idle" => /\ key[hd] = Wire[hd[2]]
                                          /\ Closer(at[hd], hd[1], hd[2])

\* What a call or a Get has found is an error or the value of its key, or of what
\* a peer reads for that.
Found(k) == {k, Wire[k], Error}
ValueInv ==
  /\ \A t \in Tasks : pc[t] \in {"done", "unregister"} => result[t] \in Found(key[t])
  /\ \A f \in Handlers : flight[f] # None => flight[f].val \in Found(f[2]) \cup {None}

SafeInv == /\ VarsType
           /\ CacheInv
           /\ PlaceInv
           /\ FlightInv
           /\ WaitInv
           /\ ResultInv
           /\ HandlerInv

----------------------------------------------------------------------------
(* The ring *)

\* Every set of numbers has a least element, which is what Min gives.
LEMMA MinOf ==
  ASSUME NEW S, S \subseteq Nat, S # {}
  PROVE  Min(S) \in S /\ \A y \in S : Min(S) <= y
<1> DEFINE R == {ss \in Nat \X Nat : ss[1] < ss[2]}
<1>1. IsWellFoundedOn(R, Nat)
  BY NatLessThanWellFounded DEF OpToRel
<1>2. PICK x \in S : \A y \in S : <<y, x>> \notin R
  <2> HIDE DEF R
  <2> QED BY <1>1, WFMin
<1>3. \A y \in S : ~(y < x)
  BY <1>2
<1>4. \A y \in S : x <= y
  BY <1>3
<1> QED BY <1>4 DEF Min

\* The nearest hash of a ring is one of its own: the least of those from the
\* key onwards, or the least of all if there is none.
LEMMA NearestOf ==
  ASSUME NEW ring, ring \subseteq Nat, ring # {}, NEW k \in Keys
  PROVE  LET x == Nearest(ring, k) IN
         /\ x \in ring
         /\ x >= KeyHash[k] => \A y \in ring : y >= KeyHash[k] => x <= y
         /\ x < KeyHash[k] => \A y \in ring : y < KeyHash[k] /\ x <= y
<1>h. KeyHash[k] \in Nat
  BY RingAssumption
<1> DEFINE onwards == {h \in ring : h >= KeyHash[k]}
<1>n. Nearest(ring, k) = Min(IF onwards = {} THEN ring ELSE onwards)
  BY DEF Nearest, From
<1>1. CASE onwards = {}
  <2>1. Nearest(ring, k) \in ring /\ \A y \in ring : Nearest(ring, k) <= y
    BY <1>1, <1>n, MinOf
  <2>2. \A y \in ring : y < KeyHash[k]
    BY <1>1, <1>h
  <2> QED
    BY <2>1, <2>2, <1>h
<1>2. CASE onwards # {}
  <2>1. onwards \subseteq Nat
    OBVIOUS
  <2>2. Nearest(ring, k) \in onwards /\ \A y \in onwards : Nearest(ring, k) <= y
    <3> HIDE DEF onwards
    <3> QED BY <1>2, <1>n, <2>1, MinOf
  <2>3. /\ Nearest(ring, k) \in ring /\ Nearest(ring, k) >= KeyHash[k]
        /\ \A y \in ring : y >= KeyHash[k] => Nearest(ring, k) <= y
    BY <2>2
  <2>4. ~(Nearest(ring, k) < KeyHash[k])
    <3>1. Nearest(ring, k) \in Nat
      BY <2>3
    <3> HIDE DEF onwards
    <3> QED BY <2>3, <3>1, <1>h
  <2> QED
    BY <2>3, <2>4
<1> QED
  BY <1>1, <1>2

\* The owner of a key is among the peers, and no other of them is closer.
LEMMA OwnerIsClosest ==
  ASSUME NEW V \in SUBSET Nodes, NEW n \in V, NEW k \in Keys
  PROVE  LET p == OwnerAmong[V][k]
         IN  p \in V /\ (p # n => Closer(p, n, k))
<1> DEFINE x == Nearest(Ring(V), k)
           p == OwnerAmong[V][k]
<1>r. \A q \in V : ReplicaHashes[q] \subseteq Nat /\ ReplicaHashes[q] # {}
  BY RingAssumption
<1>1. Ring(V) \subseteq Nat /\ Ring(V) # {}
  BY <1>r DEF Ring
<1>2. /\ x \in Ring(V)
      /\ x >= KeyHash[k] => \A y \in Ring(V) : y >= KeyHash[k] => x <= y
      /\ x < KeyHash[k] => \A y \in Ring(V) : y < KeyHash[k] /\ x <= y
  BY <1>1, NearestOf
<1>3. \E q \in V : x \in ReplicaHashes[q]
  BY <1>2 DEF Ring
<1>4. p \in V /\ x \in ReplicaHashes[p]
  <2>1. p = CHOOSE q \in V : x \in ReplicaHashes[q]
    BY DEF OwnerAmong
  <2> HIDE DEF x, p
  <2> QED BY <1>3, <2>1
<1>h. KeyHash[k] \in Nat /\ x \in Nat
  BY <1>1, <1>2, RingAssumption
<1>5. ASSUME p # n PROVE Closer(p, n, k)
  <2> DEFINE m(q) == Nearest(ReplicaHashes[q], k)
  <2>1. ASSUME NEW q \in V
        PROVE  /\ m(q) \in ReplicaHashes[q] /\ m(q) \in Ring(V) /\ m(q) \in Nat
               /\ m(q) >= KeyHash[k] =>
                    \A y \in ReplicaHashes[q] : y >= KeyHash[k] => m(q) <= y
               /\ m(q) < KeyHash[k] =>
                    \A y \in ReplicaHashes[q] : y < KeyHash[k] /\ m(q) <= y
    <3>1. ReplicaHashes[q] \subseteq Nat /\ ReplicaHashes[q] # {}
      BY <1>r
    <3>2. /\ m(q) \in ReplicaHashes[q]
          /\ m(q) >= KeyHash[k] =>
               \A y \in ReplicaHashes[q] : y >= KeyHash[k] => m(q) <= y
          /\ m(q) < KeyHash[k] =>
               \A y \in ReplicaHashes[q] : y < KeyHash[k] /\ m(q) <= y
      BY <3>1, NearestOf
    <3> HIDE DEF m
    <3>3. m(q) \in Ring(V) /\ m(q) \in Nat
      BY <3>1, <3>2 DEF Ring
    <3> QED
      BY <3>2, <3>3
  <2> HIDE DEF m, x, p
  <2>2. m(p) = x
    BY <1>2, <1>4, <1>h, <2>1
  <2>3. m(n) # x
    BY <1>4, <1>5, <2>1, RingAssumption
  <2>4. /\ x >= KeyHash[k] /\ m(n) >= KeyHash[k] => x < m(n)
        /\ x < KeyHash[k] => m(n) < KeyHash[k] /\ x < m(n)
    BY <1>2, <1>h, <2>1, <2>3
  <2> QED
    BY <1>h, <2>1, <2>2, <2>4 DEF Closer, Wrapped, Mark, m
<1> QED
  BY <1>4, <1>5

\* Of two nodes at most one is closer to a key than the other, and the nearest
\* hash of a node is a number.
LEMMA CloserFacts ==
  ASSUME NEW k \in Keys, NEW m \in Nodes, NEW n \in Nodes
  PROVE  /\ Mark(n, k) \in Nat
         /\ ~(Closer(m, n, k) /\ Closer(n, m, k))
<1>1. \A q \in Nodes : Mark(q, k) \in Nat
  <2> TAKE q \in Nodes
  <2>1. ReplicaHashes[q] \subseteq Nat /\ ReplicaHashes[q] # {}
    BY RingAssumption
  <2> QED
    BY <2>1, NearestOf DEF Mark
<1> QED
  BY <1>1, RingAssumption DEF Closer, Wrapped

----------------------------------------------------------------------------
(* Helpers *)

\* Tasks, nodes, keys and calls are told apart, and a handler is a pair.
LEMMA TaskFacts ==
  /\ Users \subseteq Tasks /\ Handlers \subseteq Tasks
  /\ \A n \in Nodes, k \in Keys : <<n, k>> \in Handlers
  /\ \A f \in Handlers : f[1] \in Nodes /\ f[2] \in Keys /\ f = <<f[1], f[2]>>
  /\ None \notin Tasks /\ None \notin Nodes /\ None \notin Keys /\ None # Error
  /\ Error \notin Keys /\ None \notin Calls /\ Users \cap Handlers = {}
BY CacheAssumption DEF Tasks, Handlers, Calls

USE TaskFacts DEF Goto, taskVars, vars, Flight

\* PickPeer names this node, or one that is closer to the key (http.go:135-144).
LEMMA OwnerFacts ==
  ASSUME VarsType, NEW n \in Nodes, NEW k \in Keys
  PROVE  /\ Owner(n, k) \in Nodes
         /\ Owner(n, k) # n => Closer(Owner(n, k), n, k)
<1>1. view[n] \in SUBSET Nodes /\ n \in view[n]
  BY CacheAssumption DEF VarsType
<1> QED
  BY <1>1, OwnerIsClosest DEF Owner

\* A cache keeps its bound, whatever an addition evicts (lru.go:34-49).
LEMMA AddedFacts ==
  ASSUME NEW held \in SUBSET Keys, IsFiniteSet(held), Cardinality(held) <= CacheCap,
         NEW k \in Keys, NEW new \in Added(held, k)
  PROVE  new \in SUBSET Keys /\ IsFiniteSet(new) /\ Cardinality(new) <= CacheCap
<1>1. IsFiniteSet(held \cup {k})
  BY FS_AddElement
<1>2. CASE Cardinality(held \cup {k}) <= CacheCap
  <2>1. new = held \cup {k}
    BY <1>2 DEF Added
  <2> QED
    BY <1>1, <1>2, <2>1
<1>3. CASE ~(Cardinality(held \cup {k}) <= CacheCap)
  <2>1. PICK victim \in held : new = (held \ {victim}) \cup {k}
    BY <1>3 DEF Added
  <2>2. /\ IsFiniteSet(held \ {victim}) /\ Cardinality(held) \in Nat
        /\ Cardinality(held \ {victim}) = Cardinality(held) - 1
    BY FS_RemoveElement, FS_CardinalityType
  <2>3. /\ IsFiniteSet(new)
        /\ \/ Cardinality(new) = Cardinality(held \ {victim}) + 1
           \/ Cardinality(new) = Cardinality(held \ {victim})
    BY <2>1, <2>2, FS_AddElement
  <2> QED
    BY <2>1, <2>2, <2>3, CacheAssumption
<1> QED
  BY <1>2, <1>3

\* What Land does to each task, and to the call of the leader.
LEMMA LandFacts ==
  ASSUME SafeInv, NEW t \in Tasks, pc[t] \in {"remote", "local"},
         NEW v \in Keys \cup {Error}, NEW freed, \A u \in freed : pc[u] = "done",
         Land(t, v, freed)
  PROVE  /\ <<at[t], key[t]>> \in Handlers /\ Flight(t) # None
         /\ \A f \in Handlers : flight'[f] = IF f = <<at[t], key[t]>>
                                            THEN [leader |-> t, val |-> v] ELSE flight[f]
         /\ \A u \in Tasks :
              /\ u = t => pc'[u] = "unregister" /\ result'[u] = v
              /\ u \in freed => pc'[u] = "idle" /\ result'[u] = None
              /\ Wakes(u, t, v) => pc'[u] = "done" /\ result'[u] = v
              /\ u # t /\ u \notin freed /\ ~Wakes(u, t, v) =>
                   pc'[u] = pc[u] /\ result'[u] = result[u]
         /\ pc' \in [Tasks -> Labels]
         /\ result' \in [Tasks -> Keys \cup {Error, None}]
         /\ flight' \in [Handlers -> Calls \cup {None}]
<1>1. <<at[t], key[t]>> \in Handlers
  BY DEF SafeInv, PlaceInv
<1>2. Flight(t) # None /\ Flight(t).leader = t /\ Flight(t) \in Calls
  BY <1>1 DEF SafeInv, FlightInv, VarsType, Leading
<1>3. [Flight(t) EXCEPT !.val = v] = [leader |-> t, val |-> v]
  BY <1>2 DEF Calls
<1>4. \A f \in Handlers : flight'[f] = IF f = <<at[t], key[t]>>
                                      THEN [leader |-> t, val |-> v] ELSE flight[f]
  BY <1>1, <1>3 DEF Land, SafeInv, VarsType
<1>5. flight' \in [Handlers -> Calls \cup {None}]
  <2>1. flight' = [flight EXCEPT ![<<at[t], key[t]>>] = [leader |-> t, val |-> v]]
    BY <1>1, <1>3 DEF Land
  <2>2. [leader |-> t, val |-> v] \in Calls
    BY DEF Calls
  <2>3. flight \in [Handlers -> Calls \cup {None}]
    BY DEF SafeInv, VarsType
  <2> QED
    BY <2>1, <2>2, <2>3
<1>6. \A u \in Tasks :
        /\ u = t => pc'[u] = "unregister" /\ result'[u] = v
        /\ u \in freed => pc'[u] = "idle" /\ result'[u] = None
        /\ Wakes(u, t, v) => pc'[u] = "done" /\ result'[u] = v
        /\ u # t /\ u \notin freed /\ ~Wakes(u, t, v) =>
             pc'[u] = pc[u] /\ result'[u] = result[u]
  BY DEF Land, Wakes, WokenWith
<1>7. pc' \in [Tasks -> Labels] /\ result' \in [Tasks -> Keys \cup {Error, None}]
  BY DEF Land, WokenWith, SafeInv, VarsType, Labels
<1> QED
  BY <1>1, <1>2, <1>4, <1>5, <1>6, <1>7

----------------------------------------------------------------------------
(* The steps *)

\* The result of a call wakes all who wait for it, and frees a handler that has
\* delivered its own.
LEMMA LandSafe ==
  ASSUME SafeInv, NEW t \in Tasks, pc[t] \in {"remote", "local"},
         NEW v \in Keys \cup {Error}, NEW freed \in SUBSET Handlers,
         \A u \in freed : pc[u] = "done",
         Land(t, v, freed), UNCHANGED view,
         at' = [u \in Tasks |-> IF u \in freed THEN None ELSE at[u]],
         key' = [u \in Tasks |-> IF u \in freed THEN None ELSE key[u]],
         waitFor' = [u \in Tasks |-> IF u \in freed THEN None ELSE waitFor[u]]
  PROVE  VarsType' /\ PlaceInv' /\ FlightInv' /\ WaitInv' /\ ResultInv' /\ HandlerInv'
<1> DEFINE f0 == <<at[t], key[t]>>
<1>0. /\ f0 \in Handlers /\ flight[f0] # None
      /\ \A f \in Handlers : flight'[f] = IF f = f0 THEN [leader |-> t, val |-> v]
                                                   ELSE flight[f]
      /\ \A u \in Tasks :
           /\ u = t => pc'[u] = "unregister" /\ result'[u] = v
           /\ u \in freed => pc'[u] = "idle" /\ result'[u] = None
           /\ Wakes(u, t, v) => pc'[u] = "done" /\ result'[u] = v
           /\ u # t /\ u \notin freed /\ ~Wakes(u, t, v) =>
                pc'[u] = pc[u] /\ result'[u] = result[u]
      /\ pc' \in [Tasks -> Labels]
      /\ result' \in [Tasks -> Keys \cup {Error, None}]
      /\ flight' \in [Handlers -> Calls \cup {None}]
  BY LandFacts
<1>1. t \notin freed /\ at[t] \in Nodes /\ key[t] \in Keys /\ flight[f0].leader = t
  BY DEF SafeInv, PlaceInv, FlightInv, Leading
<1>2. \A u \in Tasks : u \notin freed => at'[u] = at[u] /\ key'[u] = key[u]
                                         /\ waitFor'[u] = waitFor[u]
  OBVIOUS
<1>3. VarsType'
  BY <1>0 DEF SafeInv, VarsType
<1>4. \A u \in Tasks : pc'[u] # "idle" => pc[u] # "idle" /\ u \notin freed
  BY <1>0, <1>1 DEF Wakes
<1>5. PlaceInv'
  <2>1. \A u \in freed : at'[u] = None
    OBVIOUS
  <2>2. \A u \in Tasks : u \notin freed /\ pc'[u] = "idle" => pc[u] = "idle"
    BY <1>0
  <2> QED
    BY <1>2, <1>4, <2>1, <2>2 DEF SafeInv, PlaceInv
<1> HIDE DEF f0
<1>6. FlightInv'
  <2>1. ASSUME NEW u \in Tasks, pc'[u] \in Leading
        PROVE  /\ flight'[<<at'[u], key'[u]>>] # None
               /\ flight'[<<at'[u], key'[u]>>].leader = u
    <3>1. u \notin freed /\ at'[u] = at[u] /\ key'[u] = key[u]
      BY <1>2, <1>4, <2>1 DEF Leading
    <3>2. CASE u = t
      BY <1>0, <1>1, <3>1, <3>2 DEF f0, Calls
    <3>3. CASE u # t
      <4>1. pc'[u] = pc[u]
        BY <1>0, <2>1, <3>1, <3>3 DEF Leading
      <4>2. flight[<<at[u], key[u]>>] # None /\ flight[<<at[u], key[u]>>].leader = u
        BY <2>1, <4>1 DEF SafeInv, FlightInv
      <4>3. <<at[u], key[u]>> # f0 /\ <<at[u], key[u]>> \in Handlers
        BY <1>1, <2>1, <3>3, <4>1, <4>2 DEF SafeInv, PlaceInv, Leading
      <4> QED
        BY <1>0, <3>1, <4>2, <4>3
    <3> QED BY <3>2, <3>3
  <2>2. ASSUME NEW f \in Handlers, flight'[f] # None
        PROVE  LET l == flight'[f].leader IN
               /\ pc'[l] \in Leading /\ at'[l] = f[1] /\ key'[l] = f[2]
               /\ flight'[f].val = None <=> pc'[l] # "unregister"
    <3>1. CASE f = f0
      <4>1. flight'[f].leader = t /\ flight'[f].val = v /\ v # None
        BY <1>0, <3>1
      <4> QED
        BY <1>0, <1>1, <1>2, <3>1, <4>1 DEF f0, Leading
    <3>2. CASE f # f0
      <4> DEFINE l == flight[f].leader
      <4>1. /\ flight'[f] = flight[f] /\ l \in Tasks
            /\ pc[l] \in Leading /\ at[l] = f[1] /\ key[l] = f[2]
            /\ flight[f].val = None <=> pc[l] # "unregister"
        BY <1>0, <2>2, <3>2 DEF SafeInv, VarsType, FlightInv, Calls
      <4>2. l # t
        BY <1>1, <3>2, <4>1 DEF f0
      <4>3. l \notin freed /\ ~Wakes(l, t, v)
        BY <4>1 DEF Wakes, Leading
      <4>4. pc'[l] = pc[l] /\ at'[l] = at[l] /\ key'[l] = key[l]
        BY <1>0, <1>2, <4>1, <4>2, <4>3
      <4> QED
        BY <4>1, <4>4
    <3> QED BY <3>1, <3>2
  <2> QED
    BY <2>1, <2>2 DEF FlightInv
<1>7. WaitInv'
  <2> SUFFICES ASSUME NEW u \in Tasks, pc'[u] = "waiting"
               PROVE  /\ flight'[<<at'[u], key'[u]>>] # None
                      /\ flight'[<<at'[u], key'[u]>>].leader = waitFor'[u]
                      /\ flight'[<<at'[u], key'[u]>>].val = None
    BY DEF WaitInv
  <2>1. /\ pc[u] = "waiting" /\ u \notin freed /\ waitFor[u] # t
        /\ at'[u] = at[u] /\ key'[u] = key[u] /\ waitFor'[u] = waitFor[u]
    BY <1>0, <1>2 DEF Wakes
  <2>2. /\ flight[<<at[u], key[u]>>] # None
        /\ flight[<<at[u], key[u]>>].leader = waitFor[u]
        /\ flight[<<at[u], key[u]>>].val = None
        /\ <<at[u], key[u]>> \in Handlers
    BY <2>1 DEF SafeInv, WaitInv, PlaceInv
  <2>3. <<at[u], key[u]>> # f0
    BY <1>1, <2>1, <2>2
  <2> QED
    BY <1>0, <2>1, <2>2, <2>3
<1>8. ResultInv'
  BY <1>0, <1>4 DEF SafeInv, ResultInv
<1>9. HandlerInv'
  BY <1>2, <1>4 DEF SafeInv, HandlerInv
<1> QED
  BY <1>3, <1>5, <1>6, <1>7, <1>8, <1>9

\* A user calls Get.
LEMMA GetSafe ==
  ASSUME SafeInv, NEW t \in Users, NEW n \in Nodes, NEW k \in Keys, Get(t, n, k)
  PROVE  SafeInv'
<1> USE DEF SafeInv, Get, Enter
<1>1. VarsType'
  BY DEF VarsType, Labels, PlaceInv
<1>2. CacheInv'
  BY DEF CacheInv
<1>3. PlaceInv'
  BY DEF PlaceInv, VarsType
<1>4. FlightInv'
  BY DEF FlightInv, PlaceInv, VarsType, Leading, Calls
<1>5. WaitInv'
  BY DEF WaitInv, FlightInv, PlaceInv, VarsType, Leading, Calls
<1>6. ResultInv'
  BY DEF ResultInv, VarsType, FlightInv, PlaceInv, Calls
<1>7. HandlerInv'
  BY DEF HandlerInv, PlaceInv, VarsType
<1> QED
  BY <1>1, <1>2, <1>3, <1>4, <1>5, <1>6, <1>7

\* The cache is read.
LEMMA LookupSafe ==
  ASSUME SafeInv, NEW t \in Tasks, Lookup(t)
  PROVE  SafeInv'
<1> USE DEF SafeInv, Lookup
<1>1. VarsType'
  BY DEF VarsType, Labels, PlaceInv
<1>2. CacheInv'
  BY DEF CacheInv
<1>3. PlaceInv'
  BY DEF PlaceInv, VarsType
<1>4. FlightInv'
  BY DEF FlightInv, PlaceInv, VarsType, Leading, Calls
<1>5. WaitInv'
  BY DEF WaitInv, FlightInv, PlaceInv, VarsType, Leading, Calls
<1>6. ResultInv'
  BY DEF ResultInv, VarsType, FlightInv, PlaceInv, Calls
<1>7. HandlerInv'
  BY DEF HandlerInv, PlaceInv, VarsType
<1> QED
  BY <1>1, <1>2, <1>3, <1>4, <1>5, <1>6, <1>7

\* A task registers a call.
LEMMA LeadSafe ==
  ASSUME SafeInv, NEW t \in Tasks, Lead(t)
  PROVE  SafeInv'
<1> USE DEF SafeInv, Lead, NoFlight
<1>1. VarsType'
  BY DEF VarsType, Labels, PlaceInv, Calls
<1>2. CacheInv'
  BY DEF CacheInv
<1>3. PlaceInv'
  BY DEF PlaceInv, VarsType
<1>4. FlightInv'
  BY DEF FlightInv, PlaceInv, VarsType, Leading, Calls
<1>5. WaitInv'
  BY DEF WaitInv, FlightInv, PlaceInv, VarsType, Leading, Calls
<1>6. ResultInv'
  BY DEF ResultInv, VarsType, FlightInv, PlaceInv, Calls
<1>7. HandlerInv'
  BY DEF HandlerInv, PlaceInv, VarsType
<1> QED
  BY <1>1, <1>2, <1>3, <1>4, <1>5, <1>6, <1>7

\* A task finds one registered.
LEMMA JoinSafe ==
  ASSUME SafeInv, NEW t \in Tasks, Join(t)
  PROVE  SafeInv'
<1> USE DEF SafeInv, Join
<1>1. VarsType'
  BY DEF VarsType, Labels, PlaceInv, Calls
<1>2. CacheInv'
  BY DEF CacheInv
<1>3. PlaceInv'
  BY DEF PlaceInv, VarsType
<1>4. FlightInv'
  BY DEF FlightInv, PlaceInv, VarsType, Leading, Calls
<1>5. WaitInv'
  BY DEF WaitInv, FlightInv, PlaceInv, VarsType, Leading, Calls
<1>6. ResultInv'
  BY DEF ResultInv, VarsType, FlightInv, PlaceInv, Calls
<1>7. HandlerInv'
  BY DEF HandlerInv, PlaceInv, VarsType
<1> QED
  BY <1>1, <1>2, <1>3, <1>4, <1>5, <1>6, <1>7

\* The leader deletes its call.
LEMMA UnregisterSafe ==
  ASSUME SafeInv, NEW t \in Tasks, Unregister(t)
  PROVE  SafeInv'
<1> USE DEF SafeInv, Unregister
<1>1. VarsType'
  BY DEF VarsType, Labels, PlaceInv
<1>2. CacheInv'
  BY DEF CacheInv
<1>3. PlaceInv'
  BY DEF PlaceInv, VarsType
<1>4. FlightInv'
  BY DEF FlightInv, PlaceInv, VarsType, Leading, Calls
<1>5. WaitInv'
  BY DEF WaitInv, FlightInv, PlaceInv, VarsType, Leading, Calls
<1>6. ResultInv'
  BY DEF ResultInv, VarsType, FlightInv, PlaceInv, Calls
<1>7. HandlerInv'
  BY DEF HandlerInv, PlaceInv, VarsType
<1> QED
  BY <1>1, <1>2, <1>3, <1>4, <1>5, <1>6, <1>7

\* The key is the node's own.
LEMMA PickSelfSafe ==
  ASSUME SafeInv, NEW t \in Tasks, PickSelf(t)
  PROVE  SafeInv'
<1> USE DEF SafeInv, PickSelf
<1>1. VarsType'
  BY DEF VarsType, Labels, PlaceInv
<1>2. CacheInv'
  BY DEF CacheInv
<1>3. PlaceInv'
  BY DEF PlaceInv, VarsType
<1>4. FlightInv'
  BY DEF FlightInv, PlaceInv, VarsType, Leading, Calls
<1>5. WaitInv'
  BY DEF WaitInv, FlightInv, PlaceInv, VarsType, Leading, Calls
<1>6. ResultInv'
  BY DEF ResultInv, VarsType, FlightInv, PlaceInv, Calls
<1>7. HandlerInv'
  BY DEF HandlerInv, PlaceInv, VarsType
<1> QED
  BY <1>1, <1>2, <1>3, <1>4, <1>5, <1>6, <1>7

\* The owner of the key is asked: it is closer to the key.
LEMMA AskPeerSafe ==
  ASSUME SafeInv, NEW t \in Tasks, AskPeer(t)
  PROVE  SafeInv'
<1> USE DEF SafeInv, AskPeer, Enter
<1>a. /\ at[t] \in Nodes /\ key[t] \in Keys /\ Wire[key[t]] \in Keys
      /\ <<at[t], key[t]>> \in Handlers /\ <<at[t], key[t]>> # t
      /\ Owner(at[t], key[t]) \in Nodes
      /\ Closer(Owner(at[t], key[t]), at[t], key[t])
  BY CacheAssumption, OwnerFacts DEF PlaceInv
<1> DEFINE hd == <<at[t], key[t]>>
<1>b. /\ pc[t] = "pick" /\ pc'[t] = "remote" /\ at'[t] = at[t] /\ key'[t] = key[t]
      /\ pc[hd] = "idle" /\ pc'[hd] = "lookup"
      /\ \A u \in Tasks : u # t /\ u # hd => /\ pc'[u] = pc[u] /\ at'[u] = at[u]
                                            /\ key'[u] = key[u]
      /\ UNCHANGED <<flight, waitFor>>
  BY <1>a DEF VarsType
<1>1. VarsType'
  BY <1>a DEF VarsType, Labels
<1>2. CacheInv'
  BY DEF CacheInv
<1>3. PlaceInv'
  BY <1>a DEF PlaceInv, VarsType
<1>4. FlightInv'
  <2>1. \A u \in Tasks : pc'[u] \in Leading =>
          /\ pc[u] \in Leading /\ at'[u] = at[u] /\ key'[u] = key[u]
    BY <1>b DEF Leading
  <2>2. \A u \in Tasks : pc[u] \in Leading =>
          /\ pc'[u] \in Leading /\ at'[u] = at[u] /\ key'[u] = key[u]
          /\ pc'[u] = "unregister" <=> pc[u] = "unregister"
    BY <1>b DEF Leading
  <2>3. \A f \in Handlers : flight[f] # None => flight[f].leader \in Tasks
    BY DEF VarsType, Calls
  <2> HIDE DEF AskPeer, Enter, hd
  <2>4. ASSUME NEW u \in Tasks, pc'[u] \in Leading
        PROVE  Flight(u)' # None /\ Flight(u)'.leader = u
    <3>1. Flight(u)' = Flight(u)
      BY <1>b, <2>1, <2>4 DEF Flight
    <3> QED
      BY <2>1, <2>4, <3>1 DEF FlightInv
  <2>5. ASSUME NEW f \in Handlers, flight'[f] # None
        PROVE  LET l == flight'[f].leader IN
               /\ pc'[l] \in Leading /\ at'[l] = f[1] /\ key'[l] = f[2]
               /\ flight'[f].val = None <=> pc'[l] # "unregister"
    BY <1>b, <2>2, <2>3, <2>5 DEF FlightInv
  <2> QED
    BY <2>4, <2>5 DEF FlightInv
<1>5. WaitInv'
  <2> HIDE DEF AskPeer, Enter, hd
  <2> SUFFICES ASSUME NEW u \in Tasks, pc'[u] = "waiting"
               PROVE  (Flight(u) # None /\ Flight(u).leader = waitFor[u] /\ Flight(u).val = None)'
    BY DEF WaitInv
  <2>1. pc[u] = "waiting" /\ Flight(u)' = Flight(u) /\ waitFor' = waitFor
    BY <1>b DEF Flight
  <2> QED
    BY <2>1 DEF WaitInv
<1>6. ResultInv'
  BY DEF ResultInv, VarsType, FlightInv, PlaceInv, Calls
<1>7. HandlerInv'
  BY <1>a DEF HandlerInv, PlaceInv, VarsType
<1> QED
  BY <1>1, <1>2, <1>3, <1>4, <1>5, <1>6, <1>7

\* It cannot be.
LEMMA PeerFailsSafe ==
  ASSUME SafeInv, NEW t \in Tasks, PeerFails(t)
  PROVE  SafeInv'
<1> USE DEF SafeInv, PeerFails
<1>1. VarsType'
  BY DEF VarsType, Labels, PlaceInv
<1>2. CacheInv'
  BY DEF CacheInv
<1>3. PlaceInv'
  BY DEF PlaceInv, VarsType
<1>4. FlightInv'
  BY DEF FlightInv, PlaceInv, VarsType, Leading, Calls
<1>5. WaitInv'
  BY DEF WaitInv, FlightInv, PlaceInv, VarsType, Leading, Calls
<1>6. ResultInv'
  BY DEF ResultInv, VarsType, FlightInv, PlaceInv, Calls
<1>7. HandlerInv'
  BY DEF HandlerInv, PlaceInv, VarsType
<1> QED
  BY <1>1, <1>2, <1>3, <1>4, <1>5, <1>6, <1>7

\* The peer answers.
LEMMA PeerAnswersSafe ==
  ASSUME SafeInv, NEW t \in Tasks, PeerAnswers(t)
  PROVE  SafeInv'
<1> DEFINE hd == <<at[t], key[t]>>
<1>1. /\ hd \in Handlers /\ hd \in Tasks /\ hd # t
      /\ pc[t] = "remote" /\ pc[hd] = "done" /\ UNCHANGED <<cache, view>>
      /\ at' = [at EXCEPT ![hd] = None] /\ key' = [key EXCEPT ![hd] = None]
      /\ waitFor' = [waitFor EXCEPT ![hd] = None]
  BY DEF PeerAnswers, Leave, SafeInv, PlaceInv
<1>2. CacheInv'
  BY <1>1 DEF SafeInv, CacheInv
<1>3. /\ at' = [u \in Tasks |-> IF u \in {hd} THEN None ELSE at[u]]
      /\ key' = [u \in Tasks |-> IF u \in {hd} THEN None ELSE key[u]]
      /\ waitFor' = [u \in Tasks |-> IF u \in {hd} THEN None ELSE waitFor[u]]
  <2> HIDE DEF hd
  <2>1. DOMAIN at = Tasks /\ DOMAIN key = Tasks /\ DOMAIN waitFor = Tasks
    BY DEF SafeInv, VarsType
  <2>2. /\ at' = [at EXCEPT ![hd] = None] /\ key' = [key EXCEPT ![hd] = None]
        /\ waitFor' = [waitFor EXCEPT ![hd] = None]
    BY <1>1
  <2>3. at' = [u \in Tasks |-> IF u \in {hd} THEN None ELSE at[u]]
    BY <2>1, <2>2
  <2>4. key' = [u \in Tasks |-> IF u \in {hd} THEN None ELSE key[u]]
    BY <2>1, <2>2
  <2>5. waitFor' = [u \in Tasks |-> IF u \in {hd} THEN None ELSE waitFor[u]]
    BY <2>1, <2>2
  <2> QED
    BY <2>3, <2>4, <2>5
<1>4. CASE result[hd] # Error /\ Land(t, result[hd], {hd})
  <2>1. result[hd] \in Keys \cup {Error}
    BY <1>1 DEF SafeInv, VarsType, ResultInv
  <2> HIDE DEF hd
  <2>2. VarsType' /\ PlaceInv' /\ FlightInv' /\ WaitInv' /\ ResultInv' /\ HandlerInv'
    <3>1. {hd} \in SUBSET Handlers /\ \A u \in {hd} : pc[u] = "done"
      BY <1>1
    <3>2. pc[t] \in {"remote", "local"} /\ view' = view
      BY <1>1
    <3> QED
      BY <1>3, <1>4, <2>1, <3>1, <3>2, LandSafe
  <2> QED
    BY <1>2, <2>2 DEF SafeInv
<1>5. CASE /\ pc' = [pc EXCEPT ![t] = "local", ![hd] = "idle"]
           /\ result' = [result EXCEPT ![hd] = None]
           /\ UNCHANGED flight
  <2> HIDE DEF hd
  <2>1. VarsType'
    BY <1>1, <1>5 DEF SafeInv, VarsType, Labels
  <2>2. /\ \A u \in Tasks : u # t /\ u # hd =>
             /\ pc'[u] = pc[u] /\ result'[u] = result[u] /\ at'[u] = at[u]
             /\ key'[u] = key[u] /\ waitFor'[u] = waitFor[u]
        /\ pc'[t] = "local" /\ at'[t] = at[t] /\ key'[t] = key[t]
        /\ pc'[hd] = "idle" /\ at'[hd] = None
    BY <1>1, <1>5 DEF SafeInv, VarsType
  <2>3. PlaceInv' /\ ResultInv' /\ HandlerInv'
    BY <1>1, <2>2 DEF SafeInv, PlaceInv, ResultInv, HandlerInv
  <2>4. FlightInv'
    BY <1>1, <1>5, <2>2 DEF SafeInv, VarsType, FlightInv, Calls, Leading
  <2>5. WaitInv'
    <3> SUFFICES ASSUME NEW u \in Tasks, pc'[u] = "waiting"
                 PROVE  /\ flight'[at'[u], key'[u]] # None
                        /\ flight'[at'[u], key'[u]].leader = waitFor'[u]
                        /\ flight'[at'[u], key'[u]].val = None
      BY DEF WaitInv, Flight
    <3>1. u # t /\ u # hd
      BY <2>2
    <3>2. /\ pc[u] = "waiting" /\ at'[u] = at[u] /\ key'[u] = key[u]
          /\ waitFor'[u] = waitFor[u] /\ flight' = flight
      BY <1>5, <2>2, <3>1
    <3>3. Flight(u) # None /\ Flight(u).leader = waitFor[u] /\ Flight(u).val = None
      BY <3>2 DEF SafeInv, WaitInv
    <3> QED
      BY <3>2, <3>3 DEF Flight
  <2> QED
    BY <1>2, <2>1, <2>3, <2>4, <2>5 DEF SafeInv
<1> QED
  BY <1>4, <1>5 DEF PeerAnswers

\* The getter returns.
LEMMA GetLocallySafe ==
  ASSUME SafeInv, NEW t \in Tasks, GetLocally(t)
  PROVE  SafeInv'
<1>1. at[t] \in Nodes /\ key[t] \in Keys /\ pc[t] = "local" /\ UNCHANGED <<at, key, waitFor, view>>
  BY DEF GetLocally, SafeInv, PlaceInv
<1>2. PICK v \in {key[t], Error} : Land(t, v, {})
  BY DEF GetLocally
<1>3. VarsType' /\ PlaceInv' /\ FlightInv' /\ WaitInv' /\ ResultInv' /\ HandlerInv'
  <2>1. /\ at' = [u \in Tasks |-> IF u \in {} THEN None ELSE at[u]]
        /\ key' = [u \in Tasks |-> IF u \in {} THEN None ELSE key[u]]
        /\ waitFor' = [u \in Tasks |-> IF u \in {} THEN None ELSE waitFor[u]]
    BY <1>1 DEF SafeInv, VarsType
  <2>2. v \in Keys \cup {Error} /\ {} \in SUBSET Handlers
    BY <1>1
  <2> QED
    BY <1>1, <1>2, <2>1, <2>2, LandSafe
<1>4. CacheInv'
  <2>1. cache' = cache \/ \E held \in Added(cache[at[t]], key[t]) :
                            cache' = [cache EXCEPT ![at[t]] = held]
    BY DEF GetLocally
  <2>2. CASE cache' = cache
    BY <2>2 DEF SafeInv, CacheInv
  <2>3. ASSUME NEW held \in Added(cache[at[t]], key[t]),
               cache' = [cache EXCEPT ![at[t]] = held]
        PROVE  CacheInv'
    <3>1. held \in SUBSET Keys /\ IsFiniteSet(held) /\ Cardinality(held) <= CacheCap
      BY <1>1, AddedFacts DEF SafeInv, CacheInv
    <3> QED
      BY <1>1, <2>3, <3>1 DEF SafeInv, CacheInv
  <2> QED
    BY <2>1, <2>2, <2>3
<1> QED
  BY <1>3, <1>4 DEF SafeInv

\* A Get is over, or a handler nobody waits for.
LEMMA ReturnSafe ==
  ASSUME SafeInv, NEW t \in Tasks, Return(t) \/ AnswerDropped(t)
  PROVE  SafeInv'
<1> USE DEF SafeInv, Return, AnswerDropped, Leave
<1>1. VarsType'
  <2>1. /\ pc' = [pc EXCEPT ![t] = "idle"] /\ at' = [at EXCEPT ![t] = None]
        /\ key' = [key EXCEPT ![t] = None] /\ result' = [result EXCEPT ![t] = None]
        /\ waitFor' = [waitFor EXCEPT ![t] = None] /\ UNCHANGED <<flight, view>>
    BY DEF Goto
  <2> HIDE DEF Return, AnswerDropped, Leave
  <2>2. pc' \in [Tasks -> Labels] /\ at' \in [Tasks -> Nodes \cup {None}]
    BY <2>1 DEF VarsType, Labels
  <2>3. key' \in [Tasks -> Keys \cup {None}] /\ result' \in [Tasks -> Keys \cup {Error, None}]
    BY <2>1 DEF VarsType
  <2>4. waitFor' \in [Tasks -> Tasks \cup {None}]
    BY <2>1 DEF VarsType
  <2> QED
    BY <2>1, <2>2, <2>3, <2>4 DEF VarsType
<1>2. CacheInv'
  BY DEF CacheInv
<1>3. PlaceInv'
  BY DEF PlaceInv, VarsType
<1>4. FlightInv'
  BY DEF FlightInv, PlaceInv, VarsType, Leading, Calls
<1>5. WaitInv'
  BY DEF WaitInv, FlightInv, PlaceInv, VarsType, Leading, Calls
<1>6. ResultInv'
  BY DEF ResultInv, VarsType, FlightInv, PlaceInv, Calls
<1>7. HandlerInv'
  BY DEF HandlerInv, PlaceInv, VarsType
<1> QED
  BY <1>1, <1>2, <1>3, <1>4, <1>5, <1>6, <1>7

\* A list of peers changes, or nothing.
LEMMA SetSafe ==
  ASSUME SafeInv, (\E n \in Nodes : Set(n)) \/ UNCHANGED vars
  PROVE  SafeInv'
<1> USE DEF SafeInv, Set
<1>1. VarsType'
  BY DEF VarsType, Labels, PlaceInv
<1>2. CacheInv'
  BY DEF CacheInv
<1>3. PlaceInv'
  BY DEF PlaceInv, VarsType
<1>4. FlightInv'
  BY DEF FlightInv, PlaceInv, VarsType, Leading, Calls
<1>5. WaitInv'
  BY DEF WaitInv, FlightInv, PlaceInv, VarsType, Leading, Calls
<1>6. ResultInv'
  BY DEF ResultInv, VarsType, FlightInv, PlaceInv, Calls
<1>7. HandlerInv'
  BY DEF HandlerInv, PlaceInv, VarsType
<1> QED
  BY <1>1, <1>2, <1>3, <1>4, <1>5, <1>6, <1>7

\* No cache outgrows its room and no place of the model loses its type.
LEMMA InitSafe == Init => SafeInv
<1> SUFFICES ASSUME Init PROVE SafeInv OBVIOUS
<1>1. VarsType
  BY CacheAssumption DEF Init, VarsType, Labels
<1>2. CacheInv
  BY CacheAssumption, FS_EmptySet DEF Init, CacheInv
<1>3. PlaceInv /\ FlightInv /\ WaitInv /\ ResultInv /\ HandlerInv
  BY DEF Init, PlaceInv, FlightInv, Leading, WaitInv, ResultInv, HandlerInv
<1> QED
  BY <1>1, <1>2, <1>3 DEF SafeInv

\* Every step preserves the safe part of the invariant.
LEMMA NextSafe == SafeInv /\ [Next]_vars => SafeInv'
BY GetSafe, LookupSafe, LeadSafe, JoinSafe, UnregisterSafe, PickSelfSafe, AskPeerSafe,
   PeerFailsSafe, PeerAnswersSafe, GetLocallySafe, ReturnSafe, SetSafe DEF Next, Step

\* A call that lands is right for its leader and for all who wait for it.
LEMMA LandValue ==
  ASSUME SafeInv, ValueInv, NEW t \in Tasks, pc[t] \in {"remote", "local"},
         NEW v \in Found(key[t]), NEW freed \in SUBSET Handlers,
         \A u \in freed : pc[u] = "done", Land(t, v, freed),
         \A u \in Tasks : u \notin freed => key'[u] = key[u]
  PROVE  ValueInv'
<1>p. \A u \in Tasks : pc[u] # "idle" =>
        at[u] \in Nodes /\ key[u] \in Keys /\ <<at[u], key[u]>> \in Handlers
  BY DEF SafeInv, PlaceInv
<1>1. v \in Keys \cup {Error} /\ key[t] \in Keys /\ t \notin freed
  <2>1. key[t] \in Keys /\ t \notin freed
    BY <1>p
  <2>2. Wire[key[t]] \in Keys
    BY <2>1, CacheAssumption
  <2> QED
    BY <2>1, <2>2 DEF Found
<1>2. /\ \A f \in Handlers : flight'[f] = IF f = <<at[t], key[t]>>
                                          THEN [leader |-> t, val |-> v] ELSE flight[f]
      /\ \A u \in Tasks :
           /\ u = t => pc'[u] = "unregister" /\ result'[u] = v
           /\ u \in freed => pc'[u] = "idle" /\ result'[u] = None
           /\ Wakes(u, t, v) => pc'[u] = "done" /\ result'[u] = v
           /\ u # t /\ u \notin freed /\ ~Wakes(u, t, v) =>
                pc'[u] = pc[u] /\ result'[u] = result[u]
  <2>1. /\ SafeInv /\ t \in Tasks /\ pc[t] \in {"remote", "local"} /\ v \in Keys \cup {Error}
        /\ (\A u \in freed : pc[u] = "done") /\ Land(t, v, freed)
    BY <1>1
  <2>2. \A f \in Handlers : flight'[f] = IF f = <<at[t], key[t]>>
                                          THEN [leader |-> t, val |-> v] ELSE flight[f]
    <3>1. <<at[t], key[t]>> \in Handlers
      BY <1>p
    <3>2. Flight(t).leader = t /\ Flight(t) \in Calls
      BY <3>1 DEF SafeInv, FlightInv, VarsType, Leading
    <3>3. [Flight(t) EXCEPT !.val = v] = [leader |-> t, val |-> v]
      BY <3>2 DEF Calls
    <3> QED
      BY <3>1, <3>3 DEF Land, SafeInv, VarsType
  <2>3. ASSUME NEW u \in Tasks
        PROVE  /\ u = t => pc'[u] = "unregister" /\ result'[u] = v
               /\ u \in freed => pc'[u] = "idle" /\ result'[u] = None
               /\ Wakes(u, t, v) => pc'[u] = "done" /\ result'[u] = v
               /\ u # t /\ u \notin freed /\ ~Wakes(u, t, v) =>
                    pc'[u] = pc[u] /\ result'[u] = result[u]
    BY <2>1 DEF Land, Wakes, WokenWith
  <2> QED
    BY <2>2, <2>3
<1>3. ASSUME NEW u \in Tasks, Wakes(u, t, v) PROVE key[u] = key[t]
  <2>1. /\ Flight(u) # None /\ Flight(u).leader = t /\ <<at[u], key[u]>> \in Handlers
    BY <1>p, <1>3 DEF Wakes, SafeInv, WaitInv
  <2> QED
    BY <2>1 DEF SafeInv, FlightInv
<1>4. ASSUME NEW u \in Tasks, pc'[u] \in {"done", "unregister"}
      PROVE  result'[u] \in Found(key'[u])
  <2>1. u \notin freed /\ key'[u] = key[u]
    BY <1>2, <1>4
  <2> QED
    BY <1>2, <1>3, <1>4, <2>1 DEF ValueInv
<1>5. ASSUME NEW f \in Handlers, flight'[f] # None
      PROVE  flight'[f].val \in Found(f[2]) \cup {None}
  BY <1>2, <1>5 DEF ValueInv
<1> QED
  BY <1>4, <1>5 DEF ValueInv

\* What has been found is right: a peer was asked for the key, or for what it
\* reads for that, and who waits for a call wants the key of its leader.
LEMMA NextValue ==
  ASSUME SafeInv, ValueInv, [Next]_vars
  PROVE  ValueInv'
<1>t. /\ pc \in [Tasks -> Labels] /\ result \in [Tasks -> Keys \cup {Error, None}]
      /\ key \in [Tasks -> Keys \cup {None}] /\ flight \in [Handlers -> Calls \cup {None}]
  BY DEF SafeInv, VarsType
<1>p. \A t \in Tasks : pc[t] # "idle" =>
        at[t] \in Nodes /\ key[t] \in Keys /\ <<at[t], key[t]>> \in Handlers
  BY DEF SafeInv, PlaceInv
<1> USE DEF ValueInv
<1>1. ASSUME NEW t \in Users, NEW n \in Nodes, NEW k \in Keys, Get(t, n, k)
      PROVE  ValueInv'
  BY <1>t, <1>1 DEF Get, Enter
<1>2. ASSUME NEW t \in Tasks, Lookup(t) PROVE ValueInv'
  BY <1>t, <1>2 DEF Lookup, Found
<1>3. ASSUME NEW t \in Tasks, Lead(t) PROVE ValueInv'
  BY <1>t, <1>p, <1>3 DEF Lead
<1>4. ASSUME NEW t \in Tasks, Join(t) PROVE ValueInv'
  BY <1>t, <1>p, <1>4 DEF Join
<1>5. ASSUME NEW t \in Tasks, Unregister(t) PROVE ValueInv'
  BY <1>t, <1>p, <1>5 DEF Unregister
<1>6. ASSUME NEW t \in Tasks, PickSelf(t) \/ PeerFails(t) PROVE ValueInv'
  BY <1>t, <1>6 DEF PickSelf, PeerFails
<1>7. ASSUME NEW t \in Tasks, AskPeer(t) PROVE ValueInv'
  BY <1>t, <1>p, <1>7 DEF AskPeer, Enter
<1>8. ASSUME NEW t \in Tasks, PeerAnswers(t) PROVE ValueInv'
  <2> DEFINE hd == <<at[t], key[t]>>
  <2>1. /\ hd \in Handlers /\ hd \in Tasks /\ hd # t /\ key[hd] = Wire[key[t]]
        /\ pc[t] = "remote" /\ pc[hd] = "done" /\ key' = [key EXCEPT ![hd] = None]
        /\ key[t] \in Keys
    BY <1>p, <1>8 DEF PeerAnswers, Leave, SafeInv, HandlerInv
  <2> HIDE DEF hd
  <2>2. CASE Land(t, result[hd], {hd})
    <3>1. result[hd] \in Found(key[t]) /\ {hd} \in SUBSET Handlers
      <4>1. result[hd] \in {Wire[key[t]], Wire[Wire[key[t]]], Error}
        BY <2>1 DEF Found
      <4> QED
        BY <2>1, <4>1, CacheAssumption DEF Found
    <3>2. \A u \in Tasks : u \notin {hd} => key'[u] = key[u]
      BY <1>t, <2>1
    <3>3. \A u \in {hd} : pc[u] = "done"
      BY <2>1
    <3> HIDE DEF ValueInv
    <3> QED
      BY <2>1, <2>2, <3>1, <3>2, <3>3, LandValue
  <2>3. CASE /\ pc' = [pc EXCEPT ![t] = "local", ![hd] = "idle"]
             /\ result' = [result EXCEPT ![hd] = None]
             /\ UNCHANGED flight
    BY <1>t, <2>1, <2>3
  <2> QED
    BY <1>8, <2>2, <2>3 DEF PeerAnswers, hd
<1>9. ASSUME NEW t \in Tasks, GetLocally(t) PROVE ValueInv'
  <2>1. PICK v \in Found(key[t]) : Land(t, v, {})
    BY <1>9 DEF GetLocally, Found
  <2>2. pc[t] = "local" /\ UNCHANGED key
    BY <1>9 DEF GetLocally
  <2>3. /\ {} \in SUBSET Handlers /\ pc[t] \in {"remote", "local"}
        /\ (\A u \in {} : pc[u] = "done") /\ \A u \in Tasks : u \notin {} => key'[u] = key[u]
    BY <2>2
  <2> HIDE DEF ValueInv
  <2> QED
    BY <2>1, <2>3, LandValue
<1>10. ASSUME NEW t \in Tasks, Return(t) \/ AnswerDropped(t) PROVE ValueInv'
  BY <1>t, <1>10 DEF Return, AnswerDropped, Leave
<1>11. ASSUME (\E n \in Nodes : Set(n)) \/ UNCHANGED vars PROVE ValueInv'
  BY <1>11 DEF Set
<1> QED
  BY <1>1, <1>2, <1>3, <1>4, <1>5, <1>6, <1>7, <1>8, <1>9, <1>10, <1>11 DEF Next, Step

----------------------------------------------------------------------------
(* Waiting in a circle *)

\* Among any tasks there is one that is closest to its key.
LEMMA ClosestOf ==
  ASSUME NEW k \in Keys, NEW N \in SUBSET Nodes, N # {}
  PROVE  \E n \in N : \A m \in N : ~Closer(m, n, k)
<1>1. \A n \in N : Mark(n, k) \in Nat
  BY CloserFacts
<1>2. ASSUME NEW M \in SUBSET N, M # {}
      PROVE  \E n \in M : \A m \in M : Mark(n, k) <= Mark(m, k)
  <2> DEFINE S == {Mark(n, k) : n \in M}
  <2>1. S \subseteq Nat /\ S # {}
    BY <1>1, <1>2
  <2>2. Min(S) \in S /\ \A y \in S : Min(S) <= y
    <3> HIDE DEF S
    <3> QED BY <2>1, MinOf
  <2>3. PICK n \in M : Min(S) = Mark(n, k)
    BY <2>2
  <2>4. \A m \in M : Mark(n, k) <= Mark(m, k)
    BY <2>2, <2>3
  <2> QED
    BY <2>4
<1> DEFINE onwards == {n \in N : ~Wrapped(n, k)}
<1>3. CASE onwards # {}
  <2>1. onwards \in SUBSET N
    OBVIOUS
  <2>2. PICK n \in onwards : \A m \in onwards : Mark(n, k) <= Mark(m, k)
    <3> HIDE DEF onwards
    <3> QED BY <1>2, <1>3, <2>1
  <2>3. \A m \in N : ~Closer(m, n, k)
    BY <1>1, <2>2, RingAssumption DEF Closer, Wrapped
  <2> QED BY <2>2, <2>3
<1>4. CASE onwards = {}
  <2>1. PICK n \in N : \A m \in N : Mark(n, k) <= Mark(m, k)
    BY <1>2
  <2>2. \A m \in N : Wrapped(m, k) /\ ~(Mark(m, k) < Mark(n, k))
    BY <1>1, <1>4, <2>1
  <2>3. \A m \in N : ~Closer(m, n, k)
    BY <2>2 DEF Closer, Wrapped
  <2> QED BY <2>3
<1> QED BY <1>3, <1>4

\* Who waits, waits for a leader on its node, which is at work or asks a node
\* that is closer to the key; so the closest of those that want one key waits
\* for none.  A key that a peer reads differently is wanted on one node only: what
\* it asks another for is a key that travels unchanged.
LEMMA NoCircle ==
  ASSUME SafeInv
  PROVE  NoCyclicWait
<1> SUFFICES ASSUME NEW W \in SUBSET {t \in Tasks : pc[t] \in {"waiting", "remote"}},
                    W # {}
             PROVE  \E t \in W : \A u \in W : ~WaitsOn(t, u)
  BY DEF NoCyclicWait
<1>1. \A t \in W : /\ t \in Tasks /\ pc[t] \in {"waiting", "remote"}
                   /\ at[t] \in Nodes /\ key[t] \in Keys
                   /\ <<at[t], key[t]>> \in Handlers
  BY DEF SafeInv, PlaceInv
<1>2. ASSUME NEW t \in W, NEW u \in W, WaitsOn(t, u)
      PROVE  /\ pc[t] = "waiting" => key[u] = key[t] /\ at[u] = at[t] /\ pc[u] = "remote"
             /\ pc[t] = "remote" => key[u] = Wire[key[t]] /\ Closer(at[u], at[t], key[t])
  <2>1. CASE pc[t] = "waiting"
    <3>1. /\ Flight(t) # None /\ Flight(t).leader = u /\ Flight(t).val = None
      BY <1>1, <1>2, <2>1 DEF WaitsOn, SafeInv, WaitInv
    <3>2. pc[u] \in Leading /\ at[u] = at[t] /\ key[u] = key[t]
      BY <1>1, <3>1 DEF SafeInv, FlightInv
    <3> QED
      BY <1>1, <2>1, <3>2 DEF Leading
  <2>2. CASE pc[t] = "remote"
    <3>1. u = <<at[t], key[t]>> /\ u \in Handlers /\ pc[u] # "idle"
      BY <1>1, <1>2, <2>2 DEF WaitsOn
    <3> QED
      BY <1>1, <2>2, <3>1 DEF SafeInv, HandlerInv
  <2> QED
    BY <1>1, <2>1, <2>2
<1>3. CASE \E w \in W : Wire[key[w]] = key[w]
  <2>1. PICK w \in W : Wire[key[w]] = key[w]
    BY <1>3
  <2> DEFINE k == key[w]
             N == {at[t] : t \in {x \in W : key[x] = k}}
  <2>2. PICK n \in N : \A m \in N : ~Closer(m, n, k)
    <3>1. k \in Keys /\ N \in SUBSET Nodes
      <4>1. ASSUME NEW m \in N PROVE m \in Nodes
        <5>1. PICK t \in W : m = at[t]
          OBVIOUS
        <5> QED
          BY <1>1, <5>1
      <4> HIDE DEF N
      <4> QED BY <1>1, <2>1, <4>1
    <3>2. at[w] \in N
      BY <2>1
    <3> HIDE DEF k, N
    <3> QED BY <3>1, <3>2, ClosestOf
  <2>3. PICK t \in W : key[t] = k /\ at[t] = n
    BY <2>2
  <2>4. ASSUME NEW x \in W, pc[x] = "remote", key[x] = k, at[x] = n, NEW u \in W
        PROVE  ~WaitsOn(x, u)
    <3> SUFFICES ASSUME WaitsOn(x, u) PROVE FALSE OBVIOUS
    <3>1. key[u] = k /\ Closer(at[u], n, k)
      BY <1>2, <2>1, <2>4
    <3>2. at[u] \in N
      BY <3>1
    <3> HIDE DEF k, N
    <3> QED
      BY <2>2, <3>1, <3>2
  <2>5. CASE pc[t] = "remote"
    BY <2>3, <2>4, <2>5
  <2>6. CASE pc[t] = "waiting"
    <3>1. CASE \E u \in W : WaitsOn(t, u)
      <4>1. PICK u \in W : WaitsOn(t, u)
        BY <3>1
      <4>2. key[u] = k /\ at[u] = n /\ pc[u] = "remote"
        BY <1>2, <2>3, <2>6, <4>1
      <4> QED
        BY <2>4, <4>2
    <3> QED
      BY <3>1
  <2> QED
    BY <1>1, <2>3, <2>5, <2>6
<1>4. CASE \A w \in W : Wire[key[w]] # key[w]
  <2>1. \A t, u \in W : WaitsOn(t, u) => pc[t] = "waiting" /\ pc[u] = "remote"
    <3> SUFFICES ASSUME NEW t \in W, NEW u \in W, WaitsOn(t, u)
                 PROVE  pc[t] = "waiting" /\ pc[u] = "remote"
      OBVIOUS
    <3>1. pc[t] # "remote"
      <4>1. Wire[Wire[key[t]]] = Wire[key[t]]
        BY <1>1, CacheAssumption
      <4> QED
        BY <1>2, <1>4, <4>1
    <3> QED
      BY <1>1, <1>2, <3>1
  <2>2. PICK w \in W : TRUE
    OBVIOUS
  <2>3. CASE \E u \in W : WaitsOn(w, u)
    BY <2>1, <2>3
  <2>4. CASE \A u \in W : ~WaitsOn(w, u)
    BY <2>4
  <2> QED
    BY <2>3, <2>4
<1> QED
  BY <1>3, <1>4

----------------------------------------------------------------------------
(* The theorems *)

\* In every reachable state the calls, their leaders, those who wait and the
\* handlers on other nodes fit together (singleflight.go:16-45, geecache.go:78-120).
THEOREM SafeInvCorrect == Spec => []SafeInv
<1>1. Init => SafeInv
  BY InitSafe
<1>2. SafeInv /\ [Next]_vars => SafeInv'
  BY NextSafe
<1> QED
  BY <1>1, <1>2, PTL DEF Spec

\* The state has its type, and no cache outgrows its room (lru.go:34-49).
THEOREM TypeCorrect == Spec => []TypeOK
<1>1. SafeInv => TypeOK
  BY CacheAssumption DEF SafeInv, VarsType, CacheInv, PlaceInv, TypeOK
<1> QED
  BY <1>1, SafeInvCorrect, PTL

\* Whatever nodes and users there are, a node loads a key once at a time
\* (singleflight.go:16-45).
THEOREM OneLoadPerKeyCorrect == Spec => []OneLoadPerKey
<1>1. SafeInv => OneLoadPerKey
  <2> SUFFICES ASSUME SafeInv, NEW t \in Tasks, NEW u \in Tasks,
                      pc[t] \in Leading, pc[u] \in Leading,
                      at[t] = at[u], key[t] = key[u]
               PROVE  t = u
    BY DEF OneLoadPerKey
  <2>1. Flight(t).leader = t /\ Flight(u).leader = u
    BY DEF SafeInv, FlightInv
  <2> QED
    BY <2>1
<1> QED
  BY <1>1, SafeInvCorrect, PTL

\* No goroutine is left waiting for a call that is over (singleflight.go:22-43).
THEOREM NoWaiterLostCorrect == Spec => []NoWaiterLost
<1>1. SafeInv => NoWaiterLost
  <2> SUFFICES ASSUME SafeInv, NEW t \in Tasks, pc[t] = "waiting"
               PROVE  /\ Flight(t) = [leader |-> waitFor[t], val |-> None]
                      /\ pc[waitFor[t]] \in {"pick", "remote", "local"}
                      /\ at[waitFor[t]] = at[t]
                      /\ key[waitFor[t]] = key[t]
    BY DEF NoWaiterLost
  <2>1. <<at[t], key[t]>> \in Handlers
    BY DEF SafeInv, PlaceInv
  <2>2. /\ Flight(t) # None /\ Flight(t) \in Calls
        /\ Flight(t).leader = waitFor[t] /\ Flight(t).val = None
    BY <2>1 DEF SafeInv, VarsType, WaitInv
  <2>3. Flight(t) = [leader |-> waitFor[t], val |-> None]
    BY <2>2 DEF Calls
  <2>4. /\ pc[waitFor[t]] \in Leading /\ pc[waitFor[t]] # "unregister"
        /\ at[waitFor[t]] = at[t] /\ key[waitFor[t]] = key[t]
    BY <2>1, <2>2 DEF SafeInv, FlightInv
  <2> QED
    BY <2>3, <2>4 DEF Leading
<1> QED
  BY <1>1, SafeInvCorrect, PTL

\* Get returns an error or the value of its key, or of the one a peer reads for
\* that, however it came by it (geecache.go:79-142, http.go:22-50, 82-118).
THEOREM ResultCorrectCorrect == Spec => []ResultCorrect
<1>1. Init => SafeInv /\ ValueInv
  BY InitSafe DEF Init, ValueInv
<1>2. SafeInv /\ ValueInv /\ [Next]_vars => SafeInv' /\ ValueInv'
  BY NextSafe, NextValue
<1>3. ValueInv => ResultCorrect
  BY DEF ValueInv, Found, ResultCorrect
<1> QED
  BY <1>1, <1>2, <1>3, PTL DEF Spec

\* Nodes never wait in a circle, however their lists differ and change and
\* whatever becomes of a key on its way: the ring orders them alike for all
\* (http.go:135-144).
THEOREM NoCyclicWaitCorrect == Spec => []NoCyclicWait
<1>1. SafeInv => NoCyclicWait
  BY NoCircle
<1> QED
  BY <1>1, SafeInvCorrect, PTL

\* On any ring a change of the list moves no key between nodes that were on the
\* list and stay on it (consistenthash.go:33-58).
THEOREM MovesOnlyWhatItMustCorrect == Spec => MovesOnlyWhatItMust
<1> DEFINE Moves == \A n \in {m \in Nodes : view'[m] # view[m]}, k \in Keys :
                      Owner(n, k)' # Owner(n, k) =>
                        Owner(n, k) \notin view'[n] \/ Owner(n, k)' \notin view[n]
<1>1. SafeInv /\ SafeInv' => Moves
  <2> SUFFICES ASSUME SafeInv, SafeInv', NEW n \in Nodes, NEW k \in Keys,
                      Owner(n, k)' # Owner(n, k), Owner(n, k) \in view'[n],
                      Owner(n, k)' \in view[n]
               PROVE  FALSE
    OBVIOUS
  <2>1. view[n] \in SUBSET Nodes /\ view'[n] \in SUBSET Nodes
    BY CacheAssumption DEF SafeInv, VarsType
  <2>2. Closer(Owner(n, k), Owner(n, k)', k)
    BY <2>1, OwnerIsClosest DEF Owner
  <2>3. Closer(Owner(n, k)', Owner(n, k), k)
    BY <2>1, OwnerIsClosest DEF Owner
  <2> QED
    BY <2>1, <2>2, <2>3, CloserFacts
<1>2. SafeInv /\ SafeInv' /\ [Next]_vars => [Moves]_view
  BY <1>1
<1> QED
  BY <1>2, SafeInvCorrect, PTL DEF Spec, MovesOnlyWhatItMust

=============================================================================
