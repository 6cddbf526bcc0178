------------------------------ MODULE GeeCache ------------------------------
(***************************************************************************)
(* A geecache group on several nodes: Group.Get with its cache, the        *)
(* singleflight group that merges concurrent loads of a key, and the HTTP  *)
(* pool through which a node asks the owner of a key.                      *)
(*                                                                         *)
(* A task is a goroutine inside Group.Get: one of Users, or the handler    *)
(* <<n, k>> that another node runs for node n's request for key k.  The    *)
(* value of a key is the key itself.  The cache keeps at most CacheCap     *)
(* keys; which one an addition evicts is left open (lru keeps recency).    *)
(*                                                                         *)
(* HashRing says who owns a key in a list of peers.  Every node lists      *)
(* itself, as main.go and the README do, but lists may differ and change.  *)
(*                                                                         *)
(* Bound: a node has one request per key under way at the others, one it   *)
(* gave up on included.                                                    *)
(***************************************************************************)
EXTENDS HashRing

CONSTANTS
  Users,
  Lists,      \* Lists[n]: the lists of peers node n may be given
  Wire,       \* Wire[k]: the key a peer reads where k was meant (QueryEscape
              \* writes a blank as a plus sign, and URL.Path leaves that as it is)
  CacheCap,
  None, Error

Handlers == Nodes \X Keys
Tasks == Users \cup Handlers

ASSUME CacheAssumption ==
  /\ Lists \in [Nodes -> SUBSET SUBSET Nodes]
  /\ \A n \in Nodes : Lists[n] # {} /\ \A v \in Lists[n] : n \in v
  /\ Wire \in [Keys -> Keys]
  /\ \A k \in Keys : Wire[Wire[k]] = Wire[k]
  /\ CacheCap \in Nat \ {0}
  /\ None \notin Tasks \cup Keys \cup Nodes /\ Error \notin Keys /\ None # Error
  /\ Users \cap Handlers = {}
  /\ None \notin [leader : Tasks, val : Keys \cup {Error, None}]

VARIABLES
  pc,       \* where each task is
  at, key,  \* the node it runs on and the key it wants
  result,   \* what Get returns
  waitFor,  \* the leader whose flight it waits for
  flight,   \* singleflight.Group.m of each node: the leader and its value
  cache,    \* the keys each node has cached
  view      \* the peers in each node's pool

taskVars == <<pc, at, key, result, waitFor>>
vars == <<taskVars, flight, cache, view>>

----------------------------------------------------------------------------
(* Helpers *)

Goto(t, label) == pc' = [pc EXCEPT ![t] = label]
FlightOfNode(t) ==
  LET there == {f \in Handlers : f[1] = at[t] /\ flight[f] # None}
  IN  IF there = {} THEN None ELSE flight[CHOOSE f \in there : TRUE]
Flight(t) == flight[<<at[t], key[t]>>]

\* PickPeer: the peer to ask, or this node itself.
NextOwner(n, k) ==
  LET ring == Ring(view[n])
      next == Nearest(ring \ {Nearest(ring, k)}, k)
  IN  CHOOSE p \in view[n] : next \in ReplicaHashes[p]
Owner(n, k) == OwnerAmong[view[n]][k]

\* A goroutine enters Get(k) on node n.
Enter(t, n, k) == /\ pc[t] = "idle"
                  /\ at' = [at EXCEPT ![t] = n]
                  /\ key' = [key EXCEPT ![t] = k]

\* lru.Cache.Add: what the cache may hold once key k is added to it.
Added(held, k) ==
  IF Cardinality(held \cup {k}) <= CacheCap THEN {held \cup {k}}
  ELSE {(held \ {victim}) \cup {k} : victim \in held}

\* The goroutine has left Get, and its locals are gone.
Leave(t) == /\ at' = [at EXCEPT ![t] = None]
            /\ key' = [key EXCEPT ![t] = None]
            /\ waitFor' = [waitFor EXCEPT ![t] = None]

NotShared(t) == TRUE
NoFlight(t) == Flight(t) = None

OneWaiter(u, t, v) == /\ pc[u] = "waiting" /\ waitFor[u] = t
                      /\ u = CHOOSE w \in Tasks : waitFor[w] = t
WakesOnSuccess(u, t, v) == pc[u] = "waiting" /\ waitFor[u] = t /\ v # Error
Wakes(u, t, v) == pc[u] = "waiting" /\ waitFor[u] = t

ReadBeforeSet(v) == None
WokenWith(v) == v

\* fn() has returned v: the call's value is set and wg.Done() wakes those who
\* wait for it.  The handlers in freed have delivered their result.
Land(t, v, freed) ==
  /\ flight' = [flight EXCEPT ![<<at[t], key[t]>>].val = v]
  /\ result' = [u \in Tasks |-> IF u = t THEN v
                                ELSE IF Wakes(u, t, v) THEN WokenWith(v)
                                ELSE IF u \in freed THEN None
                                ELSE result[u]]
  /\ pc' = [u \in Tasks |-> CASE u = t -> "unregister"
                              [] u \in freed -> "idle"
                              [] Wakes(u, t, v) -> "done"
                              [] OTHER -> pc[u]]

----------------------------------------------------------------------------
(* Group.Get and singleflight.Group.Do *)

Get(t, n, k) ==
  /\ Enter(t, n, k)
  /\ Goto(t, "lookup")
  /\ UNCHANGED <<result, waitFor, flight, cache, view>>

Lookup(t) ==
  /\ pc[t] = "lookup"
  /\ \/ /\ key[t] \in cache[at[t]]
        /\ result' = [result EXCEPT ![t] = key[t]]
        /\ Goto(t, "done")
     \/ /\ key[t] \notin cache[at[t]]
        /\ Goto(t, "do")
        /\ UNCHANGED result
  /\ UNCHANGED <<at, key, waitFor, flight, cache, view>>

\* Nobody loads the key: this task does.
Lead(t) ==
  /\ pc[t] = "do"
  /\ NoFlight(t)
  /\ flight' = [flight EXCEPT ![<<at[t], key[t]>>] =
                  [leader |-> t, val |-> None]]
  /\ Goto(t, "pick")
  /\ UNCHANGED <<at, key, result, waitFor, cache, view>>

\* Somebody does: wait for the result, or take it if it is there and the
\* leader has not yet deleted the call.
Join(t) ==
  /\ pc[t] = "do"
  /\ Flight(t) # None
  /\ \/ /\ Flight(t).val = None
        /\ waitFor' = [waitFor EXCEPT ![t] = Flight(t).leader]
        /\ Goto(t, "waiting")
        /\ UNCHANGED result
     \/ /\ Flight(t).val # None
        /\ result' = [result EXCEPT ![t] = Flight(t).val]
        /\ Goto(t, "done")
        /\ UNCHANGED waitFor
  /\ UNCHANGED <<at, key, flight, cache, view>>

Unregister(t) ==
  /\ pc[t] = "unregister"
  /\ flight' = [flight EXCEPT ![<<at[t], key[t]>>] = None]
  /\ Goto(t, "done")
  /\ UNCHANGED <<at, key, result, waitFor, cache, view>>

----------------------------------------------------------------------------
(* Group.load: the function the leader runs *)

\* The key is this node's own.
PickSelf(t) ==
  /\ pc[t] = "pick"
  /\ Owner(at[t], key[t]) = at[t]
  /\ Goto(t, "local")
  /\ UNCHANGED <<at, key, result, waitFor, flight, cache, view>>

\* The HTTP request reaches the owner, which starts a handler for it.
AskPeer(t) ==
  LET hd == <<at[t], key[t]>> IN
  /\ pc[t] = "pick"
  /\ Owner(at[t], key[t]) # at[t]
  /\ Enter(hd, Owner(at[t], key[t]), Wire[key[t]])
  /\ pc' = [pc EXCEPT ![t] = "remote", ![hd] = "lookup"]
  /\ UNCHANGED <<result, waitFor, flight, cache, view>>

\* The peer cannot be reached, or the connection breaks while it works on.
PeerFails(t) ==
  /\ \/ pc[t] = "pick" /\ Owner(at[t], key[t]) # at[t]
     \/ pc[t] = "remote"
  /\ Goto(t, "local")
  /\ UNCHANGED <<at, key, result, waitFor, flight, cache, view>>

\* The peer answers: with a value, which is not cached here, or with an
\* error, after which the leader turns to its own getter.
PeerAnswers(t) ==
  LET hd == <<at[t], key[t]>> IN
  /\ pc[t] = "remote"
  /\ pc[hd] = "done"
  /\ \/ /\ result[hd] # Error
        /\ Land(t, result[hd], {hd})
     \/ /\ result[hd] = Error
        /\ pc' = [pc EXCEPT ![t] = "local", ![hd] = "idle"]
        /\ result' = [result EXCEPT ![hd] = None]
        /\ UNCHANGED flight
  /\ Leave(hd)
  /\ UNCHANGED <<cache, view>>

\* The getter returns and its value is added to the cache, or it fails.
GetLocally(t) ==
  /\ pc[t] = "local"
  /\ \/ /\ Land(t, key[t], {})
        /\ \E held \in Added(cache[at[t]], key[t]) :
             cache' = [cache EXCEPT ![at[t]] = held]
     \/ /\ Land(t, Error, {})
        /\ UNCHANGED cache
  /\ UNCHANGED <<at, key, waitFor, view>>

----------------------------------------------------------------------------
(* The callers of Get and the pools *)

\* A user takes the result of Get and may call it again.
Return(t) ==
  /\ t \in Users
  /\ pc[t] = "done"
  /\ Leave(t)
  /\ result' = [result EXCEPT ![t] = None]
  /\ Goto(t, "idle")
  /\ UNCHANGED <<flight, cache, view>>

\* The handler answers a node that has given up on it.
AnswerDropped(hd) ==
  /\ hd \in Handlers
  /\ pc[hd] = "done"
  /\ ~\E t \in Tasks : pc[t] = "remote" /\ <<at[t], key[t]>> = hd
  /\ Leave(hd)
  /\ result' = [result EXCEPT ![hd] = None]
  /\ Goto(hd, "idle")
  /\ UNCHANGED <<flight, cache, view>>

\* HTTPPool.Set, with another list.
Set(n) ==
  /\ \E v \in Lists[n] \ {view[n]} : view' = [view EXCEPT ![n] = v]
  /\ UNCHANGED <<taskVars, flight, cache>>

----------------------------------------------------------------------------

Init ==
  /\ pc = [t \in Tasks |-> "idle"]
  /\ at = [t \in Tasks |-> None]
  /\ key = [t \in Tasks |-> None]
  /\ result = [t \in Tasks |-> None]
  /\ waitFor = [t \in Tasks |-> None]
  /\ flight = [f \in Handlers |-> None]
  /\ cache = [n \in Nodes |-> {}]
  /\ view \in [Nodes -> UNION {Lists[n] : n \in Nodes}]
  /\ \A n \in Nodes : view[n] \in Lists[n]

\* What a task inside Get does by itself.
Step(t) == \/ Lookup(t)
           \/ Lead(t)
           \/ Join(t)
           \/ Unregister(t)
           \/ PickSelf(t)
           \/ AskPeer(t)
           \/ PeerAnswers(t)
           \/ GetLocally(t)
           \/ AnswerDropped(t)

Next == \/ \E t \in Users, n \in Nodes, k \in Keys : Get(t, n, k)
        \/ \E t \in Tasks : Step(t) \/ PeerFails(t) \/ Return(t)
        \/ \E n \in Nodes : Set(n)

Spec == Init /\ [][Next]_vars

\* Goroutines run, getters and peers return.  No peer need fail, no pool need
\* change and no user need call.
Fairness == \A t \in Tasks : WF_vars(Step(t))

FairSpec == Spec /\ Fairness

----------------------------------------------------------------------------
(* Properties *)

Labels == {"idle", "lookup", "do", "waiting", "pick", "remote", "local",
           "unregister", "done"}

Calls == [leader : Tasks, val : Keys \cup {Error, None}]

\* The type of the state of Group, singleflight.Group and HTTPPool.
TypeOK ==
  /\ pc \in [Tasks -> Labels]
  /\ at \in [Tasks -> Nodes \cup {None}]
  /\ key \in [Tasks -> Keys \cup {None}]
  /\ \A t \in Tasks : at[t] = None <=> pc[t] = "idle"
  /\ result \in [Tasks -> Keys \cup {Error, None}]
  /\ waitFor \in [Tasks -> Tasks \cup {None}]
  /\ flight \in [Handlers -> Calls \cup {None}]
  /\ cache \in [Nodes -> SUBSET Keys]
  /\ \A n \in Nodes : Cardinality(cache[n]) <= CacheCap
  /\ DOMAIN view = Nodes
  /\ \A n \in Nodes : view[n] \in Lists[n]

Leading == {"pick", "remote", "local", "unregister"}

\* On each node at most one goroutine at a time loads a key, from a peer or
\* from the getter, however many ask for it (singleflight.go:16-45).
OneLoadPerKey ==
  \A t, u \in Tasks :
    pc[t] \in Leading /\ pc[u] \in Leading /\ at[t] = at[u] /\ key[t] = key[u]
      => t = u

\* A goroutine that waits on a call waits for one that is still going to
\* finish: the call is registered, its value is not set and its leader is at
\* work for the same key on the same node (singleflight.go:22-43).
NoWaiterLost ==
  \A t \in Tasks :
    pc[t] = "waiting" => /\ Flight(t) = [leader |-> waitFor[t], val |-> None]
                         /\ pc[waitFor[t]] \in {"pick", "remote", "local"}
                         /\ at[waitFor[t]] = at[t]
                         /\ key[waitFor[t]] = key[t]

\* Get returns an error or the value of a key it was asked for, wherever that
\* came from: the cache, a peer, another's call or a getter after a peer failed.
\* The key is the one meant or, and only if they differ, the one that a peer
\* reads in its place; so a key that travels unchanged gets its own value, also
\* while others are taken for it (geecache.go:79-142, http.go:22-50, 82-118).
ResultCorrect ==
  \A t \in Tasks : pc[t] = "done" => result[t] \in {key[t], Wire[key[t]], Error}

\* Who a task waits for: the leader of its call or the handler of its request.
WaitsOn(t, u) == \/ pc[t] = "waiting" /\ waitFor[t] = u
                 \/ pc[t] = "remote" /\ u = <<at[t], key[t]>>

\* Nodes that ask each other never wait in a circle, even while their lists
\* of peers differ: a request only ever goes to a node closer to the key
\* (http.go:135-144, singleflight.go:22-28).
NoCyclicWait ==
  \A W \in SUBSET {t \in Tasks : pc[t] \in {"waiting", "remote"}} :
    W # {} => \E t \in W : \A u \in W : ~WaitsOn(t, u)

\* Every Get returns.
EveryGetReturns == \A t \in Users : pc[t] = "lookup" ~> pc[t] = "done"

\* A change of a node's list moves only the keys of nodes that leave the list,
\* and keys that go to nodes which join it (http.go:121-132,
\* consistenthash.go:33-58).
MovesOnlyWhatItMust ==
  [][\A n \in {m \in Nodes : view'[m] # view[m]}, k \in Keys :
       Owner(n, k)' # Owner(n, k) =>
         Owner(n, k) \notin view'[n] \/ Owner(n, k)' \notin view[n]]_view

=============================================================================
