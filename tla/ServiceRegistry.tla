-------------------------- MODULE ServiceRegistry --------------------------
(***************************************************************************)
(* registry.GeeRegistry, the heartbeats that servers send to it, and the   *)
(* xclient.GeeRegistryDiscovery that caches its list for the goroutines of *)
(* a client.                                                               *)
(*                                                                         *)
(* Time is a number of ticks since an event, and stops counting where no   *)
(* guard tells the difference (MaxBeatAge, RefreshAfter).  A ticker that   *)
(* is due fires before time goes on, and a heartbeat takes less than a     *)
(* tick; a request for the list takes up to MaxDelay ticks.  Servers are   *)
(* numbers: sort.Strings and the list of a header are sets put in order.   *)
(*                                                                         *)
(* External: the network to the registry (reachable or not), a proxy or a  *)
(* wrong path that answers without the header, and the server processes.   *)
(***************************************************************************)
EXTENDS Integers, Sequences, FiniteSets

CONSTANTS
  Servers,      \* numbers
  Getters,      \* goroutines that call Discovery.Get
  Timeout,      \* GeeRegistry.timeout, what New() was given
  DefaultTimeout, \* defaultTimeout
  Duration,     \* what Heartbeat() was given, 0 for the default
  RefreshAfter, \* GeeRegistryDiscovery.timeout
  MaxDelay,     \* bound on the ticks a request for the list takes
  MaxPicks      \* bound of the history picks

ASSUME RegistryAssumption ==
  /\ Servers \subseteq Nat /\ IsFiniteSet(Servers)
  /\ Timeout \in Nat \ {0}
  /\ DefaultTimeout \in Nat /\ DefaultTimeout > 1
  /\ Duration \in Nat
  /\ RefreshAfter \in Nat \ {0}
  /\ MaxDelay \in Nat
  /\ MaxPicks \in Nat \ {0}
  /\ "nobody" \notin Getters

MaxBeatAge == Timeout + MaxDelay + RefreshAfter

Nobody == "nobody"

VARIABLES
  items,     \* the keys of GeeRegistry.servers
  beatAge,   \* ticks since the registry heard of each server
  up,        \* the server processes that run
  beating,   \* the servers whose heartbeat goroutine runs
  timer,     \* ticks until its ticker fires
  reachable, \* the registry can be reached
  list,      \* MultiServerDiscovery.servers
  index,     \* MultiServerDiscovery.index
  listAge,   \* ticks since lastUpdate
  given,     \* the list was set by Update, not by Refresh (history)
  pc,        \* each getter: idle, asking, told, or between Refresh and Get
  holder,    \* the getter that holds MultiServerDiscovery.mu in Refresh()
  answer,    \* the list on its way to it
  delay,     \* ticks its request has taken
  picks      \* round-robin picks of each server since the list changed (history)

registryVars == <<items, beatAge>>
serverVars == <<up, beating, timer>>
listVars == <<list, index, listAge, given, picks>>
askVars == <<pc, holder, answer, delay>>
vars == <<registryVars, serverVars, reachable, listVars, askVars>>

----------------------------------------------------------------------------
(* Helpers *)

AtMost(n, bound) == IF n > bound THEN bound ELSE n

PeriodTooLong == IF Duration = 0 THEN DefaultTimeout ELSE Duration
\* The default of Heartbeat() is a tick less than a registry with the default
\* timeout waits, whatever this one does.
HeartbeatPeriod == IF Duration = 0 THEN DefaultTimeout - 1 ELSE Duration

AliveAtTimeout(s) == beatAge[s] <= Timeout
Alive(s) == beatAge[s] < Timeout

NeverSwept == items
AliveItems == {s \in items : Alive(s)}

InOrder(S) == CHOOSE q \in [1 .. Cardinality(S) -> S] :
                \A i, j \in DOMAIN q : i < j => q[i] < q[j]

----------------------------------------------------------------------------
(* Servers and their heartbeats *)

\* sendHeartbeat() for s reaches the registry, which calls putServer().
Heard(s) == /\ items' = items \cup {s}
            /\ beatAge' = [beatAge EXCEPT ![s] = 0]

\* A server comes up and Heartbeat() sends the first heartbeat itself.
Start(s) ==
  /\ s \notin up
  /\ up' = up \cup {s}
  /\ timer' = [timer EXCEPT ![s] = HeartbeatPeriod]
  /\ IF reachable
       THEN Heard(s) /\ beating' = beating \cup {s}
       ELSE UNCHANGED <<registryVars, beating>>
  /\ UNCHANGED <<reachable, listVars, askVars>>

Crash(s) ==
  /\ s \in up
  /\ up' = up \ {s}
  /\ beating' = beating \ {s}
  /\ UNCHANGED <<registryVars, timer, reachable, listVars, askVars>>

\* The ticker fires; the goroutine ends with the first heartbeat that fails,
\* which the registry may have heard all the same.
Beat(s) ==
  /\ s \in beating
  /\ timer[s] = 0
  /\ timer' = [timer EXCEPT ![s] = HeartbeatPeriod]
  /\ IF reachable
       THEN Heard(s) /\ UNCHANGED beating
       ELSE /\ beating' = beating \ {s}
            /\ Heard(s) \/ UNCHANGED registryVars
  /\ UNCHANGED <<up, reachable, listVars, askVars>>

----------------------------------------------------------------------------
(* Discovery *)

\* aliveServers() for some other client: dead servers are deleted.
AliveServers ==
  /\ items # AliveItems
  /\ items' = AliveItems
  /\ UNCHANGED <<beatAge, serverVars, reachable, listVars, askVars>>

\* A new list; a list as it was keeps the history of picks.
SetList(new) ==
  /\ list' = new
  /\ listAge' = 0
  /\ picks' = IF new = list THEN picks ELSE [s \in Servers |-> 0]

RefreshSkipped == listAge < RefreshAfter

MutexIsFree == holder = Nobody

\* Get() and GetAll() begin with Refresh(), which returns at once when the
\* list is young and asks the registry otherwise, holding the mutex.
Refresh(c) ==
  /\ pc[c] = "idle"
  /\ MutexIsFree
  /\ \/ /\ RefreshSkipped
        /\ pc' = [pc EXCEPT ![c] = "get"]
        /\ UNCHANGED holder
     \/ /\ ~RefreshSkipped
        /\ pc' = [pc EXCEPT ![c] = "asking"]
        /\ holder' = c
  /\ UNCHANGED <<registryVars, serverVars, reachable, listVars, answer, delay>>

\* GET on the registry: aliveServers() deletes the dead and lists the rest.
Told(c) ==
  /\ pc[c] = "asking"
  /\ reachable
  /\ items' = AliveItems
  /\ answer' = InOrder(AliveItems)
  /\ pc' = [pc EXCEPT ![c] = "told"]
  /\ UNCHANGED <<beatAge, serverVars, reachable, listVars, holder, delay>>

\* Something else answers, without the header: an empty list.
ToldNothing(c) ==
  /\ pc[c] = "asking"
  /\ ~reachable
  /\ answer' = <<>>
  /\ pc' = [pc EXCEPT ![c] = "told"]
  /\ UNCHANGED <<registryVars, serverVars, reachable, listVars, holder, delay>>

Unlock == holder' = Nobody /\ answer' = <<>> /\ delay' = 0

\* The answer is stored and the mutex released before Get() goes on.
Refreshed(c) ==
  /\ pc[c] = "told"
  /\ SetList(answer)
  /\ given' = FALSE
  /\ Unlock
  /\ pc' = [pc EXCEPT ![c] = "get"]
  /\ UNCHANGED <<registryVars, serverVars, reachable, index>>

\* The request fails, before or after the registry handled it, and so does Get().
RefreshFails(c) ==
  /\ pc[c] \in {"asking", "told"}
  /\ ~reachable
  /\ Unlock
  /\ pc' = [pc EXCEPT ![c] = "idle"]
  /\ UNCHANGED <<registryVars, serverVars, reachable, listVars>>

IndexKept(n) == index % n
NextIndex(n) == (index + 1) % n

\* MultiServerDiscovery.Get(RoundRobinSelect): another getter may have had
\* the mutex since Refresh().
RoundRobin(c) ==
  /\ pc[c] = "get"
  /\ MutexIsFree
  /\ list # <<>>
  /\ pc' = [pc EXCEPT ![c] = "idle"]
  /\ LET n == Len(list)
         s == list[(index % n) + 1]
     IN  /\ picks[s] < MaxPicks
         /\ picks' = [picks EXCEPT ![s] = @ + 1]
         /\ index' = NextIndex(n)
  /\ UNCHANGED <<registryVars, serverVars, reachable, list, listAge, given,
                 holder, answer, delay>>

\* Get(RandomSelect), GetAll(), and Get() of an empty list: nothing changes.
OtherGet(c) ==
  /\ pc[c] = "get"
  /\ MutexIsFree
  /\ pc' = [pc EXCEPT ![c] = "idle"]
  /\ UNCHANGED <<registryVars, serverVars, reachable, listVars, holder, answer,
                 delay>>

\* Another goroutine gives the discovery a list of its own.
Update(S) ==
  /\ MutexIsFree
  /\ SetList(InOrder(S))
  /\ given' = TRUE
  /\ UNCHANGED <<registryVars, serverVars, reachable, index, askVars>>

----------------------------------------------------------------------------
(* Time and the network *)

Tick ==
  /\ \A s \in beating : timer[s] > 0
  /\ MutexIsFree \/ delay < MaxDelay
  /\ beatAge' = [s \in Servers |-> AtMost(beatAge[s] + 1, MaxBeatAge)]
  /\ timer' = [s \in Servers |-> IF s \in beating THEN timer[s] - 1 ELSE timer[s]]
  /\ listAge' = AtMost(listAge + 1, RefreshAfter)
  /\ delay' = IF MutexIsFree THEN 0 ELSE delay + 1
  /\ UNCHANGED <<items, up, beating, reachable, list, index, given, picks, pc,
                 holder, answer>>

NetworkFails == /\ reachable
                /\ reachable' = FALSE
                /\ UNCHANGED <<registryVars, serverVars, listVars, askVars>>

NetworkRecovers == /\ ~reachable
                   /\ reachable' = TRUE
                   /\ UNCHANGED <<registryVars, serverVars, listVars, askVars>>

----------------------------------------------------------------------------

Init ==
  /\ items = {}
  /\ beatAge = [s \in Servers |-> MaxBeatAge]
  /\ up = {}
  /\ beating = {}
  /\ timer = [s \in Servers |-> 0]
  /\ reachable = TRUE
  /\ list = <<>>
  /\ index \in 0 .. Cardinality(Servers)
  /\ listAge = RefreshAfter
  /\ given = FALSE
  /\ pc = [c \in Getters |-> "idle"]
  /\ holder = Nobody
  /\ answer = <<>>
  /\ delay = 0
  /\ picks = [s \in Servers |-> 0]

Next == \/ \E s \in Servers : Start(s) \/ Crash(s) \/ Beat(s)
        \/ AliveServers
        \/ \E c \in Getters : Refresh(c) \/ Told(c) \/ ToldNothing(c) \/ Refreshed(c)
                              \/ RefreshFails(c) \/ RoundRobin(c) \/ OtherGet(c)
        \/ \E S \in SUBSET Servers : Update(S)
        \/ Tick
        \/ NetworkFails
        \/ NetworkRecovers

Spec == Init /\ [][Next]_vars

\* Time goes on and tickers fire.
Fairness == WF_vars(Tick) /\ \A s \in Servers : WF_vars(Beat(s))

FairSpec == Spec /\ Fairness

----------------------------------------------------------------------------
(* Properties *)

\* The type of the state of GeeRegistry and of the discoveries.
TypeOK ==
  /\ items \subseteq Servers
  /\ beatAge \in [Servers -> 0 .. MaxBeatAge]
  /\ beating \subseteq up /\ up \subseteq Servers
  /\ timer \in [Servers -> 0 .. HeartbeatPeriod]
  /\ reachable \in BOOLEAN
  /\ list \in Seq(Servers)
  /\ index \in Nat
  /\ listAge \in 0 .. RefreshAfter
  /\ given \in BOOLEAN
  /\ pc \in [Getters -> {"idle", "asking", "told", "get"}]
  /\ holder \in Getters \cup {Nobody}
  /\ \A c \in Getters : pc[c] \in {"asking", "told"} <=> holder = c
  /\ answer \in Seq(Servers)
  /\ delay \in 0 .. MaxDelay
  /\ picks \in [Servers -> 0 .. MaxPicks]

\* The registry waits longer than the servers take between two heartbeats: its
\* timeout is no shorter than the default one if they keep the default duration.
EnoughTime == IF Duration = 0 THEN DefaultTimeout <= Timeout ELSE Duration < Timeout

\* If so, a server with a running heartbeat is in the registry at every moment:
\* whatever happens to the others and to requests for the list, and wherever a
\* sweep falls between two heartbeats, it is not removed (registry.go:50-64,
\* 95-110).
BeatingIsListed == EnoughTime => \A s \in beating : s \in items /\ Alive(s)

\* What the discovery has cached is no older than the two timeouts together:
\* a listed server was heard of less than Timeout before the list was made,
\* whoever expired entries in between (registry.go:50-64, discovery_gee.go:41-62).
ListIsFresh ==
  ~given /\ listAge < RefreshAfter =>
    \A i \in DOMAIN list : beatAge[list[i]] < Timeout + MaxDelay + listAge

\* Between two changes of the list round robin picks every server equally
\* often, give or take one, however many goroutines pick (discovery.go:57-75).
PicksAreEven ==
  \A i, j \in DOMAIN list : picks[list[i]] <= picks[list[j]] + 1

\* A server that runs stays known to a registry that can be reached: its
\* heartbeat keeps it alive (registry.go:12-13).
RunningIsListed ==
  \A s \in Servers :
    <>[](s \in up /\ reachable) => <>[](s \in items)

=============================================================================
