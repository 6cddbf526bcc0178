--------------------------- MODULE XClientProofs ---------------------------
(***************************************************************************)
(* What XClient promises, proved for any callers, servers and connections: *)
(* no client is leaked, and a Broadcast reports what its servers answered. *)
(***************************************************************************)
EXTENDS XClient, TLAPS

VarsType ==
  /\ mu \in Tasks \cup {None}
  /\ clients \in [Addrs -> Ids \cup {None}]
  /\ conn \in [Ids -> [addr : Addrs \cup {None}, state : States]]
  /\ pc \in [Tasks -> Labels]
  /\ addr \in [Tasks -> Addrs \cup {None}]
  /\ use \in [Tasks -> Ids \cup {None}]
  /\ result \in [Tasks -> Results \cup {None}]
  /\ serving \subseteq Tasks
  /\ bcast \in {"idle", "waiting", "returned"}
  /\ wanted \in BOOLEAN
  /\ e \in (Results \ {"ok"}) \cup {None}
  /\ reply \in Addrs \cup {None}
  /\ canceled \in BOOLEAN /\ parent \in BOOLEAN

\* Who connects holds the mutex, and the cache has nothing for its server.
MutexInv ==
  \A t \in Tasks : /\ pc[t] = "dialing" <=> mu = t
                   /\ pc[t] = "dialing" => clients[addr[t]] = None

\* A task that calls a server has one, a goroutine of Broadcast its own.
AddrInv == /\ \A t \in Tasks : pc[t] \notin {"idle", "finish"} => addr[t] \in Addrs
           /\ \A a \in Addrs : addr[a] = a

\* A connection belongs to a server, and a client is in the cache until it is
\* closed.
ConnInv ==
  /\ \A i \in Ids : conn[i].state # "unused" => conn[i].addr \in Addrs
  /\ \A a \in Addrs : clients[a] # None => conn[clients[a]].state # "unused"
  /\ NoLeakedClient

\* What is through has a result; only Broadcast collects results.
ResultInv ==
  /\ \A t \in Tasks : pc[t] \in {"finish", "done"} => result[t] \in Results
  /\ \A c \in Callers : pc[c] # "done"

\* What has been collected is in the error and the reply of the Broadcast.
CollectInv ==
  /\ \A a \in Addrs : pc[a] = "done" =>
       IF result[a] = "ok" THEN wanted => reply # None ELSE e # None
  /\ reply # None => pc[reply] = "done" /\ result[reply] = "ok"
  /\ bcast = "idle" => \A a \in Addrs : pc[a] = "idle"
  /\ bcast = "returned" => AllCollected

\* The context of the Broadcast is done for a reason.
CancelInv ==
  /\ \A a \in Addrs : result[a] = "canceled" => canceled
  /\ canceled => e # None \/ reply # None \/ parent \/ bcast = "returned"
  /\ OwnErrorFirst

IInv == /\ VarsType
        /\ MutexInv
        /\ AddrInv
        /\ ConnInv
        /\ ResultInv
        /\ CollectInv
        /\ CancelInv

USE XClientAssumption DEF Tasks, vars, connVars, taskVars, bcastVars, Goto,
    Finish, Unused, SetConn

----------------------------------------------------------------------------
\* The invariant holds at the start.
LEMMA InitInv == Init => IInv
<1> SUFFICES ASSUME Init PROVE IInv OBVIOUS
<1>1. VarsType
  BY DEF Init, VarsType, Tasks, Labels, Results, States
<1>2. MutexInv /\ AddrInv
  BY DEF Init, MutexInv, AddrInv
<1>3. ConnInv /\ ResultInv
  BY DEF Init, ConnInv, NoLeakedClient, ResultInv
<1>4. CollectInv /\ CancelInv
  BY DEF Init, CollectInv, CancelInv, OwnErrorFirst
<1> QED
  BY <1>1, <1>2, <1>3, <1>4 DEF IInv

\* A caller gets no address.
LEMMA NoServerStep ==
  ASSUME IInv, NEW t \in Tasks, NoServer(t)
  PROVE  IInv'
<1> USE DEF IInv, NoServer
<1>1. VarsType'
  BY DEF VarsType, Labels, Results, States
<1>2. MutexInv'
  BY DEF MutexInv, AddrInv, VarsType
<1>3. AddrInv'
  BY DEF AddrInv, VarsType
<1>4. ConnInv'
  BY DEF ConnInv, NoLeakedClient, MutexInv, AddrInv, VarsType, States
<1>5. ResultInv'
  BY DEF ResultInv, VarsType, Results
<1>6. CollectInv'
  BY DEF CollectInv, AllCollected, ResultInv, VarsType, AddrInv, Labels, Results
<1>7. CancelInv'
  BY DEF CancelInv, OwnErrorFirst, CollectInv, AllCollected, VarsType, Results, AddrInv
<1> QED
  BY <1>1, <1>2, <1>3, <1>4, <1>5, <1>6, <1>7

\* A call begins.
LEMMA CallStep ==
  ASSUME IInv, NEW c \in Callers, NEW a \in Addrs, Call(c, a)
  PROVE  IInv'
<1> USE DEF IInv, Call
<1>1. VarsType'
  BY DEF VarsType, Labels, Results, States
<1>2. MutexInv'
  BY DEF MutexInv, AddrInv, VarsType
<1>3. AddrInv'
  BY DEF AddrInv, VarsType
<1>4. ConnInv'
  BY DEF ConnInv, NoLeakedClient, MutexInv, AddrInv, VarsType, States
<1>5. ResultInv'
  BY DEF ResultInv, VarsType, Results
<1>6. CollectInv'
  BY DEF CollectInv, AllCollected, ResultInv, VarsType, AddrInv, Labels, Results
<1>7. CancelInv'
  BY DEF CancelInv, OwnErrorFirst, CollectInv, AllCollected, VarsType, Results, AddrInv
<1> QED
  BY <1>1, <1>2, <1>3, <1>4, <1>5, <1>6, <1>7

\* dial() finds a client.
LEMMA DialCachedStep ==
  ASSUME IInv, NEW t \in Tasks, DialCached(t)
  PROVE  IInv'
<1> USE DEF IInv, DialCached
<1>1. VarsType'
  BY DEF VarsType, AddrInv, Labels, Results, States
<1>2. MutexInv'
  BY DEF MutexInv, AddrInv, VarsType
<1>3. AddrInv'
  BY DEF AddrInv, VarsType
<1>4. ConnInv'
  BY DEF ConnInv, NoLeakedClient, MutexInv, AddrInv, VarsType, States
<1>5. ResultInv'
  BY DEF ResultInv, VarsType, Results
<1>6. CollectInv'
  BY DEF CollectInv, AllCollected, ResultInv, VarsType, AddrInv, Labels, Results
<1>7. CancelInv'
  BY DEF CancelInv, OwnErrorFirst, CollectInv, AllCollected, VarsType, Results, AddrInv
<1> QED
  BY <1>1, <1>2, <1>3, <1>4, <1>5, <1>6, <1>7

\* It takes the mutex and forgets a client that is not available.
LEMMA DialStartStep ==
  ASSUME IInv, NEW t \in Tasks, DialStart(t)
  PROVE  IInv'
<1> USE DEF IInv, DialStart, DialHolder, CloseUnavailable
<1>1. VarsType'
  <2>1. /\ pc' = [pc EXCEPT ![t] = "dialing"] /\ mu' = t
        /\ \/ UNCHANGED <<clients, conn>>
           \/ /\ clients' = [clients EXCEPT ![addr[t]] = None]
              /\ conn' = [conn EXCEPT ![clients[addr[t]]].state = "closed"]
        /\ UNCHANGED <<addr, use, result, serving, bcastVars>>
    BY DEF Goto, SetConn
  <2> HIDE DEF DialStart, CloseUnavailable
  <2>2. pc' \in [Tasks -> Labels]
    BY <2>1 DEF VarsType, Labels
  <2>3. clients' \in [Addrs -> Ids \cup {None}]
    BY <2>1 DEF VarsType
  <2>4. conn' \in [Ids -> [addr : Addrs \cup {None}, state : States]]
    BY <2>1 DEF VarsType, States
  <2> QED
    BY <2>1, <2>2, <2>3, <2>4 DEF VarsType
<1>2. MutexInv'
  BY DEF MutexInv, AddrInv, VarsType
<1>3. AddrInv'
  BY DEF AddrInv, VarsType
<1>4. ConnInv'
  <2>1. addr[t] \in Addrs
    BY DEF AddrInv
  <2>2. CASE clients[addr[t]] = None /\ UNCHANGED <<clients, conn>>
    BY <2>2 DEF ConnInv, NoLeakedClient
  <2>3. CASE clients[addr[t]] # None /\ CloseUnavailable(t)
             /\ clients' = [clients EXCEPT ![addr[t]] = None]
    <3>1. clients[addr[t]] \in Ids
      BY <2>1, <2>3 DEF VarsType
    <3>2. ASSUME NEW i \in Ids
          PROVE  /\ conn'[i].addr = conn[i].addr
                 /\ conn'[i].state = IF i = clients[addr[t]] THEN "closed" ELSE conn[i].state
      BY <2>3, <3>1 DEF VarsType
    <3>3. NoLeakedClient'
      <4>1. \A a \in Addrs : a # addr[t] => clients'[a] = clients[a]
        BY <2>3 DEF VarsType
      <4> SUFFICES ASSUME NEW i \in Ids, conn'[i].state \in {"up", "down"}
                   PROVE  clients'[conn'[i].addr] = i
        BY DEF NoLeakedClient
      <4>2. i # clients[addr[t]] /\ conn[i].state \in {"up", "down"}
        BY <3>2
      <4>3. clients[conn[i].addr] = i /\ conn[i].addr \in Addrs
        BY <4>2 DEF ConnInv, NoLeakedClient
      <4> QED
        BY <3>2, <4>1, <4>2, <4>3
    <3>4. \A i \in Ids : conn'[i].state # "unused" => conn'[i].addr \in Addrs
      <4> SUFFICES ASSUME NEW i \in Ids, conn'[i].state # "unused"
                   PROVE  conn[i].addr \in Addrs
        BY <3>2
      <4>1. CASE i = clients[addr[t]]
        BY <2>1, <2>3, <3>1, <4>1 DEF ConnInv
      <4>2. CASE i # clients[addr[t]]
        BY <3>2, <4>2 DEF ConnInv
      <4> QED BY <4>1, <4>2
    <3>5. \A a \in Addrs : clients'[a] # None => conn'[clients'[a]].state # "unused"
      <4> SUFFICES ASSUME NEW a \in Addrs, clients[a] # None
                   PROVE  conn'[clients[a]].state # "unused"
        BY <2>1, <2>3 DEF VarsType
      <4>1. clients[a] \in Ids /\ conn[clients[a]].state # "unused"
        BY DEF ConnInv, VarsType
      <4> QED
        BY <3>2, <4>1
    <3> QED
      BY <3>3, <3>4, <3>5 DEF ConnInv
  <2> QED
    BY <2>2, <2>3
<1>5. ResultInv'
  BY DEF ResultInv, VarsType, Results
<1>6. CollectInv'
  BY DEF CollectInv, AllCollected, ResultInv, VarsType, AddrInv, Labels, Results
<1>7. CancelInv'
  BY DEF CancelInv, OwnErrorFirst, CollectInv, AllCollected, VarsType, Results, AddrInv
<1> QED
  BY <1>1, <1>2, <1>3, <1>4, <1>5, <1>6, <1>7

\* What it has connected is cached: the cache held nothing meanwhile.
LEMMA DialOkStep ==
  ASSUME IInv, NEW t \in Tasks, DialOk(t)
  PROVE  IInv'
<1> USE DEF IInv, DialOk
<1>0. Fresh \in Ids /\ conn[Fresh].state = "unused" /\ addr[t] \in Addrs
  BY DEF Fresh, AddrInv
<1> HIDE DEF Unused
<1>1. VarsType'
  <2>1. /\ conn' = [conn EXCEPT ![Fresh] = [addr |-> addr[t], state |-> "up"]]
        /\ clients' = [clients EXCEPT ![addr[t]] = Fresh]
        /\ use' = [use EXCEPT ![t] = Fresh] /\ mu' = None
        /\ pc' = [pc EXCEPT ![t] = "send"]
        /\ UNCHANGED <<addr, result, serving, bcastVars>>
    BY DEF Goto
  <2> HIDE DEF DialOk
  <2>2. pc' \in [Tasks -> Labels]
    BY <2>1 DEF VarsType, Labels
  <2>3. clients' \in [Addrs -> Ids \cup {None}] /\ use' \in [Tasks -> Ids \cup {None}]
    BY <1>0, <2>1 DEF VarsType
  <2>4. conn' \in [Ids -> [addr : Addrs \cup {None}, state : States]]
    BY <1>0, <2>1 DEF VarsType, States
  <2> QED
    BY <2>1, <2>2, <2>3, <2>4 DEF VarsType
<1>2. MutexInv'
  BY DEF MutexInv, AddrInv, VarsType
<1>3. AddrInv'
  BY DEF AddrInv, VarsType
<1>4. ConnInv'
  <2>1. ASSUME NEW i \in Ids
        PROVE  /\ i # Fresh => conn'[i] = conn[i]
               /\ i = Fresh => conn'[i] = [addr |-> addr[t], state |-> "up"]
    BY <1>0 DEF VarsType
  <2>2. ASSUME NEW a \in Addrs
        PROVE  clients'[a] = IF a = addr[t] THEN Fresh ELSE clients[a]
    BY <1>0 DEF VarsType
  <2>3. clients[addr[t]] = None
    BY DEF MutexInv
  <2>4. \A a \in Addrs : clients[a] # None => clients[a] \in Ids
    BY DEF VarsType
  <2> HIDE DEF DialOk
  <2>5. NoLeakedClient'
    <3> SUFFICES ASSUME NEW i \in Ids, conn'[i].state \in {"up", "down"}
                 PROVE  clients'[conn'[i].addr] = i
      BY DEF NoLeakedClient
    <3>1. CASE i = Fresh
      BY <1>0, <2>1, <2>2, <3>1
    <3>2. CASE i # Fresh
      <4>1. conn'[i] = conn[i] /\ conn[i].addr \in Addrs /\ clients[conn[i].addr] = i
        BY <2>1, <3>2 DEF ConnInv, NoLeakedClient
      <4> QED
        BY <2>2, <2>3, <4>1
    <3> QED BY <3>1, <3>2
  <2>6. \A i \in Ids : conn'[i].state # "unused" => conn'[i].addr \in Addrs
    BY <1>0, <2>1 DEF ConnInv
  <2>7. \A a \in Addrs : clients'[a] # None => conn'[clients'[a]].state # "unused"
    BY <1>0, <2>1, <2>2, <2>4 DEF ConnInv
  <2> QED
    BY <2>5, <2>6, <2>7 DEF ConnInv
<1>5. ResultInv'
  BY DEF ResultInv, VarsType, Results
<1>6. CollectInv'
  BY DEF CollectInv, AllCollected, ResultInv, VarsType, AddrInv, Labels, Results
<1>7. CancelInv'
  BY DEF CancelInv, OwnErrorFirst, CollectInv, AllCollected, VarsType, Results, AddrInv
<1> QED
  BY <1>1, <1>2, <1>3, <1>4, <1>5, <1>6, <1>7

\* It cannot connect: a connection it leaves open is nobody's client.
LEMMA DialFailsStep ==
  ASSUME IInv, NEW t \in Tasks, DialFails(t)
  PROVE  IInv'
<1> USE DEF IInv, DialFails
<1>1. VarsType'
  BY DEF VarsType, Labels, Results, States
<1>2. MutexInv'
  BY DEF MutexInv, AddrInv, VarsType
<1>3. AddrInv'
  BY DEF AddrInv, VarsType
<1>4. ConnInv'
  <2>1. CASE UNCHANGED conn
    BY <2>1 DEF ConnInv, NoLeakedClient
  <2>2. CASE Unused # {}
             /\ conn' = [conn EXCEPT ![Fresh] = [addr |-> addr[t], state |-> "stray"]]
    <3>1. Fresh \in Ids /\ conn[Fresh].state = "unused" /\ addr[t] \in Addrs
      BY <2>2 DEF Fresh, AddrInv
    <3>2. ASSUME NEW i \in Ids
          PROVE  /\ i # Fresh => conn'[i] = conn[i]
                 /\ i = Fresh => conn'[i] = [addr |-> addr[t], state |-> "stray"]
      BY <2>2, <3>1 DEF VarsType
    <3>3. clients' = clients /\ \A a \in Addrs : clients[a] # None => clients[a] \in Ids
      BY DEF VarsType
    <3> HIDE DEF DialFails
    <3>4. NoLeakedClient'
      BY <3>2, <3>3 DEF ConnInv, NoLeakedClient
    <3>5. \A i \in Ids : conn'[i].state # "unused" => conn'[i].addr \in Addrs
      BY <3>1, <3>2 DEF ConnInv
    <3>6. \A a \in Addrs : clients'[a] # None => conn'[clients'[a]].state # "unused"
      BY <3>1, <3>2, <3>3 DEF ConnInv
    <3> QED
      BY <3>4, <3>5, <3>6 DEF ConnInv
  <2> QED
    BY <2>1, <2>2
<1>5. ResultInv'
  BY DEF ResultInv, VarsType, Results
<1>6. CollectInv'
  BY DEF CollectInv, AllCollected, ResultInv, VarsType, AddrInv, Labels, Results
<1>7. CancelInv'
  BY DEF CancelInv, OwnErrorFirst, CollectInv, AllCollected, VarsType, Results, AddrInv
<1> QED
  BY <1>1, <1>2, <1>3, <1>4, <1>5, <1>6, <1>7

\* A request is sent or not.
LEMMA SendStep ==
  ASSUME IInv, NEW t \in Tasks, Send(t)
  PROVE  IInv'
<1> USE DEF IInv, Send
<1>1. VarsType'
  <2>1. /\ \/ pc' = [pc EXCEPT ![t] = "wait"] /\ UNCHANGED <<use, result>>
           \/ /\ pc' = [pc EXCEPT ![t] = "finish"] /\ use' = [use EXCEPT ![t] = None]
              /\ result' = [result EXCEPT ![t] = "error"]
        /\ serving' \in {serving, serving \cup {t}}
        /\ UNCHANGED <<connVars, addr, bcastVars>>
    BY DEF Goto, Finish
  <2> HIDE DEF Send
  <2>2. pc' \in [Tasks -> Labels]
    BY <2>1 DEF VarsType, Labels
  <2>3. use' \in [Tasks -> Ids \cup {None}]
    BY <2>1 DEF VarsType
  <2>4. result' \in [Tasks -> Results \cup {None}]
    BY <2>1 DEF VarsType, Results
  <2> QED
    BY <2>1, <2>2, <2>3, <2>4 DEF VarsType
<1>2. MutexInv'
  BY DEF MutexInv, AddrInv, VarsType
<1>3. AddrInv'
  BY DEF AddrInv, VarsType
<1>4. ConnInv'
  BY DEF ConnInv, NoLeakedClient, MutexInv, AddrInv, VarsType, States
<1>5. ResultInv'
  BY DEF ResultInv, VarsType, Results
<1>6. CollectInv'
  BY DEF CollectInv, AllCollected, ResultInv, VarsType, AddrInv, Labels, Results
<1>7. CancelInv'
  BY DEF CancelInv, OwnErrorFirst, CollectInv, AllCollected, VarsType, Results, AddrInv
<1> QED
  BY <1>1, <1>2, <1>3, <1>4, <1>5, <1>6, <1>7

\* A server is through.
LEMMA ServerDoneStep ==
  ASSUME IInv, NEW t \in Tasks, NEW r \in {"ok", "error"}, ServerDone(t, r)
  PROVE  IInv'
<1> USE DEF IInv, ServerDone
<1>1. VarsType'
  BY DEF VarsType, Labels, Results, States
<1>2. MutexInv'
  BY DEF MutexInv, AddrInv, VarsType
<1>3. AddrInv'
  BY DEF AddrInv, VarsType
<1>4. ConnInv'
  BY DEF ConnInv, NoLeakedClient, MutexInv, AddrInv, VarsType, States
<1>5. ResultInv'
  BY DEF ResultInv, VarsType, Results
<1>6. CollectInv'
  BY DEF CollectInv, AllCollected, ResultInv, VarsType, AddrInv, Labels, Results
<1>7. CancelInv'
  BY DEF CancelInv, OwnErrorFirst, CollectInv, AllCollected, VarsType, Results, AddrInv
<1> QED
  BY <1>1, <1>2, <1>3, <1>4, <1>5, <1>6, <1>7

\* The connection of a call is gone.
LEMMA ConnectionLostStep ==
  ASSUME IInv, NEW t \in Tasks, ConnectionLost(t)
  PROVE  IInv'
<1> USE DEF IInv, ConnectionLost
<1>1. VarsType'
  BY DEF VarsType, Labels, Results, States
<1>2. MutexInv'
  BY DEF MutexInv, AddrInv, VarsType
<1>3. AddrInv'
  BY DEF AddrInv, VarsType
<1>4. ConnInv'
  BY DEF ConnInv, NoLeakedClient, MutexInv, AddrInv, VarsType, States
<1>5. ResultInv'
  BY DEF ResultInv, VarsType, Results
<1>6. CollectInv'
  BY DEF CollectInv, AllCollected, ResultInv, VarsType, AddrInv, Labels, Results
<1>7. CancelInv'
  BY DEF CancelInv, OwnErrorFirst, CollectInv, AllCollected, VarsType, Results, AddrInv
<1> QED
  BY <1>1, <1>2, <1>3, <1>4, <1>5, <1>6, <1>7

\* The Broadcast cancels a call.
LEMMA CallCanceledStep ==
  ASSUME IInv, NEW t \in Tasks, CallCanceled(t)
  PROVE  IInv'
<1> USE DEF IInv, CallCanceled
<1>1. VarsType'
  BY DEF VarsType, Labels, Results, States
<1>2. MutexInv'
  BY DEF MutexInv, AddrInv, VarsType
<1>3. AddrInv'
  BY DEF AddrInv, VarsType
<1>4. ConnInv'
  BY DEF ConnInv, NoLeakedClient, MutexInv, AddrInv, VarsType, States
<1>5. ResultInv'
  BY DEF ResultInv, VarsType, Results
<1>6. CollectInv'
  BY DEF CollectInv, AllCollected, ResultInv, VarsType, AddrInv, Labels, Results
<1>7. CancelInv'
  BY DEF CancelInv, OwnErrorFirst, CollectInv, AllCollected, VarsType, Results, AddrInv
<1> QED
  BY <1>1, <1>2, <1>3, <1>4, <1>5, <1>6, <1>7

\* A call returns to its caller.
LEMMA CallReturnsStep ==
  ASSUME IInv, NEW t \in Tasks, CallReturns(t)
  PROVE  IInv'
<1> USE DEF IInv, CallReturns
<1>1. VarsType'
  BY DEF VarsType, Labels, Results, States
<1>2. MutexInv'
  BY DEF MutexInv, AddrInv, VarsType
<1>3. AddrInv'
  BY DEF AddrInv, VarsType
<1>4. ConnInv'
  BY DEF ConnInv, NoLeakedClient, MutexInv, AddrInv, VarsType, States
<1>5. ResultInv'
  BY DEF ResultInv, VarsType, Results
<1>6. CollectInv'
  BY DEF CollectInv, AllCollected, ResultInv, VarsType, AddrInv, Labels, Results
<1>7. CancelInv'
  BY DEF CancelInv, OwnErrorFirst, CollectInv, AllCollected, VarsType, Results, AddrInv
<1> QED
  BY <1>1, <1>2, <1>3, <1>4, <1>5, <1>6, <1>7

\* A Broadcast begins.
LEMMA BroadcastStep ==
  ASSUME IInv, NEW S \in SUBSET Addrs, NEW w \in BOOLEAN, Broadcast(S, w)
  PROVE  IInv'
<1> USE DEF IInv, Broadcast
<1>1. VarsType'
  BY DEF VarsType, Labels, Results, States
<1>2. MutexInv'
  BY DEF MutexInv, CollectInv, VarsType
<1>3. AddrInv'
  BY DEF AddrInv, VarsType
<1>4. ConnInv'
  BY DEF ConnInv, NoLeakedClient, MutexInv, AddrInv, VarsType, States
<1>5. ResultInv'
  BY DEF ResultInv, VarsType, Results
<1>6. CollectInv'
  BY DEF CollectInv, AllCollected, ResultInv, VarsType, AddrInv, Labels, Results
<1>7. CancelInv'
  BY DEF CancelInv, OwnErrorFirst, CollectInv, AllCollected, VarsType, Results, AddrInv
<1> QED
  BY <1>1, <1>2, <1>3, <1>4, <1>5, <1>6, <1>7

\* A Broadcast gets no addresses.
LEMMA NoServersStep ==
  ASSUME IInv, NoServers
  PROVE  IInv'
<1> USE DEF IInv, NoServers
<1>1. VarsType'
  BY DEF VarsType, Labels, Results, States
<1>2. MutexInv'
  BY DEF MutexInv, AddrInv, VarsType
<1>3. AddrInv'
  BY DEF AddrInv, VarsType
<1>4. ConnInv'
  BY DEF ConnInv, NoLeakedClient, MutexInv, AddrInv, VarsType, States
<1>5. ResultInv'
  BY DEF ResultInv, VarsType, Results
<1>6. CollectInv'
  BY DEF CollectInv, AllCollected, ResultInv, VarsType, AddrInv, Labels, Results
<1>7. CancelInv'
  BY DEF CancelInv, OwnErrorFirst, CollectInv, AllCollected, VarsType, Results, AddrInv
<1> QED
  BY <1>1, <1>2, <1>3, <1>4, <1>5, <1>6, <1>7

\* A goroutine of Broadcast hands in its result.
LEMMA CollectStep ==
  ASSUME IInv, NEW t \in Tasks, Collect(t)
  PROVE  IInv'
<1> USE DEF IInv, Collect, NextError, CopyReply
<1>1. VarsType'
  BY DEF VarsType, Labels, Results, States
<1>2. MutexInv'
  BY DEF MutexInv, AddrInv, VarsType
<1>3. AddrInv'
  BY DEF AddrInv, VarsType
<1>4. ConnInv'
  BY DEF ConnInv, NoLeakedClient, MutexInv, AddrInv, VarsType, States
<1>5. ResultInv'
  BY DEF ResultInv, VarsType, Results
<1>6. CollectInv'
  <2>1. /\ t \in Addrs /\ pc[t] = "finish" /\ result[t] \in Results
        /\ \A a \in Tasks : pc'[a] = IF a = t THEN "done" ELSE pc[a]
        /\ UNCHANGED <<result, bcast, wanted>>
    BY DEF ResultInv, VarsType
  <2>2. bcast # "idle" /\ bcast # "returned"
    BY <2>1 DEF CollectInv, AllCollected
  <2>3. /\ e # None => e' # None
        /\ reply # None => reply' = reply
        /\ reply' # reply => reply' = t /\ result[t] = "ok"
        /\ IF result[t] = "ok" THEN wanted => reply' # None ELSE e' # None
    <3>1. t # None /\ result[t] # None
      BY <2>1 DEF Results
    <3> QED
      BY <2>1, <3>1
  <2>4. ASSUME NEW a \in Addrs, pc'[a] = "done"
        PROVE  IF result'[a] = "ok" THEN wanted' => reply' # None ELSE e' # None
    BY <2>1, <2>3, <2>4 DEF CollectInv
  <2>5. ASSUME reply' # None PROVE pc'[reply'] = "done" /\ result'[reply'] = "ok"
    BY <2>1, <2>3, <2>5 DEF CollectInv, VarsType
  <2> QED
    BY <2>1, <2>2, <2>4, <2>5 DEF CollectInv
<1>7. CancelInv'
  BY DEF CancelInv, OwnErrorFirst, CollectInv, AllCollected, VarsType, Results, AddrInv
<1> QED
  BY <1>1, <1>2, <1>3, <1>4, <1>5, <1>6, <1>7

\* The Broadcast returns.
LEMMA BroadcastReturnsStep ==
  ASSUME IInv, BroadcastReturns
  PROVE  IInv'
<1> USE DEF IInv, BroadcastReturns
<1>1. VarsType'
  BY DEF VarsType, Labels, Results, States
<1>2. MutexInv'
  BY DEF MutexInv, AddrInv, VarsType
<1>3. AddrInv'
  BY DEF AddrInv, VarsType
<1>4. ConnInv'
  BY DEF ConnInv, NoLeakedClient, MutexInv, AddrInv, VarsType, States
<1>5. ResultInv'
  BY DEF ResultInv, VarsType, Results
<1>6. CollectInv'
  BY DEF CollectInv, AllCollected, ResultInv, VarsType, AddrInv, Labels, Results
<1>7. CancelInv'
  BY DEF CancelInv, OwnErrorFirst, CollectInv, AllCollected, VarsType, Results, AddrInv
<1> QED
  BY <1>1, <1>2, <1>3, <1>4, <1>5, <1>6, <1>7

\* All clients are closed and forgotten.
LEMMA CloseStep ==
  ASSUME IInv, Close
  PROVE  IInv'
<1> USE DEF IInv, Close
<1>1. VarsType'
  BY DEF VarsType, Labels, Results, States
<1>2. MutexInv'
  BY DEF MutexInv, AddrInv, VarsType
<1>3. AddrInv'
  BY DEF AddrInv, VarsType
<1>4. ConnInv'
  <2>1. ASSUME NEW i \in Ids
        PROVE  /\ conn'[i].addr = conn[i].addr
               /\ conn'[i].state = IF \E a \in Addrs : clients[a] = i THEN "closed"
                                   ELSE conn[i].state
    BY DEF VarsType
  <2>2. NoLeakedClient'
    <3> SUFFICES ASSUME NEW i \in Ids, conn'[i].state \in {"up", "down"} PROVE FALSE
      BY DEF NoLeakedClient
    <3>1. conn[i].state \in {"up", "down"} /\ \A a \in Addrs : clients[a] # i
      BY <2>1
    <3>2. conn[i].addr \in Addrs /\ clients[conn[i].addr] = i
      BY <3>1 DEF ConnInv, NoLeakedClient
    <3> QED
      BY <3>1, <3>2
  <2>3. \A i \in Ids : conn'[i].state # "unused" => conn'[i].addr \in Addrs
    <3> SUFFICES ASSUME NEW i \in Ids, conn'[i].state # "unused"
                   PROVE  conn[i].addr \in Addrs
      BY <2>1
    <3>1. conn[i].state # "unused"
      BY <2>1 DEF ConnInv
    <3> QED
      BY <3>1 DEF ConnInv
  <2> QED
    BY <2>2, <2>3 DEF ConnInv
<1>5. ResultInv'
  BY DEF ResultInv, VarsType, Results
<1>6. CollectInv'
  BY DEF CollectInv, AllCollected, ResultInv, VarsType, AddrInv, Labels, Results
<1>7. CancelInv'
  BY DEF CancelInv, OwnErrorFirst, CollectInv, AllCollected, VarsType, Results, AddrInv
<1> QED
  BY <1>1, <1>2, <1>3, <1>4, <1>5, <1>6, <1>7

\* A connection breaks.
LEMMA BreakStep ==
  ASSUME IInv, NEW i \in Ids, Break(i)
  PROVE  IInv'
<1> USE DEF IInv, Break
<1>1. VarsType'
  BY DEF VarsType, Labels, Results, States
<1>2. MutexInv'
  BY DEF MutexInv, AddrInv, VarsType
<1>3. AddrInv'
  BY DEF AddrInv, VarsType
<1>4. ConnInv'
  BY DEF ConnInv, NoLeakedClient, MutexInv, AddrInv, VarsType, States
<1>5. ResultInv'
  BY DEF ResultInv, VarsType, Results
<1>6. CollectInv'
  BY DEF CollectInv, AllCollected, ResultInv, VarsType, AddrInv, Labels, Results
<1>7. CancelInv'
  BY DEF CancelInv, OwnErrorFirst, CollectInv, AllCollected, VarsType, Results, AddrInv
<1> QED
  BY <1>1, <1>2, <1>3, <1>4, <1>5, <1>6, <1>7

\* The context of the caller of Broadcast is done.
LEMMA ParentDoneStep ==
  ASSUME IInv, ParentDone
  PROVE  IInv'
<1> USE DEF IInv, ParentDone
<1>1. VarsType'
  BY DEF VarsType, Labels, Results, States
<1>2. MutexInv'
  BY DEF MutexInv, AddrInv, VarsType
<1>3. AddrInv'
  BY DEF AddrInv, VarsType
<1>4. ConnInv'
  BY DEF ConnInv, NoLeakedClient, MutexInv, AddrInv, VarsType, States
<1>5. ResultInv'
  BY DEF ResultInv, VarsType, Results
<1>6. CollectInv'
  BY DEF CollectInv, AllCollected, ResultInv, VarsType, AddrInv, Labels, Results
<1>7. CancelInv'
  BY DEF CancelInv, OwnErrorFirst, CollectInv, AllCollected, VarsType, Results, AddrInv
<1> QED
  BY <1>1, <1>2, <1>3, <1>4, <1>5, <1>6, <1>7

\* Nothing happens.
LEMMA IdleStep ==
  ASSUME IInv, UNCHANGED vars
  PROVE  IInv'
<1> USE DEF IInv
<1>1. VarsType'
  BY DEF VarsType, Labels, Results, States
<1>2. MutexInv'
  BY DEF MutexInv, AddrInv, VarsType
<1>3. AddrInv'
  BY DEF AddrInv, VarsType
<1>4. ConnInv'
  BY DEF ConnInv, NoLeakedClient, MutexInv, AddrInv, VarsType, States
<1>5. ResultInv'
  BY DEF ResultInv, VarsType, Results
<1>6. CollectInv'
  BY DEF CollectInv, AllCollected, ResultInv, VarsType, AddrInv, Labels, Results
<1>7. CancelInv'
  BY DEF CancelInv, OwnErrorFirst, CollectInv, AllCollected, VarsType, Results, AddrInv
<1> QED
  BY <1>1, <1>2, <1>3, <1>4, <1>5, <1>6, <1>7

\* Every step preserves the invariant.
LEMMA NextInv == IInv /\ [Next]_vars => IInv'
BY CallStep, DialCachedStep, DialStartStep, DialOkStep, DialFailsStep,
   SendStep, ServerDoneStep, ConnectionLostStep, CallCanceledStep,
   CallReturnsStep, NoServerStep, BroadcastStep, NoServersStep, CollectStep, BroadcastReturnsStep,
   CloseStep, BreakStep, ParentDoneStep, IdleStep DEF Next, Step, Serve

----------------------------------------------------------------------------
(* The theorems *)

\* In every reachable state the mutex, the cache of clients, the connections
\* and what the Broadcast has collected fit together (xclient.go:44-143).
THEOREM IInvCorrect == Spec => []IInv
<1>1. Init => IInv
  BY InitInv
<1>2. IInv /\ [Next]_vars => IInv'
  BY NextInv
<1> QED
  BY <1>1, <1>2, PTL DEF Spec

\* The state of XClient has its type, and the mutex is held just while a task
\* connects (xclient.go:44-64).
THEOREM TypeCorrect == Spec => []TypeOK
<1>1. IInv => TypeOK
  <2> SUFFICES ASSUME IInv PROVE TypeOK OBVIOUS
  <2>1. mu # None <=> \E t \in Tasks : pc[t] = "dialing"
    BY DEF IInv, VarsType, MutexInv
  <2> QED
    BY <2>1 DEF IInv, VarsType, TypeOK
<1> QED
  BY <1>1, IInvCorrect, PTL

\* A client that dial handed out and that is not closed is the cached one of its
\* address, also after dials that failed and left connections of their own
\* (xclient.go:44-64, client.go:190-213).
THEOREM NoLeakedClientCorrect == Spec => []NoLeakedClient
<1>1. IInv => NoLeakedClient
  BY DEF IInv, ConnInv
<1> QED
  BY <1>1, IInvCorrect, PTL

\* A Broadcast that reports success had no server that failed, its reply is that
\* of one which succeeded, and if one did and a reply was wanted there is one
\* (xclient.go:113-143).
THEOREM BroadcastResultCorrect == Spec => []BroadcastResult
<1>1. IInv => BroadcastResult
  <2> SUFFICES ASSUME IInv, bcast = "returned" PROVE BroadcastResult
    BY DEF BroadcastResult
  <2>1. \A a \in Addrs : pc[a] = "done" =>
          IF result[a] = "ok" THEN wanted => reply # None ELSE e # None
    BY DEF IInv, CollectInv
  <2>2. reply # None => /\ reply \in Addrs /\ pc[reply] = "done"
                        /\ result[reply] = "ok"
    BY DEF IInv, VarsType, CollectInv
  <2> QED
    BY <2>1, <2>2 DEF BroadcastResult
<1> QED
  BY <1>1, IInvCorrect, PTL

\* A Broadcast whose error is a cancellation has a reply, or was canceled by its
\* caller (xclient.go:127-134).
THEOREM OwnErrorFirstCorrect == Spec => []OwnErrorFirst
<1>1. IInv => OwnErrorFirst
  BY DEF IInv, CancelInv
<1> QED
  BY <1>1, IInvCorrect, PTL

=============================================================================
