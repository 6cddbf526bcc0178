------------------------------ MODULE XClient ------------------------------
(***************************************************************************)
(* xclient.XClient: the cache of one Client per server address, shared by  *)
(* goroutines that Call and by those of one Broadcast.                     *)
(*                                                                         *)
(* A task is a goroutine in XClient.call: a caller, or the goroutine of    *)
(* Broadcast for a server, which is named by the address.  The mutex of    *)
(* XClient is the variable mu: dial() holds it while it connects.          *)
(*                                                                         *)
(* External: the connections, the servers, and the Discovery that yields   *)
(* addresses or an error.  Bound: Ids, the connections that can be made.   *)
(***************************************************************************)
EXTENDS Naturals, FiniteSets

CONSTANTS Callers, Addrs, Ids, None

Tasks == Callers \cup Addrs

ASSUME XClientAssumption == /\ Callers \cap Addrs = {}
                            /\ None \notin Tasks \cup Ids
                            /\ None \notin {"ok", "error", "canceled"}

VARIABLES
  mu,       \* holder of XClient.mu
  clients,  \* XClient.clients: address -> connection
  conn,     \* each connection: its address and what became of it
  pc, addr, \* where each task is, and the server it calls
  use,      \* the connection it calls through
  result,   \* what Client.Call or dial returned to it
  serving,  \* the tasks whose request a server is working on
  bcast,    \* the Broadcast: idle, waiting or returned
  wanted,   \* its caller gave it a reply to fill in
  e, reply, \* its error, and the server whose reply it copied
  canceled, \* its context is done
  parent    \* because the context of its caller is

connVars == <<mu, clients, conn>>
taskVars == <<pc, addr, use, result>>
bcastVars == <<bcast, wanted, e, reply, canceled, parent>>
vars == <<connVars, taskVars, serving, bcastVars>>

----------------------------------------------------------------------------
(* Helpers *)

Goto(t, label) == pc' = [pc EXCEPT ![t] = label]
\* Client.Call or dial() returns r.
Finish(t, r) == /\ result' = [result EXCEPT ![t] = r]
                /\ use' = [use EXCEPT ![t] = None]
                /\ Goto(t, "finish")

Unused == {i \in Ids : conn[i].state = "unused"}
\* A new connection: which of the unused ones stands for it is all the same.
Fresh == CHOOSE i \in Unused : TRUE
SetConn(i, state) == [conn EXCEPT ![i].state = state]

DialHolder(t) == t

----------------------------------------------------------------------------
(* XClient.Call, XClient.call *)

\* Discovery.Get has an error for the caller.
NoServer(c) ==
  /\ c \in Callers
  /\ pc[c] = "idle"
  /\ Finish(c, "error")
  /\ UNCHANGED <<connVars, addr, serving, bcastVars>>

\* It has an address.
Call(c, a) ==
  /\ pc[c] = "idle"
  /\ addr' = [addr EXCEPT ![c] = a]
  /\ Goto(c, "dial")
  /\ UNCHANGED <<connVars, use, result, serving, bcastVars>>

\* dial() finds a client that is available.
DialCached(t) ==
  /\ pc[t] = "dial"
  /\ mu = None
  /\ clients[addr[t]] # None
  /\ conn[clients[addr[t]]].state = "up"
  /\ use' = [use EXCEPT ![t] = clients[addr[t]]]
  /\ Goto(t, "send")
  /\ UNCHANGED <<connVars, addr, result, serving, bcastVars>>

UnavailableLeftOpen(t) == UNCHANGED conn
CloseUnavailable(t) == conn' = SetConn(clients[addr[t]], "closed")

\* It finds none, or one that is not: that one is closed and forgotten, and
\* the mutex is held until there is a new one.
DialStart(t) ==
  /\ pc[t] = "dial"
  /\ mu = None
  /\ mu' = DialHolder(t)
  /\ \/ clients[addr[t]] = None /\ UNCHANGED <<clients, conn>>
     \/ /\ clients[addr[t]] # None
        /\ conn[clients[addr[t]]].state # "up"
        /\ CloseUnavailable(t)
        /\ clients' = [clients EXCEPT ![addr[t]] = None]
  /\ Goto(t, "dialing")
  /\ UNCHANGED <<addr, use, result, serving, bcastVars>>

DialOk(t) ==
  /\ pc[t] = "dialing"
  /\ Unused # {}
  /\ conn' = [conn EXCEPT ![Fresh] = [addr |-> addr[t], state |-> "up"]]
  /\ clients' = [clients EXCEPT ![addr[t]] = Fresh]
  /\ use' = [use EXCEPT ![t] = Fresh]
  /\ mu' = None
  /\ Goto(t, "send")
  /\ UNCHANGED <<addr, result, serving, bcastVars>>

\* Dialing fails.  A connection refused, or one whose option could not be sent,
\* is gone; after a timeout, a status other than 200 or an unknown codec it
\* stays open with nobody to close it (the deferred Close in dialTimeout looks
\* at an err that is nil by then).
DialFails(t) ==
  /\ pc[t] = "dialing"
  /\ mu' = None
  /\ \/ UNCHANGED conn
     \/ /\ Unused # {}
        /\ conn' = [conn EXCEPT ![Fresh] = [addr |-> addr[t], state |-> "stray"]]
  /\ Finish(t, "error")
  /\ UNCHANGED <<clients, addr, serving, bcastVars>>

\* Client.Call sends the request first, even when the context is done.
Send(t) ==
  /\ pc[t] = "send"
  /\ \/ /\ conn[use[t]].state = "up"
        /\ serving' = serving \cup {t}
        /\ Goto(t, "wait")
        /\ UNCHANGED <<use, result>>
     \/ /\ conn[use[t]].state # "up"
        /\ Finish(t, "error")
        /\ UNCHANGED serving
  /\ UNCHANGED <<connVars, addr, bcastVars>>

\* The server is through; the task learns it if it still waits and the
\* connection still stands.
ServerDone(t, r) ==
  /\ t \in serving
  /\ serving' = serving \ {t}
  /\ IF pc[t] = "wait" /\ conn[use[t]].state = "up"
       THEN Finish(t, r)
       ELSE UNCHANGED <<pc, use, result>>
  /\ UNCHANGED <<connVars, addr, bcastVars>>

ConnectionLost(t) ==
  /\ pc[t] = "wait"
  /\ conn[use[t]].state # "up"
  /\ Finish(t, "error")
  /\ UNCHANGED <<connVars, addr, serving, bcastVars>>

\* The context of the call is done: for a goroutine of Broadcast the one that
\* they share, for a caller its own, at any time.
CallCanceled(t) ==
  /\ t \in Addrs => canceled
  /\ pc[t] = "wait"
  /\ Finish(t, "canceled")
  /\ UNCHANGED <<connVars, addr, serving, bcastVars>>

CallReturns(c) ==
  /\ c \in Callers
  /\ pc[c] = "finish"
  /\ Goto(c, "idle")
  /\ addr' = [addr EXCEPT ![c] = None]
  /\ result' = [result EXCEPT ![c] = None]
  /\ UNCHANGED <<connVars, use, serving, bcastVars>>

----------------------------------------------------------------------------
(* XClient.Broadcast *)

\* A goroutine for each of the servers GetAll() lists.  The reply is to be
\* filled in, or nil (w).
Broadcast(S, w) ==
  /\ bcast = "idle"
  /\ bcast' = "waiting"
  /\ wanted' = w
  /\ pc' = [t \in Tasks |-> IF t \in S THEN "dial" ELSE pc[t]]
  /\ UNCHANGED <<connVars, addr, use, result, serving, e, reply, canceled,
                 parent>>

\* GetAll() has an error.
NoServers ==
  /\ bcast = "idle"
  /\ bcast' = "returned"
  /\ e' = "error"
  /\ UNCHANGED <<connVars, taskVars, serving, wanted, reply, canceled, parent>>

CopyIfNoError == wanted /\ reply = None /\ e = None
\* Not replyDone, which is true from the start for a reply that is nil.
CopyReply == wanted /\ reply = None

LastError(r) == IF r # "ok" THEN r ELSE e
ErrorUnlessReplied(r) == IF r # "ok" /\ e = None /\ reply = None THEN r ELSE e
NextError(r) == IF r # "ok" /\ e = None THEN r ELSE e

\* What the goroutine does with its result under the mutex of Broadcast.
Collect(a) ==
  /\ a \in Addrs
  /\ pc[a] = "finish"
  /\ e' = NextError(result[a])
  /\ reply' = IF result[a] = "ok" /\ CopyReply THEN a ELSE reply
  /\ canceled' = (canceled \/ e' # e \/ reply' # reply)
  /\ Goto(a, "done")
  /\ UNCHANGED <<connVars, addr, use, result, serving, bcast, wanted, parent>>

WaitForAllAddrs == \A a \in Addrs : pc[a] = "done"
AllCollected == \A a \in Addrs : pc[a] \in {"idle", "done"}

\* wg.Wait() and the last cancel().
BroadcastReturns ==
  /\ bcast = "waiting"
  /\ AllCollected
  /\ bcast' = "returned"
  /\ canceled' = TRUE
  /\ UNCHANGED <<connVars, taskVars, serving, wanted, e, reply, parent>>

----------------------------------------------------------------------------

\* XClient.Close: nothing keeps a task from dialing again afterwards.
Close ==
  /\ mu = None
  /\ conn' = [i \in Ids |->
                IF \E a \in Addrs : clients[a] = i
                  THEN [conn[i] EXCEPT !.state = "closed"] ELSE conn[i]]
  /\ clients' = [a \in Addrs |-> None]
  /\ UNCHANGED <<mu, taskVars, serving, bcastVars>>

Break(i) ==
  /\ conn[i].state = "up"
  /\ conn' = SetConn(i, "down")
  /\ UNCHANGED <<mu, clients, taskVars, serving, bcastVars>>

ParentDone ==
  /\ ~parent
  /\ parent' = TRUE
  /\ canceled' = TRUE
  /\ UNCHANGED <<connVars, taskVars, serving, bcast, wanted, e, reply>>

----------------------------------------------------------------------------

Init ==
  /\ mu = None
  /\ clients = [a \in Addrs |-> None]
  /\ conn = [i \in Ids |-> [addr |-> None, state |-> "unused"]]
  /\ pc = [t \in Tasks |-> "idle"]
  /\ addr = [t \in Tasks |-> IF t \in Addrs THEN t ELSE None]
  /\ use = [t \in Tasks |-> None]
  /\ result = [t \in Tasks |-> None]
  /\ serving = {}
  /\ bcast = "idle"
  /\ wanted = FALSE
  /\ e = None
  /\ reply = None
  /\ canceled = FALSE
  /\ parent = FALSE

Step(t) == \/ DialCached(t)
           \/ DialStart(t)
           \/ DialOk(t)
           \/ DialFails(t)
           \/ Send(t)
           \/ ConnectionLost(t)
           \/ CallCanceled(t)
           \/ Collect(t)

Serve(t) == \E r \in {"ok", "error"} : ServerDone(t, r)

Next == \/ \E c \in Callers, a \in Addrs : Call(c, a)
        \/ \E t \in Tasks : Step(t) \/ Serve(t) \/ NoServer(t) \/ CallReturns(t)
        \/ \E S \in SUBSET Addrs, w \in BOOLEAN : Broadcast(S, w)
        \/ NoServers
        \/ BroadcastReturns
        \/ Close
        \/ \E i \in Ids : Break(i)
        \/ ParentDone

Spec == Init /\ [][Next]_vars

\* Goroutines run, a mutex is granted to one that keeps asking for it (dial()
\* lets callers in again and again), dialing ends and servers answer.
Fairness == /\ \A t \in Tasks : /\ SF_vars(DialCached(t) \/ DialStart(t))
                                /\ WF_vars(Step(t))
                                /\ WF_vars(Serve(t))
            /\ WF_vars(BroadcastReturns)

FairSpec == Spec /\ Fairness

----------------------------------------------------------------------------
(* Properties *)

Labels == {"idle", "dial", "dialing", "send", "wait", "finish", "done"}
Results == {"ok", "error", "canceled"}
States == {"unused", "up", "down", "closed", "stray"}

\* The type of the state of XClient and of a Broadcast (xclient.go:13-143).
TypeOK ==
  /\ mu \in Tasks \cup {None}
  /\ clients \in [Addrs -> Ids \cup {None}]
  /\ conn \in [Ids -> [addr : Addrs \cup {None}, state : States]]
  /\ pc \in [Tasks -> Labels]
  /\ addr \in [Tasks -> Addrs \cup {None}]
  /\ use \in [Tasks -> Ids \cup {None}]
  /\ result \in [Tasks -> Results \cup {None}]
  /\ serving \subseteq Tasks
  /\ bcast \in {"idle", "waiting", "returned"}
  /\ wanted \in BOOLEAN
  /\ e \in (Results \ {"ok"}) \cup {None}
  /\ reply \in Addrs \cup {None}
  /\ canceled \in BOOLEAN /\ parent \in BOOLEAN
  /\ mu # None <=> \E t \in Tasks : pc[t] = "dialing"

\* No client is leaked: one that a dial handed out and that is not closed is the
\* one the cache holds for its address, so that Close or the next dial() can
\* close it, however many goroutines find it missing or broken at once
\* (xclient.go:44-64).  The connections that a dial which failed leaves open are
\* no clients: nothing closes those (client.go:190-213).
NoLeakedClient ==
  \A i \in Ids :
    conn[i].state \in {"up", "down"} => clients[conn[i].addr] = i

\* A Broadcast reports success only if every server it called succeeded, what
\* it copied is the reply of one that did, and if one did there is a reply
\* unless none was wanted (xclient.go:113-143).
BroadcastResult ==
  bcast = "returned" =>
    LET called == {a \in Addrs : pc[a] = "done"}
        good == {a \in called : result[a] = "ok"}
    IN  /\ e = None => good = called
        /\ reply # None => reply \in good
        /\ wanted /\ good # {} => reply # None

\* The error of Broadcast is a cancellation of its own making only if a server
\* had already succeeded: the failure of a server is never hidden behind the
\* cancellations it causes (xclient.go:127-134).
OwnErrorFirst == e = "canceled" => reply # None \/ parent

\* Broadcast returns, though its servers fail, hang up or are canceled.
BroadcastEnds == bcast = "waiting" ~> bcast = "returned"

=============================================================================
