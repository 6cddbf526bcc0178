----------------------------- MODULE RpcClient -----------------------------
(***************************************************************************)
(* geerpc.Client: one connection shared by goroutines that send requests   *)
(* and by the receive goroutine that completes them.                       *)
(*                                                                         *)
(* SyncCalls are made with Client.Call, each in a goroutine of its own     *)
(* with a private Done channel of capacity 1.  AsyncCalls are made with    *)
(* Client.Go by one user goroutine that gives them all one Done channel of *)
(* capacity DoneCap and also drains it.                                    *)
(*                                                                         *)
(* The sending mutex is the variable sending (its holder).  The mutex mu   *)
(* is held across several steps by terminateCalls only: every other        *)
(* critical section of mu is one action here, guarded by MuFree.           *)
(*                                                                         *)
(* External to the client: the connection, the server behind it and the    *)
(* gob stream.  A response in flight is a member of wire; which response   *)
(* is read next is the server's choice of order.                           *)
(***************************************************************************)
EXTENDS Naturals, FiniteSets

CONSTANTS SyncCalls, AsyncCalls, DoneCap, None, Receiver

Calls == SyncCalls \cup AsyncCalls

ASSUME CallsAssumption == /\ SyncCalls \cap AsyncCalls = {}
                          /\ IsFiniteSet(AsyncCalls)
                          /\ None \notin Calls
                          /\ Receiver \notin Calls
                          /\ Receiver # None
ASSUME DoneCapAssumption == DoneCap \in Nat \ {0}

VARIABLES
  sending,      \* holder of Client.sending: a call, Receiver or None
  seq,          \* Client.seq
  pending,      \* Client.pending: sequence number -> call
  closing, shutdown,
  pc,           \* where each call's goroutine is
  callSeq,      \* Call.Seq, 0 until registered
  failed,       \* Call.Error # nil
  reply,        \* the call whose result was decoded into Call.Reply
  doneq,        \* calls sent on their Done channel and not yet received
  completions,  \* how often done() completed each call (history)
  rpc,          \* where the receive goroutine is
  resp,         \* the header receive() read last
  rcall,        \* the call receive() removed for it, or None
  todo,         \* sequence numbers terminateCalls has still to visit
  open,         \* the connection is open
  reqs,         \* complete requests on their way to the server
  wire,         \* responses on their way to the client
  served        \* calls the server has executed (history)

clientVars == <<sending, seq, pending, closing, shutdown>>
callVars == <<pc, callSeq, failed, reply, doneq, completions>>
recvVars == <<rpc, resp, rcall, todo>>
netVars == <<open, reqs, wire, served>>
vars == <<clientVars, callVars, recvVars, netVars>>

----------------------------------------------------------------------------
(* Helpers *)

Put(f, x, v) == [y \in DOMAIN f \cup {x} |-> IF y = x THEN v ELSE f[y]]
EntryKept(f, x) == f
Without(f, x) == [y \in DOMAIN f \ {x} |-> f[y]]

InGo == {"send", "write", "unregister", "fail"}

\* The goroutine that issues and drains the asynchronous calls is inside Go.
UserBusy == \E c \in AsyncCalls : pc[c] \in InGo

MuIgnored == TRUE
MuFree == rpc # "drain"

\* The channel send in done() does not block.
Room(c) == IF c \in SyncCalls THEN c \notin doneq
           ELSE Cardinality(doneq \cap AsyncCalls) < DoneCap

Signal(c) == /\ Room(c)
             /\ doneq' = doneq \cup {c}
             /\ completions' = [completions EXCEPT ![c] = @ + 1]

Goto(c, label) == pc' = [pc EXCEPT ![c] = label]

RejectingClosingOnly == closing
Rejecting == closing \/ shutdown

SeqNotAdvanced == seq
NextSeq == seq + 1

Response(r, isError) == [of |-> r.of, seq |-> r.seq, error |-> isError]

----------------------------------------------------------------------------
(* Go and Call *)

Begin(c) ==
  /\ pc[c] = "idle"
  /\ c \in AsyncCalls => ~UserBusy
  /\ Goto(c, "send")
  /\ UNCHANGED <<clientVars, callSeq, failed, reply, doneq, completions,
                 recvVars, netVars>>

\* send() takes the sending mutex and registerCall() takes mu.
RegisterCall(c) ==
  /\ pc[c] = "send"
  /\ sending = None
  /\ MuFree
  /\ sending' = c
  /\ \/ /\ Rejecting
        /\ failed' = [failed EXCEPT ![c] = TRUE]
        /\ Goto(c, "fail")
        /\ UNCHANGED <<seq, pending, callSeq>>
     \/ /\ ~Rejecting
        /\ callSeq' = [callSeq EXCEPT ![c] = seq]
        /\ pending' = Put(pending, seq, c)
        /\ seq' = NextSeq
        /\ Goto(c, "write")
        /\ UNCHANGED failed
  /\ UNCHANGED <<closing, shutdown, reply, doneq, completions,
                 recvVars, netVars>>

\* cc.Write succeeds and the whole request reaches the server.
WriteDelivered(c) ==
  /\ pc[c] = "write"
  /\ open
  /\ reqs' = reqs \cup {[of |-> c, seq |-> callSeq[c]]}
  /\ sending' = None
  /\ Goto(c, "wait")
  /\ UNCHANGED <<seq, pending, closing, shutdown, callSeq, failed, reply,
                 doneq, completions, recvVars, open, wire, served>>

\* The connection is gone, but the request fits the buffer of the codec and
\* the error of Flush is dropped: Write returns nil.
WriteLost(c) ==
  /\ pc[c] = "write"
  /\ ~open
  /\ sending' = None
  /\ Goto(c, "wait")
  /\ UNCHANGED <<seq, pending, closing, shutdown, callSeq, failed, reply,
                 doneq, completions, recvVars, netVars>>

\* An encoding error (arguments gob refuses, or the sticky error of the
\* buffer): the codec closes the connection, send() goes on to removeCall.
WriteFailed(c) ==
  /\ pc[c] = "write"
  /\ open' = FALSE
  /\ Goto(c, "unregister")
  /\ UNCHANGED <<clientVars, callSeq, failed, reply, doneq, completions,
                 recvVars, reqs, wire, served>>

\* removeCall() in send(): a call somebody else removed is left to them.
RemoveFailed(c) ==
  /\ pc[c] = "unregister"
  /\ MuFree
  /\ pending' = Without(pending, callSeq[c])
  /\ IF callSeq[c] \in DOMAIN pending
       THEN /\ failed' = [failed EXCEPT ![c] = TRUE]
            /\ Goto(c, "fail")
            /\ UNCHANGED sending
       ELSE /\ sending' = None
            /\ Goto(c, "wait")
            /\ UNCHANGED failed
  /\ UNCHANGED <<seq, closing, shutdown, callSeq, reply, doneq, completions,
                 recvVars, netVars>>

\* call.done() in send(), with the sending mutex held.
FailDone(c) ==
  /\ pc[c] = "fail"
  /\ Signal(c)
  /\ sending' = None
  /\ Goto(c, "wait")
  /\ UNCHANGED <<seq, pending, closing, shutdown, callSeq, failed, reply,
                 recvVars, netVars>>

\* The select of Call: the Done channel.
CallReturn(c) ==
  /\ c \in SyncCalls
  /\ pc[c] = "wait"
  /\ c \in doneq
  /\ doneq' = doneq \ {c}
  /\ Goto(c, "returned")
  /\ UNCHANGED <<clientVars, callSeq, failed, reply, completions, recvVars,
                 netVars>>

\* The select of Call: the context, whenever it is done.
CtxDone(c) ==
  /\ c \in SyncCalls
  /\ pc[c] = "wait"
  /\ MuFree
  /\ pending' = Without(pending, callSeq[c])
  /\ Goto(c, "cancelled")
  /\ UNCHANGED <<sending, seq, closing, shutdown, callSeq, failed, reply,
                 doneq, completions, recvVars, netVars>>

\* The user of Go receives a call from the shared Done channel.
Drain(c) ==
  /\ c \in AsyncCalls
  /\ ~UserBusy
  /\ pc[c] = "wait"
  /\ c \in doneq
  /\ doneq' = doneq \ {c}
  /\ Goto(c, "returned")
  /\ UNCHANGED <<clientVars, callSeq, failed, reply, completions, recvVars,
                 netVars>>

Close ==
  /\ MuFree
  /\ ~closing
  /\ closing' = TRUE
  /\ open' = FALSE
  /\ UNCHANGED <<sending, seq, pending, shutdown, callVars, recvVars, reqs,
                 wire, served>>

----------------------------------------------------------------------------
(* The receive goroutine *)

\* What was read before the connection went down may still be buffered.
ReadHeader(r) ==
  /\ rpc = "header"
  /\ r \in wire
  /\ wire' = wire \ {r}
  /\ resp' = r
  /\ rpc' = "remove"
  /\ UNCHANGED <<clientVars, callVars, rcall, todo, open, reqs, served>>

ReceiveStopsSilently == "end"
AfterReadError == "terminate"

ReadHeaderError ==
  /\ rpc = "header"
  /\ ~open
  /\ rpc' = AfterReadError
  /\ UNCHANGED <<clientVars, callVars, resp, rcall, todo, netVars>>

RemoveForReceive ==
  /\ rpc = "remove"
  /\ rcall' = IF resp.seq \in DOMAIN pending THEN pending[resp.seq] ELSE None
  /\ pending' = Without(pending, resp.seq)
  /\ rpc' = "body"
  /\ UNCHANGED <<sending, seq, closing, shutdown, callVars, resp, todo,
                 netVars>>

\* Nobody waits for this response any more: its body is discarded.
DiscardBody ==
  /\ rpc = "body"
  /\ rcall = None
  /\ \/ rpc' = "header"
     \/ ~open /\ rpc' = AfterReadError
  /\ UNCHANGED <<clientVars, callVars, resp, rcall, todo, netVars>>

\* The server reports an error: the call fails, the body is discarded.  rpc
\* remembers whether reading the body failed too.
ReadErrorBody ==
  /\ rpc = "body"
  /\ rcall # None
  /\ resp.error
  /\ failed' = [failed EXCEPT ![rcall] = TRUE]
  /\ \/ rpc' = "done"
     \/ ~open /\ rpc' = "doneErr"
  /\ UNCHANGED <<clientVars, pc, callSeq, reply, doneq, completions, resp,
                 rcall, todo, netVars>>

\* The result is decoded into Reply, or decoding fails: a lost connection or
\* a Reply of another type than the result.
ReadReplyBody ==
  /\ rpc = "body"
  /\ rcall # None
  /\ ~resp.error
  /\ \/ /\ reply' = [reply EXCEPT ![rcall] = resp.of]
        /\ rpc' = "done"
        /\ UNCHANGED failed
     \/ /\ failed' = [failed EXCEPT ![rcall] = TRUE]
        /\ rpc' = "doneErr"
        /\ UNCHANGED reply
  /\ UNCHANGED <<clientVars, pc, callSeq, doneq, completions, resp, rcall,
                 todo, netVars>>

\* call.done() in receive(), with no mutex held.
ReceiveDone ==
  /\ rpc \in {"done", "doneErr"}
  /\ Signal(rcall)
  /\ rcall' = None
  /\ rpc' = IF rpc = "done" THEN "header" ELSE AfterReadError
  /\ UNCHANGED <<clientVars, pc, callSeq, failed, reply, resp, todo, netVars>>

TerminateWithoutSending == TRUE
TerminateMayStart == sending = None

\* terminateCalls() takes sending, then mu, and sets shutdown.
TerminateLock ==
  /\ rpc = "terminate"
  /\ TerminateMayStart
  /\ sending' = Receiver
  /\ shutdown' = TRUE
  /\ todo' = DOMAIN pending
  /\ rpc' = "drain"
  /\ UNCHANGED <<seq, pending, closing, callVars, resp, rcall, netVars>>

TerminatedWithoutError(c) == failed
Terminated(c) == [failed EXCEPT ![c] = TRUE]

\* One iteration of its loop over pending; no entry is removed.
TerminateOne(s) ==
  /\ rpc = "drain"
  /\ s \in todo
  /\ failed' = Terminated(pending[s])
  /\ Signal(pending[s])
  /\ todo' = todo \ {s}
  /\ UNCHANGED <<clientVars, pc, callSeq, reply, rpc, resp, rcall, netVars>>

TerminateEnd ==
  /\ rpc = "drain"
  /\ todo = {}
  /\ sending' = None
  /\ rpc' = "end"
  /\ UNCHANGED <<seq, pending, closing, shutdown, callVars, resp, rcall,
                 todo, netVars>>

Receive == \/ \E r \in wire : ReadHeader(r)
           \/ ReadHeaderError
           \/ RemoveForReceive
           \/ DiscardBody
           \/ ReadErrorBody
           \/ ReadReplyBody
           \/ ReceiveDone
           \/ TerminateLock
           \/ \E s \in todo : TerminateOne(s)
           \/ TerminateEnd

----------------------------------------------------------------------------
(* The server and the network, external *)

Respond(r, isError) ==
  /\ r \in reqs
  /\ reqs' = reqs \ {r}
  /\ served' = served \cup {r.of}
  /\ wire' = IF open THEN wire \cup {Response(r, isError)} ELSE wire
  /\ UNCHANGED <<clientVars, callVars, recvVars, open>>

Break ==
  /\ open
  /\ open' = FALSE
  /\ UNCHANGED <<clientVars, callVars, recvVars, reqs, wire, served>>

----------------------------------------------------------------------------

Init ==
  /\ sending = None
  /\ seq = 1
  /\ pending = [s \in {} |-> None]
  /\ closing = FALSE
  /\ shutdown = FALSE
  /\ pc = [c \in Calls |-> "idle"]
  /\ callSeq = [c \in Calls |-> 0]
  /\ failed = [c \in Calls |-> FALSE]
  /\ reply = [c \in Calls |-> None]
  /\ doneq = {}
  /\ completions = [c \in Calls |-> 0]
  /\ rpc = "header"
  /\ resp = [of |-> None, seq |-> 0, error |-> FALSE]
  /\ rcall = None
  /\ todo = {}
  /\ open = TRUE
  /\ reqs = {}
  /\ wire = {}
  /\ served = {}

Send(c) == \/ RegisterCall(c)
           \/ WriteDelivered(c)
           \/ WriteLost(c)
           \/ WriteFailed(c)
           \/ RemoveFailed(c)
           \/ FailDone(c)

Serve == \E r \in reqs, isError \in BOOLEAN : Respond(r, isError)

\* Every call has ended: the program may stop here.
Quiesce == /\ \A c \in Calls : pc[c] \in {"returned", "cancelled"}
           /\ UNCHANGED vars

Next == \/ \E c \in Calls : \/ Begin(c)
                            \/ Send(c)
                            \/ CallReturn(c)
                            \/ CtxDone(c)
                            \/ Drain(c)
        \/ Close
        \/ Receive
        \/ Serve
        \/ Break
        \/ Quiesce

Spec == Init /\ [][Next]_vars

(***************************************************************************)
(* Fairness: runnable goroutines run, and a mutex a finite number of       *)
(* goroutines contend for once each is granted.  The server answers what   *)
(* it was sent.  Nothing forces a call to be made, a context to end, the   *)
(* connection to break or be closed.                                       *)
(***************************************************************************)
Fairness == /\ \A c \in Calls : /\ WF_vars(Send(c))
                                /\ WF_vars(CallReturn(c))
                                /\ WF_vars(Drain(c))
            /\ WF_vars(Receive)
            /\ WF_vars(Serve)

FairSpec == Spec /\ Fairness

----------------------------------------------------------------------------
(* Properties *)

Labels == InGo \cup {"idle", "wait", "returned", "cancelled"}
RecvLabels == {"header", "remove", "body", "done", "doneErr", "terminate",
               "drain", "end"}

\* The type of the state of Client and Call (client.go:19-42).
TypeOK ==
  /\ sending \in Calls \cup {Receiver, None}
  /\ seq \in Nat \ {0}
  /\ DOMAIN pending \subseteq Nat
  /\ \A s \in DOMAIN pending : pending[s] \in Calls
  /\ closing \in BOOLEAN
  /\ shutdown \in BOOLEAN
  /\ pc \in [Calls -> Labels]
  /\ callSeq \in [Calls -> Nat]
  /\ failed \in [Calls -> BOOLEAN]
  /\ reply \in [Calls -> Calls \cup {None}]
  /\ doneq \subseteq Calls
  /\ completions \in [Calls -> Nat]
  /\ rpc \in RecvLabels
  /\ resp \in [of : Calls \cup {None}, seq : Nat, error : BOOLEAN]
  /\ rcall \in Calls \cup {None}
  /\ rpc \in {"done", "doneErr"} => rcall # None
  /\ todo \subseteq (IF rpc = "drain" THEN DOMAIN pending ELSE {})
  /\ open \in BOOLEAN
  /\ reqs \subseteq [of : Calls, seq : Nat]
  /\ wire \subseteq [of : Calls, seq : Nat, error : BOOLEAN]
  /\ served \subseteq Calls

\* A call is completed at most once although send(), receive() and
\* terminateCalls() can each complete it and terminateCalls() leaves it in
\* pending: a second completion would block on the Done channel of Call, or
\* be taken for another call's (client.go:86-126,239-247).
CompletedAtMostOnce == \A c \in Calls : completions[c] <= 1

\* Somebody is still going to complete call c.
WillComplete(c) ==
  \/ rcall = c
  \/ /\ callSeq[c] \in DOMAIN pending
     /\ pending[callSeq[c]] = c
     /\ rpc \in {"drain", "end"} => callSeq[c] \in todo

\* No call is forgotten: one that Go has sent is completed, or the receive
\* goroutine holds it, or it is in pending where receive or terminateCalls
\* will find it, however sends, errors, Close and shutdown interleave
\* (client.go:66-97).
NoLostCall ==
  \A c \in Calls :
    pc[c] = "wait" => completions[c] = 1 \/ WillComplete(c)

\* A caller sees only the result of its own call: responses arrive in any
\* order, for calls cancelled meanwhile too, and are matched by sequence
\* number alone (client.go:107-121).
ReplyMatches ==
  \A c \in Calls :
    /\ reply[c] \in {None, c}
    /\ c \in doneq /\ ~failed[c] => reply[c] = c

\* Nobody blocks in call.Done <- call while holding a mutex or the receive
\* loop, provided the Done channel of Go has room for every call that uses
\* it (client.go:28-30,93-96).
DoneNeverBlocks ==
  /\ \A c \in Calls : pc[c] = "fail" => Room(c)
  /\ rpc \in {"done", "doneErr"} => Room(rcall)
  /\ rpc = "drain" => \A s \in todo : Room(pending[s])

Ended(c) == pc[c] \in {"returned", "cancelled"}

\* Every call made ends, with no deadline on its context: whatever fails,
\* somebody completes it (client.go:220-276).
EveryCallEnds == \A c \in Calls : pc[c] = "send" ~> Ended(c)

\* The client implements AtMostOnceCall.
Outcome(c) == CASE pc[c] = "idle" -> "idle"
                [] pc[c] = "cancelled" -> "abandoned"
                [] pc[c] = "returned" /\ failed[c] -> "error"
                [] pc[c] = "returned" /\ ~failed[c] -> "ok"
                [] OTHER -> "issued"

Abstract == INSTANCE AtMostOnceCall
              WITH outcome <- [c \in Calls |-> Outcome(c)],
                   executed <- served

\* Each call is executed at most once and ends at most once, in success only
\* if the server executed it (client.go:220-276).
ImplementsAtMostOnce == Abstract!Spec

=============================================================================
