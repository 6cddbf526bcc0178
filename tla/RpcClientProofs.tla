-------------------------- MODULE RpcClientProofs --------------------------
(* The safety properties of RpcClient, proved for any number of calls. *)
EXTENDS RpcClient, FiniteSetTheorems, TLAPS

Sent == {"wait", "returned", "cancelled"}

\* A request or response that travels belongs to a call whose send() is over
\* and carries the number the call was registered with.
Genuine(r) == /\ r.of \in Calls
              /\ pc[r.of] \in Sent
              /\ r.seq = callSeq[r.of]
              /\ r.seq # 0

\* Sequence numbers identify calls.
SeqInv ==
  /\ \A c \in Calls : callSeq[c] < seq
  /\ \A c \in Calls : pc[c] \in {"idle", "send"} => callSeq[c] = 0
  /\ \A c \in Calls : pc[c] = "write" => callSeq[c] # 0
  /\ \A c, d \in Calls : callSeq[c] = callSeq[d] /\ callSeq[c] # 0 => c = d
  /\ \A s \in DOMAIN pending : s # 0 /\ callSeq[pending[s]] = s
  /\ \A r \in reqs : Genuine(r)
  /\ \A r \in wire : Genuine(r)
  /\ rpc \in {"remove", "body", "done", "doneErr"} => Genuine(resp)

\* The sending mutex, and what shutdown excludes.
LockInv ==
  /\ \A c \in Calls : pc[c] \in {"write", "unregister", "fail"} => sending = c
  /\ rpc = "drain" => sending = Receiver
  /\ rpc \in {"drain", "end"} => shutdown
  /\ rpc = "end" => \A c \in Calls : pc[c] \notin {"write", "unregister"}

\* The call the receive goroutine holds is the one the response answers, and
\* nobody else can find it.
HeldInv ==
  /\ rcall # None => rpc \in {"body", "done", "doneErr"} /\ rcall = resp.of
  /\ \A s \in DOMAIN pending : pending[s] # rcall
  /\ \A c \in Calls, s \in DOMAIN pending : pc[c] = "fail" => pending[s] # c

\* A call that somebody may still complete has not been completed.
OnceInv ==
  /\ \A c \in Calls : completions[c] <= 1
  /\ \A c \in Calls : pc[c] \in {"idle", "send", "fail"} => completions[c] = 0
  /\ rcall # None => completions[rcall] = 0
  /\ \A s \in DOMAIN pending :
       rpc \notin {"drain", "end"} \/ s \in todo => completions[pending[s]] = 0

ReplyInv ==
  /\ \A c \in Calls : reply[c] \in {None, c}
  /\ \A c \in Calls : pc[c] = "fail" => failed[c]
  /\ rpc \in {"done", "doneErr"} => failed[rcall] \/ reply[rcall] = rcall
  /\ \A c \in Calls : c \in doneq => failed[c] \/ reply[c] = c

\* NoLostCall, from registration on.
RouteInv ==
  \A c \in Calls : pc[c] \in {"write", "unregister", "wait"} =>
                     completions[c] = 1 \/ WillComplete(c)

\* What the server has executed, and what the results and the Done channels
\* say of it.
ServedInv ==
  /\ \A c \in served : pc[c] \in Sent
  /\ \A r \in reqs : r.of \notin served
  /\ \A r \in wire : r.of \in served
  /\ rpc \in {"remove", "body", "done", "doneErr"} => resp.of \in served
  /\ \A c \in Calls : reply[c] = c => c \in served
  /\ \A c \in Calls : c \in doneq \/ pc[c] = "returned" =>
                        completions[c] = 1 /\ (failed[c] \/ c \in served)

IInv == /\ TypeOK
        /\ SeqInv
        /\ LockInv
        /\ HeldInv
        /\ OnceInv
        /\ ReplyInv
        /\ RouteInv
        /\ ServedInv

----------------------------------------------------------------------------
(* Types *)

USE DEF clientVars, callVars, recvVars, netVars

\* The initial state has the declared types (newClientCodec, client.go:144).
LEMMA InitType == Init => TypeOK
<1> SUFFICES ASSUME Init PROVE TypeOK OBVIOUS
<1> USE DEF Init, Labels, InGo, RecvLabels
<1>1. /\ DOMAIN pending \subseteq Nat
      /\ \A s \in DOMAIN pending : pending[s] \in Calls
  OBVIOUS
<1>2. /\ pc \in [Calls -> Labels]
      /\ callSeq \in [Calls -> Nat]
      /\ failed \in [Calls -> BOOLEAN]
      /\ reply \in [Calls -> Calls \cup {None}]
      /\ completions \in [Calls -> Nat]
  OBVIOUS
<1>3. resp \in [of : Calls \cup {None}, seq : Nat, error : BOOLEAN]
  OBVIOUS
<1>4. /\ sending = None /\ seq = 1
      /\ closing \in BOOLEAN /\ shutdown \in BOOLEAN /\ open \in BOOLEAN
  OBVIOUS
<1>5. doneq = {} /\ rpc = "header" /\ rcall = None /\ todo = {}
  OBVIOUS
<1>6. reqs = {} /\ wire = {} /\ served = {}
  OBVIOUS
<1> HIDE DEF Labels, Init
<1> QED
  BY <1>1, <1>2, <1>3, <1>4, <1>5, <1>6 DEF TypeOK

\* Every step of the program preserves the types.
LEMMA NextType == TypeOK /\ [Next]_vars => TypeOK'
<1> SUFFICES ASSUME TypeOK, [Next]_vars PROVE TypeOK' OBVIOUS
<1> USE CallsAssumption DEF TypeOK, Labels, InGo, RecvLabels, MuFree
<1>1. ASSUME NEW c \in Calls, Begin(c) PROVE TypeOK'
  BY <1>1 DEF Begin, Goto
<1>2. ASSUME NEW c \in Calls, RegisterCall(c) PROVE TypeOK'
  <2>1. CASE Rejecting
    <3>1. failed' = [failed EXCEPT ![c] = TRUE] /\ pc' = [pc EXCEPT ![c] = "fail"]
      BY <1>2, <2>1 DEF RegisterCall, Goto
    <3>2. pc' \in [Calls -> Labels]
      BY <3>1
    <3>3. failed' \in [Calls -> BOOLEAN]
      BY <3>1
    <3> QED
      BY <1>2, <2>1, <3>2, <3>3 DEF RegisterCall
  <2>2. CASE ~Rejecting
    <3>1. /\ pending' = Put(pending, seq, c)
          /\ rpc # "drain"
          /\ UNCHANGED <<rpc, todo>>
      BY <1>2, <2>2 DEF RegisterCall
    <3>2. /\ DOMAIN pending' = DOMAIN pending \cup {seq}
          /\ \A s \in DOMAIN pending' : pending'[s] \in Calls
      BY <3>1 DEF Put
    <3> QED
      BY <1>2, <2>2, <3>1, <3>2 DEF RegisterCall, Goto, NextSeq
  <2> QED
    BY <2>1, <2>2
<1>3. ASSUME NEW c \in Calls, WriteDelivered(c) PROVE TypeOK'
  BY <1>3 DEF WriteDelivered, Goto
<1>4. ASSUME NEW c \in Calls, WriteLost(c) PROVE TypeOK'
  BY <1>4 DEF WriteLost, Goto
<1>5. ASSUME NEW c \in Calls, WriteFailed(c) PROVE TypeOK'
  <2>1. pc' = [pc EXCEPT ![c] = "unregister"] /\ open' \in BOOLEAN
    BY <1>5 DEF WriteFailed, Goto
  <2>2. pc' \in [Calls -> Labels]
    BY <2>1
  <2> QED
    BY <1>5, <2>1, <2>2 DEF WriteFailed
<1>6. ASSUME NEW c \in Calls, RemoveFailed(c) PROVE TypeOK'
  <2>1. /\ failed' = [failed EXCEPT ![c] = TRUE] \/ failed' = failed
        /\ pc' = [pc EXCEPT ![c] = "fail"] \/ pc' = [pc EXCEPT ![c] = "wait"]
        /\ sending' \in {sending, None}
    BY <1>6 DEF RemoveFailed, Goto
  <2>3. failed' \in [Calls -> BOOLEAN]
    BY <2>1
  <2>4. pc' \in [Calls -> Labels]
    BY <2>1
  <2>2. /\ DOMAIN pending' \subseteq Nat
        /\ \A s \in DOMAIN pending' : pending'[s] \in Calls
    BY <1>6 DEF RemoveFailed, Without
  <2> QED
    BY <1>6, <2>1, <2>2, <2>3, <2>4 DEF RemoveFailed
<1>7. ASSUME NEW c \in Calls, FailDone(c) PROVE TypeOK'
  BY <1>7 DEF FailDone, Signal, Goto
<1>8. ASSUME NEW c \in Calls, CallReturn(c) PROVE TypeOK'
  BY <1>8 DEF CallReturn, Goto
<1>9. ASSUME NEW c \in Calls, CtxDone(c) PROVE TypeOK'
  BY <1>9 DEF CtxDone, Goto, Without
<1>10. ASSUME NEW c \in Calls, Drain(c) PROVE TypeOK'
  BY <1>10 DEF Drain, Goto
<1>11. CASE Close
  <2>1. /\ closing' \in BOOLEAN /\ open' \in BOOLEAN
        /\ UNCHANGED <<sending, seq, pending, shutdown, callVars, recvVars, reqs, wire, served>>
    BY <1>11 DEF Close
  <2> QED
    BY <2>1
<1>12. CASE ReadHeaderError
  BY <1>12 DEF ReadHeaderError, AfterReadError
<1>13. CASE RemoveForReceive
  BY <1>13 DEF RemoveForReceive, Without
<1>14. CASE DiscardBody
  BY <1>14 DEF DiscardBody, AfterReadError
<1>15. CASE ReadErrorBody
  BY <1>15 DEF ReadErrorBody
<1>16. CASE ReadReplyBody
  <2>1. /\ \E v \in Calls \cup {None} : reply' = [reply EXCEPT ![rcall] = v]
        /\ failed' = failed \/ failed' = [failed EXCEPT ![rcall] = TRUE]
        /\ rpc = "body" /\ rpc' \in {"done", "doneErr"} /\ rcall # None
        /\ UNCHANGED <<clientVars, pc, callSeq, doneq, completions, resp, rcall, todo, netVars>>
    BY <1>16 DEF ReadReplyBody
  <2>2. reply' \in [Calls -> Calls \cup {None}]
    BY <2>1
  <2>3. failed' \in [Calls -> BOOLEAN]
    BY <2>1
  <2> QED
    BY <2>1, <2>2, <2>3
<1>17. CASE ReceiveDone
  BY <1>17 DEF ReceiveDone, Signal, AfterReadError
<1>18. CASE TerminateLock
  BY <1>18 DEF TerminateLock
<1>19. CASE TerminateEnd
  BY <1>19 DEF TerminateEnd
<1>20. ASSUME NEW r \in wire, ReadHeader(r) PROVE TypeOK'
  BY <1>20 DEF ReadHeader
<1>21. ASSUME NEW s \in todo, TerminateOne(s) PROVE TypeOK'
  BY <1>21 DEF TerminateOne, Signal, Terminated
<1>22. ASSUME NEW r \in reqs, NEW isError \in BOOLEAN, Respond(r, isError)
      PROVE TypeOK'
  BY <1>22 DEF Respond, Response
<1>23. CASE Break
  <2>1. open' \in BOOLEAN /\ UNCHANGED <<clientVars, callVars, recvVars, reqs, wire, served>>
    BY <1>23 DEF Break
  <2> QED
    BY <2>1
<1>24. CASE UNCHANGED vars
  BY <1>24 DEF vars
<1> HIDE DEF TypeOK, Labels, InGo, RecvLabels, MuFree
<1> QED
  BY <1>1, <1>2, <1>3, <1>4, <1>5, <1>6, <1>7, <1>8, <1>9, <1>10, <1>11,
     <1>12, <1>13, <1>14, <1>15, <1>16, <1>17, <1>18, <1>19, <1>20, <1>21,
     <1>22, <1>23, <1>24
  DEF Next, Send, Receive, Serve, Quiesce

\* The types hold in every state the client reaches (client.go:19-42).
THEOREM TypeCorrect == Spec => []TypeOK
BY InitType, NextType, PTL DEF Spec

\* The strengthened invariant holds initially (newClientCodec, client.go:144).
LEMMA InitIInv == Init => IInv
<1> SUFFICES ASSUME Init PROVE IInv OBVIOUS
<1> USE DEF Init
<1>1. TypeOK
  BY InitType
<1>2. SeqInv
  BY CallsAssumption DEF SeqInv
<1>3. LockInv
  BY CallsAssumption DEF LockInv
<1>4. HeldInv
  BY CallsAssumption DEF HeldInv
<1>5. OnceInv
  BY CallsAssumption DEF OnceInv
<1>6. ReplyInv
  BY CallsAssumption DEF ReplyInv
<1>7. RouteInv
  BY CallsAssumption DEF RouteInv
<1>8. ServedInv
  BY CallsAssumption DEF ServedInv
<1> HIDE DEF Init
<1> QED
  BY <1>1, <1>2, <1>3, <1>4, <1>5, <1>6, <1>7, <1>8 DEF IInv

\* Every step of the program preserves the strengthened invariant.
LEMMA NextIInv == IInv /\ [Next]_vars => IInv'
<1> SUFFICES ASSUME IInv, [Next]_vars PROVE IInv' OBVIOUS
<1> DEFINE Parts == /\ SeqInv /\ LockInv /\ HeldInv /\ OnceInv
                    /\ ReplyInv /\ RouteInv /\ ServedInv
<1> USE CallsAssumption DEF IInv, TypeOK, Genuine, Sent
<1>0. TypeOK'
  BY NextType
<1>1. ASSUME NEW c \in Calls, Begin(c)
  PROVE Parts'
  BY <1>0, <1>1 DEF Begin, Goto,
     SeqInv, LockInv, HeldInv, OnceInv, ReplyInv, RouteInv,
     ServedInv, WillComplete
<1>2. ASSUME NEW c \in Calls, RegisterCall(c)
  PROVE Parts'
  <2> USE <1>0, <1>2 DEF RegisterCall, Goto, Put, NextSeq, Rejecting, MuFree
  <2>1. SeqInv'
    BY DEF SeqInv, LockInv
  <2>2. LockInv'
    BY DEF LockInv
  <2>3. HeldInv'
    <3>1. /\ rcall' = rcall /\ rpc' = rpc /\ resp' = resp
          /\ \A d \in Calls : d # c => pc'[d] = pc[d]
          /\ pc'[c] \in {"write", "fail"} /\ pc[c] = "send"
      BY DEF RegisterCall, Goto
    <3>2. CASE pending' = pending /\ pc'[c] = "fail"
      <4>1. \A s \in DOMAIN pending : pending[s] # c
        BY DEF SeqInv
      <4> QED
        BY <3>1, <3>2, <4>1 DEF HeldInv
    <3>3. CASE pending' = Put(pending, seq, c) /\ pc'[c] = "write"
      <4>1. \A s \in DOMAIN pending' :
              \/ pending'[s] = c
              \/ s \in DOMAIN pending /\ pending'[s] = pending[s]
        BY <3>3
      <4>2. rcall # c
        BY <3>1 DEF SeqInv, HeldInv
      <4> QED
        BY <3>1, <3>3, <4>1, <4>2 DEF HeldInv
    <3> QED
      BY <3>2, <3>3
  <2>4. OnceInv'
    BY DEF OnceInv, SeqInv, HeldInv, LockInv
  <2>5. ReplyInv'
    BY DEF ReplyInv, HeldInv, SeqInv, OnceInv, LockInv
  <2>6. RouteInv'
    BY DEF RouteInv, WillComplete, SeqInv, LockInv, OnceInv, HeldInv
  <2>7. ServedInv'
    BY DEF ServedInv, SeqInv, LockInv, HeldInv, OnceInv, ReplyInv
  <2> QED
    BY <2>1, <2>2, <2>3, <2>4, <2>5, <2>6, <2>7
<1>3. ASSUME NEW c \in Calls, WriteDelivered(c)
  PROVE Parts'
  BY <1>0, <1>3 DEF WriteDelivered, Goto,
     SeqInv, LockInv, HeldInv, OnceInv, ReplyInv, RouteInv,
     ServedInv, WillComplete
<1>4. ASSUME NEW c \in Calls, WriteLost(c)
  PROVE Parts'
  BY <1>0, <1>4 DEF WriteLost, Goto,
     SeqInv, LockInv, HeldInv, OnceInv, ReplyInv, RouteInv,
     ServedInv, WillComplete
<1>5. ASSUME NEW c \in Calls, WriteFailed(c)
  PROVE Parts'
  BY <1>0, <1>5 DEF WriteFailed, Goto,
     SeqInv, LockInv, HeldInv, OnceInv, ReplyInv, RouteInv,
     ServedInv, WillComplete
<1>6. ASSUME NEW c \in Calls, RemoveFailed(c)
  PROVE Parts'
  <2> USE <1>0, <1>6 DEF RemoveFailed, Goto, Without, MuFree
  <2>1. SeqInv'
    BY DEF SeqInv, LockInv
  <2>2. LockInv'
    BY DEF LockInv
  <2>3. HeldInv'
    BY DEF HeldInv, SeqInv, LockInv
  <2>4. OnceInv'
    BY DEF OnceInv, SeqInv, HeldInv, LockInv
  <2>5. ReplyInv'
    BY DEF ReplyInv, HeldInv, SeqInv, OnceInv, LockInv
  <2>6. RouteInv'
    BY DEF RouteInv, WillComplete, SeqInv, LockInv, OnceInv, HeldInv
  <2>7. ServedInv'
    BY DEF ServedInv, SeqInv, LockInv, HeldInv, OnceInv, ReplyInv
  <2> QED
    BY <2>1, <2>2, <2>3, <2>4, <2>5, <2>6, <2>7
<1>7. ASSUME NEW c \in Calls, FailDone(c)
  PROVE Parts'
  BY <1>0, <1>7 DEF FailDone, Signal, Goto,
     SeqInv, LockInv, HeldInv, OnceInv, ReplyInv, RouteInv,
     ServedInv, WillComplete
<1>8. ASSUME NEW c \in Calls, CallReturn(c)
  PROVE Parts'
  BY <1>0, <1>8 DEF CallReturn, Goto,
     SeqInv, LockInv, HeldInv, OnceInv, ReplyInv, RouteInv,
     ServedInv, WillComplete
<1>9. ASSUME NEW c \in Calls, CtxDone(c)
  PROVE Parts'
  BY <1>0, <1>9 DEF CtxDone, Goto, Without, MuFree,
     SeqInv, LockInv, HeldInv, OnceInv, ReplyInv, RouteInv,
     ServedInv, WillComplete
<1>10. ASSUME NEW c \in Calls, Drain(c)
  PROVE Parts'
  BY <1>0, <1>10 DEF Drain, Goto,
     SeqInv, LockInv, HeldInv, OnceInv, ReplyInv, RouteInv,
     ServedInv, WillComplete
<1>11. CASE Close
  BY <1>0, <1>11 DEF Close,
     SeqInv, LockInv, HeldInv, OnceInv, ReplyInv, RouteInv,
     ServedInv, WillComplete
<1>12. ASSUME NEW r \in wire, ReadHeader(r)
  PROVE Parts'
  BY <1>0, <1>12 DEF ReadHeader,
     SeqInv, LockInv, HeldInv, OnceInv, ReplyInv, RouteInv,
     ServedInv, WillComplete
<1>13. CASE ReadHeaderError
  BY <1>0, <1>13 DEF ReadHeaderError, AfterReadError,
     SeqInv, LockInv, HeldInv, OnceInv, ReplyInv, RouteInv,
     ServedInv, WillComplete
<1>14. CASE RemoveForReceive
  <2> USE <1>0, <1>14 DEF RemoveForReceive, Without
  <2>1. SeqInv'
    BY DEF SeqInv, LockInv
  <2>2. LockInv'
    BY DEF LockInv
  <2>3. HeldInv'
    BY DEF HeldInv, SeqInv, LockInv
  <2>4. OnceInv'
    BY DEF OnceInv, SeqInv, HeldInv, LockInv
  <2>5. ReplyInv'
    BY DEF ReplyInv, HeldInv, SeqInv, OnceInv, LockInv
  <2>6. RouteInv'
    BY DEF RouteInv, WillComplete, SeqInv, LockInv, OnceInv, HeldInv
  <2>7. ServedInv'
    BY DEF ServedInv, SeqInv, LockInv, HeldInv, OnceInv, ReplyInv
  <2> QED
    BY <2>1, <2>2, <2>3, <2>4, <2>5, <2>6, <2>7
<1>15. CASE DiscardBody
  BY <1>0, <1>15 DEF DiscardBody, AfterReadError,
     SeqInv, LockInv, HeldInv, OnceInv, ReplyInv, RouteInv,
     ServedInv, WillComplete
<1>16. CASE ReadErrorBody
  BY <1>0, <1>16 DEF ReadErrorBody,
     SeqInv, LockInv, HeldInv, OnceInv, ReplyInv, RouteInv,
     ServedInv, WillComplete
<1>17. CASE ReadReplyBody
  BY <1>0, <1>17 DEF ReadReplyBody,
     SeqInv, LockInv, HeldInv, OnceInv, ReplyInv, RouteInv,
     ServedInv, WillComplete
<1>18. CASE ReceiveDone
  <2> USE <1>0, <1>18 DEF ReceiveDone, Signal, AfterReadError
  <2>1. SeqInv'
    BY DEF SeqInv, LockInv
  <2>2. LockInv'
    BY DEF LockInv
  <2>3. HeldInv'
    BY DEF HeldInv, SeqInv, LockInv
  <2>4. OnceInv'
    BY DEF OnceInv, SeqInv, HeldInv, LockInv
  <2>5. ReplyInv'
    BY DEF ReplyInv, HeldInv, SeqInv, OnceInv, LockInv
  <2>6. RouteInv'
    BY DEF RouteInv, WillComplete, SeqInv, LockInv, OnceInv, HeldInv
  <2>7. ServedInv'
    BY DEF ServedInv, SeqInv, LockInv, HeldInv, OnceInv, ReplyInv
  <2> QED
    BY <2>1, <2>2, <2>3, <2>4, <2>5, <2>6, <2>7
<1>19. CASE TerminateLock
  BY <1>0, <1>19 DEF TerminateLock, TerminateMayStart,
     SeqInv, LockInv, HeldInv, OnceInv, ReplyInv, RouteInv,
     ServedInv, WillComplete
<1>20. ASSUME NEW s \in todo, TerminateOne(s)
  PROVE Parts'
  <2> USE <1>0, <1>20 DEF TerminateOne, Signal, Terminated
  <2>1. SeqInv'
    BY DEF SeqInv, LockInv
  <2>2. LockInv'
    BY DEF LockInv
  <2>3. HeldInv'
    BY DEF HeldInv, SeqInv, LockInv
  <2>4. OnceInv'
    BY DEF OnceInv, SeqInv, HeldInv, LockInv
  <2>5. ReplyInv'
    BY DEF ReplyInv, HeldInv, SeqInv, OnceInv, LockInv
  <2>6. RouteInv'
    BY DEF RouteInv, WillComplete, SeqInv, LockInv, OnceInv, HeldInv
  <2>7. ServedInv'
    BY DEF ServedInv, SeqInv, LockInv, HeldInv, OnceInv, ReplyInv
  <2> QED
    BY <2>1, <2>2, <2>3, <2>4, <2>5, <2>6, <2>7
<1>21. CASE TerminateEnd
  BY <1>0, <1>21 DEF TerminateEnd,
     SeqInv, LockInv, HeldInv, OnceInv, ReplyInv, RouteInv,
     ServedInv, WillComplete
<1>22. ASSUME NEW r \in reqs, NEW e \in BOOLEAN, Respond(r, e)
  PROVE Parts'
  <2> USE <1>0, <1>22 DEF Respond, Response
  <2>1. SeqInv'
    BY DEF SeqInv, LockInv
  <2>2. LockInv'
    BY DEF LockInv
  <2>3. HeldInv'
    BY DEF HeldInv, SeqInv, LockInv
  <2>4. OnceInv'
    BY DEF OnceInv, SeqInv, HeldInv, LockInv
  <2>5. ReplyInv'
    BY DEF ReplyInv, HeldInv, SeqInv, OnceInv, LockInv
  <2>6. RouteInv'
    BY DEF RouteInv, WillComplete, SeqInv, LockInv, OnceInv, HeldInv
  <2>7. ServedInv'
    BY DEF ServedInv, SeqInv, LockInv, HeldInv, OnceInv, ReplyInv
  <2> QED
    BY <2>1, <2>2, <2>3, <2>4, <2>5, <2>6, <2>7
<1>23. CASE Break
  BY <1>0, <1>23 DEF Break,
     SeqInv, LockInv, HeldInv, OnceInv, ReplyInv, RouteInv,
     ServedInv, WillComplete
<1>24. CASE UNCHANGED vars
  BY <1>0, <1>24 DEF vars, SeqInv, LockInv, HeldInv, OnceInv, ReplyInv, RouteInv,
     ServedInv, WillComplete
<1> HIDE DEF TypeOK, Genuine, Sent
<1> QED
  BY <1>0, <1>1, <1>2, <1>3, <1>4, <1>5, <1>6, <1>7, <1>8, <1>9, <1>10, <1>11, <1>12,
     <1>13, <1>14, <1>15, <1>16, <1>17, <1>18, <1>19, <1>20, <1>21,
     <1>22, <1>23, <1>24
  DEF Next, Send, Receive, Serve, Quiesce

\* The strengthened invariant holds in every state the client reaches.
THEOREM IInvCorrect == Spec => []IInv
BY InitIInv, NextIInv, PTL DEF Spec

\* send(), receive() and terminateCalls() together complete a call at most
\* once (client.go:86-126,239-247).
THEOREM CompletedAtMostOnceCorrect == Spec => []CompletedAtMostOnce
<1>1. IInv => CompletedAtMostOnce
  BY DEF IInv, OnceInv, CompletedAtMostOnce
<1> QED
  BY <1>1, IInvCorrect, PTL

\* No call that send() has handed over is forgotten (client.go:66-97).
THEOREM NoLostCallCorrect == Spec => []NoLostCall
<1>1. IInv => NoLostCall
  BY DEF IInv, RouteInv, NoLostCall
<1> QED
  BY <1>1, IInvCorrect, PTL

\* Responses matched by sequence number reach the call they answer
\* (client.go:107-121).
THEOREM ReplyMatchesCorrect == Spec => []ReplyMatches
<1>1. IInv => ReplyMatches
  BY DEF IInv, ReplyInv, ReplyMatches
<1> QED
  BY <1>1, IInvCorrect, PTL

\* A call that is not on its Done channel finds room there.
LEMMA RoomForCall ==
  ASSUME Cardinality(AsyncCalls) <= DoneCap, NEW c \in Calls, c \notin doneq
  PROVE Room(c)
<1>1. CASE c \in SyncCalls
  BY <1>1 DEF Room
<1>2. CASE c \in AsyncCalls /\ c \notin SyncCalls
  <2> DEFINE Used == doneq \cap AsyncCalls
  <2>1. Used \subseteq AsyncCalls /\ Used # AsyncCalls
    BY <1>2
  <2>2. Cardinality(Used) < Cardinality(AsyncCalls)
    BY <2>1, CallsAssumption, FS_Subset, FS_CardinalityType
  <2>3. Cardinality(Used) \in Nat /\ Cardinality(AsyncCalls) \in Nat
    BY <2>1, CallsAssumption, FS_Subset, FS_CardinalityType
  <2> QED
    BY <1>2, <2>2, <2>3, DoneCapAssumption DEF Room
<1> QED
  BY <1>1, <1>2 DEF Calls

\* Nobody blocks in call.Done <- call when the Done channel of Go is as large
\* as the number of calls that share it (client.go:28-30,93-96).
THEOREM DoneNeverBlocksCorrect ==
  ASSUME Cardinality(AsyncCalls) <= DoneCap
  PROVE Spec => []DoneNeverBlocks
<1>1. ASSUME IInv, NEW c \in Calls, completions[c] = 0 PROVE Room(c)
  BY <1>1, RoomForCall DEF IInv, ServedInv
<1>2. IInv => DoneNeverBlocks
  BY <1>1 DEF IInv, TypeOK, OnceInv, DoneNeverBlocks
<1> QED
  BY <1>2, IInvCorrect, PTL

----------------------------------------------------------------------------
(* Refinement of AtMostOnceCall *)

\* The initial state of the client maps to that of AtMostOnceCall.
LEMMA AbstractInit == Init => Abstract!Init
BY DEF Init, Abstract!Init, Outcome

\* A step that changes no outcome and executes no call maps to a stutter.
LEMMA Stutter ==
  ASSUME \A c \in Calls : Outcome(c)' = Outcome(c), UNCHANGED served
  PROVE UNCHANGED <<[c \in Calls |-> Outcome(c)], served>>
OBVIOUS

\* Every step of the client maps to a step of AtMostOnceCall or a stutter.
LEMMA AbstractNext ==
  IInv /\ [Next]_vars
    => [Abstract!Next]_<<[c \in Calls |-> Outcome(c)], served>>
<1> SUFFICES ASSUME IInv, [Next]_vars
             PROVE [Abstract!Next]_<<[c \in Calls |-> Outcome(c)], served>>
  OBVIOUS
<1> DEFINE Same == (\A d \in Calls : Outcome(d)' = Outcome(d)) /\ UNCHANGED served
<1> USE DEF IInv, TypeOK, Sent
<1>1. ASSUME NEW c \in Calls, Begin(c) PROVE Abstract!Issue(c)
  BY <1>1 DEF Begin, Goto, Outcome, Abstract!Issue, Abstract!Become
<1>2. ASSUME NEW c \in Calls, Send(c) PROVE Same
  BY <1>2 DEF Send, RegisterCall, WriteDelivered, WriteLost, WriteFailed,
              RemoveFailed, FailDone, Signal, Goto, Outcome
<1>3. ASSUME NEW c \in Calls, CallReturn(c) \/ Drain(c)
      PROVE Abstract!Succeed(c) \/ Abstract!Fail(c)
  <2>1. /\ pc[c] = "wait" /\ c \in doneq
        /\ pc' = [pc EXCEPT ![c] = "returned"]
        /\ UNCHANGED <<failed, served>>
    BY <1>3 DEF CallReturn, Drain, Goto
  <2>2. failed[c] \/ c \in served
    BY <2>1 DEF ServedInv
  <2>3. CASE failed[c]
    BY <2>1, <2>3 DEF Outcome, Abstract!Fail, Abstract!Become
  <2>4. CASE ~failed[c]
    BY <2>1, <2>2, <2>4 DEF Outcome, Abstract!Succeed, Abstract!Become
  <2> QED
    BY <2>3, <2>4
<1>4. ASSUME NEW c \in Calls, CtxDone(c) PROVE Abstract!Abandon(c)
  BY <1>4 DEF CtxDone, Goto, Outcome, Abstract!Abandon, Abstract!Become
<1>5. CASE Receive
  <2>1. UNCHANGED <<pc, served>>
    BY <1>5 DEF Receive, ReadHeader, ReadHeaderError, RemoveForReceive,
                DiscardBody, ReadErrorBody, ReadReplyBody, ReceiveDone,
                TerminateLock, TerminateOne, TerminateEnd
  <2>2. ASSUME NEW c \in Calls, failed'[c] # failed[c]
        PROVE pc[c] # "returned"
    <3>1. CASE rcall = c /\ rcall # None
      BY <3>1 DEF ServedInv, OnceInv
    <3>2. CASE \E s \in todo : pending[s] = c
      BY <3>2 DEF ServedInv, OnceInv
    <3> QED
      BY <1>5, <2>2, <3>1, <3>2
      DEF Receive, ReadHeader, ReadHeaderError, RemoveForReceive,
          DiscardBody, ReadErrorBody, ReadReplyBody, ReceiveDone,
          TerminateLock, TerminateOne, TerminateEnd, Terminated
  <2>3. Same
    BY <2>1, <2>2 DEF Outcome
  <2> QED
    BY <2>3, Stutter
<1>6. ASSUME NEW r \in reqs, NEW e \in BOOLEAN, Respond(r, e)
      PROVE Abstract!Execute(r.of)
  BY <1>6 DEF Respond, Outcome, ServedInv, SeqInv, Genuine, Abstract!Execute
<1>7. CASE Close \/ Break \/ UNCHANGED vars
  BY <1>7, Stutter DEF Close, Break, vars, Outcome
<1>8. \A r \in reqs : r.of \in Calls
  OBVIOUS
<1> QED
  BY <1>1, <1>2, <1>3, <1>4, <1>5, <1>6, <1>7, <1>8, Stutter
  DEF Next, Serve, Quiesce, Abstract!Next

\* Each call is executed at most once and ends at most once, in success only
\* if the server executed it (client.go:220-276).
THEOREM ImplementsAtMostOnceCorrect == Spec => ImplementsAtMostOnce
<1>1. Spec => []IInv
  BY IInvCorrect
<1> QED
  BY <1>1, AbstractInit, AbstractNext, PTL
  DEF Spec, ImplementsAtMostOnce, Abstract!Spec

=============================================================================
