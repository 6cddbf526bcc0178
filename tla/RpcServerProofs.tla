-------------------------- MODULE RpcServerProofs --------------------------
(***************************************************************************)
(* The safety properties of RpcServer, proved for the composition RpcDial: *)
(* any number of requests, any codecs and protocols, any read-ahead.       *)
(***************************************************************************)
EXTENDS RpcDial, FiniteSetTheorems, TLAPS

Reads == Range(read)

\* The headers in the stream are of requests that were written and not read;
\* none is there twice.
StreamInv ==
  /\ \A i \in DOMAIN stream : stream[i].part = "header" =>
       stream[i].of \in written \ Reads
  /\ \A i, j \in DOMAIN stream :
       stream[i].part = "header" /\ stream[i] = stream[j] => i = j
  /\ Reads \subseteq written

\* The loop holds cur while it reads the body and while it rejects it.
Held(r) == cur = r /\ loop \in {"body", "reject", "rejecting"}

\* A handler and its child move together, and only for requests that were read.
TaskInv ==
  /\ \A r \in Requests :
       /\ handler[r] = "none" <=> child[r] = "none"
       /\ handler[r] = "waitSent" <=> child[r] \in {"reply", "replying", "sent"}
       /\ handler[r] \in {"select", "timeout", "replying"} =>
            child[r] \in {"calling", "called"}
       /\ child[r] = "end" => handler[r] = "done"
       /\ handler[r] # "none" => r \in Reads
       /\ Held(r) => r \in Reads /\ handler[r] = "none"
  /\ loop \in {"mute", "http", "option"} => read = <<>>
  /\ loop = "closed" => closed /\ HandlersDone

\* Who has answered r, or is about to release the mutex.
Rejected(r) == r \in Reads /\ handler[r] = "none" /\ ~Held(r)
Ended(r) == Rejected(r) \/ handler[r] = "done" \/ child[r] = "sent"
Writes(by, r) == CASE by = "loop" -> loop = "rejecting" /\ cur = r
                   [] by = "handler" -> handler[r] = "replying"
                   [] by = "child" -> child[r] = "replying"
Began(r) == Ended(r) \/ \E by \in {"loop", "handler", "child"} : Writes(by, r)

\* The mutex: what is half written is written by one goroutine in its place.
OneWriter == \A v, w \in writing : v = w

MutexInv ==
  /\ OneWriter
  /\ \A w \in writing : Writes(w.by, w.of)

\* A request has its header in out only when its answer has begun, its body
\* only when it is over; while both ends are there, out lacks a body exactly
\* when somebody holds the mutex.
OutInv ==
  /\ \A i \in DOMAIN out : /\ out[i].part = "header" => Began(out[i].of)
                           /\ out[i].part = "body" => Ended(out[i].of)
  /\ ~Gone /\ writing = {} => Len(out) % 2 = 0
  /\ ~Gone => \A w \in writing : /\ Len(out) % 2 = 1
                                 /\ out[Len(out)] = Header(w.of)

\* What is over has been answered, unless a result could not be encoded.
AnswerInv ==
  ~hangup =>
    \/ closed /\ Len(out) % 2 = 1
    \/ /\ \A r \in Requests : Ended(r) => Answered(r)
       /\ closed => loop = "closed"

\* Until the server has answered CONNECT nothing follows it, and the option of
\* a client that was made is the first thing the server finds.
HandshakeInv ==
  /\ maker \in {"none", "connect", "new"} => stream = <<>>
  /\ maker \in {"none", "connect"} => ~greeted
  /\ maker = "response" => /\ Len(stream) <= 1
                           /\ greeted => stream = <<>>
  /\ dialer = "none" => maker = "none"
  /\ dialer = "client" => maker = "done"
  /\ (maker = "made" \/ dialer = "client") /\ loop \in {"http", "option"} =>
       NextIs("option")

IInv == /\ DialTypeOK
        /\ StreamInv
        /\ TaskInv
        /\ MutexInv
        /\ OutInv
        /\ AnswerInv
        /\ HandshakeInv
        /\ AnsweredOnce
        /\ WholeResponses

----------------------------------------------------------------------------
(* Sequences and small sets *)

\* What ReadAhead leaves of the stream is a suffix of it.
LEMMA Suffix ==
  ASSUME NEW S, NEW s \in Seq(S), NEW n \in Nat, n < Len(s)
  PROVE  LET t == SubSeq(s, n + 2, Len(s))
         IN  /\ t \in Seq(S)
             /\ Len(t) = Len(s) - (n + 1)
             /\ \A i \in DOMAIN t : i + n + 1 \in DOMAIN s /\ t[i] = s[i + n + 1]
OBVIOUS

\* Tail drops the first value only.
LEMMA TailIs ==
  ASSUME NEW S, NEW s \in Seq(S), s # <<>>
  PROVE  /\ Head(s) = s[1] /\ Head(s) \in S /\ 1 \in DOMAIN s
         /\ Tail(s) \in Seq(S)
         /\ Len(Tail(s)) = Len(s) - 1
         /\ \A i \in DOMAIN Tail(s) : i + 1 \in DOMAIN s /\ Tail(s)[i] = s[i + 1]
OBVIOUS

\* Append adds the last value only.
LEMMA AppendIs ==
  ASSUME NEW S, NEW s \in Seq(S), NEW x \in S
  PROVE  /\ Append(s, x) \in Seq(S)
         /\ Len(Append(s, x)) = Len(s) + 1
         /\ DOMAIN Append(s, x) = DOMAIN s \cup {Len(s) + 1}
         /\ Len(s) + 1 \notin DOMAIN s
         /\ \A i \in DOMAIN s : Append(s, x)[i] = s[i]
         /\ Append(s, x)[Len(s) + 1] = x
         /\ Range(Append(s, x)) = Range(s) \cup {x}
<1>1. /\ Append(s, x) \in Seq(S)
      /\ Len(Append(s, x)) = Len(s) + 1
      /\ DOMAIN Append(s, x) = DOMAIN s \cup {Len(s) + 1}
      /\ Len(s) + 1 \notin DOMAIN s
      /\ \A i \in DOMAIN s : Append(s, x)[i] = s[i]
      /\ Append(s, x)[Len(s) + 1] = x
  OBVIOUS
<1>2. Range(Append(s, x)) = Range(s) \cup {x}
  BY <1>1 DEF Range
<1> QED BY <1>1, <1>2

\* A set without two different elements is small.
LEMMA AtMostOne ==
  ASSUME NEW W, \A v, w \in W : v = w
  PROVE  Cardinality(W) <= 1
<1>1. CASE W = {} BY <1>1, FS_EmptySet
<1>2. CASE W # {}
  <2>1. PICK w : W = {w} BY <1>2
  <2> QED BY <2>1, FS_Singleton
<1> QED BY <1>1, <1>2

----------------------------------------------------------------------------
(* Types *)

USE DEF connVars, loopVars, taskVars, outVars, serverVars, serverSide,
        dialVars, vars

\* The initial state of a dial has the declared types (client.go:180-213).
LEMMA InitType == Init => DialTypeOK
<1> SUFFICES ASSUME Init PROVE DialTypeOK OBVIOUS
<1> USE DEF Init, ServerInit
<1>1. Cardinality(writing) <= 1
  BY AtMostOne
<1>2. loop \in {"mute", "http", "option"}
  BY ServerAssumption
<1>3. \A S : stream \in Seq(S) /\ read \in Seq(S) /\ out \in Seq(S)
  OBVIOUS
<1>4. /\ handler \in [Requests -> {"none"}]
      /\ child \in [Requests -> {"none"}]
      /\ failed \in [Requests -> BOOLEAN]
  OBVIOUS
<1>5. TypeOK
  BY <1>1, <1>2, <1>3, <1>4 DEF TypeOK
<1> QED
  BY <1>5 DEF DialTypeOK

\* Every step of the server preserves the types, if one goroutine at most holds
\* the sending mutex afterwards.
LEMMA ServerType ==
  ASSUME TypeOK, ServerNext, OneWriter'
  PROVE  TypeOK'
<1> USE DEF TypeOK
<1>w. Cardinality(writing') <= 1
  BY AtMostOne DEF OneWriter
<1> DEFINE Values == Opening \cup Tokens
<1>h. \A r \in Requests : Header(r) \in Tokens /\ Body(r) \in Tokens
  BY DEF Header, Body, Token, Tokens
<1>e. ASSUME NEW t \in Tokens, Emit(t) PROVE out' \in Seq(Tokens)
  BY <1>e DEF Emit
<1>s. ASSUME NEW by \in {"loop", "handler", "child"}, NEW r \in Requests,
             NEW e \in BOOLEAN, StartResponse(by, r, e)
      PROVE  /\ out' \in Seq(Tokens)
             /\ writing' \subseteq [by : {"loop", "handler", "child"},
                                    of : Requests, error : BOOLEAN]
             /\ UNCHANGED closed
  BY <1>s, <1>h, <1>e DEF StartResponse
<1>v. /\ \A t \in Values : t.part \in {"header", "body"} => t.of \in Requests
      /\ \A n \in Nat : n < Len(stream) => SubSeq(stream, n + 2, Len(stream)) \in Seq(Values)
  BY Suffix DEF Opening, Tokens
<1>a. ASSUME NEW n \in 0 .. MaxReadAhead, ReadAhead(n) PROVE stream' \in Seq(Values)
  BY <1>v, <1>a DEF ReadAhead
<1>t. stream # <<>> => Head(stream) \in Values /\ Tail(stream) \in Seq(Values)
  BY TailIs
<1> HIDE DEF Values
<1>1. CASE AnswerConnect
  BY <1>1, <1>a, <1>w DEF AnswerConnect, Values
<1>2. CASE ReadOption
  BY <1>2, <1>a, <1>w DEF ReadOption, Values
<1>3. CASE Refuse
  BY <1>3, <1>w DEF Refuse
<1>4. CASE ReadHeader
  <2>1. cur' \in Requests /\ stream' \in Seq(Values)
    BY <1>4, <1>t, <1>v DEF ReadHeader, NextIs
  <2> QED
    BY <1>4, <2>1, <1>w, ServerAssumption DEF ReadHeader, Values
<1>5. CASE ReadHeaderError
  BY <1>5, <1>t, <1>w DEF ReadHeaderError, AfterHeaderError, NextIs, Values
<1>6. CASE ReadBody
  BY <1>6, <1>t, <1>w DEF ReadBody, NextIs, StepHandler, StepChild, Values
<1>7. CASE ReadBodyError
  BY <1>7, <1>t, <1>w DEF ReadBodyError, NextIs, Values
<1>8. CASE Reject
  <2>1. cur \in Requests
    BY <1>8 DEF Reject
  <2> QED
    BY <1>8, <2>1, <1>s, <1>w DEF Reject
<1>9. CASE CloseAfterHandlers
  BY <1>9, <1>w DEF CloseAfterHandlers
<1>10. ASSUME NEW r \in Requests, MethodReturns(r) PROVE TypeOK'
  BY <1>10, <1>w DEF MethodReturns, StepChild
<1>11. ASSUME NEW r \in Requests, Called(r) PROVE TypeOK'
  BY <1>11, <1>w DEF Called, StepChild
<1>12. ASSUME NEW r \in Requests, ChildReplies(r) PROVE TypeOK'
  BY <1>12, <1>s, <1>w DEF ChildReplies, StepChild
<1>13. ASSUME NEW r \in Requests, Sent(r) PROVE TypeOK'
  BY <1>13, <1>w DEF Sent, StepChild, StepHandler
<1>14. ASSUME NEW r \in Requests, Timeout(r) PROVE TypeOK'
  BY <1>14, <1>w DEF Timeout, AfterTimeout, StepHandler
<1>15. ASSUME NEW r \in Requests, TimeoutReplies(r) PROVE TypeOK'
  BY <1>15, <1>s, <1>w DEF TimeoutReplies, StepHandler
<1>16. ASSUME NEW w \in writing, FinishResponse(w) \/ FinishFails(w) PROVE TypeOK'
  <2>1. out' \in Seq(Tokens)
    BY <1>16, <1>h, <1>e DEF FinishResponse, FinishFails
  <2>2. closed' \in BOOLEAN /\ Released(w)
    BY <1>16 DEF FinishResponse, FinishFails
  <2> QED
    BY <2>1, <2>2, <1>w DEF Released, StepHandler, StepChild
<1> QED
  BY <1>1, <1>2, <1>3, <1>4, <1>5, <1>6, <1>7, <1>8, <1>9, <1>10, <1>11,
     <1>12, <1>13, <1>14, <1>15, <1>16
     DEF ServerNext, Loop, Handle, Write

\* The sending mutex is taken when nobody holds it (server.go:155-156).
LEMMA OneWriterStep == OneWriter /\ [Next]_vars => OneWriter'
<1> SUFFICES ASSUME OneWriter, [Next]_vars PROVE OneWriter' OBVIOUS
<1> USE DEF OneWriter
<1>1. ASSUME NEW by, NEW r, NEW e, StartResponse(by, r, e) PROVE OneWriter'
  BY <1>1 DEF StartResponse, MayWrite
<1>2. CASE ServerNext
  BY <1>1, <1>2 DEF ServerNext, Loop, Handle, Write, AnswerConnect, ReadOption, Refuse,
     ReadHeader, ReadHeaderError, ReadBody, ReadBodyError, Reject,
     CloseAfterHandlers, MethodReturns, Called, ChildReplies, Sent, Timeout,
     TimeoutReplies, FinishResponse, FinishFails, Released
<1>3. CASE UNCHANGED writing
  BY <1>3
<1> QED
  BY <1>2, <1>3 DEF Next, Dial, DialFails, ConnectTimesOut, Result, Make,
     WriteConnect, ReadResponse, NewClient, OptionFails, CodecUnknown, ClientSend,
     ClientHangUp, Quiescent

\* Every step of the composition preserves the types.
LEMMA NextType == DialTypeOK /\ OneWriter /\ [Next]_vars => DialTypeOK'
<1> SUFFICES ASSUME DialTypeOK, OneWriter, [Next]_vars PROVE DialTypeOK' OBVIOUS
<1>w. OneWriter'
  BY OneWriterStep
<1>1. CASE ServerNext /\ UNCHANGED dialVars
  BY <1>1, <1>w, ServerType DEF DialTypeOK
<1>2. CASE UNCHANGED serverVars
  <2>1. TypeOK'
    BY <1>2 DEF DialTypeOK, TypeOK
  <2> QED
    BY <1>2, <2>1, DialAssumption DEF DialTypeOK, Next, ServerNext, Dial, DialFails, ConnectTimesOut,
       FirstStep, Result, Make, WriteConnect, ReadResponse, NewClient,
       OptionFails, CodecUnknown, AfterConnect, ClientSend, ClientHangUp, Quiescent
<1>3. ASSUME NEW t \in Opening \cup Tokens, Wrote(t), UNCHANGED <<written, hangup, serverSide>>
      PROVE  TypeOK'
  BY <1>3, AppendIs DEF Wrote, DialTypeOK, TypeOK
<1>4. CASE Make
  <2>1. CASE WriteConnect
    BY <2>1, <1>3 DEF WriteConnect, AfterConnect, DialTypeOK, Token, Opening
  <2>2. CASE NewClient
    BY <2>2, <1>3, DialAssumption DEF NewClient, DialTypeOK, Token, Opening
  <2>3. CASE OptionFails
    BY <2>3 DEF OptionFails, DialTypeOK, TypeOK
  <2>4. CASE ReadResponse \/ CodecUnknown
    BY <2>4, <1>2 DEF ReadResponse, CodecUnknown
  <2> QED
    BY <1>4, <2>1, <2>2, <2>3, <2>4 DEF Make
<1>5. ASSUME NEW r \in Requests, ClientSend(r) PROVE DialTypeOK'
  <2>1. <<Header(r), Body(r)>> \in Seq(Opening \cup Tokens)
    BY DEF Header, Body, Token, Tokens
  <2>2. stream' \in Seq(Opening \cup Tokens)
    BY <1>5, <2>1 DEF ClientSend, DialTypeOK, TypeOK
  <2> QED
    BY <1>5, <2>2 DEF ClientSend, DialTypeOK, TypeOK
<1>6. CASE ClientHangUp
  BY <1>6 DEF ClientHangUp, DialTypeOK, TypeOK
<1> QED
  BY <1>1, <1>2, <1>4, <1>5, <1>6
     DEF Next, Dial, DialFails, ConnectTimesOut, Result, Quiescent

----------------------------------------------------------------------------
(* The stream *)

\* No header is read twice (server.go:112-136): what is taken from the stream
\* is its front, and the client writes every request once.
LEMMA StreamStep == DialTypeOK /\ StreamInv /\ [Next]_vars => StreamInv'
<1> SUFFICES ASSUME DialTypeOK, StreamInv, [Next]_vars PROVE StreamInv' OBVIOUS
<1> USE DEF StreamInv, Reads
<1>t. /\ stream \in Seq(Opening \cup Tokens) /\ read \in Seq(Requests)
      /\ \A t \in Opening \cup Tokens : t.part = "header" => t.of \in Requests
  BY DEF DialTypeOK, TypeOK, Opening, Tokens
<1>1. CASE UNCHANGED <<stream, read>> /\ written \subseteq written'
  BY <1>1
<1>2. ASSUME NEW k \in Nat, UNCHANGED <<read, written>>,
             DOMAIN stream' \subseteq Nat,
             \A i \in DOMAIN stream' : i + k \in DOMAIN stream /\ stream'[i] = stream[i + k]
      PROVE  StreamInv'
  <2>1. \A i, j \in DOMAIN stream' : i + k = j + k => i = j
    BY <1>2
  <2> QED
    BY <1>2, <2>1
<1>3. CASE (\E n \in 0 .. MaxReadAhead : ReadAhead(n)) /\ UNCHANGED <<read, written>>
  <2> HIDE DEF StreamInv, Reads
  <2>0. PICK m \in 0 .. MaxReadAhead :
          m < Len(stream) /\ stream' = SubSeq(stream, m + 2, Len(stream))
    BY <1>3, Zenon DEF ReadAhead
  <2>1. PICK n \in Nat : n < Len(stream) /\ stream' = SubSeq(stream, n + 2, Len(stream))
    BY <2>0
  <2>4. /\ stream' \in Seq(Opening \cup Tokens)
        /\ \A i \in DOMAIN stream' :
             i + n + 1 \in DOMAIN stream /\ stream'[i] = stream[i + n + 1]
    BY <2>1, <1>t, Suffix
  <2>5. DOMAIN stream' \subseteq Nat
    BY <2>4
  <2>2. \A i \in DOMAIN stream' : i + (n + 1) \in DOMAIN stream /\ stream'[i] = stream[i + (n + 1)]
    <3>1. \A i \in Nat : i + (n + 1) = i + n + 1
      OBVIOUS
    <3> QED BY <2>4, <2>5, <3>1
  <2>3. DOMAIN stream' \subseteq Nat /\ n + 1 \in Nat
    BY <2>5
  <2> QED
    BY <1>2, <1>3, <2>2, <2>3
<1>4. CASE stream # <<>> /\ stream' = Tail(stream) /\ UNCHANGED <<read, written>>
  <2>1. \A i \in DOMAIN stream' : i + 1 \in DOMAIN stream /\ stream'[i] = stream[i + 1]
    BY <1>4, <1>t, TailIs
  <2>2. DOMAIN stream' \subseteq Nat
    BY <1>4, <1>t, TailIs
  <2> QED
    BY <1>2, <1>4, <2>1, <2>2
<1>5. CASE ReadHeader
  <2> DEFINE r == stream[1].of
  <2>1. /\ stream # <<>> /\ 1 \in DOMAIN stream /\ stream[1].part = "header"
        /\ stream' = Tail(stream) /\ read' = Append(read, r) /\ UNCHANGED written
    BY <1>5, <1>t, TailIs DEF ReadHeader, NextIs
  <2>2. r \in Requests /\ r \in written \ Range(read)
    BY <2>1, <1>t
  <2>3. Range(read') = Range(read) \cup {r}
    BY <2>1, <2>2, <1>t, AppendIs
  <2>4. \A i \in DOMAIN stream' : i # 0 /\ i + 1 \in DOMAIN stream /\ stream'[i] = stream[i + 1]
    BY <2>1, <1>t, TailIs
  <2>5. ASSUME NEW i \in DOMAIN stream, i # 1, stream[i].part = "header" PROVE stream[i].of # r
    <3>1. \A s, t \in Opening \cup Tokens : s.part = t.part /\ s.of = t.of => s = t
      BY DEF Opening, Tokens
    <3>2. stream[i] \in Opening \cup Tokens /\ stream[1] \in Opening \cup Tokens
      BY <2>1, <1>t
    <3> QED
      BY <2>1, <2>5, <3>1, <3>2
  <2>6. \A i \in DOMAIN stream' : stream'[i].part = "header" => stream'[i].of # r
    <3>1. \A i \in DOMAIN stream' : i + 1 # 1
      BY <2>1, <1>t, TailIs
    <3> QED
      BY <2>4, <2>5, <3>1
  <2>7. \A i, j \in DOMAIN stream' : i + 1 = j + 1 => i = j
    BY <2>1, <1>t, TailIs
  <2> QED
    BY <2>1, <2>2, <2>3, <2>4, <2>6, <2>7
<1>6. ASSUME NEW t \in Opening, Wrote(t), UNCHANGED <<read, written>> PROVE StreamInv'
  <2>1. t.part # "header"
    BY DEF Opening
  <2> QED
    BY <1>6, <2>1, <1>t, AppendIs DEF Wrote
<1>7. ASSUME NEW r \in Requests, ClientSend(r) PROVE StreamInv'
  <2>1. /\ DOMAIN stream' = 1..(Len(stream) + 2)
        /\ \A i \in DOMAIN stream : stream'[i] = stream[i]
        /\ DOMAIN stream = 1..Len(stream)
        /\ stream'[Len(stream) + 1] = Header(r)
        /\ stream'[Len(stream) + 2] = Body(r)
        /\ Len(stream) \in Nat
    BY <1>7, <1>t DEF ClientSend
  <2>2. /\ Header(r).part = "header" /\ Header(r).of = r /\ Body(r).part = "body"
        /\ r \notin written /\ written' = written \cup {r} /\ UNCHANGED read
    BY <1>7 DEF Header, Body, Token, ClientSend
  <2>3. \A i \in DOMAIN stream : stream[i].part = "header" => stream[i].of # r
    BY <2>2
  <2>4. \A i \in DOMAIN stream' : \/ i \in DOMAIN stream
                                  \/ i = Len(stream) + 1
                                  \/ i = Len(stream) + 2
    BY <2>1
  <2>5. \A i \in DOMAIN stream' : stream'[i].part = "header" =>
          \/ i \in DOMAIN stream /\ stream'[i] = stream[i] /\ stream'[i].of # r
          \/ i = Len(stream) + 1 /\ stream'[i].of = r
    BY <2>1, <2>2, <2>3, <2>4
  <2> QED
    BY <2>2, <2>5
<1>8. CASE ServerNext
  BY <1>8, <1>1, <1>3, <1>4, <1>5
     DEF ServerNext, Loop, Handle, Write, AnswerConnect, ReadOption, Refuse,
     ReadHeaderError, ReadBody, ReadBodyError, Reject, NextIs,
     CloseAfterHandlers, MethodReturns, Called, ChildReplies, Sent, Timeout,
     TimeoutReplies, FinishResponse, FinishFails, Released
<1>9. CASE Make
  BY <1>9, <1>1, <1>6, DialAssumption
     DEF Make, WriteConnect, ReadResponse, NewClient, OptionFails, CodecUnknown,
         Token, Opening
<1>10. CASE UNCHANGED serverVars \/ ClientHangUp
  BY <1>10, <1>1 DEF ClientHangUp
<1> QED
  BY <1>7, <1>8, <1>9, <1>10
     DEF Next, Dial, DialFails, ConnectTimesOut, Result, Quiescent

----------------------------------------------------------------------------
(* The loop, the handlers and their children *)

\* The loop accepts a request it has not read before.
LEMMA ReadNew ==
  ASSUME DialTypeOK, StreamInv, ReadHeader
  PROVE  cur' \in Requests \ Reads /\ Reads' = Reads \cup {cur'}
<1>1. /\ stream \in Seq(Opening \cup Tokens) /\ read \in Seq(Requests)
      /\ \A t \in Opening \cup Tokens : t.part = "header" => t.of \in Requests
  BY DEF DialTypeOK, TypeOK, Opening, Tokens
<1>2. 1 \in DOMAIN stream /\ stream[1].part = "header" /\ cur' = stream[1].of
  BY <1>1, TailIs DEF ReadHeader, NextIs
<1>3. cur' \in Requests \ Reads
  BY <1>1, <1>2 DEF StreamInv
<1> QED
  BY <1>1, <1>3, AppendIs DEF ReadHeader, Reads

\* The steps of the loop keep handlers and children together.
LEMMA LoopTasks ==
  ASSUME DialTypeOK, StreamInv, TaskInv, Loop
  PROVE  TaskInv'
<1> USE DEF DialTypeOK, TypeOK, TaskInv, Held, HandlersDone, Reads
<1>1. CASE AnswerConnect
  BY <1>1 DEF AnswerConnect
<1>2. CASE ReadOption
  BY <1>2 DEF ReadOption
<1>3. CASE Refuse
  BY <1>3 DEF Refuse, Range
<1>4. CASE ReadHeader
  <2>1. cur' \in Requests \ Reads /\ Reads' = Reads \cup {cur'}
    BY <1>4, ReadNew
  <2> QED
    BY <1>4, <2>1 DEF ReadHeader
<1>5. CASE ReadHeaderError
  BY <1>5 DEF ReadHeaderError, AfterHeaderError
<1>6. CASE ReadBody
  BY <1>6 DEF ReadBody, StepHandler, StepChild
<1>7. CASE ReadBodyError
  BY <1>7 DEF ReadBodyError
<1>8. CASE Reject
  BY <1>8 DEF Reject, StartResponse
<1>9. CASE CloseAfterHandlers
  BY <1>9 DEF CloseAfterHandlers
<1> QED
  BY <1>1, <1>2, <1>3, <1>4, <1>5, <1>6, <1>7, <1>8, <1>9 DEF Loop

\* So do the steps of a handler and its child, whichever of the timer and the
\* method is first (server.go:173-193).
LEMMA HandlerTasks ==
  ASSUME DialTypeOK, TaskInv, NEW r \in Requests, MethodReturns(r) \/ Handle(r)
  PROVE  TaskInv'
<1> USE DEF DialTypeOK, TypeOK, TaskInv, Held, HandlersDone, Reads, StepHandler, StepChild,
        StartResponse
<1>1. CASE MethodReturns(r)
  BY <1>1 DEF MethodReturns
<1>2. CASE Called(r)
  BY <1>2 DEF Called, HandlerListens
<1>3. CASE ChildReplies(r)
  BY <1>3 DEF ChildReplies
<1>4. CASE Sent(r)
  BY <1>4 DEF Sent
<1>5. CASE Timeout(r)
  BY <1>5 DEF Timeout, AfterTimeout
<1>6. CASE TimeoutReplies(r)
  BY <1>6 DEF TimeoutReplies
<1> QED
  BY <1>1, <1>2, <1>3, <1>4, <1>5, <1>6 DEF Handle

\* And the release of the mutex by the goroutine that holds it.
LEMMA WriteTasks ==
  ASSUME DialTypeOK, TaskInv, MutexInv, NEW w \in writing,
         FinishResponse(w) \/ FinishFails(w)
  PROVE  TaskInv'
<1> USE DEF DialTypeOK, TypeOK, TaskInv, Held, HandlersDone, Reads
<1>1. /\ Released(w) /\ Writes(w.by, w.of) /\ (closed => closed')
      /\ w.of \in Requests /\ w.by \in {"loop", "handler", "child"}
  BY DEF FinishResponse, FinishFails, MutexInv
<1>2. CASE w.by = "loop"
  BY <1>1, <1>2 DEF Released, Writes
<1>3. CASE w.by = "handler"
  BY <1>1, <1>3 DEF Released, Writes, StepHandler
<1>4. CASE w.by = "child"
  BY <1>1, <1>4 DEF Released, Writes, StepChild
<1> QED
  BY <1>1, <1>2, <1>3, <1>4

\* What is not a step of the server leaves its side of the connection alone.
LEMMA ServerOrClient ==
  [Next]_vars => (ServerNext /\ UNCHANGED dialVars) \/ UNCHANGED serverSide
BY DEF Next, Dial, DialFails, ConnectTimesOut, Result, Make, WriteConnect,
   ReadResponse, NewClient, OptionFails, CodecUnknown, ClientSend, ClientHangUp,
   Quiescent

\* In every step the goroutines of a request are where its handling allows.
LEMMA TaskStep ==
  DialTypeOK /\ StreamInv /\ TaskInv /\ MutexInv /\ [Next]_vars => TaskInv'
<1> SUFFICES ASSUME DialTypeOK, StreamInv, TaskInv, MutexInv, [Next]_vars PROVE TaskInv'
  OBVIOUS
<1>1. CASE ServerNext
  BY <1>1, LoopTasks, HandlerTasks, WriteTasks DEF ServerNext, Write
<1>2. CASE UNCHANGED serverSide
  BY <1>2 DEF TaskInv, Held, HandlersDone, Reads
<1> QED
  BY <1>1, <1>2, ServerOrClient

----------------------------------------------------------------------------
(* The mutex and what is written *)

\* Whoever holds the mutex is at the place in its code where it writes
\* (server.go:154-160).
LEMMA MutexStep ==
  DialTypeOK /\ StreamInv /\ TaskInv /\ MutexInv /\ [Next]_vars => MutexInv'
<1> SUFFICES ASSUME DialTypeOK, StreamInv, TaskInv, MutexInv, [Next]_vars PROVE MutexInv'
  OBVIOUS
<1> USE DEF DialTypeOK, TypeOK, MutexInv, Writes
<1>o. OneWriter'
  BY OneWriterStep
<1>1. ASSUME NEW w \in writing, FinishResponse(w) \/ FinishFails(w) PROVE MutexInv'
  <2>1. writing' = {}
    BY <1>1 DEF OneWriter, FinishResponse, FinishFails, Released
  <2> QED
    BY <2>1, <1>o
<1>2. CASE Loop
  <2> USE <1>o
  <2>1. CASE AnswerConnect \/ ReadOption \/ Refuse \/ ReadHeader
    BY <2>1 DEF AnswerConnect, ReadOption, Refuse, ReadHeader
  <2>2. CASE ReadHeaderError \/ ReadBodyError \/ CloseAfterHandlers
    BY <2>2 DEF ReadHeaderError, ReadBodyError, CloseAfterHandlers
  <2>3. CASE ReadBody
    BY <2>3 DEF ReadBody, StepHandler, StepChild
  <2>4. CASE Reject
    BY <2>4 DEF Reject, StartResponse, MayWrite
  <2> QED
    BY <1>2, <2>1, <2>2, <2>3, <2>4 DEF Loop
<1>3. ASSUME NEW r \in Requests, MethodReturns(r) \/ Handle(r) PROVE MutexInv'
  <2> USE <1>o DEF StepHandler, StepChild
  <2>1. CASE MethodReturns(r)
    BY <2>1 DEF MethodReturns
  <2>2. CASE Called(r)
    BY <2>2 DEF Called, HandlerListens
  <2>3. CASE ChildReplies(r)
    BY <2>3 DEF ChildReplies, StartResponse, MayWrite
  <2>4. CASE Sent(r)
    BY <2>4 DEF Sent
  <2>5. CASE Timeout(r)
    BY <2>5 DEF Timeout, AfterTimeout
  <2>6. CASE TimeoutReplies(r)
    BY <2>6 DEF TimeoutReplies, StartResponse, MayWrite
  <2> QED
    BY <1>3, <2>1, <2>2, <2>3, <2>4, <2>5, <2>6 DEF Handle
<1>4. CASE UNCHANGED serverSide
  BY <1>4, <1>o
<1> QED
  BY <1>1, <1>2, <1>3, <1>4, ServerOrClient DEF ServerNext, Write

\* What has begun has begun for good, and so has what has ended; an answer only
\* ends when the mutex is released.
Keeps ==
  \A r \in Requests :
    /\ Began(r) => Began(r)'
    /\ Ended(r) => Ended(r)'
    /\ Ended(r)' /\ ~Ended(r) =>
         \E w \in writing : w.of = r /\ (FinishResponse(w) \/ FinishFails(w))

\* No step of the server takes an answer back.
LEMMA KeepsStep ==
  DialTypeOK /\ StreamInv /\ TaskInv /\ MutexInv /\ [Next]_vars => Keeps
<1> SUFFICES ASSUME DialTypeOK, StreamInv, TaskInv, MutexInv, [Next]_vars PROVE Keeps
  OBVIOUS
<1> USE DEF DialTypeOK, TypeOK, TaskInv, Keeps, Began, Ended, Rejected, Held, Writes
<1>1. ASSUME NEW w \in writing, FinishResponse(w) \/ FinishFails(w) PROVE Keeps
  <2> DEFINE KeepsBut == \A r \in Requests : /\ Began(r) => Began(r)'
                                             /\ Ended(r) => Ended(r)'
                                             /\ Ended(r)' /\ ~Ended(r) => w.of = r
  <2>1. Released(w) /\ Writes(w.by, w.of) /\ UNCHANGED <<read, cur>>
    BY <1>1 DEF FinishResponse, FinishFails, MutexInv, Released
  <2>2. CASE w.by = "loop"
    <3>1. KeepsBut
      BY <2>1, <2>2 DEF Released, Reads
    <3> QED
      BY <1>1, <3>1
  <2>3. CASE w.by = "handler"
    <3>1. KeepsBut
      BY <2>1, <2>3 DEF Released, Reads, StepHandler
    <3> QED
      BY <1>1, <3>1
  <2>4. CASE w.by = "child"
    <3>1. KeepsBut
      BY <2>1, <2>4 DEF Released, Reads, StepChild
    <3> QED
      BY <1>1, <3>1
  <2> QED
    BY <2>1, <2>2, <2>3, <2>4 DEF Released
<1>2. CASE ReadHeader
  <2>1. cur' \in Requests \ Reads /\ Reads' = Reads \cup {cur'}
    BY <1>2, ReadNew
  <2> QED
    BY <1>2, <2>1 DEF ReadHeader
<1>3. CASE Loop /\ UNCHANGED read
  <2> USE <1>3 DEF Reads
  <2>1. CASE AnswerConnect \/ ReadOption \/ Refuse
    BY <2>1 DEF AnswerConnect, ReadOption, Refuse
  <2>2. CASE ReadHeaderError
    BY <2>2 DEF ReadHeaderError, AfterHeaderError
  <2>3. CASE ReadBody
    BY <2>3 DEF ReadBody, StepHandler, StepChild
  <2>4. CASE ReadBodyError
    BY <2>4 DEF ReadBodyError
  <2>5. CASE Reject
    BY <2>5 DEF Reject, StartResponse
  <2>6. CASE CloseAfterHandlers
    BY <2>6 DEF CloseAfterHandlers
  <2> QED
    BY <1>2, <2>1, <2>2, <2>3, <2>4, <2>5, <2>6 DEF Loop
<1>4. ASSUME NEW r \in Requests, MethodReturns(r) \/ Handle(r) PROVE Keeps
  <2> USE <1>4 DEF Reads, StepHandler, StepChild
  <2>1. CASE MethodReturns(r)
    BY <2>1 DEF MethodReturns
  <2>2. CASE Called(r)
    BY <2>2 DEF Called, HandlerListens
  <2>3. CASE ChildReplies(r)
    BY <2>3 DEF ChildReplies, StartResponse
  <2>4. CASE Sent(r)
    BY <2>4 DEF Sent
  <2>5. CASE Timeout(r)
    BY <2>5 DEF Timeout, AfterTimeout
  <2>6. CASE TimeoutReplies(r)
    BY <2>6 DEF TimeoutReplies, StartResponse
  <2> QED
    BY <2>1, <2>2, <2>3, <2>4, <2>5, <2>6 DEF Handle
<1>5. CASE UNCHANGED serverSide
  BY <1>5 DEF Reads
<1>6. Loop => ReadHeader \/ UNCHANGED read
  BY DEF Loop, AnswerConnect, ReadOption, Refuse, ReadHeaderError, ReadBody,
     ReadBodyError, Reject, CloseAfterHandlers
<1> QED
  BY <1>1, <1>2, <1>3, <1>4, <1>5, <1>6, ServerOrClient DEF ServerNext, Write

\* What was written is of requests.
LEMMA OutType ==
  ASSUME DialTypeOK
  PROVE  /\ out \in Seq(Tokens) /\ Len(out) \in Nat
         /\ \A i \in DOMAIN out : out[i].of \in Requests
         /\ \A r \in Requests :
              /\ Header(r) \in Tokens /\ Header(r).part = "header" /\ Header(r).of = r
              /\ Body(r) \in Tokens /\ Body(r).part = "body" /\ Body(r).of = r
<1>1. out \in Seq(Tokens) /\ Len(out) \in Nat
  BY DEF DialTypeOK, TypeOK
<1>2. \A i \in DOMAIN out : out[i] \in Tokens
  BY <1>1
<1>3. \A t \in Tokens : t.of \in Requests
  BY DEF Tokens
<1> QED
  BY <1>1, <1>2, <1>3 DEF Tokens, Header, Body, Token

\* Whoever starts a response to r is the only one who will, and has the mutex;
\* out grows by the header (server.go:154-157).
LEMMA StartOut ==
  ASSUME DialTypeOK, OutInv, WholeResponses, AnsweredOnce, Keeps, UNCHANGED hangup,
         NEW by \in {"loop", "handler", "child"}, NEW r \in Requests, NEW e \in BOOLEAN,
         StartResponse(by, r, e), ~Began(r), Began(r)'
  PROVE  OutInv' /\ WholeResponses' /\ AnsweredOnce'
<1>t. /\ out \in Seq(Tokens) /\ Header(r) \in Tokens
      /\ Header(r).part = "header" /\ Header(r).of = r /\ Len(out) \in Nat
      /\ \A i \in DOMAIN out : out[i].of \in Requests
  BY OutType
<1>u. /\ writing = {} /\ UNCHANGED <<closed, hangup>>
      /\ \A w \in writing' : w.of = r
      /\ writing' # {}
      /\ Gone' = Gone
  BY DEF StartResponse, MayWrite, Gone
<1>1. CASE Gone
  <2>1. out' = out
    BY <1>1 DEF StartResponse, Emit, Gone
  <2> QED
    BY <1>1, <1>t, <1>u, <2>1 DEF OutInv, WholeResponses, AnsweredOnce, Keeps
<1>2. CASE ~Gone
  <2>1. out' = Append(out, Header(r)) /\ Len(out) % 2 = 0
    BY <1>2, <1>u DEF StartResponse, Emit, Gone, OutInv
  <2>2. /\ DOMAIN out' = DOMAIN out \cup {Len(out) + 1}
        /\ \A i \in DOMAIN out : out'[i] = out[i]
        /\ out'[Len(out) + 1] = Header(r) /\ Len(out') = Len(out) + 1
        /\ Len(out) + 1 \notin DOMAIN out
    BY <2>1, <1>t, AppendIs
  <2>3. \A i \in DOMAIN out : out[i] # Header(r)
    BY <1>t DEF OutInv
  <2>4. (Len(out) + 1) % 2 = 1
    BY <2>1, <1>t
  <2>5. OutInv'
    BY <1>2, <1>t, <1>u, <2>2, <2>4 DEF OutInv, Keeps
  <2>6. AnsweredOnce'
    BY <2>2, <2>3 DEF AnsweredOnce
  <2>7. WholeResponses'
    <3>1. \A i \in DOMAIN out : i % 2 = 0 => i - 1 \in DOMAIN out
      BY <1>t
    <3> QED
      BY <1>t, <2>2, <2>4, <3>1 DEF WholeResponses
  <2> QED
    BY <2>5, <2>6, <2>7
<1> QED
  BY <1>1, <1>2

\* Whoever holds the mutex writes the body behind the header it wrote, or
\* nothing and the connection is closed (server.go:157-160).
LEMMA FinishOut ==
  ASSUME DialTypeOK, OutInv, MutexInv, WholeResponses, AnsweredOnce, Keeps,
         UNCHANGED hangup, NEW w \in writing, writing' = {},
         ~Ended(w.of), Ended(w.of)', FinishResponse(w) \/ FinishFails(w)
  PROVE  OutInv' /\ WholeResponses' /\ AnsweredOnce'
<1> DEFINE r == w.of
<1>t. /\ out \in Seq(Tokens) /\ r \in Requests /\ Body(r) \in Tokens
      /\ Body(r).part = "body" /\ Body(r).of = r /\ Len(out) \in Nat
      /\ \A i \in DOMAIN out : out[i].of \in Requests
      /\ Header(r).of = r /\ Header(r).part = "header"
  <2>1. r \in Requests
    BY DEF DialTypeOK, TypeOK
  <2> QED
    BY <2>1, OutType
<1>g. Gone => Gone'
  BY DEF Gone, FinishResponse, FinishFails
<1>1. CASE Gone \/ FinishFails(w)
  <2>1. out' = out /\ Gone'
    BY <1>1, <1>g DEF FinishResponse, FinishFails, Emit, Gone
  <2> QED
    BY <1>t, <2>1 DEF OutInv, WholeResponses, AnsweredOnce, Keeps
<1>2. CASE ~Gone /\ FinishResponse(w)
  <2>1. /\ out' = Append(out, Body(r)) /\ Len(out) % 2 = 1
        /\ out[Len(out)] = Header(r)
    BY <1>2 DEF FinishResponse, Emit, Gone, OutInv
  <2>2. /\ DOMAIN out' = DOMAIN out \cup {Len(out) + 1}
        /\ \A i \in DOMAIN out : out'[i] = out[i]
        /\ out'[Len(out) + 1] = Body(r) /\ Len(out') = Len(out) + 1
        /\ Len(out) + 1 \notin DOMAIN out
    BY <2>1, <1>t, AppendIs
  <2>3. \A i \in DOMAIN out : out[i] # Body(r)
    BY <1>t DEF OutInv
  <2>4. (Len(out) + 1) % 2 = 0 /\ Len(out) \in DOMAIN out
    BY <2>1, <1>t
  <2>5. OutInv'
    BY <1>t, <2>2, <2>4 DEF OutInv, Keeps
  <2>6. AnsweredOnce'
    BY <2>2, <2>3 DEF AnsweredOnce
  <2>7. WholeResponses'
    <3>1. \A i \in DOMAIN out : i % 2 = 0 => i - 1 \in DOMAIN out
      BY <1>t
    <3>2. out'[Len(out) + 1].of = out'[(Len(out) + 1) - 1].of
      BY <1>t, <2>1, <2>2, <2>4
    <3> QED
      BY <1>t, <2>2, <2>4, <3>1, <3>2 DEF WholeResponses
  <2> QED
    BY <2>5, <2>6, <2>7
<1> QED
  BY <1>1, <1>2

\* A step that neither takes nor releases the mutex writes nothing.
LEMMA QuietOut ==
  ASSUME DialTypeOK, OutInv, WholeResponses, AnsweredOnce, Keeps,
         UNCHANGED <<writing, out>>, Gone => Gone'
  PROVE  OutInv' /\ WholeResponses' /\ AnsweredOnce'
<1>1. \A i \in DOMAIN out : out[i].of \in Requests
  BY OutType
<1> QED
  BY <1>1 DEF OutInv, WholeResponses, AnsweredOnce, Keeps

\* Responses are whole and nobody is answered twice, in every step.
LEMMA OutStep ==
  /\ DialTypeOK /\ StreamInv /\ TaskInv /\ MutexInv /\ OutInv
  /\ WholeResponses /\ AnsweredOnce
  /\ [Next]_vars
  => OutInv' /\ WholeResponses' /\ AnsweredOnce'
<1> SUFFICES ASSUME DialTypeOK, StreamInv, TaskInv, MutexInv, OutInv, WholeResponses,
                    AnsweredOnce, [Next]_vars
             PROVE  OutInv' /\ WholeResponses' /\ AnsweredOnce'
  OBVIOUS
<1>k. Keeps
  BY KeepsStep
<1>1. CASE Reject
  <2>1. PICK r \in Requests : r = cur
    BY <1>1 DEF Reject, DialTypeOK, TypeOK
  <2>2. StartResponse("loop", r, TRUE) /\ UNCHANGED hangup
    BY <1>1, <2>1 DEF Reject
  <2>3. ~Began(r)
    BY <1>1, <2>1 DEF Reject, TaskInv, Began, Ended, Rejected, Held, Writes
  <2>4. Began(r)'
    BY <1>1, <2>1 DEF Reject, Began, Writes
  <2> QED
    BY <1>k, <2>2, <2>3, <2>4, StartOut
<1>2. ASSUME NEW r \in Requests, ChildReplies(r)
      PROVE  OutInv' /\ WholeResponses' /\ AnsweredOnce'
  <2>1. StartResponse("child", r, failed[r]) /\ UNCHANGED hangup /\ failed[r] \in BOOLEAN
    BY <1>2 DEF ChildReplies, DialTypeOK, TypeOK
  <2>2. ~Began(r)
    BY <1>2 DEF ChildReplies, StepChild, TaskInv, Began, Ended, Rejected, Held, Writes
  <2>3. Began(r)'
    BY <1>2 DEF ChildReplies, StepChild, DialTypeOK, TypeOK, Began, Writes
  <2> QED
    BY <1>k, <2>1, <2>2, <2>3, StartOut
<1>3. ASSUME NEW r \in Requests, TimeoutReplies(r)
      PROVE  OutInv' /\ WholeResponses' /\ AnsweredOnce'
  <2>1. StartResponse("handler", r, TRUE) /\ UNCHANGED hangup
    BY <1>3 DEF TimeoutReplies
  <2>2. ~Began(r)
    BY <1>3 DEF TimeoutReplies, StepHandler, TaskInv, Began, Ended, Rejected, Held, Writes
  <2>3. Began(r)'
    BY <1>3 DEF TimeoutReplies, StepHandler, DialTypeOK, TypeOK, Began, Writes
  <2> QED
    BY <1>k, <2>1, <2>2, <2>3, StartOut
<1>4. ASSUME NEW w \in writing, FinishResponse(w) \/ FinishFails(w)
      PROVE  OutInv' /\ WholeResponses' /\ AnsweredOnce'
  <2>1. /\ writing' = {} /\ Released(w) /\ UNCHANGED <<hangup, cur, read>>
        /\ Writes(w.by, w.of) /\ w.of \in Requests /\ w.by \in {"loop", "handler", "child"}
    BY <1>4 DEF FinishResponse, FinishFails, Released, MutexInv, OneWriter, DialTypeOK, TypeOK
  <2>2. ~Ended(w.of)
    BY <2>1 DEF TaskInv, Writes, Ended, Rejected, Held
  <2>3. Ended(w.of)'
    BY <2>1 DEF TaskInv, Writes, Ended, Rejected, Held, Released, DialTypeOK, TypeOK,
       Reads, StepHandler, StepChild
  <2> QED
    BY <1>4, <1>k, <2>1, <2>2, <2>3, FinishOut
<1>5. CASE UNCHANGED <<writing, out>> /\ (Gone => Gone')
  BY <1>5, <1>k, QuietOut
<1>6. CASE UNCHANGED serverSide /\ (hangup => hangup')
  BY <1>6, <1>5 DEF Gone
<1>7. CASE Loop
  BY <1>7, <1>1, <1>5 DEF Loop, AnswerConnect, ReadOption, Refuse, ReadHeader, ReadHeaderError,
     ReadBody, ReadBodyError, CloseAfterHandlers, Gone
<1>8. ASSUME NEW r \in Requests, MethodReturns(r) \/ Handle(r)
      PROVE  OutInv' /\ WholeResponses' /\ AnsweredOnce'
  BY <1>8, <1>2, <1>3, <1>5 DEF MethodReturns, Handle, Called, Sent, Timeout, Gone
<1>9. UNCHANGED serverSide => (hangup => hangup')
  BY DEF Next, ServerNext, Loop, Handle, Write, AnswerConnect, ReadOption, Refuse, ReadHeader,
     ReadHeaderError, ReadBody, ReadBodyError, Reject, CloseAfterHandlers, MethodReturns, Called,
     ChildReplies, Sent, Timeout, TimeoutReplies, FinishResponse, FinishFails, Released,
     Dial, DialFails, ConnectTimesOut, Result, Make,
     WriteConnect, ReadResponse, NewClient, OptionFails, CodecUnknown, ClientSend, ClientHangUp,
     Quiescent
<1> QED
  BY <1>4, <1>6, <1>7, <1>8, <1>9, ServerOrClient DEF ServerNext, Write

----------------------------------------------------------------------------
(* What is over is answered *)

\* Output is only appended, and only while both ends are there.
Grows == \/ out' = out
         \/ ~Gone /\ \E t \in Tokens : out' = Append(out, t)

\* A connection that is gone stays gone, and takes no more output.
LEMMA OutGrows ==
  ASSUME DialTypeOK, [Next]_vars
  PROVE  /\ hangup => hangup'
         /\ closed => closed'
         /\ Grows
<1>1. ASSUME NEW r \in Requests, Emit(Header(r)) \/ Emit(Body(r))
      PROVE  Grows
  BY <1>1, OutType DEF Emit, Gone, Grows
<1>2. CASE Loop
  <2>1. CASE Reject
    <3>1. cur \in Requests
      BY <2>1 DEF Reject, DialTypeOK, TypeOK
    <3> QED
      BY <2>1, <3>1, <1>1 DEF Reject, StartResponse, Grows
  <2> QED
    BY <1>2, <2>1 DEF Loop, AnswerConnect, ReadOption, Refuse, ReadHeader,
       ReadHeaderError, ReadBody, ReadBodyError, CloseAfterHandlers, Grows
<1>3. ASSUME NEW r \in Requests, MethodReturns(r) \/ Handle(r)
      PROVE  /\ UNCHANGED <<hangup, closed>>
             /\ Grows
  BY <1>3, <1>1 DEF MethodReturns, Handle, Called, ChildReplies, Sent, Timeout,
     TimeoutReplies, StartResponse, Grows
<1>4. ASSUME NEW w \in writing, FinishResponse(w) \/ FinishFails(w)
      PROVE  /\ UNCHANGED hangup /\ (closed => closed')
             /\ Grows
  <2>1. w.of \in Requests
    BY DEF DialTypeOK, TypeOK
  <2> QED
    BY <1>1, <1>4, <2>1 DEF FinishResponse, FinishFails, Released, Grows
<1>5. CASE ServerNext
  BY <1>2, <1>3, <1>4, <1>5 DEF ServerNext, Write
<1>6. CASE UNCHANGED serverSide
  <2>1. CASE UNCHANGED hangup \/ hangup' = TRUE
    BY <1>6, <2>1 DEF Grows
  <2> QED
    BY <1>5, <2>1 DEF Next, Dial, DialFails, ConnectTimesOut, Result, Make, WriteConnect,
       ReadResponse, NewClient, OptionFails, CodecUnknown, ClientSend, ClientHangUp, Quiescent
<1> QED
  BY <1>5, <1>6, ServerOrClient

\* The connection is closed, by wg.Wait, only when all is answered, or by a
\* codec that could not encode a result (server.go:102-106, codec/gob.go:37-56).
LEMMA AnswerStep ==
  /\ DialTypeOK /\ StreamInv /\ TaskInv /\ MutexInv /\ OutInv /\ AnswerInv
  /\ [Next]_vars
  => AnswerInv'
<1> SUFFICES ASSUME DialTypeOK, StreamInv, TaskInv, MutexInv, OutInv, AnswerInv,
                    [Next]_vars, ~hangup'
             PROVE  \/ closed' /\ Len(out') % 2 = 1
                    \/ /\ \A r \in Requests : Ended(r)' => Answered(r)'
                       /\ closed' => loop' = "closed"
  BY DEF AnswerInv
<1>k. Keeps
  BY KeepsStep
<1>g. /\ ~hangup /\ (closed => closed')
      /\ Grows
  BY OutGrows
<1>1. CASE closed /\ Len(out) % 2 = 1
  BY <1>1, <1>g DEF Gone, Grows
<1>2. CASE /\ \A r \in Requests : Ended(r) => Answered(r)
           /\ closed => loop = "closed"
  <2>1. \A r \in Requests : Answered(r) => Answered(r)'
    <3>1. ASSUME NEW t \in Tokens, out' = Append(out, t) PROVE Range(out) \subseteq Range(out')
      BY <3>1, AppendIs, OutType
    <3> QED
      BY <1>g, <3>1 DEF Answered, Grows
  <2>2. ASSUME NEW w \in writing, FinishResponse(w) \/ FinishFails(w)
        PROVE  \/ closed' /\ Len(out') % 2 = 1
               \/ /\ \A r \in Requests : Ended(r)' => Answered(r)'
                  /\ closed' => loop' = "closed"
    <3>1. /\ w.of \in Requests /\ Writes(w.by, w.of) /\ w.by \in {"loop", "handler", "child"}
          /\ \A v \in writing : v = w
      BY DEF DialTypeOK, TypeOK, MutexInv, OneWriter
    <3>2. loop # "closed"
      BY <3>1 DEF TaskInv, HandlersDone, Writes
    <3>3. ~Gone
      BY <1>2, <1>g, <3>2 DEF Gone
    <3>4. CASE FinishFails(w)
      <4>1. closed' /\ out' = out
        BY <3>4 DEF FinishFails
      <4>2. Len(out) % 2 = 1
        BY <3>3 DEF OutInv
      <4> QED
        BY <4>1, <4>2
    <3>5. CASE FinishResponse(w)
      <4>1. out' = Append(out, Body(w.of)) /\ UNCHANGED closed
        BY <3>3, <3>5 DEF FinishResponse, Emit, Gone
      <4>2. Answered(w.of)'
        BY <4>1, <3>1, AppendIs, OutType DEF Answered
      <4>3. \A r \in Requests : Ended(r)' => Ended(r) \/ r = w.of
        BY <1>k, <3>1 DEF Keeps
      <4>4. ~closed'
        BY <4>1, <3>3 DEF Gone
      <4> QED
        BY <1>2, <2>1, <4>2, <4>3, <4>4
    <3> QED
      BY <2>2, <3>4, <3>5
  <2>3. CASE \A w \in writing : ~(FinishResponse(w) \/ FinishFails(w))
    <3>1. \A r \in Requests : Ended(r)' => Answered(r)'
      BY <1>2, <1>k, <2>1, <2>3 DEF Keeps
    <3>2. closed' => loop' = "closed"
      <4>1. CASE Loop
        BY <1>2, <4>1 DEF Loop, AnswerConnect, ReadOption, Refuse, ReadHeader, ReadHeaderError,
           ReadBody, ReadBodyError, Reject, StartResponse, CloseAfterHandlers
      <4>2. ASSUME NEW r \in Requests, MethodReturns(r) \/ Handle(r) PROVE UNCHANGED <<loop, closed>>
        BY <4>2 DEF MethodReturns, Handle, Called, ChildReplies, Sent, Timeout,
           TimeoutReplies, StartResponse
      <4> QED
        BY <1>2, <2>3, <4>1, <4>2, ServerOrClient DEF ServerNext, Write
    <3> QED
      BY <3>1, <3>2
  <2> QED
    BY <2>2, <2>3
<1> QED
  BY <1>1, <1>2, <1>g DEF AnswerInv

----------------------------------------------------------------------------
(* The handshake *)

\* The client waits for the answer to CONNECT before it writes the option, so
\* that what Hijack drops cannot be the option (client.go:279-288).
LEMMA HandshakeStep ==
  DialTypeOK /\ HandshakeInv /\ [Next]_vars => HandshakeInv'
<1> SUFFICES ASSUME DialTypeOK, HandshakeInv, [Next]_vars PROVE HandshakeInv' OBVIOUS
<1> USE DEF HandshakeInv, NextIs
<1>t. stream \in Seq(Opening \cup Tokens)
  BY DEF DialTypeOK, TypeOK
<1>1. CASE Make
  <2>0. \A t : /\ Append(<<>>, t) # <<>> /\ Len(Append(<<>>, t)) = 1
              /\ Head(Append(<<>>, t)) = t
    OBVIOUS
  <2>1. CASE WriteConnect
    <3>1. stream' = Append(<<>>, Token("connect", None)) /\ maker' = "response"
      BY <2>1 DEF WriteConnect, Wrote, AfterConnect
    <3> QED
      BY <2>0, <2>1, <3>1 DEF WriteConnect
  <2>2. CASE NewClient
    <3>1. stream' = Append(<<>>, Token("option", codec)) /\ maker' = "made"
      BY <2>2 DEF NewClient, Wrote
    <3>2. Head(stream').part = "option" /\ stream' # <<>>
      BY <2>0, <3>1 DEF Token
    <3> QED
      BY <2>2, <3>1, <3>2 DEF NewClient
  <2>3. CASE ReadResponse \/ OptionFails \/ CodecUnknown
    BY <2>3 DEF ReadResponse, OptionFails, CodecUnknown
  <2> QED
    BY <1>1, <2>1, <2>2, <2>3 DEF Make
<1>2. CASE Dial \/ DialFails \/ ConnectTimesOut \/ Result \/ ClientHangUp \/ Quiescent
  BY <1>2 DEF Dial, FirstStep, DialFails, ConnectTimesOut, Result, ClientHangUp, Quiescent
<1>3. ASSUME NEW r \in Requests, ClientSend(r) PROVE HandshakeInv'
  <2>1. /\ stream # <<>> => stream' # <<>> /\ Head(stream') = Head(stream)
        /\ UNCHANGED <<serverSide, dialVars>> /\ dialer = "client"
    BY <1>3, <1>t DEF ClientSend, Header, Body, Token
  <2> QED
    BY <2>1
<1>4. CASE Loop /\ UNCHANGED dialVars
  <2>1. CASE AnswerConnect
    <3>1. loop = "http" /\ Head(stream).part = "connect" /\ stream # <<>> /\ UNCHANGED dialVars
      BY <1>4, <2>1 DEF AnswerConnect
    <3>2. maker # "made" /\ dialer # "client"
      BY <3>1
    <3>3. maker \notin {"none", "connect", "new"}
      BY <3>1
    <3>4. maker = "response" => stream' = <<>>
      <4>1. ASSUME maker = "response", NEW n \in Nat, n < Len(stream)
            PROVE SubSeq(stream, n + 2, Len(stream)) = <<>>
        BY <4>1, <1>t
      <4> QED
        BY <4>1, <2>1, ServerAssumption DEF AnswerConnect, ReadAhead
    <3> QED
      BY <3>1, <3>2, <3>3, <3>4
  <2>2. CASE ReadOption
    <3>1. /\ maker \notin {"none", "connect", "new"}
          /\ loop' \in {"header", "lost"} /\ UNCHANGED greeted
      BY <1>4, <2>2 DEF ReadOption
    <3>2. PICK n \in Nat : n < Len(stream) /\ stream' = SubSeq(stream, n + 2, Len(stream))
      BY <2>2, ServerAssumption DEF ReadOption, ReadAhead
    <3>3. Len(stream') <= Len(stream) /\ (Len(stream) <= 1 => stream' = <<>>)
      BY <1>t, <3>2
    <3> QED
      BY <1>4, <3>1, <3>3, <1>t
  <2>3. CASE ReadHeader \/ ReadHeaderError \/ ReadBody \/ ReadBodyError
    <3>1. /\ UNCHANGED stream \/ (stream # <<>> /\ stream' = Tail(stream))
          /\ loop' \notin {"http", "option"} /\ UNCHANGED greeted
      BY <1>4, <2>3 DEF ReadHeader, ReadHeaderError, AfterHeaderError, ReadBody, ReadBodyError
    <3>2. stream # <<>> /\ stream' = Tail(stream) =>
            Len(stream') <= Len(stream) /\ (Len(stream) <= 1 => stream' = <<>>)
      BY <1>t
    <3> QED
      BY <1>4, <3>1, <3>2, <1>t
  <2>4. CASE Refuse \/ Reject \/ CloseAfterHandlers
    BY <1>4, <2>4 DEF Refuse, Reject, StartResponse, CloseAfterHandlers
  <2> QED
    BY <1>4, <2>1, <2>2, <2>3, <2>4 DEF Loop
<1>5. ASSUME NEW r \in Requests, MethodReturns(r) \/ Handle(r), UNCHANGED dialVars
      PROVE  HandshakeInv'
  <2>1. UNCHANGED <<stream, greeted, loop>>
    BY <1>5 DEF MethodReturns, Handle, Called, ChildReplies, Sent, Timeout, TimeoutReplies
  <2> QED
    BY <1>5, <2>1
<1>6. ASSUME NEW w \in writing, FinishResponse(w) \/ FinishFails(w), UNCHANGED dialVars
      PROVE  HandshakeInv'
  <2>1. UNCHANGED <<stream, greeted>> /\ (UNCHANGED loop \/ loop' = "header")
    BY <1>6 DEF FinishResponse, FinishFails, Released
  <2> QED
    BY <1>6, <2>1
<1>7. CASE UNCHANGED vars
  BY <1>7
<1> QED
  BY <1>1, <1>2, <1>3, <1>4, <1>5, <1>6, <1>7 DEF Next, ServerNext, Write

----------------------------------------------------------------------------
(* The theorems *)

\* The invariant holds when nobody has dialled yet.
LEMMA InitInv == Init => IInv
<1> SUFFICES ASSUME Init PROVE IInv OBVIOUS
<1>1. DialTypeOK
  BY InitType
<1>2. loop \in {"mute", "http", "option"}
  BY ServerAssumption DEF Init, ServerInit
<1>3. StreamInv /\ MutexInv /\ WholeResponses /\ AnsweredOnce
  BY DEF Init, ServerInit, StreamInv, Reads, Range, MutexInv, OneWriter,
     WholeResponses, AnsweredOnce
<1>4. TaskInv
  BY <1>2 DEF Init, ServerInit, TaskInv, Held
<1>5. OutInv
  BY DEF Init, ServerInit, OutInv
<1>6. AnswerInv
  BY <1>2 DEF Init, ServerInit, AnswerInv, Ended, Rejected, Reads, Range
<1>7. HandshakeInv
  BY DEF Init, ServerInit, HandshakeInv
<1> QED
  BY <1>1, <1>3, <1>4, <1>5, <1>6, <1>7 DEF IInv

\* Every step preserves it.
LEMMA NextInv == IInv /\ [Next]_vars => IInv'
<1> SUFFICES ASSUME IInv, [Next]_vars PROVE IInv' OBVIOUS
<1> USE DEF IInv
<1>1. DialTypeOK'
  BY NextType DEF MutexInv
<1>2. StreamInv'
  BY StreamStep
<1>3. TaskInv' /\ MutexInv'
  BY TaskStep, MutexStep
<1>4. OutInv' /\ WholeResponses' /\ AnsweredOnce'
  BY OutStep
<1>5. AnswerInv' /\ HandshakeInv'
  BY AnswerStep, HandshakeStep
<1> QED
  BY <1>1, <1>2, <1>3, <1>4, <1>5

\* In every reachable state of a dial, its connection and its requests the
\* inductive invariant holds, the types among it (server.go:63-193,
\* client.go:180-213).
THEOREM IInvCorrect == Spec => []IInv
<1>1. Init => IInv
  BY InitInv
<1>2. IInv /\ [Next]_vars => IInv'
  BY NextInv
<1> QED
  BY <1>1, <1>2, PTL DEF Spec

\* However a timeout races with the method, a request has one answer
\* (server.go:180-192).
THEOREM AnsweredOnceCorrect == Spec => []AnsweredOnce
<1>1. IInv => AnsweredOnce
  BY DEF IInv
<1> QED
  BY <1>1, IInvCorrect, PTL

\* The sending mutex keeps responses whole on the wire (server.go:154-160).
THEOREM WholeResponsesCorrect == Spec => []WholeResponses
<1>1. IInv => WholeResponses
  BY DEF IInv
<1> QED
  BY <1>1, IInvCorrect, PTL

\* wg.Wait holds the connection open until every request that was read has been
\* answered (server.go:102-106).
THEOREM AnsweredBeforeCloseCorrect == Spec => []AnsweredBeforeClose
<1>1. IInv => AnsweredBeforeClose
  <2> SUFFICES ASSUME IInv, loop = "closed", ~hangup, Len(out) % 2 # 1,
                      NEW r \in Range(read)
               PROVE  Answered(r)
    BY DEF AnsweredBeforeClose
  <2>1. r \in Requests
    BY DEF IInv, DialTypeOK, TypeOK, Range
  <2>2. Ended(r)
    BY <2>1 DEF IInv, TaskInv, HandlersDone, Ended, Rejected, Held, Reads
  <2> QED
    BY <2>1, <2>2 DEF IInv, AnswerInv
<1> QED
  BY <1>1, IInvCorrect, PTL

\* No buffered reader of the server swallows the option of a client that was
\* handed out (client.go:279-288, server.go:247-253).
THEOREM OptionArrivesCorrect == Spec => []OptionArrives
<1>1. IInv => OptionArrives
  <2> SUFFICES ASSUME IInv, dialer = "client", loop \in {"http", "option"}
               PROVE  \E i \in DOMAIN stream : stream[i].part = "option"
    BY DEF OptionArrives
  <2>1. stream \in Seq(Opening \cup Tokens)
    BY DEF IInv, DialTypeOK, TypeOK
  <2>2. stream # <<>> /\ Head(stream).part = "option"
    BY DEF IInv, HandshakeInv, NextIs
  <2> QED
    BY <2>1, <2>2, TailIs
<1> QED
  BY <1>1, IInvCorrect, PTL

=============================================================================
