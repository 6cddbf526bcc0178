----------------------------- MODULE RpcServer -----------------------------
(***************************************************************************)
(* geerpc.Server serving one connection: ServeHTTP, which answers CONNECT  *)
(* and takes the connection over, ServeConn, which reads the option, the   *)
(* serveCodec loop that reads requests, and for each request the goroutine *)
(* that handles it (handler) and the one that calls the method (child),    *)
(* joined by the unbuffered channels called and sent.                      *)
(*                                                                         *)
(* What the client sends are tokens: the CONNECT line, the JSON option     *)
(* with the codec it names, and gob values, a header and a body for each   *)
(* request and response.  The body of a request is no valid header: the    *)
(* argument types share no field with codec.Header.  A method may fail and *)
(* may never return; one that panics ends the process and is left out.     *)
(* The client is RpcDial; the methods are external.                        *)
(***************************************************************************)
EXTENDS Naturals, Sequences, SequencesExt, FiniteSets

CONSTANTS
  Requests,
  Unknown,       \* the requests for a service or method nobody registered
  HandleTimeout, \* Option.HandleTimeout # 0
  MethodsReturn, \* every method returns
  MaxReadAhead,  \* tokens a buffered reader may take beyond what it decodes
  Codecs,        \* the codecs an option may name
  ServerCodecs,  \* those in the server's NewCodecFuncMap
  Listeners,     \* who accepts: "http", "option" (Accept) or a "mute" peer
  None

ASSUME ServerAssumption == /\ Unknown \subseteq Requests
                           /\ None \notin Requests
                           /\ HandleTimeout \in BOOLEAN
                           /\ MethodsReturn \in BOOLEAN
                           /\ MaxReadAhead \in Nat
                           /\ ServerCodecs \subseteq Codecs
                           /\ Listeners \subseteq {"http", "option", "mute"}

VARIABLES
  stream,   \* what the client wrote and the server has not read
  written,  \* the requests the client has written (history)
  hangup,   \* the client has closed the connection
  closed,   \* the server has closed the connection
  greeted,  \* it has answered CONNECT with 200
  loop,     \* where the goroutine that serves the connection is
  cur,      \* the request it reads
  read,     \* the requests whose header it read, in order (history)
  handler,  \* where the handler of each request is
  child,    \* where the child of each request is
  failed,   \* header.Error of each request
  writing,  \* responses half written: at most one, under the sending mutex
  out       \* what the server wrote

connVars == <<written, hangup, greeted>>
loopVars == <<loop, cur, read>>
taskVars == <<handler, child, failed>>
outVars == <<closed, writing, out>>
serverVars == <<stream, connVars, loopVars, taskVars, outVars>>

----------------------------------------------------------------------------
(* Helpers *)

Token(part, r) == [part |-> part, of |-> r]
Header(r) == Token("header", r)
Body(r) == Token("body", r)

\* The next value of the stream is of this part.
NextIs(part) == stream # <<>> /\ Head(stream).part = part

\* Reading fails: nothing is left and nothing will come.
ReadFails == closed \/ (stream = <<>> /\ hangup)

\* What is written reaches the client as long as somebody is there.
Emit(token) == out' = IF closed \/ hangup THEN out ELSE Append(out, token)

UnlockedWrite == TRUE
MayWrite == writing = {}

\* sendResponse() takes the mutex and the codec writes the header.
StartResponse(by, r, isError) ==
  /\ MayWrite
  /\ writing' = writing \cup {[by |-> by, of |-> r, error |-> isError]}
  /\ Emit(Header(r))
  /\ UNCHANGED closed

StepHandler(r, from, to) == /\ handler[r] = from
                            /\ handler' = [handler EXCEPT ![r] = to]
StepChild(r, from, to) == /\ child[r] = from
                          /\ child' = [child EXCEPT ![r] = to]

----------------------------------------------------------------------------
(* ServeHTTP and ServeConn *)

\* A buffered reader that is dropped takes n values behind the first along.
ReadAhead(n) == /\ n < Len(stream)
                /\ stream' = SubSeq(stream, n + 2, Len(stream))

\* net/http reads the CONNECT line, Hijack hands over the connection, and what
\* the reader of net/http holds of the bytes behind it is dropped.
AnswerConnect ==
  /\ loop = "http"
  /\ NextIs("connect")
  /\ \E n \in 0 .. MaxReadAhead : ReadAhead(n)
  /\ greeted' = TRUE
  /\ loop' = "option"
  /\ UNCHANGED <<written, hangup, cur, read, taskVars, outVars>>

\* The decoder of the option is dropped; the codec reads from the connection.
\* gob sends the definition of a type before the first value of it only: a codec
\* that missed the first header ("lost") makes sense of none of what follows.
ReadOption ==
  /\ loop = "option"
  /\ NextIs("option")
  /\ Head(stream).of \in ServerCodecs
  /\ \E n \in 0 .. MaxReadAhead :
       /\ ReadAhead(n)
       /\ loop' = IF n = 0 THEN "header" ELSE "lost"
  /\ UNCHANGED <<connVars, cur, read, taskVars, outVars>>

\* Not HTTP, no option or one the server cannot serve, or nobody there.
Refuse ==
  /\ \/ loop = "http" /\ stream # <<>> /\ ~NextIs("connect")
     \/ loop = "option" /\ stream # <<>> /\ ~NextIs("option")
     \/ /\ loop = "option"
        /\ NextIs("option")
        /\ Head(stream).of \notin ServerCodecs
     \/ loop \in {"http", "option"} /\ ReadFails
  /\ loop' = "closed"
  /\ closed' = TRUE
  /\ UNCHANGED <<stream, connVars, cur, read, taskVars, writing, out>>

----------------------------------------------------------------------------
(* serveCodec.  After Close the decoder may still hold values it has read    *)
(* from the connection, so a closed connection need not end the loop.       *)

\* readRequestHeader() and findService(): without a service the request is
\* answered at once, and its body stays in the stream.
ReadHeader ==
  /\ loop = "header"
  /\ NextIs("header")
  /\ stream' = Tail(stream)
  /\ cur' = Head(stream).of
  /\ read' = Append(read, cur')
  /\ loop' = IF cur' \in Unknown THEN "reject" ELSE "body"
  /\ UNCHANGED <<connVars, taskVars, outVars>>

HeaderErrorIgnored == "header"
AfterHeaderError == "wait"

\* Nothing to read, or a value that is not a header: the loop ends.
ReadHeaderError ==
  /\ loop \in {"header", "lost"}
  /\ \/ ReadFails /\ UNCHANGED stream
     \/ /\ NextIs("body") \/ (loop = "lost" /\ stream # <<>>)
        /\ stream' = Tail(stream)
  /\ loop' = AfterHeaderError
  /\ UNCHANGED <<connVars, cur, read, taskVars, outVars>>

\* The body is decoded and the request handed to a goroutine of its own.
ReadBody ==
  /\ loop = "body"
  /\ NextIs("body")
  /\ stream' = Tail(stream)
  /\ StepHandler(cur, "none", "select")
  /\ StepChild(cur, "none", "calling")
  /\ loop' = "header"
  /\ UNCHANGED <<connVars, cur, read, failed, outVars>>

\* The arguments are of another type, or the connection is gone.
ReadBodyError ==
  /\ loop = "body"
  /\ \/ ReadFails /\ UNCHANGED stream
     \/ NextIs("body") /\ stream' = Tail(stream)
  /\ loop' = "reject"
  /\ UNCHANGED <<connVars, cur, read, taskVars, outVars>>

Reject ==
  /\ loop = "reject"
  /\ StartResponse("loop", cur, TRUE)
  /\ loop' = "rejecting"
  /\ UNCHANGED <<stream, connVars, cur, read, taskVars>>

NotWaiting == TRUE
HandlersDone == \A r \in Requests : handler[r] \in {"none", "done"}

\* wg.Wait() and cc.Close().
CloseAfterHandlers ==
  /\ loop = "wait"
  /\ HandlersDone
  /\ loop' = "closed"
  /\ closed' = TRUE
  /\ UNCHANGED <<stream, connVars, cur, read, taskVars, writing, out>>

----------------------------------------------------------------------------
(* handleRequest: the handler and its child *)

\* service.call() returns, with an error or without.
MethodReturns(r) ==
  /\ StepChild(r, "calling", "called")
  /\ \E isError \in BOOLEAN : failed' = [failed EXCEPT ![r] = isError]
  /\ UNCHANGED <<stream, connVars, loopVars, handler, outVars>>

CalledBuffered(r) == TRUE
HandlerListens(r) == handler[r] = "select"

\* called <- struct{}{} meets <-called.
Called(r) ==
  /\ HandlerListens(r)
  /\ StepChild(r, "called", "reply")
  /\ handler' = [handler EXCEPT ![r] = IF @ = "select" THEN "waitSent" ELSE @]
  /\ UNCHANGED <<stream, connVars, loopVars, failed, outVars>>

ChildReplies(r) ==
  /\ StepChild(r, "reply", "replying")
  /\ StartResponse("child", r, failed[r])
  /\ UNCHANGED <<stream, connVars, loopVars, handler, failed>>

\* sent <- struct{}{} meets <-sent.
Sent(r) ==
  /\ StepChild(r, "sent", "end")
  /\ StepHandler(r, "waitSent", "done")
  /\ UNCHANGED <<stream, connVars, loopVars, failed, outVars>>

TimeoutUnanswered == "done"
AfterTimeout == "timeout"

\* The timer may win the select even when the child is ready.
Timeout(r) ==
  /\ HandleTimeout
  /\ StepHandler(r, "select", AfterTimeout)
  /\ UNCHANGED <<stream, connVars, loopVars, child, failed, outVars>>

TimeoutReplies(r) ==
  /\ StepHandler(r, "timeout", "replying")
  /\ StartResponse("handler", r, TRUE)
  /\ UNCHANGED <<stream, connVars, loopVars, child, failed>>

\* The writer releases the mutex and goes on.
Released(w) ==
  /\ writing' = writing \ {w}
  /\ \/ w.by = "loop" /\ loop' = "header" /\ UNCHANGED <<handler, child>>
     \/ w.by = "handler" /\ StepHandler(w.of, "replying", "done")
        /\ UNCHANGED <<loop, child>>
     \/ w.by = "child" /\ StepChild(w.of, "replying", "sent")
        /\ UNCHANGED <<loop, handler>>
  /\ UNCHANGED <<stream, connVars, cur, read, failed>>

FinishResponse(w) ==
  /\ Emit(Body(w.of))
  /\ Released(w)
  /\ UNCHANGED closed

\* gob refuses the result of the method: the header is out, the body is not,
\* and the codec closes the connection.
FinishFails(w) ==
  /\ w.by = "child"
  /\ ~w.error
  /\ closed' = TRUE
  /\ Released(w)
  /\ UNCHANGED out

----------------------------------------------------------------------------

ServerInit ==
  /\ stream = <<>>
  /\ written = {}
  /\ hangup = FALSE
  /\ closed = FALSE
  /\ greeted = FALSE
  /\ loop \in Listeners
  /\ cur = None
  /\ read = <<>>
  /\ handler = [r \in Requests |-> "none"]
  /\ child = [r \in Requests |-> "none"]
  /\ failed = [r \in Requests |-> FALSE]
  /\ writing = {}
  /\ out = <<>>

Loop == \/ AnswerConnect
        \/ ReadOption
        \/ Refuse
        \/ ReadHeader
        \/ ReadHeaderError
        \/ ReadBody
        \/ ReadBodyError
        \/ Reject
        \/ CloseAfterHandlers

Handle(r) == \/ Called(r)
             \/ ChildReplies(r)
             \/ Sent(r)
             \/ Timeout(r)
             \/ TimeoutReplies(r)

Write == \E w \in writing : FinishResponse(w) \/ FinishFails(w)

ServerNext == \/ \E r \in Requests : MethodReturns(r) \/ Handle(r)
              \/ Loop
              \/ Write

(***************************************************************************)
(* Runnable goroutines run, the sending mutex that finitely many of them   *)
(* contend for is granted, the timer of a handler fires, and methods       *)
(* return if MethodsReturn.                                                *)
(***************************************************************************)
ServerFairness == /\ WF_serverVars(Loop)
                  /\ WF_serverVars(Write)
                  /\ \A r \in Requests :
                       /\ WF_serverVars(Handle(r))
                       /\ MethodsReturn => WF_serverVars(MethodReturns(r))

----------------------------------------------------------------------------
(* Properties *)

Tokens == [part : {"header", "body"}, of : Requests]

Opening == [part : {"connect"}, of : {None}]
             \cup [part : {"option"}, of : Codecs]

\* The type of the state of a connection and its requests (server.go:63-193,239-254).
TypeOK ==
  /\ stream \in Seq(Opening \cup Tokens)
  /\ written \subseteq Requests
  /\ hangup \in BOOLEAN
  /\ closed \in BOOLEAN
  /\ greeted \in BOOLEAN
  /\ loop \in {"mute", "http", "option", "header", "lost", "body",
               "reject", "rejecting", "wait", "closed"}
  /\ loop \in {"body", "reject", "rejecting"} => cur # None
  /\ cur \in Requests \cup {None}
  /\ read \in Seq(Requests)
  /\ handler \in [Requests -> {"none", "select", "waitSent", "timeout",
                             "replying", "done"}]
  /\ child \in [Requests -> {"none", "calling", "called", "reply", "replying",
                           "sent", "end"}]
  /\ failed \in [Requests -> BOOLEAN]
  /\ writing \subseteq [by : {"loop", "handler", "child"}, of : Requests,
                       error : BOOLEAN]
  /\ Cardinality(writing) <= 1
  /\ out \in Seq(Tokens)

\* A request is answered at most once, although the loop, the timeout and the
\* child each have an answer for it and the timer may fire while the method
\* returns (server.go:180-192).
AnsweredOnce ==
  \A i, j \in DOMAIN out : out[i] = out[j] => i = j

\* The client reads whole responses: no goroutine writes between the header
\* and the body of another's response, and only the last response can lack
\* its body (server.go:154-160).
WholeResponses ==
  \A i \in DOMAIN out :
    /\ out[i].part = (IF i % 2 = 1 THEN "header" ELSE "body")
    /\ i % 2 = 0 => out[i].of = out[i - 1].of

Answered(r) == Body(r) \in Range(out)

\* When the loop gives up on the stream, what was accepted is still answered
\* before the connection is closed, unless the client has left or a result
\* could not be encoded (server.go:102-106).
AnsweredBeforeClose ==
  loop = "closed" /\ ~hangup =>
    \/ \A r \in Range(read) : Answered(r)
    \/ Len(out) % 2 = 1

Gone == hangup \/ closed

\* A request that was read is answered even when its method hangs, given a
\* handle timeout, or the connection is gone (server.go:180-192).
EveryRequestAnswered ==
  \A r \in Requests : r \in Range(read) ~> Answered(r) \/ Gone

\* Once the client hangs up a geerpc server closes the connection: given a handle
\* timeout, no handler holds the WaitGroup for ever, however long its method
\* takes; without one, a method that never returns would (server.go:102-106).
HangUpCloses == hangup /\ loop # "mute" ~> loop = "closed"

\* "ServeConn blocks, serving the connection until the client hangs up"
\* (server.go:64).
ServesUntilHangUp == loop = "closed" => hangup

=============================================================================
