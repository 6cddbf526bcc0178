------------------------------ MODULE RpcDial ------------------------------
(***************************************************************************)
(* A client dials a server and uses the connection: dialTimeout with the   *)
(* goroutine (maker) that runs NewHTTPClient or NewClient and hands its    *)
(* result over on an unbuffered channel, composed with the RpcServer at    *)
(* the other end.  Which of the two is run is chosen by XDial; nobody      *)
(* guarantees that the listener speaks it.                                 *)
(*                                                                         *)
(* The client that is handed out is RpcClient; here it only writes whole   *)
(* requests and hangs up.                                                  *)
(***************************************************************************)
EXTENDS RpcServer

CONSTANTS
  ClientCodecs,   \* those in the client's NewCodecFuncMap
  Protocols,      \* subset of {"http", "tcp"}
  ConnectTimeout  \* Option.ConnectTimeout # 0

ASSUME DialAssumption == /\ ClientCodecs \subseteq Codecs
                         /\ None \notin Codecs
                         /\ Protocols \subseteq {"http", "tcp"}
                         /\ ConnectTimeout \in BOOLEAN

VARIABLES
  dialer,  \* where dialTimeout is, and what it returned
  maker,   \* where its goroutine is; "made" and "error" are sends on ch
  codec    \* Option.CodecType

dialVars == <<dialer, maker, codec>>
vars == <<serverVars, dialVars>>

\* The connection and the server's side of it.
serverSide == <<greeted, loopVars, taskVars, outVars>>

Wrote(token) == stream' = Append(stream, token)

----------------------------------------------------------------------------
(* dialTimeout *)

FirstStep(p) == IF p = "http" THEN "connect" ELSE "new"

\* XDial picks the protocol, parseOptions() the codec; net.DialTimeout
\* succeeds and the goroutine starts.
Dial ==
  /\ dialer = "none"
  /\ \E p \in Protocols, c \in Codecs :
       /\ codec' = c
       /\ maker' = FirstStep(p)
  /\ dialer' = "select"
  /\ UNCHANGED serverVars

\* A wrong address or too many options, or nobody listens.
DialFails ==
  /\ dialer = "none"
  /\ dialer' = "failed"
  /\ UNCHANGED <<serverVars, maker, codec>>

NoTimer == FALSE
TimerRuns == ConnectTimeout

\* The timer wins; the goroutine stays behind with the connection.
ConnectTimesOut ==
  /\ dialer = "select"
  /\ TimerRuns
  /\ dialer' = "failed"
  /\ UNCHANGED <<serverVars, maker, codec>>

\* ch <- clientResult meets <-ch.
Result ==
  /\ dialer = "select"
  /\ \/ maker = "made" /\ dialer' = "client"
     \/ maker = "error" /\ dialer' = "failed"
  /\ maker' = "done"
  /\ UNCHANGED <<serverVars, codec>>

----------------------------------------------------------------------------
(* NewHTTPClient and NewClient *)

NotAwaited == "new"
AfterConnect == "response"

WriteConnect ==
  /\ maker = "connect"
  /\ Wrote(Token("connect", None))
  /\ maker' = AfterConnect
  /\ UNCHANGED <<written, hangup, serverSide, dialer, codec>>

ReadResponse ==
  /\ maker = "response"
  /\ \/ greeted /\ maker' = "new"
     \/ closed /\ ~greeted /\ maker' = "error"
  /\ UNCHANGED <<serverVars, dialer, codec>>

\* The option is written; receive() starts.
NewClient ==
  /\ maker = "new"
  /\ codec \in ClientCodecs
  /\ Wrote(Token("option", codec))
  /\ maker' = "made"
  /\ UNCHANGED <<written, hangup, serverSide, dialer, codec>>

\* The connection is lost and Encode() fails; it is closed.
OptionFails ==
  /\ maker = "new"
  /\ codec \in ClientCodecs
  /\ hangup' = TRUE
  /\ maker' = "error"
  /\ UNCHANGED <<stream, written, serverSide, dialer, codec>>

\* The codec is unknown here; the connection stays open.
CodecUnknown ==
  /\ maker = "new"
  /\ codec \notin ClientCodecs
  /\ maker' = "error"
  /\ UNCHANGED <<serverVars, dialer, codec>>

Make == \/ WriteConnect
        \/ ReadResponse
        \/ NewClient
        \/ OptionFails
        \/ CodecUnknown

----------------------------------------------------------------------------
(* The client that was handed out *)

ClientSend(r) ==
  /\ dialer = "client"
  /\ ~hangup
  /\ r \notin written
  /\ stream' = stream \o <<Header(r), Body(r)>>
  /\ written' = written \cup {r}
  /\ UNCHANGED <<hangup, serverSide, dialVars>>

ClientHangUp ==
  /\ dialer = "client"
  /\ ~hangup
  /\ hangup' = TRUE
  /\ UNCHANGED <<stream, written, serverSide, dialVars>>

----------------------------------------------------------------------------

Init == /\ ServerInit
        /\ dialer = "none"
        /\ maker = "none"
        /\ codec = None

\* Nobody has a client, or nobody serves the one there is.
Quiescent == /\ dialer = "failed" \/ loop \in {"mute", "closed"}
             /\ UNCHANGED vars

Next == \/ Dial
        \/ DialFails
        \/ ConnectTimesOut
        \/ Result
        \/ Make
        \/ \E r \in Requests : ClientSend(r)
        \/ ClientHangUp
        \/ ServerNext /\ UNCHANGED dialVars
        \/ Quiescent

Spec == Init /\ [][Next]_vars

(***************************************************************************)
(* The goroutines of both sides run and the timer of the dial fires.  The  *)
(* client is under no obligation to dial, to send or to hang up.           *)
(***************************************************************************)
Fairness == /\ ServerFairness
            /\ WF_vars(Make)
            /\ WF_vars(Result)
            /\ WF_vars(ConnectTimesOut)

FairSpec == Spec /\ Fairness

----------------------------------------------------------------------------
(* Properties *)

\* The type of the state of a dial (client.go:128-142,180-213,279-295).
DialTypeOK ==
  /\ TypeOK
  /\ dialer \in {"none", "select", "client", "failed"}
  /\ maker \in {"none", "connect", "response", "new", "made", "error", "done"}
  /\ codec \in Codecs \cup {None}

\* Given a connect timeout dialTimeout returns, with a client or an error, even
\* if the peer accepts and then says nothing (client.go:180-213).
DialReturns == dialer = "select" ~> dialer \in {"client", "failed"}

\* A server that waits for the option of a client that was handed out still
\* has it coming: neither Hijack nor a decoder has swallowed it
\* (client.go:279-288, server.go:247-253).
OptionArrives ==
  dialer = "client" /\ ~hangup /\ loop \in {"http", "option"} =>
    \E i \in DOMAIN stream : stream[i].part = "option"

=============================================================================
