--------------------------- MODULE AtMostOnceCall ---------------------------
(***************************************************************************)
(* What an RPC client promises its callers, with no connection, sequence   *)
(* number, lock or goroutine in sight.  Every call ends at most once, with *)
(* the result of its own execution, with an error, or abandoned by its     *)
(* caller (a cancelled context).  A call is executed at most once by the   *)
(* server; an error says nothing of whether it was executed.               *)
(***************************************************************************)
CONSTANT Calls

VARIABLES outcome,   \* what the caller of each call knows
          executed   \* the calls the server has executed

Outcomes == {"idle", "issued", "ok", "error", "abandoned"}

TypeOK == /\ outcome \in [Calls -> Outcomes]
          /\ executed \subseteq Calls

Init == /\ outcome = [c \in Calls |-> "idle"]
        /\ executed = {}

Become(c, from, to) == /\ outcome[c] = from
                       /\ outcome' = [outcome EXCEPT ![c] = to]

Issue(c) == Become(c, "idle", "issued") /\ UNCHANGED executed

\* The server may execute a call its caller has already given up on.
Execute(c) == /\ outcome[c] \in {"issued", "error", "abandoned"}
              /\ c \notin executed
              /\ executed' = executed \cup {c}
              /\ UNCHANGED outcome

Succeed(c) == /\ c \in executed
              /\ Become(c, "issued", "ok")
              /\ UNCHANGED executed

Fail(c) == Become(c, "issued", "error") /\ UNCHANGED executed

Abandon(c) == Become(c, "issued", "abandoned") /\ UNCHANGED executed

Next == \E c \in Calls : \/ Issue(c)
                         \/ Execute(c)
                         \/ Succeed(c)
                         \/ Fail(c)
                         \/ Abandon(c)

Spec == Init /\ [][Next]_<<outcome, executed>>

=============================================================================
