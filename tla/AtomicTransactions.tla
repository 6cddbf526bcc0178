------------------------- MODULE AtomicTransactions -------------------------
(***************************************************************************)
(* What transactions promise: all the effects of one that is said to have  *)
(* succeeded reach the database at once and in order, none of one that is  *)
(* said to have failed ever does.  No locks, no sessions.                  *)
(***************************************************************************)
EXTENDS Sequences, SequencesExt

CONSTANTS Callers,
          Effects,
          Starts,       \* the contents the database may have at first
          Apply(_, _)   \* the content after an effect

VARIABLES db,
          open,     \* open[c]: c is in a transaction
          did,      \* did[c]: the effects of its statements
          ending,   \* ending[c]: how what it runs in the transaction ended
          result    \* result[c]: what c was told of its last transaction

vars == <<db, open, did, ending, result>>

Init == /\ db \in Starts
        /\ open = [c \in Callers |-> FALSE]
        /\ did = [c \in Callers |-> <<>>]
        /\ ending = [c \in Callers |-> "none"]
        /\ result = [c \in Callers |-> "none"]

Begin(c) == /\ ~open[c]
            /\ open' = [open EXCEPT ![c] = TRUE]
            /\ did' = [did EXCEPT ![c] = <<>>]
            /\ result' = [result EXCEPT ![c] = "none"]
            /\ UNCHANGED <<db, ending>>

Do(c) == /\ open[c] /\ ending[c] = "none"
         /\ \E e \in Effects : did' = [did EXCEPT ![c] = Append(@, e)]
         /\ UNCHANGED <<db, open, ending, result>>

End(c) == /\ open[c] /\ ending[c] = "none"
          /\ \E how \in {"ok", "err", "panic"} : ending' = [ending EXCEPT ![c] = how]
          /\ UNCHANGED <<db, open, did, result>>

Close(c, told) == /\ open[c]
                  /\ open' = [open EXCEPT ![c] = FALSE]
                  /\ ending' = [ending EXCEPT ![c] = "none"]
                  /\ result' = [result EXCEPT ![c] = told]
                  /\ UNCHANGED did

Commit(c) == /\ ending[c] \in {"none", "ok"}
             /\ db' = FoldLeft(Apply, db, did[c])
             /\ Close(c, "ok")

Abort(c) == /\ UNCHANGED db
            /\ Close(c, IF ending[c] = "panic" THEN "panic" ELSE "err")

\* There is no transaction to begin or to end.
Refuse(c) == /\ ~open[c]
             /\ result' = [result EXCEPT ![c] = "err"]
             /\ UNCHANGED <<db, open, did, ending>>

\* A statement outside a transaction is one of its own.
Alone(c) == /\ ~open[c]
            /\ \E e \in Effects : db' = Apply(db, e)
            /\ UNCHANGED <<open, did, ending, result>>

Next == \E c \in Callers : \/ Begin(c) \/ Do(c) \/ End(c) \/ Commit(c)
                           \/ Abort(c) \/ Refuse(c) \/ Alone(c)

Spec == Init /\ [][Next]_vars

=============================================================================
