---------------------------- MODULE RecencyCache ----------------------------
(***************************************************************************)
(* What a bounded cache promises: it holds the entries used most recently, *)
(* as many of them as fit.  No list, map or byte count.                    *)
(***************************************************************************)
EXTENDS Sequences, SequencesExt

CONSTANTS Entries,   \* records with a key
          Fit(_)     \* of entries in order of use, those that fit

VARIABLE held        \* the entries, the most recently used first

Init == held = <<>>

\* An entry is read, or stored and perhaps replaces the one with its key.
Use(e) == \/ /\ \A i \in DOMAIN held : held[i].key # e.key
             /\ held' = Fit(<<e>> \o held)
          \/ \E i \in DOMAIN held : /\ held[i].key = e.key
                                    /\ held' = Fit(<<e>> \o RemoveAt(held, i))

DropOldest == held # <<>> /\ held' = Front(held)

Next == (\E e \in Entries : Use(e)) \/ DropOldest

Spec == Init /\ [][Next]_held

=============================================================================
