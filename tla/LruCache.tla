------------------------------ MODULE LruCache ------------------------------
(***************************************************************************)
(* lru.Cache: the list dl, the map cache that finds its elements, and the  *)
(* byte count on which the purge at the end of Add relies.  An element is  *)
(* identified by its key: a list that held two for one key, or a map that  *)
(* knew a key the list lacks, would be wrong.  The purge is one step for   *)
(* each RemoveOldest(); the mutex of geecache's cache keeps everybody else *)
(* out meanwhile.  OnEvicted, which geecache leaves nil, is left out.      *)
(***************************************************************************)
EXTENDS Integers, Sequences, SequencesExt, FiniteSetsExt

CONSTANTS Keys,
          KeyLen,   \* KeyLen[k]: len(key)
          ValLens,  \* what Value.Len() may be
          MaxBytes  \* 0: no bound

ASSUME LruAssumption == /\ KeyLen \in [Keys -> Nat]
                        /\ ValLens \subseteq Nat
                        /\ MaxBytes \in Nat

VARIABLES dl,       \* entries, front first
          cache,    \* the keys of the map
          nBytes,
          purging   \* inside the loop of Add

vars == <<dl, cache, nBytes, purging>>

Entries == [key : Keys, len : ValLens]

Size(e) == KeyLen[e.key] + e.len

\* The element that the map has for k.
ElementOf(k) == CHOOSE i \in DOMAIN dl : dl[i].key = k
EntryOf(k) == dl[ElementOf(k)]
NotMoved(e) == [dl EXCEPT ![ElementOf(e.key)] = e]
MovedToFront(e) == <<e>> \o RemoveAt(dl, ElementOf(e.key))

Init == /\ dl = <<>>
        /\ cache = {}
        /\ nBytes = 0
        /\ purging = FALSE

\* Get() finds the key; otherwise nothing changes.
Get(k) == /\ ~purging
          /\ k \in cache
          /\ dl' = MovedToFront(EntryOf(k))
          /\ UNCHANGED <<cache, nBytes, purging>>

OldLenKept(e) == e.len
Growth(e) == e.len - EntryOf(e.key).len

Add(e) ==
  /\ ~purging
  /\ \/ /\ e.key \in cache
        /\ dl' = MovedToFront(e)
        /\ nBytes' = nBytes + Growth(e)
        /\ UNCHANGED cache
     \/ /\ e.key \notin cache
        /\ dl' = <<e>> \o dl
        /\ cache' = cache \cup {e.key}
        /\ nBytes' = nBytes + Size(e)
  /\ purging' = TRUE

KeyKept(k) == cache
Forgotten(k) == cache \ {k}

Freed(e) == Size(e)

RemoveOldest ==
  \/ dl = <<>> /\ UNCHANGED <<dl, cache, nBytes>>
  \/ /\ dl # <<>>
     /\ dl' = Front(dl)
     /\ cache' = Forgotten(Last(dl).key)
     /\ nBytes' = nBytes - Freed(Last(dl))

OverLimit == MaxBytes # 0 /\ MaxBytes < nBytes

Purge == purging /\ OverLimit /\ RemoveOldest /\ UNCHANGED purging

PurgeEnds == /\ purging
             /\ ~OverLimit
             /\ purging' = FALSE
             /\ UNCHANGED <<dl, cache, nBytes>>

\* RemoveOldest() called from outside.
RemoveAlone == ~purging /\ RemoveOldest /\ UNCHANGED purging

Next == \/ \E k \in Keys : Get(k)
        \/ \E e \in Entries : Add(e)
        \/ Purge
        \/ PurgeEnds
        \/ RemoveAlone

Spec == Init /\ [][Next]_vars

----------------------------------------------------------------------------
(* Properties *)

\* The type of the state of Cache (lru.go:7-15).
TypeOK == /\ dl \in Seq(Entries)
          /\ cache \subseteq Keys
          /\ nBytes \in Int
          /\ purging \in BOOLEAN

Total(s) == FoldLeft(LAMBDA sum, e : sum + Size(e), 0, s)

\* The list and the map hold the same keys, each once, and nBytes is the size of
\* what they hold, after any sequence of additions, replacements by values of
\* other sizes and removals (lru.go:41-81).
Accounted == /\ \A i, j \in DOMAIN dl : dl[i].key = dl[j].key => i = j
             /\ cache = {dl[i].key : i \in DOMAIN dl}
             /\ nBytes = Total(dl)

\* The longest prefix of s that MaxBytes allows.
Fit(s) ==
  IF MaxBytes = 0 THEN s
  ELSE SubSeq(s, 1, Max({n \in 0 .. Len(s) : Total(SubSeq(s, 1, n)) <= MaxBytes}))

\* While Add purges, what will be left is already decided.
Abstract == INSTANCE RecencyCache WITH held <- Fit(dl)

\* Whatever the purge does step by step, the cache is one that keeps the most
\* recently used entries that fit, and evicts no other (lru.go:65-81).
ImplementsRecencyCache == Abstract!Spec

=============================================================================
