----------------------------- MODULE MCLruCache -----------------------------
EXTENDS LruCache

CONSTANTS k1, k2, k3

\* One key is empty, so an entry may have no size.
Lengths == (k1 :> 0) @@ (k2 :> 1) @@ (k3 :> 2)

=============================================================================
