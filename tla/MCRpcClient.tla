----------------------------- MODULE MCRpcClient -----------------------------
(* Instances of RpcClient for TLC. *)
EXTENDS RpcClient, TLC

\* The calls of Call are interchangeable, and so are those of Go.
Symmetry == Permutations(SyncCalls) \cup Permutations(AsyncCalls)

=============================================================================
