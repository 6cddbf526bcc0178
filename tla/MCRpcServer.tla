----------------------------- MODULE MCRpcServer -----------------------------
(* Instances of RpcDial, a client that dials an RpcServer, for TLC. *)
EXTENDS RpcDial

=============================================================================
