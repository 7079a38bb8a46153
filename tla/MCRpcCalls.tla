----------------------------- MODULE MCRpcCalls -----------------------------
(* Small instances of RpcCalls for TLC; see the MCRpcCalls_*.cfg. *)
EXTENDS RpcCalls, TLC

\* The calls of one end are interchangeable (used without liveness only).
Symmetry == Permutations(DialerCalls) \cup Permutations(ListenerCalls)
===============================================================================
