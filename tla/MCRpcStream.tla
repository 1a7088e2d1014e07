----------------------------- MODULE MCRpcStream -----------------------------
(***************************************************************************)
(* RpcStream for TLC.                                                      *)
(***************************************************************************)
EXTENDS RpcStream, TLC

(* Calls are interchangeable, and so are inbound messages. *)
Symmetric == Permutations(Req) \cup Permutations(Post)
==============================================================================
