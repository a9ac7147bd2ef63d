---------------------------- MODULE MCRpcSession ----------------------------
(***************************************************************************)
(* Instances of RpcSession for TLC.                                        *)
(***************************************************************************)
EXTENDS RpcSession, TLC

Symmetry == Permutations(Clients)
=============================================================================
