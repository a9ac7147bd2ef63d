-------------------------- MODULE MCSocketHandle ----------------------------
(***************************************************************************)
(* Instance of SocketHandle for TLC: three objects, two descriptors beyond *)
(* the standard ones, so that a number is used again and can run out.      *)
(***************************************************************************)
EXTENDS SocketHandle, TLC

Symmetry == Permutations(Sockets)
=============================================================================
