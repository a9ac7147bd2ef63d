----------------------------- MODULE MCFssLink ------------------------------
(***************************************************************************)
(* Instance of FssLink for TLC.  There are UnsafeIndex reliable indices    *)
(* and two commands more, so the indices go round their whole cycle and    *)
(* the skipped index is passed in both the sender and the receiver.        *)
(***************************************************************************)
EXTENDS FssLink

MCUnsafeIndex == 3
MCMaxCommands == MCUnsafeIndex + 2
=============================================================================
