---------------------------- MODULE MCKeepAlive -----------------------------
(***************************************************************************)
(* The instance of KeepAlive for TLC: half-second ticks, calls that end    *)
(* every half second at the client and every second at the listener, and   *)
(* each thing that can go wrong once in a row.  LongestGap is 9 ticks, one *)
(* less than the five seconds; LongestSilence is 40.                       *)
(***************************************************************************)
EXTENDS KeepAlive
=============================================================================
