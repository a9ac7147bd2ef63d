----------------------------- MODULE MCWaitFor ------------------------------
(***************************************************************************)
(* Instance of WaitFor for TLC: a tick is 250 ms, connect() waits for four *)
(* seconds, and the client was constructed with a delay of one millisecond *)
(* (so that a receive blocks for a second).                                *)
(***************************************************************************)
EXTENDS WaitFor

MCHalfSecond == 2
MCTimeOut == 8 * MCHalfSecond
=============================================================================
