---------------------------- MODULE CommandFifo -----------------------------
(***************************************************************************)
(* What one direction of a reliable link promises to the program above it: *)
(* the commands handed to it are processed on the other side once each, in *)
(* the order they were handed over, and every one of them in the end.      *)
(* Indices, datagrams, confirmations and retransmissions do not appear.    *)
(***************************************************************************)
EXTENDS Naturals, Sequences

CONSTANT Data

VARIABLES sent,       \* payloads handed to the link so far
          delivered   \* payloads the other side has processed so far

fifoVars == <<sent, delivered>>

Init == sent = <<>> /\ delivered = <<>>

Send(d) == /\ sent' = Append(sent, d)
           /\ UNCHANGED delivered

Deliver == /\ Len(delivered) < Len(sent)
           /\ delivered' = Append(delivered, sent[Len(delivered) + 1])
           /\ UNCHANGED sent

Next == (\E d \in Data : Send(d)) \/ Deliver

SafeSpec == Init /\ [][Next]_fifoVars

Spec == SafeSpec /\ WF_fifoVars(Deliver)
=============================================================================
