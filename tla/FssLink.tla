------------------------------ MODULE FssLink -------------------------------
(***************************************************************************)
(* One direction of the reliable link of ts::fss_socket                    *)
(* (src/tinyfsssocket.cpp) together with the index test its two users make *)
(* in process() (src/tinyrpc.cpp): a sender numbers its commands, keeps    *)
(* each one in _sendPackeges until a confirmation names its index and      *)
(* sends it again every 500 ms; a receiver processes the one index it      *)
(* expects and confirms it.  UDP may lose, reorder and duplicate both.     *)
(*                                                                         *)
(* The 500 ms timer is abstracted: a queued package may be sent again at   *)
(* any time.  `sent' and `delivered' are history variables.                *)
(***************************************************************************)
EXTENDS CmdIndex, Sequences, FiniteSets

CONSTANTS Data,          \* payloads, told apart by nothing else
          MaxCommands    \* bound on the number of reliable commands

ASSUME MaxCommandsAssumption == MaxCommands \in Nat

VARIABLES
  send_next,      \* index of the next reliable command
  sendPackeges,   \* packages sent and not confirmed, the vector _sendPackeges
  recv_next,      \* index the receiver expects
  cmdNet,         \* command datagrams under way
  confNet,        \* confirmations under way: the indices they name
  sent,           \* history: every reliable package, in the order of cmd()
  delivered       \* history: every reliable package process() accepted

netVars == <<cmdNet, confNet>>
sendVars == <<send_next, sendPackeges, sent>>
recvVars == <<recv_next, delivered>>
vars == <<send_next, sendPackeges, recv_next, cmdNet, confNet, sent, delivered>>

Packages == [index : Indices, data : Data]

Pkg(i, d) == [index |-> i, data |-> d]

-----------------------------------------------------------------------------
Init == /\ send_next = 0
        /\ sendPackeges = {}
        /\ recv_next = 0
        /\ cmdNet = {}
        /\ confNet = {}
        /\ sent = <<>>
        /\ delivered = <<>>

-----------------------------------------------------------------------------
(* The sender.                                                             *)

\* Defect for mutation testing: cmd() sends without queueing.
CmdUnqueued(d) ==
  /\ Len(sent) < MaxCommands
  /\ cmdNet' = cmdNet \cup {Pkg(send_next, d)}
  /\ sent' = Append(sent, Pkg(send_next, d))
  /\ send_next' = NextIndex(send_next)
  /\ UNCHANGED <<confNet, sendPackeges, recvVars>>

\* cmd(iix(send_next), ...): the package is queued, then sent.
Cmd(d) ==
  /\ Len(sent) < MaxCommands
  /\ LET p == Pkg(send_next, d)
     IN  /\ sendPackeges' = sendPackeges \cup {p}
         /\ cmdNet' = cmdNet \cup {p}
         /\ sent' = Append(sent, p)
  /\ send_next' = NextIndex(send_next)
  /\ UNCHANGED <<confNet, recvVars>>

\* unsafe_cmd: sent once under unsafe_index, never queued.
UnsafeCmd(d) ==
  /\ cmdNet' = cmdNet \cup {Pkg(UnsafeIndex, d)}
  /\ UNCHANGED <<confNet, sendVars, recvVars>>

\* The loop that opens receive_and_process and every turn of wait_for.
Resend(p) ==
  /\ p \in sendPackeges
  /\ cmdNet' = cmdNet \cup {p}
  /\ UNCHANGED <<confNet, sendVars, recvVars>>

\* A confirmation erases every queued package with its index.
ReceiveConf(i) ==
  /\ i \in confNet
  /\ confNet' \in {confNet, confNet \ {i}}
  /\ sendPackeges' = {p \in sendPackeges : p.index # i}
  /\ UNCHANGED <<send_next, sent, cmdNet, recvVars>>

-----------------------------------------------------------------------------
(* The receiver.  A datagram that arrives leaves the network, unless the   *)
(* network holds a second copy of it.                                      *)

Arrive(p) == /\ p \in cmdNet
             /\ cmdNet' \in {cmdNet, cmdNet \ {p}}

\* Defect for mutation testing: a command from further on is taken as well.
ExpectedNewer(p) == p.index >= recv_next

\* The test of process(): a reliable command is taken only in its turn.
Expected(p) == p.index = recv_next

\* Defect for mutation testing: recv_next advances after the callback, so not
\* when it throws.
ProcessAdvancesLast(p) ==
  /\ p.index # UnsafeIndex
  /\ Expected(p)
  /\ Arrive(p)
  /\ delivered' = Append(delivered, p)
  /\ \/ confNet' = confNet \cup {p.index} /\ recv_next' = NextIndex(recv_next)
     \/ UNCHANGED <<confNet, recv_next>>
  /\ UNCHANGED sendVars

\* The expected command: process() advances recv_next, then the confirmation
\* goes out, unless the callback it ran has thrown.
Process(p) ==
  /\ p.index # UnsafeIndex
  /\ Expected(p)
  /\ Arrive(p)
  /\ recv_next' = NextIndex(recv_next)
  /\ delivered' = Append(delivered, p)
  /\ \E thrown \in BOOLEAN :
       confNet' = IF thrown THEN confNet ELSE confNet \cup {p.index}
  /\ UNCHANGED sendVars

\* Defect for mutation testing: the result of process() is ignored.
RejectConfirms(p) ==
  /\ p.index # UnsafeIndex
  /\ ~Expected(p)
  /\ Arrive(p)
  /\ confNet' = confNet \cup {p.index}
  /\ UNCHANGED <<sendVars, recvVars>>

\* Any other index: process() returns false and nothing is confirmed.
Reject(p) ==
  /\ p.index # UnsafeIndex
  /\ ~Expected(p)
  /\ Arrive(p)
  /\ UNCHANGED <<confNet, sendVars, recvVars>>

\* An unsafe command is processed without the test and never confirmed.
ProcessUnsafe(p) ==
  /\ p.index = UnsafeIndex
  /\ Arrive(p)
  /\ UNCHANGED <<confNet, sendVars, recvVars>>

-----------------------------------------------------------------------------
(* UDP.  wait_for drops what it does not wait for: also a LoseCmd.         *)

LoseCmd(p) ==
  /\ p \in cmdNet
  /\ cmdNet' = cmdNet \ {p}
  /\ UNCHANGED <<confNet, sendVars, recvVars>>

LoseConf(i) ==
  /\ i \in confNet
  /\ confNet' = confNet \ {i}
  /\ UNCHANGED <<cmdNet, sendVars, recvVars>>

-----------------------------------------------------------------------------
(* Indices come round again after UnsafeIndex commands.  The code has no   *)
(* other protection against a package, a datagram or a confirmation that   *)
(* outlives a whole lap, so the specification names what it relies on:     *)
(* when an index becomes the next one, nothing under way still carries it. *)

Carries(i) == (\E p \in sendPackeges \cup cmdNet : p.index = i) \/ i \in confNet

FreshCmd(d) == ~Carries(NextIndex(send_next)) /\ Cmd(d)

Next ==
  \/ \E d \in Data : FreshCmd(d) \/ UnsafeCmd(d)
  \/ \E p \in sendPackeges : Resend(p)
  \/ \E p \in cmdNet : Process(p) \/ Reject(p) \/ ProcessUnsafe(p) \/ LoseCmd(p)
  \/ \E i \in confNet : ReceiveConf(i) \/ LoseConf(i)

Spec == Init /\ [][Next]_vars

\* Both programs keep calling process_commands, which sends again and reads
\* the socket; UDP does not lose every copy of a datagram for ever.
Fairness == \A p \in Packages : WF_vars(Resend(p)) /\ SF_vars(Process(p))

FairSpec == Spec /\ Fairness

-----------------------------------------------------------------------------
TypeOK ==
  /\ send_next \in ReliableIndices
  /\ sendPackeges \in SUBSET Packages
  /\ recv_next \in ReliableIndices
  /\ cmdNet \in SUBSET Packages
  /\ confNet \in SUBSET Indices
  /\ sent \in Seq(Packages)
  /\ delivered \in Seq(Packages)

\* However datagrams are lost, repeated and reordered, the receiver has
\* processed exactly the first commands of the sender, each once and in the
\* order of cmd() (receive_and_process with the index test of process()).
InOrderExactlyOnce ==
  /\ Len(delivered) <= Len(sent)
  /\ \A n \in 1 .. Len(delivered) : delivered[n] = sent[n]

\* A command that has not been processed is still in _sendPackeges: no
\* confirmation, late or repeated, makes the sender forget it, although
\* confirmations are matched by index alone.
NothingForgotten ==
  \A n \in Len(delivered) + 1 .. Len(sent) : sent[n] \in sendPackeges

\* The receiver never waits for an index nobody will send: recv_next is the
\* index of the oldest command that has not been processed, or that of the
\* next command when all have been.
EndsAgree ==
  recv_next = IF Len(delivered) < Len(sent)
              THEN sent[Len(delivered) + 1].index
              ELSE send_next

\* A queued package that has been processed and whose confirmation is lost.
Stuck(p) ==
  /\ p \in sendPackeges
  /\ p \notin {sent[n] : n \in Len(delivered) + 1 .. Len(sent)}
  /\ p.index \notin confNet

\* The receiver confirms a command only in the step that processes it, never
\* a repeated one (process() returns false for it): once the confirmation is
\* lost, or the callback has thrown, the package is sent again for ever.
LostConfirmIsFinal == [][\A p \in sendPackeges : Stuck(p) => Stuck(p)']_vars

\* The payloads of a sequence of packages.
Payloads(s) == [n \in 1 .. Len(s) |-> s[n].data]

FIFO == INSTANCE CommandFifo WITH sent <- Payloads(sent),
                                  delivered <- Payloads(delivered)

\* The link implements the ordered queue of CommandFifo and, with fair polling
\* and a fair network, its promise that every command is processed in the end
\* (cmd, receive_and_process and the index test of process together).
ImplementsFairFifo == FIFO!Spec
=============================================================================
