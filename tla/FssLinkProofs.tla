--------------------------- MODULE FssLinkProofs ----------------------------
(***************************************************************************)
(* Proofs about FssLink, for every number of indices, every set of         *)
(* payloads and every bound on the number of commands.                     *)
(***************************************************************************)
EXTENDS FssLink, TLAPS

-----------------------------------------------------------------------------
(* The cycle of indices.                                                   *)

\* pre_add_index on a reliable index: the next number, or 0 where the next
\* number is unsafe_index.
LEMMA NextIndexValue ==
  ASSUME NEW i \in ReliableIndices
  PROVE  NextIndex(i) = IF i = UnsafeIndex - 1 THEN 0 ELSE i + 1
<1>1. i + 1 \in 0 .. UnsafeIndex
  BY UnsafeIndexAssumption DEF ReliableIndices
<1>2. (i + 1) % (UnsafeIndex + 1) = i + 1
  BY <1>1, UnsafeIndexAssumption
<1> QED
  BY <1>2, UnsafeIndexAssumption DEF NextIndex, ReliableIndices

\* A reliable command never gets unsafe_index, and two commands in a row
\* never get the same index.
LEMMA NextIndexReliable ==
  ASSUME NEW i \in ReliableIndices
  PROVE  /\ NextIndex(i) \in ReliableIndices
         /\ NextIndex(i) # i
BY NextIndexValue, UnsafeIndexAssumption DEF ReliableIndices

-----------------------------------------------------------------------------
(* The inductive invariant.                                                *)

\* The commands that have not been processed.
Pending == Len(delivered) + 1 .. Len(sent)

\* Indices are reliable and follow one another along the history of the sender.
Chained ==
  /\ \A n \in 1 .. Len(sent) : sent[n].index \in ReliableIndices
  /\ \A n \in 1 .. Len(sent) - 1 : sent[n + 1].index = NextIndex(sent[n].index)
  /\ sent # <<>> => send_next = NextIndex(sent[Len(sent)].index)

\* No two commands waiting to be processed share an index.
PendingDistinct ==
  \A m, n \in Pending : sent[m].index = sent[n].index => m = n

\* Whatever is queued or under way with the index of a pending command is
\* that command, and nothing confirms it yet.
PendingGenuine ==
  \A n \in Pending :
    /\ \A p \in sendPackeges \cup cmdNet : p.index = sent[n].index => p = sent[n]
    /\ sent[n].index \notin confNet

IInv == /\ TypeOK
        /\ InOrderExactlyOnce
        /\ NothingForgotten
        /\ EndsAgree
        /\ Chained
        /\ PendingDistinct
        /\ PendingGenuine
        /\ ~Carries(send_next)

\* The initial state satisfies the invariant: nothing is sent, nothing is
\* expected but index 0.
LEMMA InitIInv == Init => IInv
BY UnsafeIndexAssumption
   DEF Init, IInv, TypeOK, InOrderExactlyOnce, NothingForgotten, EndsAgree,
       Chained, PendingDistinct, PendingGenuine, Pending, Carries,
       ReliableIndices, Indices, Packages

\* cmd() appends a command whose index nothing else carries.
LEMMA CmdKeepsIInv ==
  ASSUME IInv, NEW d \in Data, FreshCmd(d)
  PROVE  IInv'
<1> DEFINE p == Pkg(send_next, d)
           L == Len(sent)
<1> USE DEF IInv
<1>1. /\ p \in Packages
      /\ p.index = send_next
      /\ sent' = Append(sent, p)
      /\ send_next' = NextIndex(send_next)
      /\ sendPackeges' = sendPackeges \cup {p}
      /\ cmdNet' = cmdNet \cup {p}
      /\ UNCHANGED <<confNet, recv_next, delivered>>
  BY UnsafeIndexAssumption
     DEF FreshCmd, Cmd, TypeOK, Pkg, Packages, ReliableIndices, Indices, recvVars
<1>2. /\ L \in Nat
      /\ Len(delivered) \in Nat
      /\ Len(delivered) <= L
      /\ Len(sent') = L + 1
      /\ sent'[L + 1] = p
      /\ \A n \in 1 .. L : sent'[n] = sent[n]
      /\ Len(delivered') = Len(delivered)
  BY <1>1 DEF TypeOK, InOrderExactlyOnce
<1>3. /\ send_next \in ReliableIndices
      /\ NextIndex(send_next) \in ReliableIndices
      /\ NextIndex(send_next) # send_next
  BY NextIndexReliable DEF TypeOK
<1> HIDE DEF p, L
<1>4. TypeOK'
  <2>1. sent' \in Seq(Packages)
    BY <1>1 DEF TypeOK
  <2> QED
    BY <1>1, <1>3, <2>1 DEF TypeOK
<1>5. InOrderExactlyOnce'
  BY <1>1, <1>2 DEF InOrderExactlyOnce, L
<1>6. NothingForgotten'
  BY <1>1, <1>2 DEF NothingForgotten, L
<1>7. EndsAgree'
  BY <1>1, <1>2 DEF EndsAgree, L
<1>8. Chained'
  <2>1. sent # <<>> => L >= 1 /\ send_next = NextIndex(sent[L].index)
    BY DEF Chained, TypeOK, L
  <2>2. L >= 1 => sent # <<>>
    BY DEF TypeOK, L
  <2>3. ASSUME NEW n \in 1 .. Len(sent') - 1
        PROVE  sent'[n + 1].index = NextIndex(sent'[n].index)
    <3>1. CASE n = L
      BY <1>1, <1>2, <2>1, <2>2, <3>1
    <3>2. CASE n # L
      <4>1. n \in 1 .. L - 1 /\ n + 1 \in 1 .. L
        BY <1>2, <3>2
      <4> QED
        BY <1>2, <4>1 DEF Chained, L
    <3> QED
      BY <3>1, <3>2
  <2>4. send_next' = NextIndex(sent'[Len(sent')].index)
    BY <1>1, <1>2
  <2>5. \A n \in 1 .. Len(sent') : sent'[n].index \in ReliableIndices
    <3>1. \A n \in 1 .. L + 1 : n \in 1 .. L \/ n = L + 1
      BY <1>2
    <3> QED
      BY <1>1, <1>2, <1>3, <3>1 DEF Chained, L
  <2> QED
    BY <2>3, <2>4, <2>5 DEF Chained
<1>9. \A n \in Pending' : \/ n \in Pending /\ sent'[n] = sent[n]
                          \/ n = L + 1 /\ sent'[n] = p
  BY <1>2 DEF Pending, L
<1>10. \A n \in Pending : sent[n] \in sendPackeges /\ sent[n].index # send_next
  BY DEF NothingForgotten, Pending, Carries
<1>11. PendingDistinct'
  BY <1>1, <1>9, <1>10 DEF PendingDistinct
<1>12. PendingGenuine'
  <2>1. ASSUME NEW n \in Pending'
        PROVE  /\ \A q \in (sendPackeges \cup cmdNet)' :
                    q.index = sent'[n].index => q = sent'[n]
               /\ sent'[n].index \notin confNet'
    <3>1. CASE n \in Pending /\ sent'[n] = sent[n]
      BY <1>1, <1>10, <3>1 DEF PendingGenuine
    <3>2. CASE n = L + 1 /\ sent'[n] = p
      BY <1>1, <3>2 DEF Carries
    <3> QED
      BY <1>9, <2>1, <3>1, <3>2
  <2> QED
    BY <2>1 DEF PendingGenuine
<1>13. ~Carries(send_next)'
  BY <1>1, <1>3 DEF Carries, FreshCmd
<1> QED
  BY <1>4, <1>5, <1>6, <1>7, <1>8, <1>11, <1>12, <1>13

\* The only datagram the receiver accepts is the oldest pending command.
LEMMA ProcessIsNextPending ==
  ASSUME IInv, NEW p \in cmdNet, Process(p)
  PROVE  /\ Len(delivered) < Len(sent)
         /\ p = sent[Len(delivered) + 1]
<1> USE DEF IInv
<1>1. p.index = recv_next /\ p.index # send_next
  BY DEF Process, Expected, Carries
<1>2. Len(delivered) < Len(sent)
  BY <1>1 DEF EndsAgree
<1>3. Len(delivered) + 1 \in Pending
  BY <1>2 DEF Pending, TypeOK
<1>4. p.index = sent[Len(delivered) + 1].index
  BY <1>1, <1>2 DEF EndsAgree
<1> QED
  BY <1>2, <1>3, <1>4 DEF PendingGenuine

\* Processing the expected command moves the receiver on by one command.
LEMMA ProcessKeepsIInv ==
  ASSUME IInv, NEW p \in cmdNet, Process(p)
  PROVE  IInv'
<1> DEFINE D == Len(delivered)
           L == Len(sent)
<1> USE DEF IInv
<1>1. /\ recv_next' = NextIndex(recv_next)
      /\ delivered' = Append(delivered, p)
      /\ cmdNet' \subseteq cmdNet
      /\ confNet' \subseteq confNet \cup {p.index}
      /\ UNCHANGED <<send_next, sendPackeges, sent>>
  BY DEF Process, Arrive, sendVars
<1>2. D \in Nat /\ L \in Nat /\ D < L /\ p = sent[D + 1] /\ p \in Packages
  BY ProcessIsNextPending DEF TypeOK
<1>3. /\ Len(delivered') = D + 1
      /\ delivered'[D + 1] = p
      /\ \A n \in 1 .. D : delivered'[n] = delivered[n]
  BY <1>1, <1>2 DEF TypeOK
<1>4. Pending' = D + 2 .. L /\ D + 1 \in Pending /\ Pending' \subseteq Pending
  BY <1>1, <1>2, <1>3 DEF Pending
<1>5. recv_next = p.index
  BY DEF Process, Expected
<1> HIDE DEF D, L
<1>6. TypeOK'
  <2>1. delivered' \in Seq(Packages)
    BY <1>1, <1>2 DEF TypeOK
  <2>2. p.index \in Indices
    BY <1>2 DEF Packages
  <2> QED
    BY <1>1, <2>1, <2>2, NextIndexReliable DEF TypeOK
<1>7. InOrderExactlyOnce'
  BY <1>1, <1>2, <1>3 DEF InOrderExactlyOnce, D, L
<1>8. NothingForgotten'
  BY <1>1, <1>4 DEF NothingForgotten, Pending
<1>9. EndsAgree'
  <2>1. CASE D + 1 < L
    <3>1. sent[D + 1 + 1].index = NextIndex(p.index)
      BY <1>2, <2>1 DEF Chained, L
    <3> QED
      BY <1>1, <1>2, <1>3, <1>5, <2>1, <3>1 DEF EndsAgree, L
  <2>2. CASE D + 1 = L
    <3>1. send_next = NextIndex(p.index)
      BY <1>2, <2>2 DEF Chained, TypeOK, L
    <3> QED
      BY <1>1, <1>2, <1>3, <1>5, <2>2, <3>1 DEF EndsAgree, L
  <2> QED
    BY <1>2, <2>1, <2>2
<1>10. Chained'
  BY <1>1 DEF Chained
<1>11. PendingDistinct'
  BY <1>1, <1>4 DEF PendingDistinct
<1>12. \A n \in Pending' : sent[n].index # p.index
  BY <1>2, <1>4 DEF PendingDistinct
<1>13. PendingGenuine'
  BY <1>1, <1>4, <1>12 DEF PendingGenuine
<1>14. ~Carries(send_next)'
  BY <1>1 DEF Carries
<1> QED
  BY <1>6, <1>7, <1>8, <1>9, <1>10, <1>11, <1>13, <1>14

\* A confirmation that arrives names no pending command, so what it erases
\* from the queue has been processed.
LEMMA ReceiveConfKeepsIInv ==
  ASSUME IInv, NEW i \in confNet, ReceiveConf(i)
  PROVE  IInv'
<1> USE DEF IInv
<1>1. /\ confNet' \subseteq confNet
      /\ sendPackeges' = {q \in sendPackeges : q.index # i}
      /\ UNCHANGED <<send_next, recv_next, cmdNet, sent, delivered>>
  BY DEF ReceiveConf, recvVars
<1>2. Pending' = Pending
  BY <1>1 DEF Pending
<1>3. TypeOK'
  BY <1>1 DEF TypeOK
<1>4. NothingForgotten'
  BY <1>1 DEF NothingForgotten, PendingGenuine, Pending
<1>5. InOrderExactlyOnce' /\ EndsAgree' /\ Chained'
  BY <1>1 DEF InOrderExactlyOnce, EndsAgree, Chained
<1>6. PendingDistinct' /\ PendingGenuine' /\ ~Carries(send_next)'
  BY <1>1, <1>2 DEF PendingDistinct, PendingGenuine, Carries
<1> QED
  BY <1>3, <1>4, <1>5, <1>6

\* The steps that only add or remove datagrams.
LEMMA NetworkKeepsIInv ==
  ASSUME IInv,
         \/ \E d \in Data : UnsafeCmd(d)
         \/ \E p \in sendPackeges : Resend(p)
         \/ \E p \in cmdNet : Reject(p) \/ ProcessUnsafe(p) \/ LoseCmd(p)
         \/ \E i \in confNet : LoseConf(i)
  PROVE  IInv'
<1> USE DEF IInv
<1>1. /\ UNCHANGED <<send_next, sendPackeges, recv_next, sent, delivered>>
      /\ confNet' \subseteq confNet
      /\ cmdNet' \subseteq cmdNet \cup sendPackeges
                             \cup {Pkg(UnsafeIndex, d) : d \in Data}
  BY DEF UnsafeCmd, Resend, Reject, ProcessUnsafe, LoseCmd, LoseConf, Arrive,
         sendVars, recvVars
<1>2. \A d \in Data : /\ Pkg(UnsafeIndex, d) \in Packages
                      /\ Pkg(UnsafeIndex, d).index = UnsafeIndex
  BY UnsafeIndexAssumption DEF Pkg, Packages, Indices
<1>3. UnsafeIndex \notin ReliableIndices
  BY UnsafeIndexAssumption DEF ReliableIndices
<1>4. TypeOK'
  BY <1>1, <1>2 DEF TypeOK
<1>5. \A n \in Pending : sent[n].index # UnsafeIndex
  <2>1. \A n \in Pending : n \in 1 .. Len(sent)
    BY DEF Pending, TypeOK
  <2> QED
    BY <1>3, <2>1 DEF Chained
<1>6. send_next # UnsafeIndex
  BY <1>3 DEF TypeOK
<1>7. Pending' = Pending
  BY <1>1 DEF Pending
<1>8. InOrderExactlyOnce' /\ NothingForgotten' /\ EndsAgree'
  BY <1>1 DEF InOrderExactlyOnce, NothingForgotten, EndsAgree
<1>9. Chained' /\ PendingDistinct'
  BY <1>1, <1>7 DEF Chained, PendingDistinct
<1>10. PendingGenuine'
  <2>1. ASSUME NEW n \in Pending, NEW q \in (sendPackeges \cup cmdNet)',
               q.index = sent[n].index
        PROVE  q = sent[n]
    <3>1. q \in sendPackeges \cup cmdNet
      BY <1>1, <1>2, <1>5, <2>1
    <3> QED
      BY <2>1, <3>1 DEF PendingGenuine
  <2> QED
    BY <1>1, <1>7, <2>1 DEF PendingGenuine
<1>11. ~Carries(send_next)'
  BY <1>1, <1>2, <1>6 DEF Carries
<1> QED
  BY <1>4, <1>8, <1>9, <1>10, <1>11

\* Every step of the link keeps the invariant.
LEMMA NextKeepsIInv == IInv /\ [Next]_vars => IInv'
<1> SUFFICES ASSUME IInv, [Next]_vars PROVE IInv'
  OBVIOUS
<1>1. CASE \E d \in Data : FreshCmd(d)
  BY <1>1, CmdKeepsIInv
<1>2. CASE \E p \in cmdNet : Process(p)
  BY <1>2, ProcessKeepsIInv
<1>3. CASE \E i \in confNet : ReceiveConf(i)
  BY <1>3, ReceiveConfKeepsIInv
<1>4. CASE \/ \E d \in Data : UnsafeCmd(d)
           \/ \E p \in sendPackeges : Resend(p)
           \/ \E p \in cmdNet : Reject(p) \/ ProcessUnsafe(p) \/ LoseCmd(p)
           \/ \E i \in confNet : LoseConf(i)
  BY <1>4, NetworkKeepsIInv
<1>5. CASE UNCHANGED vars
  BY <1>5 DEF vars, IInv, TypeOK, InOrderExactlyOnce, NothingForgotten,
              EndsAgree, Chained, PendingDistinct, PendingGenuine, Pending, Carries
<1> QED
  BY <1>1, <1>2, <1>3, <1>4, <1>5 DEF Next

-----------------------------------------------------------------------------
(* The theorems.                                                           *)

\* The invariant holds in every reachable state, whatever UDP does.
THEOREM Invariance == Spec => []IInv
BY InitIInv, NextKeepsIInv, PTL DEF Spec

\* Every variable keeps its type; in particular send_next and recv_next never
\* become unsafe_index (increment_index, pre_increment_index).
THEOREM TypeCorrect == Spec => []TypeOK
BY Invariance, PTL DEF IInv

\* The receiver has always processed exactly the first commands of the sender,
\* in order and once each (receive_and_process and the index test of process()).
THEOREM LinkInOrderExactlyOnce == Spec => []InOrderExactlyOnce
BY Invariance, PTL DEF IInv

\* A command that has not been processed stays queued for retransmission
\* (the erase of receive_and_process never takes a pending command).
THEOREM LinkNothingForgotten == Spec => []NothingForgotten
BY Invariance, PTL DEF IInv

\* The receiver expects the oldest command it has not processed (recv_next
\* of process() against send_next of iix).
THEOREM LinkEndsAgree == Spec => []EndsAgree
BY Invariance, PTL DEF IInv

-----------------------------------------------------------------------------
(* A lost confirmation is final.                                           *)

\* The commands that have not been processed, as a set.
PendingPackages == {sent[n] : n \in Pending}

\* A package becomes pending in the step that queues it, never later.
LEMMA PendingGrowsByCmd ==
  ASSUME IInv, [Next]_vars,
         NEW p \in sendPackeges, p \notin PendingPackages
  PROVE  p \notin PendingPackages'
<1> USE DEF IInv
<1>1. CASE \E d \in Data : FreshCmd(d)
  <2>1. PICK d \in Data : FreshCmd(d)
    BY <1>1
  <2>2. /\ sent' = Append(sent, Pkg(send_next, d))
        /\ delivered' = delivered
    BY <2>1 DEF FreshCmd, Cmd, recvVars
  <2>3. Pkg(send_next, d).index = send_next /\ p.index # send_next
    BY DEF Pkg, Carries
  <2>4. Pkg(send_next, d) \in Packages
    BY UnsafeIndexAssumption DEF TypeOK, Pkg, Packages, ReliableIndices, Indices
  <2>5. \A n \in Pending' : \/ n \in Pending /\ sent'[n] = sent[n]
                            \/ sent'[n] = Pkg(send_next, d)
    <3>1. /\ Len(sent) \in Nat /\ Len(delivered) \in Nat
          /\ Len(sent') = Len(sent) + 1
          /\ sent'[Len(sent) + 1] = Pkg(send_next, d)
          /\ \A n \in 1 .. Len(sent) : sent'[n] = sent[n]
      BY <2>2, <2>4 DEF TypeOK
    <3> QED
      BY <2>2, <3>1 DEF Pending
  <2> QED
    BY <2>3, <2>5 DEF PendingPackages
<1>2. CASE \E q \in cmdNet : Process(q)
  <2>1. PICK q \in cmdNet : Process(q)
    BY <1>2
  <2>2. sent' = sent /\ delivered' = Append(delivered, q)
    BY <2>1 DEF Process, sendVars
  <2>3. q \in Packages
    BY <2>1 DEF TypeOK
  <2>4. Pending' \subseteq Pending
    BY <2>2, <2>3 DEF Pending, TypeOK
  <2> QED
    BY <2>2, <2>4 DEF PendingPackages
<1>3. CASE UNCHANGED <<sent, delivered>>
  BY <1>3 DEF PendingPackages, Pending
<1>4. [Next]_vars => \/ \E d \in Data : FreshCmd(d)
                     \/ \E q \in cmdNet : Process(q)
                     \/ UNCHANGED <<sent, delivered>>
  BY DEF Next, vars, UnsafeCmd, Resend, Reject, ProcessUnsafe, LoseCmd,
         LoseConf, ReceiveConf, sendVars, recvVars
<1> QED
  BY <1>1, <1>2, <1>3, <1>4

\* Confirmations appear only for the command that is processed in the step,
\* and a queued package leaves only by a confirmation of its index.
LEMMA StuckStays ==
  ASSUME IInv, [Next]_vars, NEW p \in sendPackeges, Stuck(p)
  PROVE  Stuck(p)'
<1>1. p \notin PendingPackages /\ p.index \notin confNet
  BY DEF Stuck, PendingPackages, Pending
<1>2. p \notin PendingPackages'
  BY <1>1, PendingGrowsByCmd
<1>3. p \in sendPackeges'
  BY <1>1 DEF Next, vars, FreshCmd, Cmd, UnsafeCmd, Resend, Process, Reject,
              ProcessUnsafe, LoseCmd, LoseConf, ReceiveConf, sendVars
<1>4. p.index \notin confNet'
  <2>1. CASE \E q \in cmdNet : Process(q)
    <3>1. PICK q \in cmdNet : Process(q)
      BY <2>1
    <3>2. q = sent[Len(delivered) + 1] /\ Len(delivered) + 1 \in Pending
      BY <3>1, ProcessIsNextPending DEF Pending, IInv, TypeOK
    <3>3. p.index # q.index
      BY <1>1, <3>2 DEF PendingPackages, PendingGenuine, IInv
    <3> QED
      BY <1>1, <3>1, <3>3 DEF Process
  <2>2. CASE ~ \E q \in cmdNet : Process(q)
    BY <1>1, <2>2 DEF Next, vars, FreshCmd, Cmd, UnsafeCmd, Resend, Reject,
       ProcessUnsafe, LoseCmd, LoseConf, ReceiveConf, recvVars
  <2> QED
    BY <2>1, <2>2
<1> QED
  BY <1>2, <1>3, <1>4 DEF Stuck, PendingPackages, Pending

\* Once a command is processed and its confirmation is lost, nothing removes
\* it from _sendPackeges any more (process() returns false for the repeats).
THEOREM LostConfirmStaysLost == Spec => LostConfirmIsFinal
<1>1. IInv /\ [Next]_vars => [\A p \in sendPackeges : Stuck(p) => Stuck(p)']_vars
  BY StuckStays
<1> QED
  BY <1>1, Invariance, PTL DEF Spec, LostConfirmIsFinal

-----------------------------------------------------------------------------
(* The link implements the ordered queue.                                  *)

\* Appending a package appends its payload.
LEMMA PayloadsAppend ==
  ASSUME NEW s \in Seq(Packages), NEW p \in Packages
  PROVE  Payloads(Append(s, p)) = Append(Payloads(s), p.data)
<1>1. Payloads(s) \in Seq(Data) /\ Len(Payloads(s)) = Len(s)
  <2>1. ASSUME NEW n \in 1 .. Len(s) PROVE s[n].data \in Data
    <3>1. s[n] \in Packages
      OBVIOUS
    <3> QED
      BY <3>1 DEF Packages
  <2>2. Len(s) \in Nat
    OBVIOUS
  <2> QED
    BY <2>1, <2>2 DEF Payloads
<1> QED
  BY <1>1 DEF Payloads, Packages

\* The empty history is the empty queue.
LEMMA InitRefines == Init => FIFO!Init
BY DEF Init, FIFO!Init, Payloads

\* cmd() is the queue's Send, processing the expected command its Deliver,
\* every other step leaves the queue alone.
LEMMA NextRefines == IInv /\ [Next]_vars => [FIFO!Next]_(FIFO!fifoVars)
<1> SUFFICES ASSUME IInv, [Next]_vars PROVE [FIFO!Next]_(FIFO!fifoVars)
  OBVIOUS
<1> USE DEF IInv
<1>1. CASE \E d \in Data : FreshCmd(d)
  <2>1. PICK d \in Data : FreshCmd(d)
    BY <1>1
  <2>2. /\ sent' = Append(sent, Pkg(send_next, d))
        /\ delivered' = delivered
    BY <2>1 DEF FreshCmd, Cmd, recvVars
  <2>3. Pkg(send_next, d) \in Packages /\ Pkg(send_next, d).data = d
    BY UnsafeIndexAssumption DEF TypeOK, Pkg, Packages, ReliableIndices, Indices
  <2>4. Payloads(sent)' = Append(Payloads(sent), d)
    BY <2>2, <2>3, PayloadsAppend DEF TypeOK
  <2>5. FIFO!Send(d)
    BY <2>2, <2>4 DEF FIFO!Send, Payloads
  <2> QED
    BY <2>5 DEF FIFO!Next
<1>2. CASE \E p \in cmdNet : Process(p)
  <2>1. PICK p \in cmdNet : Process(p)
    BY <1>2
  <2>2. /\ sent' = sent
        /\ delivered' = Append(delivered, p)
        /\ p \in Packages
    BY <2>1 DEF Process, sendVars, TypeOK
  <2>3. Len(delivered) < Len(sent) /\ p = sent[Len(delivered) + 1]
    BY <2>1, ProcessIsNextPending
  <2>4. /\ Len(Payloads(delivered)) = Len(delivered)
        /\ Len(Payloads(sent)) = Len(sent)
        /\ Payloads(sent)[Len(delivered) + 1] = p.data
    BY <2>3 DEF Payloads, TypeOK
  <2>5. Payloads(delivered)' = Append(Payloads(delivered), p.data)
    BY <2>2, PayloadsAppend DEF TypeOK
  <2>6. FIFO!Deliver
    BY <2>2, <2>3, <2>4, <2>5 DEF FIFO!Deliver, Payloads
  <2> QED
    BY <2>6 DEF FIFO!Next
<1>3. CASE UNCHANGED <<sent, delivered>>
  BY <1>3 DEF FIFO!fifoVars, Payloads
<1>4. \/ \E d \in Data : FreshCmd(d)
      \/ \E p \in cmdNet : Process(p)
      \/ UNCHANGED <<sent, delivered>>
  BY DEF Next, vars, UnsafeCmd, Resend, Reject, ProcessUnsafe, LoseCmd,
         LoseConf, ReceiveConf, sendVars, recvVars
<1> QED
  BY <1>1, <1>2, <1>3, <1>4

\* The retransmitting link does what the ordered queue may do, and no more: the
\* safety half of ImplementsFairFifo.
THEOREM LinkImplementsFifo == Spec => FIFO!SafeSpec
<1>1. Init => FIFO!Init
  BY InitRefines
<1>2. IInv /\ [Next]_vars => [FIFO!Next]_(FIFO!fifoVars)
  BY NextRefines
<1> QED
  BY <1>1, <1>2, Invariance, PTL DEF Spec, FIFO!SafeSpec
=============================================================================
