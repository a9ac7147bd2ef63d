--------------------------- MODULE WaitForProofs ----------------------------
(***************************************************************************)
(* Proofs about WaitFor, for every delay, time-out and lateness of the     *)
(* thread, and any traffic.                                                *)
(***************************************************************************)
EXTENDS WaitFor, TLAPS

\* The time the present turn of the loop may have taken so far: since the
\* last look at the deadline, or the last datagram.
Spent == CASE pc = "queue" -> idle
           [] pc = "receive" -> Lag + waited + idle
           [] pc = "deadline" -> Block + 2 * Lag + idle

\* The clocks, apart from the datagrams.
ClocksOK ==
  /\ pc \in {"queue", "receive", "deadline"}
  /\ result \in {"none", "true", "false"}
  /\ elapsed \in 0 .. Cap
  /\ waited \in 0 .. Block
  /\ idle \in 0 .. Lag
  /\ quiet \in 0 .. Cap

\* A turn that began after the deadline began with a datagram.
TurnInTime == Waiting => elapsed < TimeOut + Spent \/ quiet <= Spent

LEMMA ConstantsOK ==
  /\ Block \in Nat
  /\ Late \in Nat
  /\ Late = Block + 3 * Lag
  /\ Cap \in Nat
  /\ Cap = TimeOut + HalfSecond + Late + 1
  /\ HalfSecond \in Nat \ {0}
  /\ TimeOut \in Nat \ {0}
  /\ Lag \in Nat \ {0}
<1>1. Block \in Nat
  BY WaitAssumption DEF Block
<1>2. Late \in Nat
  BY <1>1, WaitAssumption DEF Late
<1> QED
  BY <1>1, <1>2, WaitAssumption DEF Late, Cap

LEMMA OlderClock ==
  ASSUME NEW t \in 0 .. Cap
  PROVE  /\ Older(t) \in 0 .. Cap
         /\ Older(t) <= t + 1
         /\ t <= Older(t)
         /\ t # Cap => Older(t) = t + 1
BY ConstantsOK DEF Older

LEMMA InitClocks == Init => ClocksOK /\ TurnInTime
BY ConstantsOK DEF Init, ClocksOK, TurnInTime, Spent, Waiting

LEMMA ClocksKept == ClocksOK /\ [Next]_vars => ClocksOK'
<1> SUFFICES ASSUME ClocksOK, [Next]_vars PROVE ClocksOK'
  OBVIOUS
<1> USE ConstantsOK
<1>1. CASE Resend
  BY <1>1 DEF Resend, ClocksOK
<1>2. CASE Receive
  BY <1>2 DEF Receive, ClocksOK
<1>3. CASE ReceiveNothing
  BY <1>3 DEF ReceiveNothing, ClocksOK
<1>4. CASE LookAtDeadline
  BY <1>4 DEF LookAtDeadline, ClocksOK
<1>5. ASSUME NEW d \in Datagrams, Arrive(d) PROVE ClocksOK'
  BY <1>5 DEF Arrive, ClocksOK
<1>6. CASE Tick
  <2>1. elapsed' \in 0 .. Cap /\ quiet' \in 0 .. Cap
    BY <1>6, OlderClock DEF Tick, ClocksOK
  <2>2. CASE Blocked /\ waited' = waited + 1 /\ UNCHANGED idle
    BY <1>6, <2>1, <2>2 DEF Tick, Blocked, ClocksOK
  <2>3. CASE idle < Lag /\ idle' = idle + 1 /\ UNCHANGED waited
    BY <1>6, <2>1, <2>3 DEF Tick, ClocksOK
  <2> QED
    BY <1>6, <2>2, <2>3 DEF Tick
<1>7. CASE UNCHANGED vars
  BY <1>7 DEF vars, ClocksOK
<1> QED
  BY <1>1, <1>2, <1>3, <1>4, <1>5, <1>6, <1>7 DEF Next, Loop

\* Never more than Late in one turn.
LEMMA SpentBound == ClocksOK => Spent \in 0 .. Late
BY ConstantsOK DEF ClocksOK, Spent

\* A tick adds to the turn what it adds to the clocks.
LEMMA TickSpends ==
  ASSUME ClocksOK, Tick
  PROVE  Spent' = Spent + 1
<1> USE ConstantsOK
<1>1. CASE Blocked /\ waited' = waited + 1 /\ UNCHANGED idle
  <2>1. pc = "receive" /\ pc' = "receive"
    BY <1>1 DEF Blocked, Tick
  <2> QED
    BY <1>1, <2>1 DEF Spent, ClocksOK
<1>2. CASE idle' = idle + 1 /\ UNCHANGED waited
  <2>1. pc' = pc
    BY DEF Tick
  <2> QED
    BY <1>2, <2>1 DEF Spent, ClocksOK
<1> QED
  BY <1>1, <1>2 DEF Tick

LEMMA LongerTurn ==
  ASSUME NEW e \in Nat, NEW q \in Nat, NEW s \in Nat, NEW t \in Nat, s <= t,
         e < TimeOut + s \/ q <= s
  PROVE  e < TimeOut + t \/ q <= t
BY ConstantsOK

LEMMA TurnInTimeKept == ClocksOK /\ TurnInTime /\ [Next]_vars => TurnInTime'
<1> SUFFICES ASSUME ClocksOK, TurnInTime, [Next]_vars PROVE TurnInTime'
  OBVIOUS
<1> USE ConstantsOK
<1>1. CASE Resend
  <2>1. Spent' = Lag /\ Spent = idle
    BY <1>1 DEF Resend, Spent, ClocksOK
  <2> QED
    BY <1>1, <2>1 DEF Resend, TurnInTime, Waiting, ClocksOK
<1>2. CASE Receive
  <2>1. Spent' = 0 /\ quiet' = 0
    BY <1>2 DEF Receive, Spent
  <2> QED
    BY <2>1 DEF TurnInTime
<1>3. CASE ReceiveNothing
  <2>1. Spent' = Block + 2 * Lag /\ Spent = Lag + waited + idle
    BY <1>3 DEF ReceiveNothing, Spent, ClocksOK
  <2>2. Spent \in Nat /\ Spent' \in Nat /\ Spent <= Spent'
    BY <2>1 DEF ClocksOK
  <2>3. elapsed' = elapsed /\ quiet' = quiet /\ Waiting
    BY <1>3 DEF ReceiveNothing
  <2>4. elapsed \in Nat /\ quiet \in Nat
    BY DEF ClocksOK
  <2>5. elapsed < TimeOut + Spent \/ quiet <= Spent
    BY <2>3 DEF TurnInTime
  <2>6. elapsed' < TimeOut + Spent' \/ quiet' <= Spent'
    BY <2>2, <2>3, <2>4, <2>5, LongerTurn
  <2> QED
    BY <2>6 DEF TurnInTime
<1>4. CASE LookAtDeadline
  <2>1. Spent' = 0
    BY <1>4 DEF LookAtDeadline, Spent
  <2>2. Waiting' => elapsed' < TimeOut
    BY <1>4 DEF LookAtDeadline, Over, Waiting, ClocksOK
  <2> QED
    BY <2>1, <2>2 DEF TurnInTime
<1>5. ASSUME NEW d \in Datagrams, Arrive(d) PROVE TurnInTime'
  BY <1>5 DEF Arrive, TurnInTime, Spent, Waiting
<1>6. CASE Tick
  <2>1. Spent' = Spent + 1 /\ Spent \in 0 .. Late
    BY <1>6, TickSpends, SpentBound
  <2>2. /\ elapsed' <= elapsed + 1 /\ elapsed' \in 0 .. Cap
        /\ quiet' <= quiet + 1 /\ quiet' \in 0 .. Cap
    BY <1>6, OlderClock DEF Tick, ClocksOK
  <2>3. Waiting
    BY <1>6 DEF Tick
  <2>4. CASE elapsed < TimeOut + Spent
    BY <2>1, <2>2, <2>4 DEF TurnInTime, ClocksOK
  <2>5. CASE quiet <= Spent
    BY <2>1, <2>2, <2>5 DEF TurnInTime, ClocksOK
  <2> QED
    BY <2>3, <2>4, <2>5 DEF TurnInTime
<1>7. CASE UNCHANGED vars
  BY <1>7 DEF vars, TurnInTime, Spent, Waiting
<1> QED
  BY <1>1, <1>2, <1>3, <1>4, <1>5, <1>6, <1>7 DEF Next, Loop

LEMMA Clocks == Spec => [](ClocksOK /\ TurnInTime)
BY InitClocks, ClocksKept, TurnInTimeKept, PTL DEF Spec

\* wait_for returns within the time of one turn of the loop after its deadline
\* or after the last datagram, whichever is later.
THEOREM WaitEndsInTime == Spec => []InTime
<1>1. ClocksOK /\ TurnInTime => InTime
  BY SpentBound, ConstantsOK DEF TurnInTime, InTime, ClocksOK
<1> QED
  BY <1>1, Clocks, PTL

-----------------------------------------------------------------------------
(* The packages and the datagrams.                                         *)

DataOK ==
  /\ queued \subseteq Packages
  /\ age \in [Packages -> 0 .. Cap]
  /\ inbox \in Seq(Datagrams)
  /\ early \in BOOLEAN

LEMMA InitData == Init => DataOK
<1> SUFFICES ASSUME Init PROVE DataOK
  OBVIOUS
<1>1. 0 .. HalfSecond \subseteq 0 .. Cap
  BY ConstantsOK
<1>2. age \in [Packages -> 0 .. Cap]
  BY <1>1 DEF Init
<1>3. inbox \in Seq(Datagrams)
  BY DEF Init
<1> QED
  BY <1>2, <1>3 DEF Init, DataOK

LEMMA DataKept == DataOK /\ [Next]_vars => DataOK'
<1> SUFFICES ASSUME DataOK, [Next]_vars PROVE DataOK'
  OBVIOUS
<1>1. CASE Resend
  <2>1. \A p \in Packages : Aged(age[p]) \in 0 .. Cap
    BY ConstantsOK DEF DataOK, Aged
  <2> QED
    BY <1>1, <2>1 DEF Resend, DataOK
<1>2. CASE Receive
  BY <1>2 DEF Receive, DataOK
<1>3. CASE ReceiveNothing \/ LookAtDeadline \/ UNCHANGED vars
  BY <1>3 DEF ReceiveNothing, LookAtDeadline, vars, DataOK
<1>4. ASSUME NEW d \in Datagrams, Arrive(d) PROVE DataOK'
  BY <1>4 DEF Arrive, DataOK
<1>5. CASE Tick
  <2>1. \A p \in Packages : Older(age[p]) \in 0 .. Cap
    BY OlderClock DEF DataOK
  <2> QED
    BY <1>5, <2>1 DEF Tick, DataOK
<1> QED
  BY <1>1, <1>2, <1>3, <1>4, <1>5 DEF Next, Loop

\* All variables keep their types.
THEOREM TypeCorrect == Spec => []TypeOK
<1>1. Spec => []DataOK
  BY InitData, DataKept, PTL DEF Spec
<1>2. ClocksOK /\ DataOK => TypeOK
  BY DEF ClocksOK, DataOK, TypeOK
<1> QED
  BY <1>1, <1>2, Clocks, PTL

\* The time that may have passed since the last pass over the queue.
SinceResend == CASE pc = "queue" -> Block + 2 * Lag + idle
                 [] pc = "receive" -> waited + idle
                 [] pc = "deadline" -> Block + Lag + idle

AgesInTime == Waiting => \A p \in queued : age[p] < HalfSecond + SinceResend

LEMMA SinceResendBound == ClocksOK => SinceResend \in 0 .. Late
BY ConstantsOK DEF ClocksOK, SinceResend

LEMMA AgesKept ==
  ClocksOK /\ DataOK /\ AgesInTime /\ [Next]_vars => AgesInTime'
<1> SUFFICES ASSUME ClocksOK, DataOK, AgesInTime, [Next]_vars, Waiting',
                    NEW p \in queued'
             PROVE  age'[p] < HalfSecond + SinceResend'
  BY DEF AgesInTime
<1> USE ConstantsOK
<1>1. CASE Resend
  <2>1. p \in queued /\ p \in Packages /\ age'[p] = Aged(age[p])
    BY <1>1 DEF Resend, DataOK
  <2>2. age'[p] < HalfSecond
    BY <2>1 DEF Aged, DataOK
  <2>3. SinceResend' = 0
    BY <1>1 DEF Resend, SinceResend
  <2> QED
    BY <2>2, <2>3
<1>2. CASE Receive
  <2>1. p \in queued /\ p \in Packages /\ age' = age /\ pc = "receive" /\ Waiting
    BY <1>2 DEF Receive, DataOK
  <2>2. age[p] < HalfSecond + waited + idle
    BY <2>1 DEF AgesInTime, SinceResend, ClocksOK
  <2>3. SinceResend' = Block + 2 * Lag
    BY <1>2 DEF Receive, SinceResend
  <2> QED
    BY <2>1, <2>2, <2>3 DEF ClocksOK, DataOK
<1>3. CASE ReceiveNothing
  <2>1. p \in queued /\ p \in Packages /\ age' = age /\ pc = "receive" /\ Waiting
    BY <1>3 DEF ReceiveNothing, DataOK
  <2>2. age[p] < HalfSecond + waited + idle
    BY <2>1 DEF AgesInTime, SinceResend, ClocksOK
  <2>3. SinceResend' = Block + Lag
    BY <1>3 DEF ReceiveNothing, SinceResend
  <2> QED
    BY <2>1, <2>2, <2>3 DEF ClocksOK, DataOK
<1>4. CASE LookAtDeadline
  <2>1. p \in queued /\ p \in Packages /\ age' = age /\ pc = "deadline" /\ Waiting
    BY <1>4 DEF LookAtDeadline, DataOK
  <2>2. age[p] < HalfSecond + Block + Lag + idle
    BY <2>1 DEF AgesInTime, SinceResend, ClocksOK
  <2>3. SinceResend' = Block + 2 * Lag
    BY <1>4 DEF LookAtDeadline, SinceResend
  <2> QED
    BY <2>1, <2>2, <2>3 DEF ClocksOK, DataOK
<1>5. ASSUME NEW d \in Datagrams, Arrive(d)
      PROVE  age'[p] < HalfSecond + SinceResend'
  BY <1>5 DEF Arrive, AgesInTime, SinceResend, Waiting
<1>6. CASE Tick
  <2>1. p \in queued /\ p \in Packages /\ age'[p] = Older(age[p]) /\ Waiting
    BY <1>6 DEF Tick, DataOK
  <2>2. age[p] \in 0 .. Cap /\ age'[p] \in 0 .. Cap /\ age'[p] <= age[p] + 1
    BY <2>1, OlderClock DEF DataOK
  <2>3. SinceResend' = SinceResend + 1
    <3>1. CASE Blocked /\ waited' = waited + 1 /\ UNCHANGED idle
      <4>1. pc = "receive" /\ pc' = "receive"
        BY <1>6, <3>1 DEF Blocked, Tick
      <4> QED
        BY <3>1, <4>1 DEF SinceResend, ClocksOK
    <3>2. CASE idle' = idle + 1 /\ UNCHANGED waited
      <4>1. pc' = pc
        BY <1>6 DEF Tick
      <4> QED
        BY <3>2, <4>1 DEF SinceResend, ClocksOK
    <3> QED
      BY <1>6, <3>1, <3>2 DEF Tick
  <2>4. age[p] < HalfSecond + SinceResend
    BY <2>1 DEF AgesInTime
  <2> QED
    BY <2>2, <2>3, <2>4, SinceResendBound
<1>7. CASE UNCHANGED vars
  BY <1>7 DEF vars, AgesInTime, SinceResend, Waiting
<1> QED
  BY <1>1, <1>2, <1>3, <1>4, <1>5, <1>6, <1>7 DEF Next, Loop

\* While wait_for waits, every package without confirmation is sent again
\* within 500 ms and one turn of the loop, whatever arrives.
THEOREM WaitResends == Spec => []ResentInTime
<1>1. Init => AgesInTime
  <2> SUFFICES ASSUME Init, NEW p \in Packages
               PROVE  age[p] < HalfSecond + SinceResend
    BY DEF Init, AgesInTime
  <2>1. age[p] <= HalfSecond /\ age[p] \in Nat
    BY ConstantsOK DEF Init
  <2>2. SinceResend = Block + 2 * Lag
    BY ConstantsOK DEF Init, SinceResend
  <2> QED
    BY <2>1, <2>2, ConstantsOK
<1>2. Spec => [](ClocksOK /\ DataOK /\ AgesInTime)
  BY <1>1, InitClocks, InitData, ClocksKept, DataKept, AgesKept, PTL DEF Spec
<1>3. ClocksOK /\ DataOK /\ AgesInTime => ResentInTime
  <2> SUFFICES ASSUME ClocksOK, DataOK, AgesInTime, Waiting, NEW p \in queued
               PROVE  age[p] < HalfSecond + Late
    BY DEF ResentInTime
  <2>1. age[p] < HalfSecond + SinceResend /\ age[p] \in 0 .. Cap
    BY DEF AgesInTime, DataOK
  <2> QED
    BY <2>1, SinceResendBound, ConstantsOK
<1> QED
  BY <1>2, <1>3, PTL

-----------------------------------------------------------------------------
(* The answer.                                                             *)

AnswerInside == \E i \in 1 .. Len(inbox) : inbox[i] = Awaited

\* An early answer is still in the socket; if the last receive did not see it
\* the deadline has not passed yet.
AnswerInv ==
  early =>
    /\ result # "false"
    /\ Waiting => AnswerInside
    /\ pc = "deadline" => elapsed + Lag < TimeOut + idle

LEMMA ATickLater ==
  ASSUME NEW e \in Nat, NEW i \in Nat, NEW f \in Nat,
         f <= e + 1, e + Lag < TimeOut + i
  PROVE  f + Lag < TimeOut + (i + 1)
BY ConstantsOK

LEMMA AnswerKept ==
  ClocksOK /\ DataOK /\ AnswerInv /\ [Next]_vars => AnswerInv'
<1> SUFFICES ASSUME ClocksOK, DataOK, AnswerInv, [Next]_vars, early'
             PROVE  /\ result' # "false"
                    /\ Waiting' => AnswerInside'
                    /\ pc' = "deadline" => elapsed' + Lag < TimeOut + idle'
  BY DEF AnswerInv
<1> USE ConstantsOK
<1>1. CASE Resend
  BY <1>1 DEF Resend, AnswerInv, AnswerInside, Waiting
<1>2. CASE Receive
  <2>1. /\ early /\ Waiting /\ pc' = "queue" /\ inbox # << >> /\ inbox' = Tail(inbox)
        /\ result' = IF Head(inbox) = Awaited THEN "true" ELSE "none"
    BY <1>2 DEF Receive
  <2>2. PICK i \in 1 .. Len(inbox) : inbox[i] = Awaited
    BY <2>1 DEF AnswerInv, AnswerInside
  <2>3. ASSUME Waiting' PROVE AnswerInside'
    <3>1. Head(inbox) # Awaited
      BY <2>1, <2>3 DEF Waiting
    <3>2. i # 1 /\ i - 1 \in 1 .. Len(inbox')
      BY <2>1, <2>2, <3>1 DEF DataOK
    <3>3. inbox'[i - 1] = Awaited
      BY <2>1, <2>2, <3>2 DEF DataOK
    <3> QED
      BY <3>2, <3>3 DEF AnswerInside
  <2> QED
    BY <2>1, <2>3
<1>3. CASE ReceiveNothing
  <2>1. early /\ Waiting /\ inbox = << >>
    BY <1>3 DEF ReceiveNothing
  <2> QED
    BY <2>1 DEF AnswerInv, AnswerInside
<1>4. CASE LookAtDeadline
  <2>1. early /\ Waiting /\ pc = "deadline" /\ UNCHANGED inbox /\ pc' = "queue"
    BY <1>4 DEF LookAtDeadline
  <2>2. elapsed < TimeOut
    BY <2>1 DEF AnswerInv, ClocksOK
  <2>3. result' = "none"
    BY <1>4, <2>2 DEF LookAtDeadline, Over, ClocksOK
  <2> QED
    BY <2>1, <2>3 DEF AnswerInv, AnswerInside
<1>5. ASSUME NEW d \in Datagrams, Arrive(d)
      PROVE  /\ result' # "false"
             /\ Waiting' => AnswerInside'
             /\ pc' = "deadline" => elapsed' + Lag < TimeOut + idle'
  <2>1. /\ Waiting /\ inbox' = Append(inbox, d)
        /\ UNCHANGED <<pc, result, elapsed, idle>>
        /\ early \/ (d = Awaited /\ elapsed + Lag < TimeOut)
    BY <1>5 DEF Arrive
  <2>2. CASE early
    <3>1. PICK i \in 1 .. Len(inbox) : inbox[i] = Awaited
      BY <2>1, <2>2 DEF AnswerInv, AnswerInside
    <3>2. i \in 1 .. Len(inbox') /\ inbox'[i] = Awaited
      BY <2>1, <3>1 DEF DataOK
    <3> QED
      BY <2>1, <2>2, <3>2 DEF AnswerInv, AnswerInside
  <2>3. CASE d = Awaited /\ elapsed + Lag < TimeOut
    <3>1. Len(inbox') \in 1 .. Len(inbox') /\ inbox'[Len(inbox')] = Awaited
      BY <2>1, <2>3 DEF DataOK
    <3>2. elapsed' + Lag < TimeOut + idle'
      BY <2>1, <2>3 DEF ClocksOK
    <3>3. result' = "none"
      BY <2>1 DEF Waiting
    <3> QED
      BY <3>1, <3>2, <3>3 DEF AnswerInside
  <2> QED
    BY <2>1, <2>2, <2>3
<1>6. CASE Tick
  <2>1. early /\ Waiting /\ UNCHANGED <<pc, result, inbox>> /\ elapsed' = Older(elapsed)
    BY <1>6 DEF Tick
  <2>2. ASSUME pc = "deadline" PROVE elapsed' + Lag < TimeOut + idle'
    <3>1. elapsed + Lag < TimeOut + idle
      BY <2>1, <2>2 DEF AnswerInv
    <3>2. idle' = idle + 1
      BY <1>6, <2>2 DEF Tick, Blocked
    <3>3. elapsed' \in Nat /\ elapsed' <= elapsed + 1
      BY <2>1, OlderClock DEF ClocksOK
    <3>4. elapsed \in Nat /\ idle \in Nat
      BY DEF ClocksOK
    <3> QED
      BY <3>1, <3>2, <3>3, <3>4, ATickLater
  <2> QED
    BY <2>1, <2>2 DEF AnswerInv, AnswerInside
<1>7. CASE UNCHANGED vars
  BY <1>7 DEF vars, AnswerInv, AnswerInside, Waiting
<1> QED
  BY <1>1, <1>2, <1>3, <1>4, <1>5, <1>6, <1>7 DEF Next, Loop

\* wait_for never returns false with an answer in the socket that came before
\* the deadline.
THEOREM EarlyAnswerNeverMissed == Spec => []EarlyAnswerTaken
<1>1. Init => AnswerInv
  BY DEF Init, AnswerInv
<1>2. Spec => [](ClocksOK /\ DataOK /\ AnswerInv)
  BY <1>1, InitClocks, InitData, ClocksKept, DataKept, AnswerKept, PTL DEF Spec
<1>3. AnswerInv => EarlyAnswerTaken
  BY DEF AnswerInv, EarlyAnswerTaken
<1> QED
  BY <1>2, <1>3, PTL
=============================================================================
