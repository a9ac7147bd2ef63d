------------------------------ MODULE WaitFor -------------------------------
(***************************************************************************)
(* The loop of fss_socket::wait_for (src/tinyfsssocket.cpp) in time: the   *)
(* client's connect() sits in it until the awaited command arrives or the  *)
(* time is over, and nothing else of the client runs meanwhile.  Each turn *)
(* sends again what is older than 500 ms, receives one datagram, blocking  *)
(* on an empty socket, and looks at the deadline only when the socket      *)
(* stayed empty.                                                           *)
(*                                                                         *)
(* Time advances in ticks, between any two steps of the loop: the thread   *)
(* makes its next step within Lag ticks of being able to.                  *)
(***************************************************************************)
EXTENDS Naturals, Sequences

CONSTANTS
  Packages,     \* packages in the queue when the wait begins
  DelayMs,      \* delayMs of the client: how long a receive should block
  HalfSecond,   \* ticks in 500 ms
  TimeOut,      \* timeOut of wait_for, in ticks
  Lag,          \* how late the thread may be
  MaxInbox      \* bound on the datagrams in the socket's buffer

ASSUME WaitAssumption ==
  /\ DelayMs \in Nat
  /\ MaxInbox \in Nat
  /\ {HalfSecond, TimeOut, Lag} \subseteq Nat \ {0}

\* set_receive_time_out puts the milliseconds it is given into tv_sec, which
\* counts seconds on Unix; no delay at all makes the socket non-blocking.
Block == DelayMs * 2 * HalfSecond

\* The longest time between two looks at the socket or the clock.
Late == Block + 3 * Lag

\* Bound on the clocks.
Cap == TimeOut + HalfSecond + Late + 1

VARIABLES
  pc,         \* before the queue, before the receive, before the deadline
  result,     \* what wait_for has returned
  queued,     \* packages still in _sendPackeges
  age,        \* time since creationTime of each package
  inbox,      \* datagrams in the socket's buffer
  elapsed,    \* time since the wait began (fte)
  waited,     \* time the present receive has blocked
  idle,       \* time the thread has been late so far
  quiet,      \* history: time since a datagram was last taken
  early       \* history: an answer arrived before the deadline

vars == <<pc, result, queued, age, inbox, elapsed, waited, idle, quiet, early>>

\* A datagram: the awaited command, another one, or a confirmation.
Awaited == [cmd |-> "awaited"]
Other == [cmd |-> "other"]
Confirm(p) == [cmd |-> "confirm", package |-> p]
Datagrams == {Awaited, Other} \cup {Confirm(p) : p \in Packages}

Waiting == result = "none"

\* Defect for mutation testing: cmd() leaves creationTime at the clock's epoch.
InitUnstamped ==
  /\ pc = "queue"
  /\ result = "none"
  /\ queued = Packages
  /\ age = [p \in Packages |-> Cap + 1]
  /\ inbox = << >>
  /\ elapsed = 0
  /\ waited = 0
  /\ idle = 0
  /\ quiet = 0
  /\ early = FALSE

\* Packages from before are of any age; half a second stands for all above.
Init ==
  /\ pc = "queue"
  /\ result = "none"
  /\ queued = Packages
  /\ age \in [Packages -> 0 .. HalfSecond]
  /\ inbox = << >>
  /\ elapsed = 0
  /\ waited = 0
  /\ idle = 0
  /\ quiet = 0
  /\ early = FALSE

\* Defect for mutation testing: a package is sent again later than 500 ms.
AgedLate(a) == IF a > HalfSecond + Block THEN 0 ELSE a

\* The age of a package after the pass over the queue.
Aged(a) == IF a >= HalfSecond THEN 0 ELSE a

Resend ==
  /\ Waiting
  /\ pc = "queue"
  /\ age' = [p \in Packages |-> IF p \in queued THEN Aged(age[p]) ELSE age[p]]
  /\ pc' = "receive"
  /\ waited' = 0
  /\ idle' = 0
  /\ UNCHANGED <<result, queued, inbox, elapsed, quiet, early>>

\* Defect for mutation testing: the deadline comes before what has arrived.
ReceiveAfterDeadline ==
  /\ Waiting
  /\ pc = "receive"
  /\ inbox # << >>
  /\ inbox' = Tail(inbox)
  /\ result' = IF elapsed >= TimeOut THEN "false"
               ELSE IF Head(inbox) = Awaited THEN "true" ELSE "none"
  /\ queued' = {p \in queued : Head(inbox) # Confirm(p)}
  /\ pc' = "queue"
  /\ idle' = 0
  /\ quiet' = 0
  /\ UNCHANGED <<age, elapsed, waited, early>>

\* A datagram is taken: the awaited one ends the wait, a confirmation erases
\* its package, any other is dropped without an answer.
Receive ==
  /\ Waiting
  /\ pc = "receive"
  /\ inbox # << >>
  /\ inbox' = Tail(inbox)
  /\ result' = IF Head(inbox) = Awaited THEN "true" ELSE "none"
  /\ queued' = {p \in queued : Head(inbox) # Confirm(p)}
  /\ pc' = "queue"
  /\ idle' = 0
  /\ quiet' = 0
  /\ UNCHANGED <<age, elapsed, waited, early>>

ReceiveNothing ==
  /\ Waiting
  /\ pc = "receive"
  /\ inbox = << >>
  /\ waited >= Block
  /\ pc' = "deadline"
  /\ idle' = 0
  /\ UNCHANGED <<result, queued, age, inbox, elapsed, waited, quiet, early>>

\* Defect for mutation testing: the deadline is met only on its very tick.
OverAtOnce == elapsed = TimeOut

Over == elapsed >= TimeOut

LookAtDeadline ==
  /\ Waiting
  /\ pc = "deadline"
  /\ result' = IF Over THEN "false" ELSE "none"
  /\ pc' = "queue"
  /\ idle' = 0
  /\ UNCHANGED <<queued, age, inbox, elapsed, waited, quiet, early>>

Loop == Resend \/ Receive \/ ReceiveNothing \/ LookAtDeadline

Arrive(d) ==
  /\ Waiting
  /\ Len(inbox) < MaxInbox
  /\ inbox' = Append(inbox, d)
  /\ early' = (early \/ (d = Awaited /\ elapsed + Lag < TimeOut))
  /\ UNCHANGED <<pc, result, queued, age, elapsed, waited, idle, quiet>>

Older(t) == IF t < Cap THEN t + 1 ELSE t

Blocked == pc = "receive" /\ inbox = << >> /\ waited < Block

\* A tick, unless the thread is late already.
Tick ==
  /\ Waiting
  /\ \/ Blocked /\ waited' = waited + 1 /\ UNCHANGED idle
     \/ ~Blocked /\ idle < Lag /\ idle' = idle + 1 /\ UNCHANGED waited
  /\ age' = [p \in Packages |-> IF p \in queued THEN Older(age[p]) ELSE age[p]]
  /\ elapsed' = Older(elapsed)
  /\ quiet' = Older(quiet)
  /\ UNCHANGED <<pc, result, queued, inbox, early>>

Next == Loop \/ (\E d \in Datagrams : Arrive(d)) \/ Tick

Spec == Init /\ [][Next]_vars

\* The thread runs, and time passes.
FairSpec == Spec /\ WF_vars(Loop) /\ WF_vars(Tick)

-----------------------------------------------------------------------------
TypeOK ==
  /\ pc \in {"queue", "receive", "deadline"}
  /\ result \in {"none", "true", "false"}
  /\ queued \subseteq Packages
  /\ age \in [Packages -> 0 .. Cap]
  /\ inbox \in Seq(Datagrams)
  /\ elapsed \in 0 .. Cap
  /\ waited \in 0 .. Block
  /\ idle \in 0 .. Lag
  /\ quiet \in 0 .. Cap
  /\ early \in BOOLEAN

\* wait_for goes on past its time-out only while datagrams keep coming: with
\* a socket that falls silent it returns within the time of one blocking
\* receive, which is a thousand times what the client was constructed with.
InTime == Waiting => elapsed < TimeOut + Late \/ quiet <= Late

\* Whatever arrives, a package that is not confirmed is sent again within 500
\* ms and one blocking receive (the pass over _sendPackeges, once a turn).
ResentInTime ==
  Waiting => \A p \in queued : age[p] < HalfSecond + Late

\* wait_for never gives up with an answer that came before the deadline,
\* however many other datagrams are before it in the socket.
EarlyAnswerTaken == early => result # "false"

\* Such an answer ends the wait, even if datagrams never stop coming.
EarlyAnswerReturns == early ~> result = "true"
=============================================================================
