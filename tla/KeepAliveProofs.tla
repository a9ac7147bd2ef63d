-------------------------- MODULE KeepAliveProofs ---------------------------
(***************************************************************************)
(* Proofs about KeepAlive, for every length of a second in ticks, every    *)
(* interval between two calls of process_commands on either side, every    *)
(* delay and any number of losses, exceptions, datagrams left unread and   *)
(* checks ended early, in a row.                                           *)
(***************************************************************************)
EXTENDS KeepAlive, TLAPS

-----------------------------------------------------------------------------
(* The inductive invariants.                                               *)

\* The longest that n calls of either side, n confirmations of the client and
\* n rounds of the check may take.
Called(n) == n * ClientPoll
Served(n) == n * ServerPoll
Sent(n) == n * Period
Rounds(n) == n * Round

\* The longest time between two confirmations that are not lost.
Spacing == Sent(MaxLosses + 1)

\* Just too young for a check.
Young == 5 * TicksPerSecond - 1

\* A client whose program calls process_commands sends one confirmation a Period.
ClientSends == running =>
  /\ silent <= sinceUpdate
  /\ silent <= TicksPerSecond - 1 + Called(clientThrown) + clientIdle

\* The user was last renewed by the newest confirmation, or another one is under
\* way, or unread, that was sent at most a Spacing after.
RenewalSeen == sincePackege <= Sent(losses) + silent
RenewalSent == \E age \in flight : sincePackege <= age + Spacing
RenewalUnread == \E i \in DOMAIN socket :
                   sincePackege <= Spacing + Delay + Served(socket[i]) + serverIdle

Renewing == running => registered /\ (RenewalSeen \/ RenewalSent \/ RenewalUnread)

\* Nothing under way is newer than what the client sent last, and what is in the
\* socket is read before one call too many has left it.
LastSent == /\ \A age \in flight : silent <= age
            /\ \A i \in DOMAIN socket : silent <= Delay + Served(socket[i]) + serverIdle
            /\ registered => silent <= sincePackege + Delay + Served(MaxLeft + 1)

\* A user in the table was young at the last check that dealt with it; the next
\* one is due after five seconds and may be put off by exceptions.
Checked == registered =>
  /\ sincePackege <= Young + Rounds(aborted) + sinceCheck
  /\ sincePackege <= Young + Rounds(aborted) + Young + Served(serverThrown) + serverIdle

-----------------------------------------------------------------------------
(* Arithmetic.                                                             *)

\* A timer reads n seconds or more once n seconds have passed.
LEMMA WholeSeconds ==
  ASSUME NEW t \in Nat, NEW n \in {1, 5}
  PROVE  Seconds(t) >= n <=> t >= n * TicksPerSecond
<1> DEFINE q == t \div TicksPerSecond
           r == t % TicksPerSecond
<1>1. TicksPerSecond \in Nat /\ TicksPerSecond >= 1
  BY TimingAssumption
<1>2. q \in Nat /\ r \in 0 .. TicksPerSecond - 1 /\ t = TicksPerSecond * q + r
  BY <1>1
<1> HIDE DEF q, r
<1>3. ASSUME q >= n PROVE t >= n * TicksPerSecond
  <2>1. TicksPerSecond * q >= TicksPerSecond * n
    BY <1>1, <1>2, <1>3
  <2> QED
    BY <1>1, <1>2, <2>1
<1>4. ASSUME q < n PROVE t < n * TicksPerSecond
  <2>1. q <= n - 1
    BY <1>2, <1>4
  <2>2. TicksPerSecond * q <= TicksPerSecond * (n - 1)
    BY <1>1, <1>2, <2>1
  <2>3. TicksPerSecond * (n - 1) = n * TicksPerSecond - TicksPerSecond
    BY <1>1
  <2> QED
    BY <1>1, <1>2, <2>2, <2>3
<1>5. Seconds(t) = q
  BY DEF Seconds, q
<1> QED
  BY <1>1, <1>2, <1>3, <1>4, <1>5

\* What n things of length c take.
LEMMA Multiples ==
  ASSUME NEW c \in Nat, NEW n \in Nat
  PROVE  /\ n * c \in Nat
         /\ (n + 1) * c = n * c + c
         /\ \A m \in Nat : n <= m => n * c <= m * c
<1>1. n * c \in Nat /\ (n + 1) * c = n * c + c
  OBVIOUS
<1>2. ASSUME NEW m \in Nat, n <= m PROVE n * c <= m * c
  <2>1. PICK d \in Nat : m = n + d
    BY <1>2
  <2>2. m * c = n * c + d * c /\ d * c \in Nat
    BY <2>1
  <2> QED
    BY <1>1, <2>2
<1> QED
  BY <1>1, <1>2

\* The intervals the bounds are made of.
LEMMA Intervals ==
  /\ TicksPerSecond \in Nat /\ TicksPerSecond >= 1 /\ Young \in Nat
  /\ ClientPoll \in Nat /\ ClientPoll >= 1
  /\ ServerPoll \in Nat /\ ServerPoll >= 1
  /\ Delay \in Nat /\ MaxLosses \in Nat /\ MaxLeft \in Nat /\ MaxAborts \in Nat
  /\ MaxClientThrows \in Nat /\ MaxServerThrows \in Nat
  /\ Period \in Nat /\ Period = TicksPerSecond - 1 + Called(MaxClientThrows + 1)
  /\ Round \in Nat /\ Round = Young + Served(MaxServerThrows + 1)
<1>1. /\ TicksPerSecond \in Nat /\ TicksPerSecond >= 1 /\ Young \in Nat
      /\ ClientPoll \in Nat /\ ClientPoll >= 1
      /\ ServerPoll \in Nat /\ ServerPoll >= 1
      /\ Delay \in Nat /\ MaxLosses \in Nat /\ MaxLeft \in Nat /\ MaxAborts \in Nat
      /\ MaxClientThrows \in Nat /\ MaxServerThrows \in Nat
  BY TimingAssumption DEF Young
<1>2. Called(MaxClientThrows + 1) \in Nat /\ Served(MaxServerThrows + 1) \in Nat
  BY <1>1 DEF Called, Served
<1>3. /\ Period = TicksPerSecond - 1 + Called(MaxClientThrows + 1)
      /\ Round = Young + Served(MaxServerThrows + 1)
  BY DEF Period, Round, Young, Called, Served
<1>4. Period \in Nat /\ Round \in Nat
  BY <1>1, <1>2, <1>3
<1> QED
  BY <1>1, <1>3, <1>4

\* Calls, confirmations and rounds add up.
LEMMA Sums ==
  ASSUME NEW n \in Nat
  PROVE  /\ Called(n) \in Nat /\ Called(n + 1) = Called(n) + ClientPoll
         /\ Served(n) \in Nat /\ Served(n + 1) = Served(n) + ServerPoll
         /\ Sent(n) \in Nat /\ Sent(n + 1) = Sent(n) + Period
         /\ Rounds(n) \in Nat /\ Rounds(n + 1) = Rounds(n) + Round
         /\ \A m \in Nat : n <= m => /\ Called(n) <= Called(m) /\ Served(n) <= Served(m)
                                     /\ Sent(n) <= Sent(m) /\ Rounds(n) <= Rounds(m)
<1> USE Intervals
<1>1. /\ Called(n) \in Nat /\ Called(n + 1) = Called(n) + ClientPoll
      /\ \A m \in Nat : n <= m => Called(n) <= Called(m)
  BY Multiples DEF Called
<1>2. /\ Served(n) \in Nat /\ Served(n + 1) = Served(n) + ServerPoll
      /\ \A m \in Nat : n <= m => Served(n) <= Served(m)
  BY Multiples DEF Served
<1>3. /\ Sent(n) \in Nat /\ Sent(n + 1) = Sent(n) + Period
      /\ \A m \in Nat : n <= m => Sent(n) <= Sent(m)
  BY Multiples DEF Sent
<1>4. /\ Rounds(n) \in Nat /\ Rounds(n + 1) = Rounds(n) + Round
      /\ \A m \in Nat : n <= m => Rounds(n) <= Rounds(m)
  BY Multiples DEF Rounds
<1> QED
  BY <1>1, <1>2, <1>3, <1>4

\* The bounds of KeepAlive in these terms.
LEMMA Bounds ==
  /\ Served(MaxLeft) \in Nat /\ Served(MaxLeft + 1) \in Nat
  /\ Spacing \in Nat /\ Rounds(MaxAborts + 1) \in Nat
  /\ LongestGap = Spacing + Delay + Served(MaxLeft)
  /\ LongestSilence = Delay + Served(MaxLeft + 1) + Young + Rounds(MaxAborts + 1)
  /\ LongestSilence \in Nat /\ Cap = LongestSilence + 1 /\ Cap \in Nat
  /\ Cap > 5 * TicksPerSecond
<1>1. /\ Served(MaxLeft) \in Nat /\ Served(MaxLeft + 1) = Served(MaxLeft) + ServerPoll
      /\ Spacing \in Nat
      /\ Rounds(MaxAborts) \in Nat /\ Rounds(MaxAborts + 1) = Rounds(MaxAborts) + Round
      /\ Served(MaxLeft + 1) \in Nat /\ Rounds(MaxAborts + 1) \in Nat
  <2>1. MaxLeft \in Nat /\ MaxAborts \in Nat /\ MaxLosses + 1 \in Nat
    BY Intervals
  <2>2. Served(MaxLeft) \in Nat /\ Served(MaxLeft + 1) = Served(MaxLeft) + ServerPoll
    BY <2>1, Sums
  <2>3. Rounds(MaxAborts) \in Nat /\ Rounds(MaxAborts + 1) = Rounds(MaxAborts) + Round
    BY <2>1, Sums
  <2>4. Spacing \in Nat
    BY <2>1, Sums DEF Spacing
  <2> QED
    BY <2>2, <2>3, <2>4, Intervals
<1>2. LongestGap = Spacing + Delay + Served(MaxLeft)
  BY DEF LongestGap, Spacing, Sent, Served
<1>3. LongestSilence = Delay + Served(MaxLeft + 1) + Young + Rounds(MaxAborts + 1)
  BY DEF LongestSilence, Served, Young, Rounds
<1>4. LongestSilence \in Nat /\ LongestSilence >= Young + ServerPoll
  BY <1>1, <1>3, Intervals
<1>5. Young = 5 * TicksPerSecond - 1
  BY DEF Young
<1> QED
  BY <1>1, <1>2, <1>3, <1>4, <1>5, Intervals DEF Cap


-----------------------------------------------------------------------------
(* Types.                                                                  *)

\* One more than less than n is at most n.
Counts(n) == 0 \in 0 .. n /\ \A k \in 0 .. n : k < n => k + 1 \in 0 .. n

\* What is counted stays within its bound when it is compared with it first.
LEMMA Counting ==
  /\ Counts(ClientPoll) /\ Counts(ServerPoll) /\ Counts(Delay) /\ Counts(MaxLosses)
  /\ Counts(MaxClientThrows) /\ Counts(MaxServerThrows)
  /\ Counts(MaxLeft) /\ Counts(MaxAborts)
<1>1. ASSUME NEW n \in Nat PROVE Counts(n)
  BY DEF Counts
<1> QED
  BY <1>1, Intervals

\* What the timers and counts are.
LEMMA Typed ==
  ASSUME TypeOK
  PROVE  /\ {silent, sinceUpdate, sincePackege, sinceCheck} \subseteq 0 .. Cap
         /\ {silent, sinceUpdate, sincePackege, sinceCheck} \subseteq Nat
         /\ clientIdle \in Nat /\ clientIdle <= ClientPoll
         /\ serverIdle \in Nat /\ serverIdle <= ServerPoll
         /\ losses \in Nat /\ losses <= MaxLosses
         /\ clientThrown \in Nat /\ clientThrown <= MaxClientThrows
         /\ serverThrown \in Nat /\ serverThrown <= MaxServerThrows
         /\ aborted \in Nat /\ aborted <= MaxAborts
         /\ \A age \in flight : age \in Nat /\ age <= Delay
         /\ \A i \in DOMAIN socket : socket[i] \in Nat /\ socket[i] <= MaxLeft
<1>1. /\ {silent, sinceUpdate, sincePackege, sinceCheck} \subseteq 0 .. Cap
      /\ {silent, sinceUpdate, sincePackege, sinceCheck} \subseteq Nat
  BY Bounds DEF TypeOK
<1>2. \A i \in DOMAIN socket : socket[i] \in Nat /\ socket[i] <= MaxLeft
  <2>1. socket \in Seq(0 .. MaxLeft) /\ MaxLeft \in Nat
    BY Intervals DEF TypeOK
  <2> QED
    BY <2>1
<1>3. \A age \in flight : age \in Nat /\ age <= Delay
  BY Intervals DEF TypeOK
<1>4. /\ clientIdle \in Nat /\ clientIdle <= ClientPoll
      /\ serverIdle \in Nat /\ serverIdle <= ServerPoll
      /\ losses \in Nat /\ losses <= MaxLosses
  BY Intervals DEF TypeOK
<1>5. /\ clientThrown \in Nat /\ clientThrown <= MaxClientThrows
      /\ serverThrown \in Nat /\ serverThrown <= MaxServerThrows
      /\ aborted \in Nat /\ aborted <= MaxAborts
  BY Intervals DEF TypeOK
<1> QED
  BY <1>1, <1>2, <1>3, <1>4, <1>5

\* Timers, ages and counts keep their types, for every instance (the clocks of
\* rpc_client, rpc_listener and rpc_user).
THEOREM TypeCorrect == Spec => []TypeOK
<1>0. 0 \in 0 .. Cap /\ \A t \in 0 .. Cap : t \in Nat /\ Older(t) \in 0 .. Cap
  BY Bounds DEF Older
<1>1. Init => TypeOK
  <2> SUFFICES ASSUME Init PROVE TypeOK
    OBVIOUS
  <2>1. /\ running \in BOOLEAN /\ registered \in BOOLEAN
        /\ flight \subseteq 0 .. Delay /\ socket \in Seq(0 .. MaxLeft)
        /\ sincePackege \in 0 .. Cap /\ silent \in 0 .. Cap
    BY <1>0 DEF Init
  <2>2. /\ clientIdle \in 0 .. ClientPoll /\ serverIdle \in 0 .. ServerPoll
        /\ losses \in 0 .. MaxLosses /\ clientThrown \in 0 .. MaxClientThrows
        /\ serverThrown \in 0 .. MaxServerThrows /\ aborted \in 0 .. MaxAborts
    BY Counting DEF Init, Counts
  <2>3. sinceUpdate \in 0 .. Cap /\ sinceCheck \in 0 .. Cap
    <3>1. TicksPerSecond <= 5 * TicksPerSecond /\ 5 * TicksPerSecond \in Nat
      BY Intervals
    <3>2. Cap \in Nat /\ 5 * TicksPerSecond <= Cap
      BY <3>1, Bounds
    <3> QED
      BY <3>1, <3>2, Intervals DEF Init
  <2> QED
    BY <2>1, <2>2, <2>3 DEF TypeOK
<1>2. TypeOK /\ [Next]_vars => TypeOK'
  <2> SUFFICES ASSUME TypeOK, [Next]_vars PROVE TypeOK'
    OBVIOUS
  <2> USE DEF TypeOK
  <2>1. CASE ClientQuiet \/ ClientThrows \/ Stop
    <3>1. clientIdle' \in 0 .. ClientPoll /\ clientThrown' \in 0 .. MaxClientThrows
      BY <2>1, Counting DEF ClientQuiet, ClientThrows, Stop, Counts
    <3>2. running' \in BOOLEAN
      BY <2>1 DEF ClientQuiet, ClientThrows, Stop
    <3>3. UNCHANGED <<sinceUpdate, silent, losses, flight, socket, serverVars>>
      BY <2>1 DEF ClientQuiet, ClientThrows, Stop
    <3> QED
      BY <3>1, <3>2, <3>3 DEF serverVars, checkVars
  <2>2. CASE ClientConfirms
    <3>1. /\ clientIdle' \in 0 .. ClientPoll /\ clientThrown' \in 0 .. MaxClientThrows
          /\ losses' \in 0 .. MaxLosses
      BY <2>2, Counting DEF ClientConfirms, Counts
    <3>3. flight' \subseteq 0 .. Delay
      BY <2>2, Counting DEF ClientConfirms, Counts
    <3>2. sinceUpdate' \in 0 .. Cap /\ silent' \in 0 .. Cap
      BY <1>0, <2>2 DEF ClientConfirms
    <3> QED
      BY <2>2, <3>1, <3>2, <3>3 DEF ClientConfirms, serverVars, checkVars
  <2>3. ASSUME NEW age \in flight, Arrive(age) PROVE TypeOK'
    <3>1. socket' \in Seq(0 .. MaxLeft)
      BY <2>3, Counting DEF Arrive, Counts
    <3>2. flight' \subseteq 0 .. Delay
      BY <2>3 DEF Arrive
    <3> QED
      BY <2>3, <3>1, <3>2 DEF Arrive, clientVars, serverVars, checkVars
  <2>4. CASE ListenerReads
    <3>1. socket' \in Seq(0 .. MaxLeft)
      BY <2>4 DEF ListenerReads
    <3>2. sincePackege' \in 0 .. Cap
      BY <1>0, <2>4 DEF ListenerReads, Renewed
    <3> QED
      BY <2>4, <3>1, <3>2 DEF ListenerReads, clientVars, checkVars
  <2>5. CASE ListenerThrows \/ ListenerQuiet \/ ListenerChecks \/ CheckThrows
    <3>1. CallEnds
      BY <2>5 DEF ListenerThrows, ListenerQuiet, ListenerChecks, CheckThrows
    <3>2. socket' \in Seq(0 .. MaxLeft)
      <4>1. \A i \in DOMAIN socket : socket[i] + 1 \in 0 .. MaxLeft
        <5>1. \A i \in DOMAIN socket : socket[i] \in Nat /\ socket[i] < MaxLeft
          BY <3>1, Typed DEF CallEnds
        <5> HIDE DEF TypeOK
        <5> QED
          BY <5>1, Intervals
      <4>2. Len(socket) \in Nat /\ DOMAIN socket = 1 .. Len(socket)
        OBVIOUS
      <4> QED
        BY <3>1, <4>1, <4>2 DEF CallEnds
    <3>3. serverIdle' \in 0 .. ServerPoll
      BY <3>1, Counting DEF CallEnds, Counts
    <3>4. serverThrown' \in 0 .. MaxServerThrows /\ aborted' \in 0 .. MaxAborts
      BY <2>5, Counting DEF ListenerThrows, ListenerQuiet, ListenerChecks, CheckThrows,
                            checkVars, Counts
    <3>5. registered' \in BOOLEAN
      BY <2>5 DEF ListenerThrows, ListenerQuiet, ListenerChecks, CheckThrows, checkVars
    <3>6. sinceCheck' \in 0 .. Cap
      BY <1>0, <2>5 DEF ListenerThrows, ListenerQuiet, ListenerChecks, CheckThrows, checkVars
    <3> QED
      BY <3>1, <3>2, <3>3, <3>4, <3>5, <3>6 DEF CallEnds, clientVars
  <2>6. CASE Tick
    <3>1. flight' \subseteq 0 .. Delay
      BY <2>6, Counting DEF Tick, Counts
    <3>2. serverIdle' \in 0 .. ServerPoll /\ clientIdle' \in 0 .. ClientPoll
      BY <2>6, Counting DEF Tick, Counts
    <3>3. /\ sinceUpdate' \in 0 .. Cap /\ sincePackege' \in 0 .. Cap
          /\ sinceCheck' \in 0 .. Cap /\ silent' \in 0 .. Cap
      BY <1>0, <2>6 DEF Tick
    <3> QED
      BY <2>6, <3>1, <3>2, <3>3 DEF Tick
  <2>7. CASE UNCHANGED vars
    BY <2>7 DEF vars, clientVars, serverVars, checkVars
  <2> QED
    BY <2>1, <2>2, <2>3, <2>4, <2>5, <2>6, <2>7 DEF Next
<1> QED
  BY <1>1, <1>2, PTL DEF Spec

\* A step of the listener leaves the client alone; one of the client, and a
\* datagram that arrives, the listener's timers.
LEMMA Frames ==
  /\ (\E age \in flight : Arrive(age)) \/ ListenerReads => UNCHANGED clientVars
  /\ ListenerThrows \/ ListenerQuiet \/ ListenerChecks \/ CheckThrows
       => CallEnds /\ UNCHANGED clientVars
  /\ ClientQuiet \/ ClientConfirms \/ ClientThrows \/ Stop
       => UNCHANGED serverVars /\ UNCHANGED socket
BY DEF Arrive, ListenerReads, ListenerThrows, ListenerQuiet, ListenerChecks, CheckThrows,
       CallEnds, ClientQuiet, ClientConfirms, ClientThrows, Stop

-----------------------------------------------------------------------------
(* A user whose client goes on calling process_commands.                   *)

\* The client sends once a Period.
LEMMA ClientSendsInv == Spec => [](TypeOK /\ ClientSends)
<1>1. Init => ClientSends
  <2>1. Called(0) \in Nat
    BY Sums
  <2> QED
    BY <2>1, Intervals DEF Init, ClientSends
<1>2. TypeOK /\ ClientSends /\ [Next]_vars => ClientSends'
  <2> SUFFICES ASSUME TypeOK, ClientSends, [Next]_vars, running' PROVE ClientSends'
    BY DEF ClientSends
  <2>0. /\ silent \in Nat /\ sinceUpdate \in Nat /\ clientIdle \in Nat /\ clientIdle <= ClientPoll
        /\ silent \in 0 .. Cap /\ sinceUpdate \in 0 .. Cap
        /\ Called(0) \in Nat /\ Called(clientThrown) \in Nat
        /\ Called(clientThrown + 1) = Called(clientThrown) + ClientPoll
    <3>1. clientThrown \in Nat
      BY Typed
    <3>2. /\ Called(0) \in Nat /\ Called(clientThrown) \in Nat
          /\ Called(clientThrown + 1) = Called(clientThrown) + ClientPoll
      BY <3>1, Sums
    <3> QED
      BY <3>2, Typed
  <2>1. CASE ClientQuiet
    <3>1. sinceUpdate < TicksPerSecond
      BY <2>0, <2>1, WholeSeconds, Intervals DEF ClientQuiet, ConfirmDue
    <3>2. silent <= sinceUpdate
      BY <2>1 DEF ClientQuiet, ClientSends
    <3>3. clientThrown' = 0 /\ clientIdle' = 0 /\ silent' = silent /\ sinceUpdate' = sinceUpdate
      BY <2>1 DEF ClientQuiet
    <3>4. silent' <= TicksPerSecond - 1 + Called(0) + 0
      BY <2>0, <3>1, <3>2, <3>3, Intervals
    <3> QED
      BY <3>2, <3>3, <3>4 DEF ClientSends
  <2>2. CASE ClientConfirms
    <3>1. silent' = 0 /\ sinceUpdate' = 0 /\ clientThrown' = 0 /\ clientIdle' = 0
      BY <2>2 DEF ClientConfirms
    <3>2. 0 <= TicksPerSecond - 1 + Called(0) + 0
      BY <2>0, Intervals
    <3> QED
      BY <3>1, <3>2 DEF ClientSends
  <2>3. CASE ClientThrows
    <3>1. /\ running /\ clientThrown' = clientThrown + 1 /\ clientIdle' = 0
          /\ silent' = silent /\ sinceUpdate' = sinceUpdate
      BY <2>3 DEF ClientThrows
    <3>2. /\ silent <= sinceUpdate
          /\ silent <= TicksPerSecond - 1 + Called(clientThrown) + clientIdle
      BY <3>1 DEF ClientSends
    <3>3. silent' <= TicksPerSecond - 1 + Called(clientThrown + 1) + 0
      BY <2>0, <3>1, <3>2, Intervals
    <3> QED
      BY <3>1, <3>2, <3>3 DEF ClientSends
  <2>4. CASE Stop
    BY <2>4 DEF Stop
  <2>5. CASE UNCHANGED clientVars
    BY <2>5 DEF clientVars, ClientSends
  <2>6. CASE Tick
    <3>1. /\ running /\ clientThrown' = clientThrown /\ clientIdle' = clientIdle + 1
          /\ silent' = Older(silent) /\ sinceUpdate' = Older(sinceUpdate)
      BY <2>6 DEF Tick
    <3>2. /\ silent <= sinceUpdate
          /\ silent <= TicksPerSecond - 1 + Called(clientThrown) + clientIdle
      BY <3>1 DEF ClientSends
    <3>3. silent' <= sinceUpdate' /\ silent' <= silent + 1 /\ silent' \in Nat
      BY <2>0, <3>1, <3>2, Bounds DEF Older
    <3>4. silent' <= TicksPerSecond - 1 + Called(clientThrown) + (clientIdle + 1)
      BY <2>0, <3>2, <3>3, Intervals
    <3> QED
      BY <3>1, <3>3, <3>4 DEF ClientSends
  <2> QED
    BY <2>1, <2>2, <2>3, <2>4, <2>5, <2>6, Frames DEF Next, vars
<1> QED
  BY <1>1, <1>2, TypeCorrect, PTL DEF Spec

\* Then what is silent for less than a Period, or has lost no more than it may,
\* was renewed less than five seconds ago, wherever the renewal is.
LEMMA Recent ==
  ASSUME TypeOK, ClientSends, running, LongestGap < 5 * TicksPerSecond
  PROVE  /\ silent \in Nat /\ silent <= Period /\ silent < Cap
         /\ losses \in Nat /\ Sent(losses) \in Nat /\ Sent(losses + 1) = Sent(losses) + Period
         /\ Sent(losses + 1) <= Spacing
         /\ RenewalSeen => sincePackege <= Spacing
         /\ RenewalSent => sincePackege <= Spacing + Delay
<1>1. /\ silent \in Nat /\ clientIdle \in Nat /\ clientIdle <= ClientPoll
      /\ clientThrown \in Nat /\ clientThrown <= MaxClientThrows
      /\ losses \in Nat /\ losses <= MaxLosses /\ sincePackege \in Nat
  BY Typed
<1>2. /\ Called(clientThrown) \in Nat /\ Called(MaxClientThrows) \in Nat
      /\ Called(clientThrown) <= Called(MaxClientThrows)
      /\ Called(MaxClientThrows + 1) = Called(MaxClientThrows) + ClientPoll
  <2>1. MaxClientThrows \in Nat
    BY Intervals
  <2> QED
    BY <1>1, <2>1, Sums
<1>3. silent <= Period
  <2>1. silent <= TicksPerSecond - 1 + Called(clientThrown) + clientIdle
    BY DEF ClientSends
  <2> QED
    BY <1>1, <1>2, <2>1, Intervals
<1>4. Sent(losses) \in Nat /\ Sent(losses + 1) = Sent(losses) + Period
  BY <1>1, Sums
<1>5. Sent(losses + 1) <= Spacing
  <2>1. losses + 1 \in Nat /\ MaxLosses + 1 \in Nat /\ losses + 1 <= MaxLosses + 1
    BY <1>1, Intervals
  <2> QED
    BY <2>1, Sums DEF Spacing
<1>6. silent < Cap
  BY <1>1, <1>3, <1>4, <1>5, Intervals, Bounds
<1>7. RenewalSeen => sincePackege <= Spacing
  BY <1>1, <1>3, <1>4, <1>5, Intervals, Bounds DEF RenewalSeen
<1>8. RenewalSent => sincePackege <= Spacing + Delay
  <2> SUFFICES ASSUME NEW age \in flight, sincePackege <= age + Spacing
               PROVE  sincePackege <= Spacing + Delay
    BY DEF RenewalSent
  <2>1. age \in Nat /\ age <= Delay
    BY Typed
  <2> QED
    BY <1>1, <2>1, Intervals, Bounds
<1> QED
  BY <1>1, <1>3, <1>4, <1>5, <1>6, <1>7, <1>8


\* The user is renewed in time, or its renewal is under way or unread.
LEMMA RenewingInv ==
  ASSUME LongestGap < 5 * TicksPerSecond
  PROVE  Spec => []Renewing
<1>1. Init => Renewing
  <2>1. ASSUME Init PROVE RenewalSeen
    <3>1. Sent(0) \in Nat
      BY Sums
    <3> QED
      BY <2>1, <3>1 DEF Init, RenewalSeen
  <2> QED
    BY <2>1 DEF Init, Renewing
<1>2. TypeOK /\ ClientSends /\ Renewing /\ [Next]_vars => Renewing'
  <2> SUFFICES ASSUME TypeOK, ClientSends, Renewing, [Next]_vars, running'
               PROVE  Renewing'
    BY DEF Renewing
  <2>1. running
    BY Frames DEF Next, ClientQuiet, ClientConfirms, ClientThrows, Stop, Tick, vars, clientVars
  <2>2. registered /\ (RenewalSeen \/ RenewalSent \/ RenewalUnread)
    BY <2>1 DEF Renewing
  <2>0. /\ silent \in Nat /\ silent <= Period /\ silent < Cap
        /\ losses \in Nat /\ Sent(losses) \in Nat /\ Sent(losses + 1) = Sent(losses) + Period
        /\ Sent(losses + 1) <= Spacing
        /\ RenewalSeen => sincePackege <= Spacing
        /\ RenewalSent => sincePackege <= Spacing + Delay
    BY <2>1, Recent
  <2>T. /\ sincePackege \in Nat /\ sincePackege \in 0 .. Cap
        /\ serverIdle \in Nat /\ serverIdle <= ServerPoll
        /\ \A age \in flight : age \in Nat /\ age <= Delay
        /\ \A i \in DOMAIN socket : socket[i] \in Nat /\ socket[i] <= MaxLeft
    BY Typed
  <2>3. CASE ClientQuiet \/ ClientThrows \/ UNCHANGED vars
    <3>1. UNCHANGED <<registered, sincePackege, silent, losses, flight, socket, serverIdle>>
      BY <2>3 DEF ClientQuiet, ClientThrows, vars, clientVars, serverVars, checkVars
    <3> QED
      BY <2>2, <3>1 DEF Renewing, RenewalSeen, RenewalSent, RenewalUnread
  <2>4. CASE ClientConfirms
    <3>1. UNCHANGED <<registered, sincePackege, socket, serverIdle>> /\ silent' = 0
      BY <2>4 DEF ClientConfirms, serverVars, checkVars
    <3>2. RenewalUnread => RenewalUnread'
      BY <3>1 DEF RenewalUnread
    <3>3. CASE losses' = 0 /\ flight' = flight \cup {0}
      <4>1. RenewalSent => RenewalSent'
        BY <3>1, <3>3 DEF RenewalSent
      <4>2. RenewalSeen => RenewalSent'
        <5>1. RenewalSeen => sincePackege <= 0 + Spacing
          BY <2>0, Bounds
        <5> QED
          BY <3>1, <3>3, <5>1 DEF RenewalSent
      <4> QED
        BY <2>2, <3>1, <3>2, <4>1, <4>2 DEF Renewing
    <3>4. CASE losses' = losses + 1 /\ flight' = flight
      <4>1. RenewalSent => RenewalSent'
        BY <3>1, <3>4 DEF RenewalSent
      <4>2. RenewalSeen => RenewalSeen'
        <5>1. RenewalSeen => sincePackege <= Sent(losses + 1) + 0
          BY <2>0, <2>T, Intervals DEF RenewalSeen
        <5> QED
          BY <3>1, <3>4, <5>1 DEF RenewalSeen
      <4> QED
        BY <2>2, <3>1, <3>2, <4>1, <4>2 DEF Renewing
    <3> QED
      BY <2>4, <3>3, <3>4 DEF ClientConfirms
  <2>5. CASE Stop
    BY <2>5 DEF Stop
  <2>6. ASSUME NEW age \in flight, Arrive(age) PROVE Renewing'
    <3>1. /\ UNCHANGED <<registered, sincePackege, silent, losses, serverIdle>>
          /\ flight' = flight \ {age} /\ socket' = Append(socket, 0)
      BY <2>6 DEF Arrive, clientVars, serverVars, checkVars
    <3>2. RenewalSeen => RenewalSeen'
      BY <3>1 DEF RenewalSeen
    <3>3. /\ \A i \in DOMAIN socket : i \in DOMAIN socket' /\ socket'[i] = socket[i]
          /\ Len(socket) + 1 \in DOMAIN socket' /\ socket'[Len(socket) + 1] = 0
      <4>1. socket \in Seq(0 .. MaxLeft)
        BY DEF TypeOK
      <4> HIDE DEF TypeOK
      <4> QED
        BY <3>1, <4>1
    <3>4. RenewalUnread => RenewalUnread'
      BY <3>1, <3>3 DEF RenewalUnread
    <3>5. sincePackege <= age + Spacing => RenewalUnread'
      <4>1. age \in Nat /\ age <= Delay /\ Served(0) \in Nat
        BY <2>T, Sums
      <4>2. sincePackege <= age + Spacing => sincePackege <= Spacing + Delay + Served(0) + serverIdle
        BY <2>T, <4>1, Intervals, Bounds
      <4> QED
        BY <3>1, <3>3, <4>2 DEF RenewalUnread
    <3>6. RenewalSent => RenewalSent' \/ RenewalUnread'
      BY <3>1, <3>5 DEF RenewalSent
    <3> QED
      BY <2>2, <3>1, <3>2, <3>4, <3>6 DEF Renewing
  <2>7. CASE ListenerReads
    <3>1. sincePackege' = 0 /\ registered' = registered /\ silent' = silent /\ losses' = losses
      BY <2>2, <2>7 DEF ListenerReads, Renewed, clientVars, checkVars
    <3>2. RenewalSeen'
      BY <2>0, <3>1 DEF RenewalSeen
    <3> QED
      BY <2>2, <3>1, <3>2 DEF Renewing
  <2>8. CASE ListenerThrows \/ ListenerQuiet \/ ListenerChecks \/ CheckThrows
    <3>1. CallEnds /\ UNCHANGED clientVars
      BY <2>8, Frames
    <3>2. /\ UNCHANGED <<sincePackege, silent, losses, flight>> /\ serverIdle' = 0
          /\ socket' = [i \in DOMAIN socket |-> socket[i] + 1]
          /\ \A i \in DOMAIN socket : socket[i] < MaxLeft
      BY <3>1 DEF CallEnds, clientVars
    <3>3. ASSUME NEW i \in DOMAIN socket,
                 sincePackege <= Spacing + Delay + Served(socket[i]) + serverIdle
          PROVE  /\ sincePackege <= Spacing + Delay + Served(socket[i] + 1)
                 /\ Served(socket[i] + 1) \in Nat
                 /\ Served(socket[i] + 1) <= Served(MaxLeft)
      <4>1. /\ socket[i] \in Nat /\ socket[i] + 1 \in Nat /\ MaxLeft \in Nat
            /\ socket[i] + 1 <= MaxLeft
        BY <2>T, <3>2, Intervals
      <4>2. /\ Served(socket[i]) \in Nat /\ Served(socket[i] + 1) = Served(socket[i]) + ServerPoll
            /\ Served(socket[i] + 1) \in Nat /\ Served(socket[i] + 1) <= Served(MaxLeft)
        BY <4>1, Sums
      <4> QED
        BY <2>T, <3>3, <4>2, Intervals, Bounds
    <3>4. RenewalUnread => RenewalUnread'
      <4>1. ASSUME NEW i \in DOMAIN socket,
                   sincePackege <= Spacing + Delay + Served(socket[i]) + serverIdle
            PROVE  RenewalUnread'
        <5>1. sincePackege <= Spacing + Delay + Served(socket[i] + 1) + 0
          BY <2>T, <3>3, <4>1, Intervals, Bounds
        <5>2. i \in DOMAIN socket' /\ socket'[i] = socket[i] + 1
          BY <3>2
        <5> QED
          BY <3>2, <5>1, <5>2 DEF RenewalUnread
      <4> QED
        BY <4>1 DEF RenewalUnread
    <3>5. (RenewalSeen => RenewalSeen') /\ (RenewalSent => RenewalSent')
      BY <3>2 DEF RenewalSeen, RenewalSent
    <3>6. sincePackege < 5 * TicksPerSecond
      <4>1. RenewalUnread => sincePackege <= LongestGap
        <5> SUFFICES ASSUME NEW i \in DOMAIN socket,
                            sincePackege <= Spacing + Delay + Served(socket[i]) + serverIdle
                     PROVE  sincePackege <= LongestGap
          BY DEF RenewalUnread
        <5> QED
          BY <2>T, <3>3, Intervals, Bounds
      <4>2. RenewalSeen \/ RenewalSent => sincePackege <= LongestGap
        BY <2>0, <2>T, Intervals, Bounds
      <4>3. sincePackege <= LongestGap /\ LongestGap \in Nat
        BY <2>2, <4>1, <4>2, Intervals, Bounds
      <4> QED
        BY <2>T, <4>3, Intervals
    <3>7. ~Silent
      BY <2>T, <3>6, WholeSeconds, Intervals DEF Silent
    <3>8. registered'
      BY <2>2, <2>8, <3>7 DEF ListenerThrows, ListenerQuiet, ListenerChecks, CheckThrows, checkVars
    <3> QED
      BY <2>2, <3>4, <3>5, <3>8 DEF Renewing
  <2>9. CASE Tick
    <3>1. /\ UNCHANGED <<registered, losses, socket>>
          /\ flight' = {age + 1 : age \in flight}
          /\ sincePackege' = Older(sincePackege)
          /\ silent' = Older(silent) /\ serverIdle' = serverIdle + 1
      BY <2>9 DEF Tick
    <3>2. sincePackege' \in Nat /\ sincePackege' <= sincePackege + 1 /\ silent' = silent + 1
      BY <2>0, <2>T, <3>1, Bounds DEF Older
    <3>3. RenewalSeen => RenewalSeen'
      <4>1. RenewalSeen => sincePackege' <= Sent(losses) + (silent + 1)
        BY <2>0, <2>T, <3>2 DEF RenewalSeen
      <4> QED
        BY <3>1, <3>2, <4>1 DEF RenewalSeen
    <3>4. RenewalSent => RenewalSent'
      <4> SUFFICES ASSUME NEW age \in flight, sincePackege <= age + Spacing
                   PROVE  RenewalSent'
        BY DEF RenewalSent
      <4>1. sincePackege' <= (age + 1) + Spacing
        BY <2>T, <3>2, Bounds
      <4> QED
        BY <3>1, <4>1 DEF RenewalSent
    <3>5. RenewalUnread => RenewalUnread'
      <4> SUFFICES ASSUME NEW i \in DOMAIN socket,
                          sincePackege <= Spacing + Delay + Served(socket[i]) + serverIdle
                   PROVE  RenewalUnread'
        BY DEF RenewalUnread
      <4>1. Served(socket[i]) \in Nat
        BY <2>T, Sums
      <4>2. sincePackege' <= Spacing + Delay + Served(socket[i]) + (serverIdle + 1)
        BY <2>T, <3>2, <4>1, Intervals, Bounds
      <4> QED
        BY <3>1, <4>2 DEF RenewalUnread
    <3> QED
      BY <2>2, <3>1, <3>3, <3>4, <3>5 DEF Renewing
  <2> QED
    BY <2>3, <2>4, <2>5, <2>6, <2>7, <2>8, <2>9 DEF Next
<1> QED
  BY <1>1, <1>2, ClientSendsInv, PTL DEF Spec

\* The user of a client whose program keeps calling process_commands stays in
\* the table, in spite of losses, exceptions and datagrams left unread, provided
\* LongestGap is less than five seconds (check_user_alive).
THEOREM PollingClientStays == Spec => []KeptAlive
<1>1. CASE LongestGap < 5 * TicksPerSecond
  <2>1. Renewing => KeptAlive
    BY DEF Renewing, KeptAlive
  <2> QED
    BY <1>1, <2>1, RenewingInv, PTL
<1>2. CASE ~(LongestGap < 5 * TicksPerSecond)
  <2>1. KeptAlive
    BY <1>2 DEF KeptAlive
  <2> QED
    BY <2>1, PTL
<1> QED
  BY <1>1, <1>2

-----------------------------------------------------------------------------
(* A client that has fallen silent.                                        *)

\* The last confirmation reaches the listener within Delay and is read in one
\* of the next MaxLeft + 1 calls.
LEMMA LastSentInv == Spec => []LastSent
<1>1. Init => LastSent
  <2>1. 0 <= 0 + Delay + Served(MaxLeft + 1)
    BY Intervals, Bounds
  <2> QED
    BY <2>1 DEF Init, LastSent
<1>2. TypeOK /\ LastSent /\ [Next]_vars => LastSent'
  <2> SUFFICES ASSUME TypeOK, LastSent, [Next]_vars PROVE LastSent'
    OBVIOUS
  <2>0. /\ silent \in Nat /\ silent \in 0 .. Cap
        /\ sincePackege \in Nat /\ sincePackege \in 0 .. Cap
        /\ serverIdle \in Nat /\ serverIdle <= ServerPoll
        /\ \A age \in flight : age \in Nat /\ age <= Delay
        /\ \A i \in DOMAIN socket : socket[i] \in Nat /\ socket[i] <= MaxLeft
    BY Typed
  <2>T. socket \in Seq(0 .. MaxLeft)
    BY DEF TypeOK
  <2>1. CASE ClientConfirms
    <3>1. /\ silent' = 0 /\ UNCHANGED <<registered, sincePackege, socket, serverIdle>>
          /\ flight' \subseteq flight \cup {0}
      BY <2>1 DEF ClientConfirms, serverVars, checkVars
    <3>2. \A age \in flight' : silent' <= age
      BY <2>0, <3>1
    <3>3. \A i \in DOMAIN socket' : silent' <= Delay + Served(socket'[i]) + serverIdle'
      <4> SUFFICES ASSUME NEW i \in DOMAIN socket
                   PROVE  0 <= Delay + Served(socket[i]) + serverIdle
        BY <3>1
      <4>1. Served(socket[i]) \in Nat
        BY <2>0, Sums
      <4> QED
        BY <2>0, <4>1, Intervals
    <3>4. silent' <= sincePackege' + Delay + Served(MaxLeft + 1)
      BY <2>0, <3>1, Intervals, Bounds
    <3> QED
      BY <3>2, <3>3, <3>4 DEF LastSent
  <2>2. CASE ClientQuiet \/ ClientThrows \/ Stop \/ UNCHANGED vars
    <3>1. UNCHANGED <<silent, registered, sincePackege, flight, socket, serverIdle>>
      BY <2>2 DEF ClientQuiet, ClientThrows, Stop, vars, clientVars, serverVars, checkVars
    <3> QED
      BY <3>1 DEF LastSent
  <2>3. ASSUME NEW age \in flight, Arrive(age) PROVE LastSent'
    <3>1. /\ UNCHANGED <<silent, registered, sincePackege, serverIdle>>
          /\ flight' = flight \ {age} /\ socket' = Append(socket, 0)
      BY <2>3 DEF Arrive, clientVars, serverVars, checkVars
    <3>2. \A i \in DOMAIN socket' : socket'[i] = 0 \/ (i \in DOMAIN socket /\ socket'[i] = socket[i])
      BY <2>T, <3>1
    <3>3. silent <= Delay + Served(0) + serverIdle
      <4>1. silent <= age /\ age <= Delay /\ age \in Nat /\ Served(0) \in Nat
        BY <2>0, Sums DEF LastSent
      <4> QED
        BY <2>0, <4>1, Intervals
    <3>4. \A i \in DOMAIN socket' : silent' <= Delay + Served(socket'[i]) + serverIdle'
      BY <3>1, <3>2, <3>3 DEF LastSent
    <3> QED
      BY <3>1, <3>4 DEF LastSent
  <2>4. CASE ListenerReads
    <3>1. /\ UNCHANGED <<silent, registered, flight, serverIdle>>
          /\ socket # <<>> /\ socket' = Tail(socket)
          /\ sincePackege' = IF registered THEN 0 ELSE sincePackege
      BY <2>4 DEF ListenerReads, clientVars, checkVars, Renewed
    <3>2. 1 \in DOMAIN socket
      BY <2>T, <3>1
    <3>3. silent <= 0 + Delay + Served(MaxLeft + 1)
      <4>1. silent <= Delay + Served(socket[1]) + serverIdle
        BY <3>2 DEF LastSent
      <4>2. socket[1] \in Nat /\ socket[1] + 1 \in Nat /\ MaxLeft + 1 \in Nat
            /\ socket[1] + 1 <= MaxLeft + 1
        BY <2>0, <3>2, Intervals
      <4>3. /\ Served(socket[1]) \in Nat /\ Served(socket[1] + 1) = Served(socket[1]) + ServerPoll
            /\ Served(socket[1] + 1) <= Served(MaxLeft + 1)
        BY <4>2, Sums
      <4> QED
        BY <2>0, <4>1, <4>3, Intervals, Bounds
    <3>4. \A i \in DOMAIN socket' : i + 1 \in DOMAIN socket /\ socket'[i] = socket[i + 1]
      BY <2>T, <3>1
    <3>5. \A i \in DOMAIN socket' : silent' <= Delay + Served(socket'[i]) + serverIdle'
      BY <3>1, <3>4 DEF LastSent
    <3> QED
      BY <3>1, <3>3, <3>5 DEF LastSent
  <2>5. CASE ListenerThrows \/ ListenerQuiet \/ ListenerChecks \/ CheckThrows
    <3>1. CallEnds /\ UNCHANGED clientVars
      BY <2>5, Frames
    <3>2. /\ UNCHANGED <<sincePackege, silent, flight>> /\ serverIdle' = 0
          /\ socket' = [i \in DOMAIN socket |-> socket[i] + 1]
      BY <3>1 DEF CallEnds, clientVars
    <3>3. \A i \in DOMAIN socket' : silent' <= Delay + Served(socket'[i]) + serverIdle'
      <4> SUFFICES ASSUME NEW i \in DOMAIN socket
                   PROVE  silent <= Delay + Served(socket[i] + 1) + 0
        BY <3>2
      <4>1. silent <= Delay + Served(socket[i]) + serverIdle
        BY DEF LastSent
      <4>2. Served(socket[i]) \in Nat /\ Served(socket[i] + 1) = Served(socket[i]) + ServerPoll
        BY <2>0, Sums
      <4> QED
        BY <2>0, <4>1, <4>2, Intervals
    <3>4. registered' => registered
      BY <2>5 DEF ListenerThrows, ListenerQuiet, ListenerChecks, CheckThrows, checkVars
    <3> QED
      BY <3>2, <3>3, <3>4 DEF LastSent
  <2>6. CASE Tick
    <3>1. /\ flight' = {age + 1 : age \in flight} /\ silent' = Older(silent)
          /\ sincePackege' = Older(sincePackege) /\ serverIdle' = serverIdle + 1
          /\ UNCHANGED <<socket, registered>>
      BY <2>6 DEF Tick
    <3>2. silent' \in Nat /\ silent' <= silent + 1 /\ silent' <= Cap
      BY <2>0, <3>1, Bounds DEF Older
    <3>3. \A age \in flight' : silent' <= age
      BY <2>0, <3>1, <3>2 DEF LastSent
    <3>4. \A i \in DOMAIN socket' : silent' <= Delay + Served(socket'[i]) + serverIdle'
      <4> SUFFICES ASSUME NEW i \in DOMAIN socket
                   PROVE  silent' <= Delay + Served(socket[i]) + (serverIdle + 1)
        BY <3>1
      <4>1. silent <= Delay + Served(socket[i]) + serverIdle
        BY DEF LastSent
      <4>2. Served(socket[i]) \in Nat
        BY <2>0, Sums
      <4> QED
        BY <2>0, <3>2, <4>1, <4>2, Intervals
    <3>5. ASSUME registered PROVE silent' <= sincePackege' + Delay + Served(MaxLeft + 1)
      <4>1. silent <= sincePackege + Delay + Served(MaxLeft + 1)
        BY <3>5 DEF LastSent
      <4>2. sincePackege' = sincePackege + 1 \/ sincePackege' = Cap
        BY <2>0, <3>1, Bounds DEF Older
      <4> QED
        BY <2>0, <3>2, <4>1, <4>2, Intervals, Bounds
    <3> QED
      BY <3>1, <3>3, <3>4, <3>5 DEF LastSent
  <2> QED
    BY <2>1, <2>2, <2>3, <2>4, <2>5, <2>6 DEF Next
<1> QED
  BY <1>1, <1>2, TypeCorrect, PTL DEF Spec

\* A user is young at a check that deals with it; from there on each check that
\* a callback ends early costs a Round, and the last one no more.
LEMMA CheckedInv == Spec => []Checked
<1>1. Init => Checked
  <2>1. Rounds(0) \in Nat /\ Served(0) \in Nat
    BY Sums
  <2>2. ASSUME Init PROVE sinceCheck \in Nat
    BY <2>2, Intervals DEF Init
  <2> QED
    BY <2>1, <2>2, Intervals DEF Init, Checked
<1>2. TypeOK /\ Checked /\ [Next]_vars => Checked'
  <2> SUFFICES ASSUME TypeOK, Checked, [Next]_vars, registered' PROVE Checked'
    BY DEF Checked
  <2>1. registered
    BY Frames DEF Next, Arrive, ListenerReads, ListenerThrows, ListenerQuiet, ListenerChecks,
                  CheckThrows, Tick, vars, serverVars, checkVars
  <2>2. /\ sincePackege <= Young + Rounds(aborted) + sinceCheck
        /\ sincePackege <= Young + Rounds(aborted) + Young + Served(serverThrown) + serverIdle
    BY <2>1 DEF Checked
  <2>T. /\ sinceCheck \in Nat /\ sinceCheck \in 0 .. Cap
        /\ sincePackege \in Nat /\ sincePackege \in 0 .. Cap
        /\ serverIdle \in Nat /\ serverIdle <= ServerPoll
    BY Typed
  <2>N. /\ Rounds(aborted) \in Nat /\ Rounds(aborted + 1) = Rounds(aborted) + Round
        /\ Rounds(0) \in Nat /\ Served(0) \in Nat
        /\ Served(serverThrown) \in Nat
        /\ Served(serverThrown + 1) = Served(serverThrown) + ServerPoll
        /\ Served(serverThrown + 1) \in Nat
        /\ Served(serverThrown + 1) <= Served(MaxServerThrows + 1)
        /\ Served(MaxServerThrows + 1) \in Nat
    <3>1. /\ aborted \in Nat /\ serverThrown \in Nat /\ serverThrown + 1 \in Nat
          /\ MaxServerThrows + 1 \in Nat /\ serverThrown + 1 <= MaxServerThrows + 1
      BY Typed, Intervals
    <3>2. Rounds(aborted) \in Nat /\ Rounds(aborted + 1) = Rounds(aborted) + Round
      BY <3>1, Sums
    <3>3. /\ Served(serverThrown) \in Nat
          /\ Served(serverThrown + 1) = Served(serverThrown) + ServerPoll
      BY <3>1, Sums
    <3>4. /\ Served(serverThrown + 1) \in Nat /\ Served(MaxServerThrows + 1) \in Nat
          /\ Served(serverThrown + 1) <= Served(MaxServerThrows + 1)
      BY <3>1, Sums
    <3>5. Rounds(0) \in Nat /\ Served(0) \in Nat
      BY Sums
    <3> QED
      BY <3>2, <3>3, <3>4, <3>5
  <2>3. CASE ClientQuiet \/ ClientConfirms \/ ClientThrows \/ Stop \/ (\E age \in flight : Arrive(age))
               \/ UNCHANGED vars
    <3>1. UNCHANGED serverVars
      BY <2>3, Frames DEF Arrive, vars
    <3> QED
      BY <3>1 DEF serverVars, checkVars, Checked
  <2>4. CASE ListenerReads
    <3>1. /\ sincePackege' = 0 /\ UNCHANGED <<sinceCheck, aborted, serverIdle, serverThrown>>
      BY <2>1, <2>4 DEF ListenerReads, checkVars, Renewed
    <3>2. /\ 0 <= Young + Rounds(aborted) + sinceCheck
          /\ 0 <= Young + Rounds(aborted) + Young + Served(serverThrown) + serverIdle
      BY <2>T, <2>N, Intervals
    <3> QED
      BY <3>1, <3>2 DEF Checked
  <2>5. CASE ListenerThrows
    <3>1. /\ UNCHANGED <<sincePackege, sinceCheck, aborted>> /\ serverIdle' = 0
          /\ serverThrown' = serverThrown + 1
      BY <2>5 DEF ListenerThrows, CallEnds, checkVars
    <3>2. sincePackege <= Young + Rounds(aborted) + Young + Served(serverThrown + 1) + 0
      BY <2>2, <2>T, <2>N, Intervals
    <3> QED
      BY <2>2, <3>1, <3>2 DEF Checked
  <2>6. CASE ListenerQuiet
    <3>1. /\ UNCHANGED <<sincePackege, sinceCheck, aborted>> /\ serverIdle' = 0
          /\ serverThrown' = 0 /\ ~CheckDue
      BY <2>6 DEF ListenerQuiet, CallEnds, checkVars
    <3>2. sinceCheck <= Young
      BY <2>T, <3>1, WholeSeconds, Intervals DEF CheckDue, Young
    <3>3. sincePackege <= Young + Rounds(aborted) + Young + Served(0) + 0
      BY <2>2, <2>T, <2>N, <3>2, Intervals
    <3> QED
      BY <2>2, <3>1, <3>3 DEF Checked
  <2>7. CASE ListenerChecks
    <3>1. /\ sincePackege' = sincePackege /\ sinceCheck' = 0 /\ aborted' = 0
          /\ serverIdle' = 0 /\ serverThrown' = 0 /\ ~Silent
      BY <2>7 DEF ListenerChecks, CallEnds
    <3>2. sincePackege <= Young
      BY <2>T, <3>1, WholeSeconds, Intervals DEF Silent, Young
    <3>3. /\ sincePackege <= Young + Rounds(0) + 0
          /\ sincePackege <= Young + Rounds(0) + Young + Served(0) + 0
      BY <2>T, <2>N, <3>2, Intervals
    <3> QED
      BY <3>1, <3>3 DEF Checked
  <2>8. CASE CheckThrows
    <3>1. /\ sincePackege' = sincePackege /\ sinceCheck' = 0 /\ aborted' = aborted + 1
          /\ serverIdle' = 0 /\ serverThrown' = 0
      BY <2>8 DEF CheckThrows, CallEnds
    <3>2. Young + Served(serverThrown) + serverIdle <= Round
      BY <2>T, <2>N, Intervals
    <3>3. sincePackege <= Young + Rounds(aborted + 1)
      BY <2>2, <2>T, <2>N, <3>2, Intervals
    <3>4. /\ sincePackege <= Young + Rounds(aborted + 1) + 0
          /\ sincePackege <= Young + Rounds(aborted + 1) + Young + Served(0) + 0
      BY <2>T, <2>N, <3>3, Intervals
    <3> QED
      BY <3>1, <3>4 DEF Checked
  <2>9. CASE Tick
    <3>1. /\ sinceCheck' = Older(sinceCheck) /\ sincePackege' = Older(sincePackege)
          /\ serverIdle' = serverIdle + 1 /\ UNCHANGED <<aborted, serverThrown>>
      BY <2>9 DEF Tick
    <3>2. /\ sincePackege' \in Nat /\ sincePackege' <= sincePackege + 1 /\ sincePackege' <= Cap
          /\ sinceCheck' \in Nat /\ (sinceCheck' = sinceCheck + 1 \/ sinceCheck' = Cap)
      BY <2>T, <3>1, Bounds DEF Older
    <3>3. sincePackege' <= Young + Rounds(aborted) + sinceCheck'
      BY <2>2, <2>T, <2>N, <3>2, Intervals, Bounds
    <3>4. sincePackege' <= Young + Rounds(aborted) + Young + Served(serverThrown) + (serverIdle + 1)
      BY <2>2, <2>T, <2>N, <3>2, Intervals
    <3> QED
      BY <3>1, <3>3, <3>4 DEF Checked
  <2> QED
    BY <2>3, <2>4, <2>5, <2>6, <2>7, <2>8, <2>9 DEF Next
<1> QED
  BY <1>1, <1>2, TypeCorrect, PTL DEF Spec

\* A client that has sent no confirmation for LongestSilence has no user left
\* (check_user_alive), whatever exceptions have skipped or ended checks, as long
\* as they were no more in a row than the bounds say.
THEOREM SilentClientDropped == Spec => []DroppedInTime
<1>1. TypeOK /\ LastSent /\ Checked => DroppedInTime
  <2> SUFFICES ASSUME TypeOK, LastSent, Checked, registered
               PROVE  ~(silent > LongestSilence)
    BY DEF DroppedInTime
  <2>1. /\ silent <= sincePackege + Delay + Served(MaxLeft + 1)
        /\ sincePackege <= Young + Rounds(aborted) + Young + Served(serverThrown) + serverIdle
    BY DEF LastSent, Checked
  <2>2. /\ silent \in Nat /\ sincePackege \in Nat
        /\ serverIdle \in Nat /\ serverIdle <= ServerPoll
        /\ aborted \in Nat /\ aborted + 1 \in Nat /\ MaxAborts + 1 \in Nat
        /\ aborted + 1 <= MaxAborts + 1
        /\ serverThrown \in Nat /\ serverThrown + 1 \in Nat /\ MaxServerThrows + 1 \in Nat
        /\ serverThrown + 1 <= MaxServerThrows + 1
    BY Typed, Intervals
  <2>3. /\ Rounds(aborted) \in Nat /\ Rounds(aborted + 1) = Rounds(aborted) + Round
        /\ Rounds(aborted + 1) <= Rounds(MaxAborts + 1) /\ Rounds(aborted + 1) \in Nat
    BY <2>2, Sums
  <2>4. /\ Served(serverThrown) \in Nat
        /\ Served(serverThrown + 1) = Served(serverThrown) + ServerPoll
        /\ Served(serverThrown + 1) <= Served(MaxServerThrows + 1)
        /\ Served(MaxServerThrows + 1) \in Nat
    BY <2>2, Sums
  <2>5. Young + Served(serverThrown) + serverIdle <= Round
    BY <2>2, <2>4, Intervals
  <2>6. sincePackege <= Young + Rounds(MaxAborts + 1)
    BY <2>1, <2>2, <2>3, <2>4, <2>5, Intervals, Bounds
  <2> QED
    BY <2>1, <2>2, <2>6, Intervals, Bounds
<1> QED
  BY <1>1, TypeCorrect, LastSentInv, CheckedInv, PTL
=============================================================================
