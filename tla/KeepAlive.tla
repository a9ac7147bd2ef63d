----------------------------- MODULE KeepAlive ------------------------------
(***************************************************************************)
(* How the listener notices that a user is silent (src/tinyrpc.cpp): the   *)
(* client sends ::confrim_connection, unreliably, at most once a second;   *)
(* the listener looks at last_packege of its users at most once in five    *)
(* seconds.  Both do so only at the end of a call of process_commands that *)
(* no exception has left, and the program calls again after an exception.  *)
(*                                                                         *)
(* Time advances in steps of one TicksPerSecond-th of a second; timers are *)
(* the time passed since an event, read in whole seconds, as               *)
(* duration_cast<seconds> does.  One user is followed; what the others do  *)
(* to it (fill the socket, make a callback throw) may happen at any time.  *)
(***************************************************************************)
EXTENDS Naturals, Sequences

CONSTANTS
  TicksPerSecond,
  ClientPoll,      \* a call of process_commands ends at the client at least
  ServerPoll,      \* this often, and at the listener, in ticks
  Delay,           \* a datagram that is not lost arrives within this time
  MaxLosses,       \* consecutive ::confrim_connection that may be lost
  MaxClientThrows, \* consecutive calls an exception of receive_and_process
  MaxServerThrows, \* may leave, at the client and at the listener
  MaxLeft,         \* calls of the listener that may leave a datagram unread
  MaxAborts        \* consecutive checks that on_client_disconnected may end
                   \* before they have dealt with the user

ASSUME TimingAssumption ==
  /\ {TicksPerSecond, ClientPoll, ServerPoll} \subseteq Nat \ {0}
  /\ {Delay, MaxLosses, MaxClientThrows, MaxServerThrows, MaxLeft, MaxAborts} \subseteq Nat

Seconds(ticks) == ticks \div TicksPerSecond

\* The longest time between two confirmations the client sends.
Period == TicksPerSecond - 1 + (MaxClientThrows + 1) * ClientPoll

\* The longest age of last_packege at a check, for a client that goes on
\* sending: the losses, the way, and the calls that leave the datagram unread.
LongestGap == (MaxLosses + 1) * Period + Delay + MaxLeft * ServerPoll

\* The longest time between two checks.
Round == 5 * TicksPerSecond - 1 + (MaxServerThrows + 1) * ServerPoll

\* The longest time from the last confirmation the client sends to the drop of
\* its user: on the way, in the socket, just too young at a check, then the
\* checks that are ended by exceptions and one that is not.
LongestSilence == Delay + (MaxLeft + 1) * ServerPoll
                  + (5 * TicksPerSecond - 1) + (MaxAborts + 1) * Round

\* Bound on the timers.
Cap == LongestSilence + 1

VARIABLES
  running,        \* the client's program still calls process_commands
  clientIdle,     \* since the end of its last call
  sinceUpdate,    \* since update_timer of the client
  flight,         \* ages of the confirmations under way
  socket,         \* those in the listener's socket: calls that have left each
  registered,     \* the user is in _users
  sincePackege,   \* since last_packege of the user
  serverIdle,     \* since the end of the listener's last call
  sinceCheck,     \* since update_timer of the listener
  \* history, read by the bounds above only
  silent,         \* since the client's last confirmation was sent
  losses,         \* confirmations lost in a row
  clientThrown,   \* calls of the client ended by an exception, in a row
  serverThrown,   \* and of the listener
  aborted         \* checks ended before they had dealt with the user, in a row

clientVars == <<running, clientIdle, sinceUpdate, silent, losses, clientThrown>>
checkVars == <<registered, sinceCheck, aborted>>
serverVars == <<checkVars, sincePackege, serverIdle, serverThrown>>
vars == <<clientVars, flight, socket, serverVars>>

\* The listener is in the call that connects the user, at any phase of the two
\* update timers; one that is due may be so for any time.
Init ==
  /\ running = TRUE
  /\ clientIdle = 0
  /\ sinceUpdate \in 0 .. TicksPerSecond
  /\ flight = {}
  /\ socket = <<>>
  /\ registered = TRUE
  /\ sincePackege = 0
  /\ serverIdle = 0
  /\ sinceCheck \in 0 .. 5 * TicksPerSecond
  /\ silent = 0
  /\ losses = 0
  /\ clientThrown = 0
  /\ serverThrown = 0
  /\ aborted = 0

-----------------------------------------------------------------------------
(* process_commands of the client: the datagrams, then the timer.          *)

ConfirmDue == Seconds(sinceUpdate) >= 1

ClientQuiet ==
  /\ running
  /\ ~ConfirmDue
  /\ clientIdle' = 0
  /\ clientThrown' = 0
  /\ UNCHANGED <<running, sinceUpdate, silent, losses, flight, socket, serverVars>>

ClientConfirms ==
  /\ running
  /\ ConfirmDue
  /\ clientIdle' = 0
  /\ sinceUpdate' = 0
  /\ clientThrown' = 0
  /\ silent' = 0
  /\ \/ losses' = 0 /\ flight' = flight \cup {0}
     \/ losses < MaxLosses /\ losses' = losses + 1 /\ UNCHANGED flight
  /\ UNCHANGED <<running, socket, serverVars>>

\* Defect for mutation testing: update_timer is set before the datagrams are
\* read, so that an exception costs the confirmation that was due.
ClientThrowsAfterTimer ==
  /\ running
  /\ clientThrown < MaxClientThrows
  /\ clientIdle' = 0
  /\ clientThrown' = clientThrown + 1
  /\ sinceUpdate' = IF ConfirmDue THEN 0 ELSE sinceUpdate
  /\ UNCHANGED <<running, silent, losses, flight, socket, serverVars>>

\* receive_and_process throws (::error, or rpc() of an entity): the call is
\* left before update_timer is looked at, due or not.
ClientThrows ==
  /\ running
  /\ clientThrown < MaxClientThrows
  /\ clientIdle' = 0
  /\ clientThrown' = clientThrown + 1
  /\ UNCHANGED <<running, sinceUpdate, silent, losses, flight, socket, serverVars>>

\* The client's program ends, or stops calling process_commands.
Stop ==
  /\ running
  /\ running' = FALSE
  /\ UNCHANGED <<clientIdle, sinceUpdate, silent, losses, clientThrown, flight, socket,
                 serverVars>>

-----------------------------------------------------------------------------
(* process_commands of the listener: up to maxCommands datagrams, then the *)
(* timer and, when it is due, check_user_alive.                            *)

Arrive(age) ==
  /\ age \in flight
  /\ flight' = flight \ {age}
  /\ socket' = Append(socket, 0)
  /\ UNCHANGED <<clientVars, serverVars>>

\* Defect for mutation testing: last_packege is moved instead of renewed.
RenewedLate == sincePackege + 1

Renewed == 0

\* The next confirmation in the socket is read, at any time during a call; that
\* of a user that is gone is answered with ::error, which ClientThrows covers.
ListenerReads ==
  /\ socket # <<>>
  /\ socket' = Tail(socket)
  /\ sincePackege' = IF registered THEN Renewed ELSE sincePackege
  /\ UNCHANGED <<clientVars, flight, checkVars, serverIdle, serverThrown>>

\* A call ends.  What is in the socket behind maxCommands others, or behind the
\* datagram that threw, stays there.
CallEnds ==
  /\ \A i \in DOMAIN socket : socket[i] < MaxLeft
  /\ socket' = [i \in DOMAIN socket |-> socket[i] + 1]
  /\ serverIdle' = 0
  /\ UNCHANGED <<clientVars, flight, sincePackege>>

CheckDue == Seconds(sinceCheck) >= 5

\* Defect for mutation testing: update_timer is set before the datagrams are
\* read, so that an exception costs the check that was due.
ListenerThrowsAfterTimer ==
  /\ CallEnds
  /\ serverThrown < MaxServerThrows
  /\ serverThrown' = serverThrown + 1
  /\ sinceCheck' = IF CheckDue THEN 0 ELSE sinceCheck
  /\ UNCHANGED <<registered, aborted>>

\* receive_and_process throws (rpc() of an entity, a callback): no check.
ListenerThrows ==
  /\ CallEnds
  /\ serverThrown < MaxServerThrows
  /\ serverThrown' = serverThrown + 1
  /\ UNCHANGED checkVars

ListenerQuiet ==
  /\ CallEnds
  /\ ~CheckDue
  /\ serverThrown' = 0
  /\ UNCHANGED checkVars

Silent == Seconds(sincePackege) >= 5

\* check_user_alive comes past the user and delete_user removes it if it is
\* silent; on_client_disconnected may still throw for a later one.
ListenerChecks ==
  /\ CallEnds
  /\ CheckDue
  /\ serverThrown' = 0
  /\ sinceCheck' = 0
  /\ registered' = (registered /\ ~Silent)
  /\ aborted' = 0

\* on_client_disconnected throws, for the user, which is silent, or for one
\* before it in _users: the user stays, and update_timer has been set.
CheckThrows ==
  /\ CallEnds
  /\ CheckDue
  /\ aborted < MaxAborts
  /\ serverThrown' = 0
  /\ sinceCheck' = 0
  /\ aborted' = aborted + 1
  /\ UNCHANGED registered

-----------------------------------------------------------------------------
Older(t) == IF t < Cap THEN t + 1 ELSE t

\* A tick, unless somebody is late already.
Tick ==
  /\ running => clientIdle < ClientPoll
  /\ serverIdle < ServerPoll
  /\ \A age \in flight : age < Delay
  /\ clientIdle' = IF running THEN clientIdle + 1 ELSE 0
  /\ sinceUpdate' = IF running THEN Older(sinceUpdate) ELSE 0
  /\ flight' = {age + 1 : age \in flight}
  /\ sincePackege' = Older(sincePackege)
  /\ serverIdle' = serverIdle + 1
  /\ sinceCheck' = Older(sinceCheck)
  /\ silent' = Older(silent)
  /\ UNCHANGED <<running, losses, clientThrown, socket, registered, serverThrown, aborted>>

Next == \/ ClientQuiet \/ ClientConfirms \/ ClientThrows \/ Stop
        \/ \E age \in flight : Arrive(age)
        \/ ListenerReads
        \/ ListenerThrows \/ ListenerQuiet \/ ListenerChecks \/ CheckThrows
        \/ Tick

Spec == Init /\ [][Next]_vars

-----------------------------------------------------------------------------
TypeOK ==
  /\ running \in BOOLEAN
  /\ clientIdle \in 0 .. ClientPoll
  /\ sinceUpdate \in 0 .. Cap
  /\ flight \subseteq 0 .. Delay
  /\ socket \in Seq(0 .. MaxLeft)
  /\ registered \in BOOLEAN
  /\ sincePackege \in 0 .. Cap
  /\ serverIdle \in 0 .. ServerPoll
  /\ sinceCheck \in 0 .. Cap
  /\ silent \in 0 .. Cap
  /\ losses \in 0 .. MaxLosses
  /\ clientThrown \in 0 .. MaxClientThrows
  /\ serverThrown \in 0 .. MaxServerThrows
  /\ aborted \in 0 .. MaxAborts

\* The user of a client whose program keeps calling process_commands stays in
\* the table, in any phase of the timers and in spite of exceptions on both
\* sides and of datagrams left in the socket, provided LongestGap, which counts
\* them, is less than five seconds (process_commands against check_user_alive).
KeptAlive == LongestGap < 5 * TicksPerSecond => (running => registered)

\* A client that has sent no confirmation for LongestSilence has no user left
\* (check_user_alive): it may be just too young at one check, and checks may be
\* skipped by exceptions of receive_and_process and ended by the callback.
DroppedInTime == silent > LongestSilence => ~registered
=============================================================================
