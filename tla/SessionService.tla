--------------------------- MODULE SessionService ---------------------------
(***************************************************************************)
(* What the listener promises the program about sessions: an address has   *)
(* at most one at a time; in it the commands of that address that follow   *)
(* the one that opened it are taken up in the order of their numbers, none *)
(* left out and none twice.  Slots, user ids, queues, datagrams and        *)
(* confirmations do not appear.                                            *)
(***************************************************************************)
EXTENDS CmdIndex, Sequences

CONSTANTS Clients,   \* addresses
          Closed     \* an address without a session

VARIABLES turn,       \* per address: the number of the next command, or Closed
          sessions,   \* per address: how many have been opened
          ran         \* per address: the commands run, with their sessions

serviceVars == <<turn, sessions, ran>>

Init == /\ turn = [c \in Clients |-> Closed]
        /\ sessions = [c \in Clients |-> 0]
        /\ ran = [c \in Clients |-> <<>>]

\* Any sessions end.
Close == /\ \A c \in Clients : turn'[c] \in {turn[c], Closed}
         /\ turn' = [c \in Clients |-> turn'[c]]
         /\ UNCHANGED <<sessions, ran>>

\* Command i of the address opens a session.
Open(c, i) == /\ turn[c] = Closed
              /\ sessions' = [sessions EXCEPT ![c] = @ + 1]
              /\ turn' = [turn EXCEPT ![c] = NextIndex(i)]
              /\ UNCHANGED ran

Run(c) == /\ turn[c] # Closed
          /\ ran' = [ran EXCEPT ![c] =
               Append(@, [session |-> sessions[c], from |-> c, index |-> turn[c]])]
          /\ turn' = [turn EXCEPT ![c] = NextIndex(@)]
          /\ UNCHANGED sessions

\* A command that is no call and does not end the session.
Pass(c) == /\ turn[c] # Closed
           /\ turn' = [turn EXCEPT ![c] = NextIndex(@)]
           /\ UNCHANGED <<sessions, ran>>

Next == \/ Close
        \/ \E c \in Clients : Run(c) \/ Pass(c) \/ \E i \in Indices : Open(c, i)

Spec == Init /\ [][Next]_serviceVars
=============================================================================
