-------------------------- MODULE RpcSessionProofs --------------------------
(***************************************************************************)
(* Proofs about RpcSession, for any number of clients and slots and every  *)
(* bound.                                                                  *)
(***************************************************************************)
EXTENDS RpcSession, TLAPS

-----------------------------------------------------------------------------
(* The inductive invariant.                                                *)

ClientRecords == [is_connected : BOOLEAN, user_id : 0 .. MaxUsers,
                  send_next : ReliableIndices, recv_next : ReliableIndices,
                  server : Points, point : Points,
                  pc : {"idle", "wait_for", "failed", "gone"}]
UserRecords == [address : Clients, send_next : ReliableIndices,
                recv_next : ReliableIndices]
UpMsgs == [index : Indices, cmd : Upstream, user : 0 .. MaxUsers]
DownMsgs == [index : Indices, cmd : Downstream, user : 0 .. MaxUsers]
Commands == [index : ReliableIndices, cmd : Upstream, user : 0 .. MaxUsers]
Entries == [session : 1 .. MaxOpened, from : Clients, index : ReliableIndices]

\* The client's side.  A command it has numbered is below the bound, so the
\* index after it is the next number.
ClientSide ==
  /\ client \in [Clients -> ClientRecords]
  /\ cqueue \in [Clients -> SUBSET [msg : Commands, to : Points]]
  /\ up \in [Clients -> SUBSET UpMsgs]
  /\ \A c \in Clients : \A m \in up[c] : m.cmd # "confirm" => m.index < MaxSends

\* The listener's side.  Every session begins with ::connect_ok, number 0.
ServerSide ==
  /\ users \in [Slots -> {NoUser} \cup UserRecords]
  /\ squeue \in [Clients -> SUBSET DownMsgs]
  /\ down \in [Clients -> SUBSET DownMsgs]
  /\ \A c \in Clients : \A m \in down[c] : m.cmd = "connect_ok" => m.index = 0

\* The commands run so far: none of a session that is still to come, and those
\* of a session that lasts are before the command its user is at.
Runs ==
  /\ opened \in [Clients -> 0 .. MaxOpened]
  /\ executed \in [Clients -> Seq(Entries)]
  /\ SessionStream
  /\ \A c \in Clients : \A k \in 1 .. Len(executed[c]) :
       executed[c][k].session <= opened[c]
  /\ \A u \in Slots \ Free :
       LET c == users[u].address
       IN  /\ opened[c] >= 1
           /\ \A k \in 1 .. Len(executed[c]) :
                executed[c][k].session = opened[c] =>
                  executed[c][k].index < users[u].recv_next

IInv == ClientSide /\ ServerSide /\ UniqueAddress /\ Runs

-----------------------------------------------------------------------------
(* Indices and messages.                                                   *)

\* pre_add_index below the last reliable index.
LEMMA NextIndexAdds ==
  ASSUME NEW i \in Nat, i + 1 < UnsafeIndex
  PROVE  NextIndex(i) = i + 1
<1>1. (i + 1) % (UnsafeIndex + 1) = i + 1
  BY UnsafeIndexAssumption
<1> QED
  BY <1>1, UnsafeIndexAssumption DEF NextIndex

\* pre_add_index keeps the cycle of reliable indices.
LEMMA NextIndexReliable ==
  ASSUME NEW i \in ReliableIndices
  PROVE  NextIndex(i) \in ReliableIndices
<1>1. i + 1 \in 0 .. UnsafeIndex
  BY UnsafeIndexAssumption DEF ReliableIndices
<1>2. (i + 1) % (UnsafeIndex + 1) = i + 1
  BY <1>1, UnsafeIndexAssumption
<1> QED
  BY <1>2, UnsafeIndexAssumption DEF NextIndex, ReliableIndices

\* A number below the bounds is a reliable index, and so is the one after it.
LEMMA Bounded ==
  ASSUME NEW i \in Nat, NEW n \in {MaxSends, MaxServerSends}, i < n
  PROVE  /\ i \in ReliableIndices /\ i \in Indices
         /\ NextIndex(i) = i + 1
         /\ i + 1 \in ReliableIndices
<1>1. n \in Nat /\ n + 1 < UnsafeIndex
  BY BoundsAssumption, NoWrapAssumption
<1>2. i + 1 < UnsafeIndex
  BY <1>1, UnsafeIndexAssumption
<1>3. NextIndex(i) = i + 1
  BY <1>2, NextIndexAdds
<1> QED
  BY <1>2, <1>3, UnsafeIndexAssumption DEF ReliableIndices, Indices

\* Confirmations of either side are messages of that side.
LEMMA ConfirmTyped ==
  ASSUME NEW i \in Indices
  PROVE  Confirm(i) \in UpMsgs \cap DownMsgs /\ Confirm(i).cmd = "confirm"
BY MaxUsersAssumption
   DEF Confirm, Msg, UpMsgs, DownMsgs, Upstream, Downstream

-----------------------------------------------------------------------------
(* The client's steps.                                                     *)

\* cmd() of a client: the queue and the datagrams get one command, numbered
\* below the bound, and the client is as given but for its counter.
LEMMA ClientCmdTyped ==
  ASSUME ClientSide, NEW c \in Clients, NEW s \in ClientRecords,
         NEW cmd \in {"connect", "rpc", "disconnect"},
         NEW user \in 0 .. MaxUsers, NEW to \in Points,
         ClientCmd(c, s, cmd, user, to)
  PROVE  /\ ClientSide'
         /\ \A d \in Clients \ {c} : client'[d] = client[d]
         /\ client'[c].is_connected = s.is_connected
<1> DEFINE m == Msg(s.send_next, cmd, user)
<1>1. s.send_next \in Nat /\ s.send_next < MaxSends
  BY UnsafeIndexAssumption DEF ClientCmd, ClientRecords, ReliableIndices
<1>2. /\ s.send_next \in ReliableIndices /\ s.send_next \in Indices
      /\ NextIndex(s.send_next) \in ReliableIndices
  BY <1>1, Bounded, NextIndexReliable DEF ClientRecords
<1>3. m \in Commands /\ m \in UpMsgs /\ m.index < MaxSends
  BY <1>1, <1>2 DEF Msg, Commands, UpMsgs, Upstream
<1>4. /\ cqueue' \in [Clients -> SUBSET [msg : Commands, to : Points]]
  <2>1. [msg |-> m, to |-> to] \in [msg : Commands, to : Points]
    BY <1>3
  <2> QED
    BY <2>1 DEF ClientCmd, ClientSide
<1>5. up' \in [Clients -> SUBSET UpMsgs]
  BY <1>3 DEF ClientCmd, ClientSide
<1>6. ASSUME NEW d \in Clients, NEW x \in up'[d], x.cmd # "confirm"
      PROVE  x.index < MaxSends
  <2>1. x \in up[d] \/ x = m
    BY <1>6 DEF ClientCmd, ClientSide
  <2> QED
    BY <2>1, <1>3, <1>6 DEF ClientSide
<1>7. /\ client' \in [Clients -> ClientRecords]
      /\ \A d \in Clients \ {c} : client'[d] = client[d]
      /\ client'[c].is_connected = s.is_connected
  <2> DEFINE t == [s EXCEPT !.send_next = NextIndex(@),
                            !.pc = IF @ = "wait_for" THEN @ ELSE "idle"]
  <2>1. t \in ClientRecords /\ t.is_connected = s.is_connected
    BY <1>2 DEF ClientRecords
  <2>2. client' = [client EXCEPT ![c] = t]
    BY DEF ClientCmd
  <2> HIDE DEF t
  <2> QED
    BY <2>1, <2>2 DEF ClientSide
<1> QED
  BY <1>4, <1>5, <1>6, <1>7 DEF ClientSide

\* What a step of client c may do to whether it is connected.
ConnectsFirst(c) ==
  /\ \A d \in Clients \ {c} : client'[d] = client[d]
  /\ ~client[c].is_connected /\ client'[c].is_connected => client[c].recv_next = 0

\* Calls of the program on a client.
LEMMA ProgramStepTyped ==
  ASSUME IInv, NEW c \in Clients,
         Connect(c) \/ Call(c) \/ Disconnect(c) \/ Destroy(c) \/ WaitForTimeout(c)
  PROVE  ClientSide' /\ ConnectsFirst(c)
<1> USE DEF IInv, ConnectsFirst
<1>0. /\ client[c] \in ClientRecords
      /\ client[c].user_id \in 0 .. MaxUsers
      /\ client[c].server \in Points /\ client[c].point \in Points
  BY DEF ClientSide, ClientRecords
<1>1. CASE Connect(c)
  <2> DEFINE s == [client[c] EXCEPT !.server = "listener", !.pc = "wait_for"]
  <2>1. s \in ClientRecords /\ s.is_connected = client[c].is_connected
    BY <1>0 DEF ClientRecords, Points
  <2>2. ClientCmd(c, s, "connect", 0, "listener")
    BY <1>1 DEF Connect
  <2>3. "listener" \in Points /\ 0 \in 0 .. MaxUsers
    BY MaxUsersAssumption DEF Points
  <2> HIDE DEF s
  <2> QED
    BY <2>1, <2>2, <2>3, ClientCmdTyped
<1>2. CASE Call(c)
  BY <1>0, <1>2, ClientCmdTyped DEF Call
<1>3. CASE Disconnect(c)
  <2> DEFINE s == [client[c] EXCEPT !.is_connected = FALSE]
  <2>1. s \in ClientRecords /\ s.is_connected = FALSE
    BY <1>0 DEF ClientRecords
  <2>2. ClientCmd(c, s, "disconnect", client[c].user_id, client[c].server)
    BY <1>3 DEF Disconnect
  <2> HIDE DEF s
  <2> QED
    BY <1>0, <2>1, <2>2, ClientCmdTyped
<1>4. CASE Destroy(c)
  <2> DEFINE t == [client[c] EXCEPT !.pc = "gone", !.is_connected = FALSE,
                     !.send_next = IF client[c].is_connected
                                   THEN NextIndex(@) ELSE @]
  <2> DEFINE m == Msg(client[c].send_next, "disconnect", client[c].user_id)
  <2>1. client' = [client EXCEPT ![c] = t]
    BY <1>0, <1>4 DEF Destroy, ClientSide
  <2>2. t \in ClientRecords /\ t.is_connected = FALSE
    BY <1>0, NextIndexReliable DEF ClientRecords
  <2>3. client[c].is_connected =>
          m \in UpMsgs /\ m.index < MaxSends
    <3>1. client[c].send_next \in Indices
      BY <1>0, UnsafeIndexAssumption DEF ClientRecords, ReliableIndices, Indices
    <3>2. m \in UpMsgs /\ m.index = client[c].send_next
      BY <1>0, <3>1 DEF Msg, UpMsgs, Upstream
    <3> QED
      BY <1>4, <3>2 DEF Destroy
  <2>4. up' = [up EXCEPT ![c] = @ \cup {x \in {m} : client[c].is_connected}]
    BY <1>4 DEF Destroy, ClientSide
  <2>5. /\ up' \in [Clients -> SUBSET UpMsgs]
        /\ \A d \in Clients : \A x \in up'[d] :
             x.cmd # "confirm" => x.index < MaxSends
    <3> HIDE DEF m
    <3> QED
      BY <2>3, <2>4 DEF ClientSide
  <2>6. cqueue' \in [Clients -> SUBSET [msg : Commands, to : Points]]
    BY <1>4 DEF Destroy, ClientSide
  <2> HIDE DEF t
  <2> QED
    BY <2>1, <2>2, <2>5, <2>6 DEF ClientSide
<1>5. CASE WaitForTimeout(c)
  <2>1. client' = [client EXCEPT ![c] = [client[c] EXCEPT !.pc = "failed"]]
    BY <1>5 DEF WaitForTimeout, ClientSide
  <2>2. [client[c] EXCEPT !.pc = "failed"] \in ClientRecords
    BY <1>0 DEF ClientRecords
  <2> QED
    BY <1>5, <2>1, <2>2 DEF WaitForTimeout, ClientSide, ClientRecords
<1> QED
  BY <1>1, <1>2, <1>3, <1>4, <1>5

\* process() of the client keeps the types of its members, and connects it
\* with a ::connect_ok only.
LEMMA AfterTyped ==
  ASSUME NEW c \in Clients, client[c] \in ClientRecords,
         NEW m \in DownMsgs, Accept(c, m)
  PROVE  /\ After(c, m) \in ClientRecords
         /\ [After(c, m) EXCEPT !.pc = "idle"] \in ClientRecords
         /\ [After(c, m) EXCEPT !.pc = "idle"].is_connected =>
              client[c].is_connected \/ m.cmd = "connect_ok"
<1> DEFINE s == [client[c] EXCEPT !.recv_next = NextIndex(@)]
<1>1. s \in ClientRecords /\ s.is_connected = client[c].is_connected
  BY NextIndexReliable DEF ClientRecords
<1>2. m.user \in 0 .. MaxUsers /\ "listener" \in Points
  BY DEF DownMsgs, Points
<1>3. CASE m.cmd = "connect_ok"
  <2>1. After(c, m) = [s EXCEPT !.user_id = m.user, !.is_connected = TRUE,
                                !.point = "listener"]
    BY <1>3 DEF After
  <2> HIDE DEF s
  <2> QED
    BY <1>1, <1>2, <1>3, <2>1 DEF ClientRecords
<1>4. CASE m.cmd = "disconnect_ok"
  <2>1. After(c, m) = [s EXCEPT !.is_connected = FALSE]
    BY <1>4 DEF After
  <2> HIDE DEF s
  <2> QED
    BY <1>1, <2>1 DEF ClientRecords
<1>5. CASE m.cmd # "connect_ok" /\ m.cmd # "disconnect_ok"
  <2>1. After(c, m) = s
    BY <1>5 DEF After
  <2> HIDE DEF s
  <2> QED
    BY <1>1, <2>1 DEF ClientRecords
<1> QED
  BY <1>3, <1>4, <1>5

\* Confirmations may join the datagrams of a client.
LEMMA ClientConfirms ==
  ASSUME ClientSide, NEW c \in Clients, NEW i \in Indices,
         \/ up' = [up EXCEPT ![c] = @ \cup {Confirm(i)}]
         \/ up' = up
  PROVE  /\ up' \in [Clients -> SUBSET UpMsgs]
         /\ \A d \in Clients : \A m \in up'[d] :
              m.cmd # "confirm" => m.index < MaxSends
<1>1. Confirm(i) \in UpMsgs /\ Confirm(i).cmd = "confirm"
  BY ConfirmTyped
<1> QED
  BY <1>1 DEF ClientSide

\* Datagrams the client reads.
LEMMA ReceiveStepTyped ==
  ASSUME IInv, NEW c \in Clients, NEW m \in down[c],
         ClientErase(c, m) \/ ClientReceive(c, m) \/ WaitForConnectOk(c, m)
  PROVE  ClientSide' /\ ConnectsFirst(c)
<1> USE DEF IInv, ConnectsFirst
<1>0. /\ client[c] \in ClientRecords
      /\ m \in DownMsgs
      /\ m.index \in Indices
      /\ m.cmd = "connect_ok" => m.index = 0
  BY DEF ClientSide, ServerSide, DownMsgs
<1>1. CASE ClientErase(c, m)
  <2>1. cqueue' \in [Clients -> SUBSET [msg : Commands, to : Points]]
    BY <1>1 DEF ClientErase, ClientSide
  <2> QED
    BY <1>1, <2>1 DEF ClientErase, ClientSide
<1>2. ASSUME Accept(c, m),
             client' = [client EXCEPT ![c] = [After(c, m) EXCEPT !.pc = "idle"]],
             \/ up' = [up EXCEPT ![c] = @ \cup {Confirm(m.index)}]
             \/ up' = up,
             cqueue' = cqueue
      PROVE  ClientSide' /\ ConnectsFirst(c)
  <2> DEFINE t == [After(c, m) EXCEPT !.pc = "idle"]
  <2>1. t \in ClientRecords
        /\ (t.is_connected => client[c].is_connected \/ m.cmd = "connect_ok")
    BY <1>0, <1>2, AfterTyped
  <2>2. client'[c] = t /\ client' \in [Clients -> ClientRecords]
        /\ \A d \in Clients \ {c} : client'[d] = client[d]
    <3> HIDE DEF t
    <3> QED
      BY <1>2, <2>1 DEF ClientSide, t
  <2>3. m.index = client[c].recv_next
    BY <1>2 DEF Accept
  <2> HIDE DEF t
  <2>4. ClientSide'
    BY <1>0, <1>2, <2>2, ClientConfirms DEF ClientSide
  <2> QED
    BY <1>0, <2>1, <2>2, <2>3, <2>4
<1>3. CASE ClientReceive(c, m)
  BY <1>2, <1>3 DEF ClientReceive
<1>4. CASE WaitForConnectOk(c, m)
  <2>1. CASE Accept(c, m)
    BY <1>2, <1>4, <2>1 DEF WaitForConnectOk
  <2>2. CASE ~Accept(c, m)
    <3>1. /\ client' = [client EXCEPT ![c] = [client[c] EXCEPT !.pc = "idle"]]
          /\ up' = up /\ cqueue' = cqueue
      BY <1>4, <2>2 DEF WaitForConnectOk, ClientSide
    <3>2. [client[c] EXCEPT !.pc = "idle"] \in ClientRecords
          /\ [client[c] EXCEPT !.pc = "idle"].is_connected = client[c].is_connected
      BY <1>0 DEF ClientRecords
    <3> QED
      BY <3>1, <3>2 DEF ClientSide
  <2> QED
    BY <2>1, <2>2
<1> QED
  BY <1>1, <1>3, <1>4

-----------------------------------------------------------------------------
(* The listener's steps.                                                   *)

\* A user keeps its place, its address and its stream, or loses its slot.
UsersStay ==
  \A u \in Slots :
    users'[u] # NoUser =>
      /\ users[u] # NoUser
      /\ users'[u].address = users[u].address
      /\ users'[u].recv_next >= users[u].recv_next

\* What is known of a slot in use.
LEMMA UserTyped ==
  ASSUME ServerSide, NEW u \in Slots, users[u] # NoUser
  PROVE  /\ users[u] \in UserRecords
         /\ users[u].address \in Clients
         /\ users[u].send_next \in ReliableIndices
         /\ users[u].recv_next \in ReliableIndices
         /\ users[u].send_next \in Nat /\ users[u].recv_next \in Nat
<1>1. users[u] \in UserRecords
  BY DEF ServerSide
<1> QED
  BY <1>1 DEF UserRecords, ReliableIndices

\* A user record is no empty slot.
LEMMA RecordIsUser ==
  ASSUME NEW r \in UserRecords
  PROVE  r # NoUser
<1>1. r \in [address : Clients, send_next : Indices, recv_next : Indices]
  BY UnsafeIndexAssumption DEF UserRecords, ReliableIndices, Indices
<1> QED
  BY <1>1, NoUserAssumption

\* What is known of a command that has been run.
LEMMA EntryTyped ==
  ASSUME Runs, NEW c \in Clients, NEW k \in 1 .. Len(executed[c])
  PROVE  /\ executed[c][k] \in Entries
         /\ executed[c][k].index \in Nat /\ executed[c][k].session \in Nat
<1>1. executed[c] \in Seq(Entries)
  BY DEF Runs
<1>2. executed[c][k] \in Entries
  BY <1>1
<1> QED
  BY <1>2 DEF Entries, ReliableIndices

\* No run step: the histories are as they were and every user stays or goes.
LEMMA StayKeepsRuns ==
  ASSUME IInv, UsersStay, UNCHANGED <<opened, executed>>,
         users' \in [Slots -> {NoUser} \cup UserRecords]
  PROVE  UniqueAddress' /\ Runs'
<1> USE DEF IInv
<1>1. UniqueAddress'
  BY DEF UniqueAddress, UsersStay, Free
<1>2. ASSUME NEW u \in (Slots \ Free)', NEW k \in 1 .. Len(executed[users'[u].address]),
             executed[users'[u].address][k].session = opened[users'[u].address]
      PROVE  executed[users'[u].address][k].index < users'[u].recv_next
  <2>1. /\ u \in Slots \ Free
        /\ users'[u].address = users[u].address
        /\ users'[u].recv_next >= users[u].recv_next
        /\ users[u] \in UserRecords /\ users'[u] \in UserRecords
    BY DEF UsersStay, Free, ServerSide
  <2>2. executed[users[u].address][k].index < users[u].recv_next
    BY <2>1, <1>2 DEF Runs
  <2>3. /\ users[u].recv_next \in Nat /\ users'[u].recv_next \in Nat
        /\ users[u].address \in Clients
    BY <2>1 DEF UserRecords, ReliableIndices
  <2>4. executed[users[u].address][k].index \in Nat
    BY <2>1, <2>3, EntryTyped
  <2> QED
    BY <2>1, <2>2, <2>3, <2>4
<1>3. ASSUME NEW u \in (Slots \ Free)'
      PROVE  opened[users'[u].address] >= 1
  BY <1>3 DEF UsersStay, Free, Runs
<1>4. SessionStream'
  BY DEF Runs, SessionStream
<1> QED
  BY <1>1, <1>2, <1>3, <1>4 DEF Runs

\* Datagrams X may join those to any clients.
LEMMA SentTyped ==
  ASSUME ServerSide, NEW X, X \subseteq DownMsgs,
         \A x \in X : x.cmd = "connect_ok" => x.index = 0,
         DOMAIN down' = Clients, down' = [c \in Clients |-> down'[c]],
         \A c \in Clients : down'[c] \subseteq down[c] \cup X
  PROVE  /\ down' \in [Clients -> SUBSET DownMsgs]
         /\ \A c \in Clients : \A m \in down'[c] : m.cmd = "connect_ok" => m.index = 0
BY DEF ServerSide

\* The confirmation of m and datagrams ms go to c, or only ms.
LEMMA AnswerTyped ==
  ASSUME ServerSide, NEW c \in Clients, NEW m \in UpMsgs, NEW ms, ms \subseteq DownMsgs,
         \A x \in ms : x.cmd = "connect_ok" => x.index = 0,
         Answer(c, m, ms) \/ down' = [down EXCEPT ![c] = @ \cup ms] \/ down' = down
  PROVE  /\ down' \in [Clients -> SUBSET DownMsgs]
         /\ \A d \in Clients : \A x \in down'[d] : x.cmd = "connect_ok" => x.index = 0
<1> DEFINE X == ms \cup {Confirm(m.index)}
<1>1. X \subseteq DownMsgs /\ \A x \in X : x.cmd = "connect_ok" => x.index = 0
  BY ConfirmTyped DEF UpMsgs
<1>2. /\ DOMAIN down' = Clients /\ down' = [d \in Clients |-> down'[d]]
      /\ \A d \in Clients : down'[d] \subseteq down[d] \cup X
  BY DEF Answer, ServerSide
<1> HIDE DEF X
<1> QED
  BY <1>1, <1>2, SentTyped

\* The next command of a valid user moves its recv_next by one.
LEMMA AdvanceTyped ==
  ASSUME IInv, NEW c \in Clients, NEW m \in up[c], m.cmd # "confirm",
         ValidUser(c, m.user), InTurn(m.user, m)
  PROVE  /\ m.user \in Slots /\ users[m.user] # NoUser
         /\ users[m.user].address = c
         /\ m.index \in ReliableIndices /\ m.index \in Nat
         /\ Advance(m.user) \in UserRecords
         /\ Advance(m.user).address = c
         /\ Advance(m.user).send_next = users[m.user].send_next
         /\ Advance(m.user).recv_next = m.index + 1
<1> DEFINE u == m.user
<1>1. u \in Slots /\ users[u] # NoUser /\ users[u].address = c
  BY DEF ValidUser
<1>2. users[u] \in UserRecords /\ m.index = users[u].recv_next
  BY <1>1, UserTyped DEF InTurn, IInv
<1>3. m.index \in ReliableIndices /\ m.index \in Nat /\ m.index < MaxSends
  BY <1>2 DEF UserRecords, ReliableIndices, IInv, ClientSide
<1>4. NextIndex(m.index) = m.index + 1 /\ m.index + 1 \in ReliableIndices
  BY <1>3, Bounded
<1>5. Advance(u) = [users[u] EXCEPT !.recv_next = m.index + 1]
  BY <1>2, <1>4 DEF Advance
<1> HIDE DEF u
<1>6. /\ Advance(u) \in UserRecords /\ Advance(u).address = c
      /\ Advance(u).send_next = users[u].send_next
      /\ Advance(u).recv_next = m.index + 1
  BY <1>1, <1>2, <1>4, <1>5 DEF UserRecords
<1> QED
  BY <1>1, <1>3, <1>6 DEF u

\* A call is run: it is the next of the user's session, so the sequence of the
\* session's commands goes on.
LEMMA ServerRpcKeeps ==
  ASSUME IInv, NEW c \in Clients, NEW m \in up[c], ServerRpc(c, m)
  PROVE  ServerSide' /\ UniqueAddress' /\ Runs'
<1> USE DEF IInv
<1> DEFINE u == m.user
           e == [session |-> opened[c], from |-> c, index |-> m.index]
<1>1. /\ u \in Slots /\ users[u] # NoUser /\ users[u].address = c
      /\ m.index \in ReliableIndices /\ m.index \in Nat
      /\ Advance(u) \in UserRecords /\ Advance(u).address = c
      /\ Advance(u).recv_next = m.index + 1
      /\ m.index = users[u].recv_next
  BY AdvanceTyped DEF ServerRpc, InTurn
<1>2. /\ users' = [users EXCEPT ![u] = Advance(u)]
      /\ executed' = [executed EXCEPT ![c] = Append(@, e)]
      /\ opened' = opened /\ squeue' = squeue
  BY <1>1 DEF ServerRpc
<1> HIDE DEF u
<1>3. users' \in [Slots -> {NoUser} \cup UserRecords] /\ UsersStay
  BY <1>1, <1>2, RecordIsUser, UserTyped DEF ServerSide, UsersStay
<1>4. ServerSide'
  <2>1. m \in UpMsgs
    BY DEF ClientSide
  <2>2. Answer(c, m, {}) \/ down' = down
    BY DEF ServerRpc
  <2> QED
    BY <1>2, <1>3, <2>1, <2>2, AnswerTyped DEF ServerSide
<1>5. UniqueAddress'
  BY <1>3 DEF UniqueAddress, UsersStay, Free
<1>6. opened[c] >= 1 /\ opened[c] \in 0 .. MaxOpened /\ MaxOpened \in Nat
  BY <1>1, BoundsAssumption DEF Runs, Free
<1>7. e \in Entries
  BY <1>1, <1>6 DEF Entries
<1>8. /\ executed[c] \in Seq(Entries) /\ Len(executed[c]) \in Nat
      /\ executed' \in [Clients -> Seq(Entries)]
      /\ executed'[c] = Append(executed[c], e)
      /\ \A d \in Clients \ {c} : executed'[d] = executed[d]
  BY <1>2, <1>7 DEF Runs
<1>9. /\ Len(executed'[c]) = Len(executed[c]) + 1
      /\ \A k \in 1 .. Len(executed[c]) : executed'[c][k] = executed[c][k]
      /\ executed'[c][Len(executed[c]) + 1] = e
  BY <1>8
<1>10. e.session = opened[c] /\ e.from = c /\ e.index = m.index
  OBVIOUS
<1> HIDE DEF e
<1>11. \A k \in 1 .. Len(executed[c]) :
         executed[c][k].session = opened[c] => executed[c][k].index < m.index
  BY <1>1 DEF Runs, Free
<1>12. SessionStream'
  <2>1. ASSUME NEW d \in Clients, NEW k \in 1 .. Len(executed'[d])
        PROVE  /\ executed'[d][k].from = d
               /\ \A j \in 1 .. k - 1 :
                    executed'[d][j].session = executed'[d][k].session =>
                      executed'[d][j].index < executed'[d][k].index
    <3>1. CASE d # c
      BY <2>1, <3>1, <1>8 DEF Runs, SessionStream
    <3>2. CASE d = c /\ k \in 1 .. Len(executed[c])
      BY <3>2, <1>8, <1>9 DEF Runs, SessionStream
    <3>3. CASE d = c /\ k = Len(executed[c]) + 1
      BY <3>3, <1>8, <1>9, <1>10, <1>11
    <3> QED
      BY <2>1, <3>1, <3>2, <3>3, <1>8, <1>9
  <2> QED
    BY <2>1 DEF SessionStream
<1>13. ASSUME NEW d \in Clients, NEW k \in 1 .. Len(executed'[d])
       PROVE  executed'[d][k].session <= opened'[d]
  BY <1>2, <1>6, <1>8, <1>9, <1>10 DEF Runs
<1>14. ASSUME NEW v \in (Slots \ Free)'
       PROVE  /\ opened'[users'[v].address] >= 1
              /\ \A k \in 1 .. Len(executed'[users'[v].address]) :
                   executed'[users'[v].address][k].session = opened'[users'[v].address]
                     => executed'[users'[v].address][k].index < users'[v].recv_next
  <2>1. /\ v \in Slots \ Free /\ users'[v].address = users[v].address
        /\ v # u => users'[v] = users[v]
    BY <1>1, <1>2, <1>3 DEF UsersStay, Free, ServerSide
  <2>2. CASE v = u
    <3>1. users'[v].address = c /\ users'[v].recv_next = m.index + 1
      BY <1>1, <1>2, <2>2 DEF ServerSide
    <3>2. \A k \in 1 .. Len(executed[c]) :
            executed[c][k].session = opened[c] => executed[c][k].index < m.index + 1
      BY <1>1, <1>11, EntryTyped
    <3> QED
      BY <1>1, <1>2, <1>6, <1>8, <1>9, <1>10, <3>1, <3>2
  <2>3. CASE v # u
    <3>1. users[v].address # c /\ users[v].address \in Clients
      BY <1>1, <2>1, <2>3, UserTyped DEF UniqueAddress, Free
    <3> QED
      BY <1>2, <1>8, <2>1, <2>3, <3>1 DEF Runs
  <2> QED
    BY <2>2, <2>3
<1> QED
  BY <1>2, <1>4, <1>5, <1>8, <1>12, <1>13, <1>14 DEF Runs

\* The ::disconnect_ok of a user is a message for the user's address.
LEMMA GoodbyeTyped ==
  ASSUME ServerSide, NEW u \in Slots, users[u] # NoUser
  PROVE  Goodbye(u) \in DownMsgs /\ Goodbye(u).cmd = "disconnect_ok"
<1>1. users[u].send_next \in Indices
  BY UserTyped, UnsafeIndexAssumption DEF ReliableIndices, Indices
<1> QED
  BY <1>1, MaxUsersAssumption DEF Goodbye, Msg, DownMsgs, Downstream

\* delete_user: the users of D are told and go, but for those of T.
LEMMA DeleteUsersTyped ==
  ASSUME IInv, NEW table \in [Slots -> {NoUser} \cup UserRecords],
         NEW D, D \subseteq Slots \ Free, NEW T, T \subseteq D,
         \A v \in Slots : IF users[v] = NoUser THEN table[v] = NoUser
                          ELSE /\ table[v] \in UserRecords
                               /\ table[v].address = users[v].address
                               /\ table[v].send_next = users[v].send_next
                               /\ table[v].recv_next >= users[v].recv_next,
         DeleteUsers(table, D, T)
  PROVE  /\ users' \in [Slots -> {NoUser} \cup UserRecords]
         /\ UsersStay
         /\ squeue' \in [Clients -> SUBSET DownMsgs]
         /\ \A v \in Slots :
              /\ users'[v] # NoUser => users'[v].recv_next = table[v].recv_next
              /\ users[v] # NoUser /\ v \notin D \ T => users'[v] # NoUser
<1> USE DEF IInv
<1>1. ASSUME NEW v \in Slots
      PROVE  /\ users'[v] \in {NoUser} \cup UserRecords
             /\ users'[v] # NoUser =>
                  /\ users[v] # NoUser
                  /\ users'[v].address = users[v].address
                  /\ users'[v].recv_next >= users[v].recv_next
                  /\ users'[v].recv_next = table[v].recv_next
             /\ users[v] # NoUser /\ v \notin D \ T => users'[v] # NoUser
  <2>1. CASE v \in T
    <3>1. users[v] # NoUser /\ users[v].send_next < MaxServerSends
      BY <2>1 DEF DeleteUsers, Free
    <3>2. users[v].send_next \in Nat /\ NextIndex(users[v].send_next) \in ReliableIndices
      BY <3>1, UserTyped, NextIndexReliable
    <3> DEFINE r == [table[v] EXCEPT !.send_next = NextIndex(@)]
    <3>3. users'[v] = r
      BY <2>1 DEF DeleteUsers
    <3>4. /\ r \in UserRecords /\ r.address = users[v].address
          /\ r.recv_next >= users[v].recv_next /\ r.recv_next = table[v].recv_next
      BY <3>1, <3>2 DEF UserRecords
    <3> HIDE DEF r
    <3> QED
      BY <2>1, <3>1, <3>3, <3>4, RecordIsUser
  <2>2. CASE v \notin T /\ v \in D
    BY <2>2 DEF DeleteUsers
  <2>3. CASE v \notin T /\ v \notin D
    BY <2>3, RecordIsUser DEF DeleteUsers
  <2> QED
    BY <2>1, <2>2, <2>3
<1>2. users' \in [Slots -> {NoUser} \cup UserRecords] /\ UsersStay
  BY <1>1 DEF DeleteUsers, UsersStay
<1>3. \A c \in Clients : GoodbyesTo(c, D) \subseteq DownMsgs
  BY GoodbyeTyped DEF GoodbyesTo, Free
<1>4. squeue' \in [Clients -> SUBSET DownMsgs]
  BY <1>3 DEF DeleteUsers, ServerSide
<1> QED
  BY <1>1, <1>2, <1>4

\* The same, of the table as it is.
LEMMA DeleteUsersOfTable ==
  ASSUME IInv, NEW D, D \subseteq Slots \ Free, NEW T, T \subseteq D,
         DeleteUsers(users, D, T)
  PROVE  /\ users' \in [Slots -> {NoUser} \cup UserRecords]
         /\ UsersStay
         /\ squeue' \in [Clients -> SUBSET DownMsgs]
         /\ \A v \in Slots : users'[v] # NoUser => users'[v].recv_next = users[v].recv_next
<1>1. users \in [Slots -> {NoUser} \cup UserRecords]
  BY DEF IInv, ServerSide
<1>2. \A v \in Slots : IF users[v] = NoUser THEN users[v] = NoUser
                      ELSE /\ users[v] \in UserRecords
                           /\ users[v].address = users[v].address
                           /\ users[v].send_next = users[v].send_next
                           /\ users[v].recv_next >= users[v].recv_next
  <2>1. \A v \in Slots : users[v] # NoUser => users[v] \in UserRecords
                                            /\ users[v].recv_next \in Nat
    BY UserTyped DEF IInv
  <2> QED
    BY <2>1
<1> QED
  BY <1>1, <1>2, DeleteUsersTyped, ZenonT(30)

\* ::disconnect of a user, whether its slot becomes free or the callback throws.
LEMMA ServerDisconnectKeeps ==
  ASSUME IInv, NEW c \in Clients, NEW m \in up[c], ServerDisconnect(c, m)
  PROVE  ServerSide' /\ UniqueAddress' /\ Runs'
<1> USE DEF IInv
<1> DEFINE u == m.user
<1>1. /\ u \in Slots /\ users[u] # NoUser /\ users[u].address = c
      /\ Advance(u) \in UserRecords /\ Advance(u).address = c
      /\ Advance(u).send_next = users[u].send_next
      /\ Advance(u).recv_next = m.index + 1
      /\ m.index = users[u].recv_next /\ m.index \in Nat
  BY AdvanceTyped DEF ServerDisconnect, InTurn
<1>2. \/ /\ DeleteUsers(users, {u}, {})
         /\ Answer(c, m, {Goodbye(u)})
      \/ /\ DeleteUsers([users EXCEPT ![u] = Advance(u)], {u}, {u})
         /\ down' = [down EXCEPT ![c] = @ \cup {Goodbye(u)}]
  BY DEF ServerDisconnect
<1>3. UNCHANGED <<opened, executed>>
  BY DEF ServerDisconnect
<1>4. m \in UpMsgs
  BY DEF ClientSide
<1> HIDE DEF u
<1>5. {u} \subseteq Slots \ Free
  BY <1>1 DEF Free
<1>6. /\ users' \in [Slots -> {NoUser} \cup UserRecords]
      /\ UsersStay
      /\ squeue' \in [Clients -> SUBSET DownMsgs]
  <2>1. CASE DeleteUsers(users, {u}, {})
    <3>1. {} \subseteq {u}
      OBVIOUS
    <3> QED
      BY <1>5, <2>1, <3>1, DeleteUsersOfTable
  <2>2. CASE DeleteUsers([users EXCEPT ![u] = Advance(u)], {u}, {u})
    <3> DEFINE table == [users EXCEPT ![u] = Advance(u)]
    <3>1. table \in [Slots -> {NoUser} \cup UserRecords]
      BY <1>1 DEF ServerSide
    <3>2. \A v \in Slots : users[v] # NoUser => /\ users[v] \in UserRecords
                                              /\ users[v].recv_next \in Nat
      BY UserTyped
    <3>3. \A v \in Slots : IF users[v] = NoUser THEN table[v] = NoUser
                          ELSE /\ table[v] \in UserRecords
                               /\ table[v].address = users[v].address
                               /\ table[v].send_next = users[v].send_next
                               /\ table[v].recv_next >= users[v].recv_next
      BY <1>1, <3>2 DEF ServerSide
    <3> HIDE DEF table
    <3> QED
      BY <1>5, <2>2, <3>1, <3>3, DeleteUsersTyped DEF table
  <2> QED
    BY <1>2, <2>1, <2>2
<1>7. {Goodbye(u)} \subseteq DownMsgs
      /\ \A x \in {Goodbye(u)} : x.cmd = "connect_ok" => x.index = 0
  BY <1>1, GoodbyeTyped
<1>8. ServerSide'
  BY <1>2, <1>4, <1>6, <1>7, AnswerTyped DEF ServerSide
<1> QED
  BY <1>3, <1>6, <1>8, StayKeepsRuns

\* ::connect: a user for an address that has none, in a session of its own.
LEMMA ServerConnectNewKeeps ==
  ASSUME IInv, NEW c \in Clients, NEW m \in up[c], ServerConnectNew(c, m)
  PROVE  ServerSide' /\ UniqueAddress' /\ Runs'
<1> USE DEF IInv
<1>1. PICK u \in Slots :
        LET ok == Msg(0, "connect_ok", u)
        IN  /\ IsAllocated(u)
            /\ users' = [users EXCEPT ![u] =
                 [NewUser(c, m.index) EXCEPT !.send_next = NextIndex(@)]]
            /\ squeue' = [squeue EXCEPT ![c] = @ \cup {ok}]
            /\ \/ Answer(c, m, {ok})
               \/ down' = [down EXCEPT ![c] = @ \cup {ok}]
  BY DEF ServerConnectNew
<1> DEFINE r == [NewUser(c, m.index) EXCEPT !.send_next = NextIndex(@)]
           ok == Msg(0, "connect_ok", u)
<1>2. /\ m.index \in Nat /\ m.index < MaxSends /\ m \in UpMsgs
      /\ ~HasFind(c) /\ opened[c] < MaxOpened
      /\ opened' = [opened EXCEPT ![c] = @ + 1]
      /\ executed' = executed
  BY DEF ServerConnectNew, ClientSide, UpMsgs, Indices
<1>3. /\ NextIndex(m.index) \in ReliableIndices
      /\ 0 \in ReliableIndices /\ 0 \in Indices
      /\ NextIndex(0) \in ReliableIndices
  BY <1>2, Bounded, NextIndexReliable, UnsafeIndexAssumption DEF ReliableIndices, Indices
<1>4. r \in UserRecords /\ r.address = c
  BY <1>3 DEF NewUser, UserRecords
<1>5. /\ ok \in DownMsgs /\ ok.index = 0
  BY <1>3, MaxUsersAssumption DEF Msg, DownMsgs, Downstream, Slots
<1> HIDE DEF r, ok
<1>6. /\ users' = [users EXCEPT ![u] = r]
      /\ squeue' = [squeue EXCEPT ![c] = @ \cup {ok}]
      /\ Answer(c, m, {ok}) \/ down' = [down EXCEPT ![c] = @ \cup {ok}]
  BY <1>1 DEF r, ok
<1>7. ServerSide'
  BY <1>2, <1>4, <1>5, <1>6, AnswerTyped DEF ServerSide
<1>8. /\ r # NoUser
      /\ \A v \in Slots \ Free : users[v].address # c
      /\ \A v \in (Slots \ Free)' : v # u => v \in Slots \ Free /\ users'[v] = users[v]
      /\ users'[u] = r
  BY <1>2, <1>4, <1>6, RecordIsUser DEF HasFind, Free, ServerSide
<1>9. UniqueAddress'
  BY <1>4, <1>8 DEF UniqueAddress
<1>10. /\ opened[c] \in Nat /\ opened'[c] = opened[c] + 1
       /\ opened' \in [Clients -> 0 .. MaxOpened]
       /\ \A d \in Clients \ {c} : opened'[d] = opened[d]
       /\ \A d \in Clients : opened[d] \in Nat
  <2>1. MaxOpened \in Nat /\ opened[c] \in 0 .. MaxOpened
    BY BoundsAssumption DEF Runs
  <2> QED
    BY <1>2, <2>1 DEF Runs
<1>11. \A d \in Clients : \A k \in 1 .. Len(executed[d]) :
         /\ executed[d][k].session <= opened[d]
         /\ executed[d][k].session \in Nat
  BY EntryTyped DEF Runs
<1>12. \A d \in Clients : \A k \in 1 .. Len(executed'[d]) :
         executed'[d][k].session <= opened'[d]
  BY <1>2, <1>10, <1>11
<1>13. ASSUME NEW v \in (Slots \ Free)'
       PROVE  /\ opened'[users'[v].address] >= 1
              /\ \A k \in 1 .. Len(executed'[users'[v].address]) :
                   executed'[users'[v].address][k].session = opened'[users'[v].address]
                     => executed'[users'[v].address][k].index < users'[v].recv_next
  <2>1. CASE v = u
    BY <1>2, <1>4, <1>8, <1>10, <1>11, <2>1
  <2>2. CASE v # u
    <3>1. /\ v \in Slots \ Free /\ users'[v] = users[v] /\ users[v].address # c
          /\ users[v].address \in Clients
      BY <1>8, <1>13, <2>2, UserTyped DEF Free
    <3> QED
      BY <1>2, <1>10, <3>1 DEF Runs
  <2> QED
    BY <2>1, <2>2
<1>14. SessionStream' /\ executed' \in [Clients -> Seq(Entries)]
  BY <1>2 DEF Runs, SessionStream
<1> QED
  BY <1>7, <1>9, <1>10, <1>12, <1>13, <1>14 DEF Runs

\* Answers that leave the table as it is, and confirmations of the client.
LEMMA ServerAnswerKeeps ==
  ASSUME IInv, NEW c \in Clients, NEW m \in up[c],
         ServerInvalid(c, m) \/ ServerConnectRefused(c, m) \/ ServerErase(c, m)
  PROVE  ServerSide' /\ UniqueAddress' /\ Runs'
<1> USE DEF IInv
<1>1. m \in UpMsgs
  BY DEF ClientSide
<1>2. UNCHANGED <<users, opened, executed>>
  BY DEF ServerInvalid, ServerConnectRefused, ServerErase, serverVars
<1>3. squeue' \in [Clients -> SUBSET DownMsgs]
  BY DEF ServerInvalid, ServerConnectRefused, ServerErase, serverVars, ServerSide
<1>4. Answer(c, m, {}) \/ down' = down
  BY DEF ServerInvalid, ServerConnectRefused, ServerErase
<1>5. ServerSide'
  BY <1>1, <1>2, <1>3, <1>4, AnswerTyped DEF ServerSide
<1>6. UniqueAddress' /\ Runs'
  BY <1>2 DEF UniqueAddress, Free, Runs, SessionStream
<1> QED
  BY <1>5, <1>6

\* Calls to users: their streams get longer, and nothing else of them changes.
LEMMA ServerCallKeeps ==
  ASSUME IInv, NEW U, ServerCall(U)
  PROVE  ServerSide' /\ UniqueAddress' /\ Runs' /\ UsersStay
         /\ \A u \in Slots : users[u] # NoUser =>
              users'[u] # NoUser /\ users'[u].recv_next = users[u].recv_next
<1> USE DEF IInv
<1> DEFINE X == {Msg(users[u].send_next, "rpc", 0) : u \in U}
           call(c) == {Msg(users[u].send_next, "rpc", 0) :
                         u \in {v \in U : users[v].address = c}}
<1>1. /\ U \subseteq Slots \ Free
      /\ squeue' = [c \in Clients |-> squeue[c] \cup call(c)]
      /\ down' = [c \in Clients |-> down[c] \cup call(c)]
      /\ users' = [u \in Slots |->
           IF u \in U THEN [users[u] EXCEPT !.send_next = NextIndex(@)]
                      ELSE users[u]]
      /\ UNCHANGED <<opened, executed>>
  BY DEF ServerCall
<1>2. \A u \in U : /\ u \in Slots /\ users[u] # NoUser /\ users[u] \in UserRecords
                   /\ users[u].send_next \in ReliableIndices
                   /\ users[u].send_next \in Indices
  BY <1>1, UserTyped, UnsafeIndexAssumption DEF Free, ReliableIndices, Indices
<1>3. /\ X \subseteq DownMsgs
      /\ \A x \in X : x.cmd = "connect_ok" => x.index = 0
  BY <1>2, MaxUsersAssumption DEF Msg, DownMsgs, Downstream
<1>4. \A c \in Clients : call(c) \subseteq X
  OBVIOUS
<1> HIDE DEF X, call
<1>5. /\ down' \in [Clients -> SUBSET DownMsgs]
      /\ \A d \in Clients : \A x \in down'[d] : x.cmd = "connect_ok" => x.index = 0
  <2>1. /\ DOMAIN down' = Clients /\ down' = [c \in Clients |-> down'[c]]
        /\ \A c \in Clients : down'[c] \subseteq down[c] \cup X
    BY <1>1, <1>4
  <2> QED
    BY <1>3, <2>1, SentTyped
<1>6. squeue' \in [Clients -> SUBSET DownMsgs]
  BY <1>1, <1>3, <1>4 DEF ServerSide
<1>7. ASSUME NEW u \in Slots
      PROVE  /\ users'[u] \in {NoUser} \cup UserRecords
             /\ users'[u] # NoUser =>
                  /\ users[u] # NoUser
                  /\ users'[u].address = users[u].address
                  /\ users'[u].recv_next >= users[u].recv_next
             /\ users[u] # NoUser =>
                  users'[u] # NoUser /\ users'[u].recv_next = users[u].recv_next
  <2>1. users[u] # NoUser => /\ users[u] \in UserRecords
                             /\ users[u].recv_next \in Nat
    BY UserTyped
  <2>2. CASE u \in U
    <3> DEFINE r == [users[u] EXCEPT !.send_next = NextIndex(@)]
    <3>1. /\ r \in UserRecords /\ r.address = users[u].address
          /\ r.recv_next = users[u].recv_next
      BY <1>2, <2>2, NextIndexReliable DEF UserRecords
    <3>2. users'[u] = r
      BY <1>1, <2>2
    <3>3. users[u] # NoUser
      BY <1>2, <2>2
    <3> HIDE DEF r
    <3> QED
      BY <2>1, <3>1, <3>2, <3>3, RecordIsUser
  <2>3. CASE u \notin U
    BY <1>1, <2>1, <2>3 DEF ServerSide
  <2> QED
    BY <2>2, <2>3
<1>8. users' \in [Slots -> {NoUser} \cup UserRecords] /\ UsersStay
  BY <1>1, <1>7 DEF UsersStay
<1>9. ServerSide'
  BY <1>5, <1>6, <1>8 DEF ServerSide
<1> QED
  BY <1>1, <1>7, <1>8, <1>9, StayKeepsRuns

\* The alive check: any users go.
LEMMA CheckUserAliveKeeps ==
  ASSUME IInv, NEW D, CheckUserAlive(D)
  PROVE  ServerSide' /\ UniqueAddress' /\ Runs'
<1> USE DEF IInv
<1>1. /\ D \subseteq Slots \ Free
      /\ down' = [c \in Clients |-> down[c] \cup GoodbyesTo(c, D)]
      /\ UNCHANGED <<opened, executed>>
  BY DEF CheckUserAlive
<1>2. PICK T : T \subseteq D /\ DeleteUsers(users, D, T)
  <2>1. CASE DeleteUsers(users, D, {})
    BY <2>1
  <2>2. CASE \E last \in D : DeleteUsers(users, D, {last})
    <3>1. PICK last \in D : DeleteUsers(users, D, {last})
      BY <2>2
    <3>2. {last} \subseteq D
      OBVIOUS
    <3> QED
      BY <3>1, <3>2
  <2> QED
    BY <2>1, <2>2 DEF CheckUserAlive
<1>4. /\ users' \in [Slots -> {NoUser} \cup UserRecords]
      /\ UsersStay
      /\ squeue' \in [Clients -> SUBSET DownMsgs]
  BY <1>1, <1>2, DeleteUsersOfTable
<1>5. /\ down' \in [Clients -> SUBSET DownMsgs]
      /\ \A d \in Clients : \A x \in down'[d] : x.cmd = "connect_ok" => x.index = 0
  <2> DEFINE X == {Goodbye(u) : u \in D}
  <2>1. X \subseteq DownMsgs /\ \A x \in X : x.cmd = "connect_ok" => x.index = 0
    BY <1>1, GoodbyeTyped DEF Free
  <2>2. \A c \in Clients : GoodbyesTo(c, D) \subseteq X
    BY DEF GoodbyesTo
  <2> HIDE DEF X
  <2>3. /\ DOMAIN down' = Clients /\ down' = [c \in Clients |-> down'[c]]
        /\ \A c \in Clients : down'[c] \subseteq down[c] \cup X
    BY <1>1, <2>2
  <2> QED
    BY <2>1, <2>3, SentTyped
<1>6. ServerSide'
  BY <1>4, <1>5 DEF ServerSide
<1> QED
  BY <1>1, <1>4, <1>6, StayKeepsRuns

-----------------------------------------------------------------------------
(* The invariant and what follows from it.                                 *)

LEMMA InitIInv == Init => IInv
<1> SUFFICES ASSUME Init PROVE IInv
  OBVIOUS
<1> USE DEF Init
<1>1. ClientSide
  <2>1. NewClient \in ClientRecords
    BY MaxUsersAssumption, UnsafeIndexAssumption
       DEF NewClient, ClientRecords, ReliableIndices, Points
  <2> QED
    BY <2>1 DEF ClientSide
<1>2. ServerSide
  BY DEF ServerSide
<1>3. UniqueAddress
  BY DEF UniqueAddress, Free
<1>4. Runs
  <2>1. 0 \in 0 .. MaxOpened
    BY BoundsAssumption
  <2>2. \A c \in Clients : executed[c] = <<>> /\ Len(executed[c]) = 0
    OBVIOUS
  <2>3. SessionStream
    BY <2>2 DEF SessionStream
  <2>4. Slots \ Free = {}
    BY DEF Free
  <2> QED
    BY <2>1, <2>2, <2>3, <2>4 DEF Runs
<1> QED
  BY <1>1, <1>2, <1>3, <1>4 DEF IInv

\* What a step may do: the client's side is kept by steps of the listener and
\* the other way round.
LEMMA NextKeepsIInv ==
  ASSUME IInv, [Next]_vars
  PROVE  /\ IInv'
         /\ \A c \in Clients : ~client[c].is_connected /\ client'[c].is_connected
              => client[c].recv_next = 0
<1> USE DEF IInv
<1>1. ASSUME NEW c \in Clients, ClientStep(c)
      PROVE  /\ IInv'
             /\ \A d \in Clients : ~client[d].is_connected /\ client'[d].is_connected
                  => client[d].recv_next = 0
  <2>1. ClientSide' /\ ConnectsFirst(c)
    BY <1>1, ProgramStepTyped, ReceiveStepTyped DEF ClientStep
  <2>2. UNCHANGED <<users, squeue, down, opened, executed>>
    BY <1>1 DEF ClientStep, Connect, Call, Disconnect, Destroy, WaitForTimeout,
                ClientErase, ClientReceive, WaitForConnectOk, serverVars
  <2>3. ServerSide' /\ UniqueAddress' /\ Runs'
    BY <2>2 DEF ServerSide, UniqueAddress, Free, Runs, SessionStream
  <2> QED
    BY <2>1, <2>3 DEF ConnectsFirst
<1>2. ASSUME UNCHANGED <<client, cqueue, up>>,
             ServerSide' /\ UniqueAddress' /\ Runs'
      PROVE  /\ IInv'
             /\ \A d \in Clients : ~client[d].is_connected /\ client'[d].is_connected
                  => client[d].recv_next = 0
  BY <1>2 DEF ClientSide
<1>3. ASSUME NEW c \in Clients, ServerReceive(c)
      PROVE  UNCHANGED <<client, cqueue, up>> /\ ServerSide' /\ UniqueAddress' /\ Runs'
  <2>1. PICK m \in up[c] :
          \/ ServerRpc(c, m) \/ ServerInvalid(c, m) \/ ServerDisconnect(c, m)
          \/ ServerConnectNew(c, m) \/ ServerConnectRefused(c, m)
          \/ ServerErase(c, m)
    BY <1>3 DEF ServerReceive
  <2>2. UNCHANGED <<client, cqueue, up>>
    BY <2>1 DEF ServerRpc, ServerInvalid, ServerDisconnect, ServerConnectNew,
                ServerConnectRefused, ServerErase, clientVars
  <2>3. ServerSide' /\ UniqueAddress' /\ Runs'
    BY <2>1, ServerRpcKeeps, ServerDisconnectKeeps, ServerConnectNewKeeps,
       ServerAnswerKeeps
  <2> QED
    BY <2>2, <2>3
<1>4. ASSUME ServerStep
      PROVE  UNCHANGED <<client, cqueue, up>> /\ ServerSide' /\ UniqueAddress' /\ Runs'
  <2>1. CASE \E U : ServerCall(U)
    BY <2>1, ServerCallKeeps DEF ServerCall, clientVars
  <2>2. CASE \E D : CheckUserAlive(D)
    BY <2>2, CheckUserAliveKeeps DEF CheckUserAlive, clientVars
  <2> QED
    BY <1>4, <2>1, <2>2 DEF ServerStep
<1>5. CASE UNCHANGED vars
  <2>1. UNCHANGED <<client, cqueue, up>> /\ UNCHANGED <<users, squeue, down, opened, executed>>
    BY <1>5 DEF vars
  <2>2. ServerSide' /\ UniqueAddress' /\ Runs'
    BY <2>1 DEF ServerSide, UniqueAddress, Free, Runs, SessionStream
  <2> QED
    BY <1>2, <2>1, <2>2
<1> QED
  BY <1>1, <1>2, <1>3, <1>4, <1>5 DEF Next

\* The invariant holds in every session.
THEOREM Invariance == Spec => []IInv
<1>1. IInv /\ [Next]_vars => IInv'
  BY NextKeepsIInv
<1> QED
  BY InitIInv, <1>1, PTL DEF Spec

\* Every variable of the clients and of the listener keeps its type, for any
\* number of clients and slots: no counter becomes unsafe_index, no user id
\* is out of the table.
THEOREM TypeCorrect == Spec => []TypeOK
<1>1. IInv => TypeOK
  BY DEF IInv, ClientSide, ServerSide, Runs, TypeOK, ClientRecords, UserRecords,
         UpMsgs, DownMsgs, Commands, Entries
<1> QED
  BY <1>1, Invariance, PTL

\* No address holds two slots of the user table.
THEOREM OneSlotPerAddress == Spec => []UniqueAddress
<1>1. IInv => UniqueAddress
  BY DEF IInv
<1> QED
  BY <1>1, Invariance, PTL

\* The listener runs in a session only the commands of the client that opened
\* it, in their order and once each.
THEOREM SessionsRunInOrder == Spec => []SessionStream
<1>1. IInv => SessionStream
  BY DEF IInv, Runs
<1> QED
  BY <1>1, Invariance, PTL

\* A client object is connected at most once in its life.
THEOREM ClientConnectsOnce == Spec => ConnectsOnce
<1>1. IInv /\ [Next]_vars =>
        [\A c \in Clients :
           ~client[c].is_connected /\ client'[c].is_connected
             => client[c].recv_next = 0]_vars
  BY NextKeepsIInv
<1> QED
  BY <1>1, Invariance, PTL DEF Spec, ConnectsOnce

-----------------------------------------------------------------------------
(* The refinement.                                                         *)

\* User u is at address c after the step.
At(c, u) == users'[u] # NoUser /\ users'[u].address = c

\* With one slot per address, the turn of an address is its user's recv_next.
LEMMA TurnIs ==
  ASSUME UniqueAddress, NEW c \in Clients, NEW u \in Slots, ValidUser(c, u)
  PROVE  Turn(c) = users[u].recv_next
<1>1. HasFind(c)
  BY DEF HasFind, ValidUser
<1>2. \A v \in Slots : ValidUser(c, v) => v = u
  BY DEF UniqueAddress, ValidUser, Free
<1>3. (CHOOSE v \in Slots : ValidUser(c, v)) = u
  BY <1>2
<1> QED
  BY <1>1, <1>3 DEF Turn

\* The same after the step.
LEMMA TurnWillBe ==
  ASSUME UniqueAddress', NEW c \in Clients, NEW u \in Slots, At(c, u)
  PROVE  Turn(c)' = users'[u].recv_next
<1>1. HasFind(c)'
  BY DEF HasFind, At
<1>2. \A v \in Slots : ValidUser(c, v)' => v = u
  BY DEF UniqueAddress, ValidUser, Free, At
<1>3. ValidUser(c, u)'
  BY DEF ValidUser, At
<1>4. (CHOOSE v \in Slots : ValidUser(c, v)') = u
  BY <1>2, <1>3
<1> QED
  BY <1>1, <1>4 DEF Turn

\* An address has no turn without a user.
LEMMA NoTurn ==
  ASSUME NEW c \in Clients
  PROVE  /\ (\A u \in Slots : ~ValidUser(c, u)) => Turn(c) = NoUser
         /\ (\A u \in Slots : ~At(c, u)) => Turn(c)' = NoUser
BY DEF Turn, HasFind, ValidUser, At

\* The turn of an address whose user is untouched does not change.
LEMMA TurnStays ==
  ASSUME UniqueAddress, UniqueAddress', NEW c \in Clients,
         \A u \in Slots : /\ At(c, u) <=> ValidUser(c, u)
                          /\ ValidUser(c, u) => users'[u].recv_next = users[u].recv_next
  PROVE  Turn(c)' = Turn(c)
<1>1. CASE \E u \in Slots : ValidUser(c, u)
  BY <1>1, TurnIs, TurnWillBe
<1>2. CASE \A u \in Slots : ~ValidUser(c, u)
  BY <1>2, NoTurn
<1> QED
  BY <1>1, <1>2

\* Where users only leave or stay as they are, sessions only end.
LEMMA StayMapsToClose ==
  ASSUME UniqueAddress, UniqueAddress', UsersStay, UNCHANGED <<opened, executed>>,
         \A u \in Slots : users'[u] # NoUser => users'[u].recv_next = users[u].recv_next
  PROVE  Service!Close
<1>1. ASSUME NEW c \in Clients
      PROVE  Turn(c)' \in {Turn(c), NoUser}
  <2>1. CASE \E u \in Slots : At(c, u)
    <3>1. PICK u \in Slots : At(c, u)
      BY <2>1
    <3>2. ValidUser(c, u) /\ users'[u].recv_next = users[u].recv_next
      BY <3>1 DEF At, UsersStay, ValidUser
    <3> QED
      BY <3>1, <3>2, TurnIs, TurnWillBe
  <2>2. CASE \A u \in Slots : ~At(c, u)
    BY <2>2, NoTurn
  <2> QED
    BY <2>1, <2>2
<1> QED
  BY <1>1 DEF Service!Close

\* The user of c takes up its next command, which is m, and no other is touched.
LEMMA AdvanceMaps ==
  ASSUME IInv, UniqueAddress', NEW c \in Clients, NEW m \in up[c], m.cmd # "confirm",
         ValidUser(c, m.user), InTurn(m.user, m),
         At(c, m.user), users'[m.user].recv_next = m.index + 1,
         \A v \in Slots \ {m.user} : users'[v] = users[v]
  PROVE  /\ Turn(c) = m.index /\ m.index # NoUser
         /\ [d \in Clients |-> Turn(d)]' =
              [[d \in Clients |-> Turn(d)] EXCEPT ![c] = NextIndex(@)]
<1> USE DEF IInv
<1>1. m.user \in Slots /\ users[m.user].address = c
  BY DEF ValidUser
<1>2. /\ m.index \in Nat /\ m.index < MaxSends
      /\ m.index \in Indices
      /\ m.index = users[m.user].recv_next
  BY DEF InTurn, ClientSide, UpMsgs, Indices
<1>3. Turn(c) = m.index /\ m.index # NoUser
  BY <1>1, <1>2, TurnIs, NoUserAssumption
<1>4. Turn(c)' = NextIndex(m.index)
  <2>1. NextIndex(m.index) = m.index + 1
    BY <1>2, Bounded
  <2> QED
    BY <1>1, <2>1, TurnWillBe
<1>5. ASSUME NEW d \in Clients \ {c}
      PROVE  Turn(d)' = Turn(d)
  <2>1. \A v \in Slots : At(d, v) <=> ValidUser(d, v)
    BY <1>1 DEF At, ValidUser
  <2>2. \A v \in Slots : ValidUser(d, v) => users'[v].recv_next = users[v].recv_next
    BY <1>1 DEF ValidUser
  <2> QED
    BY <2>1, <2>2, TurnStays
<1> QED
  BY <1>3, <1>4, <1>5

\* A command that is run is the service's Run.
LEMMA ServerRpcMaps ==
  ASSUME IInv, UniqueAddress', NEW c \in Clients, NEW m \in up[c], ServerRpc(c, m)
  PROVE  Service!Run(c)
<1> DEFINE u == m.user
<1>1. /\ u \in Slots /\ users[u] # NoUser /\ users[u].address = c
      /\ Advance(u) \in UserRecords /\ Advance(u).address = c
      /\ Advance(u).recv_next = m.index + 1
  BY AdvanceTyped DEF ServerRpc
<1>2. /\ m.cmd # "confirm" /\ ValidUser(c, u) /\ InTurn(u, m)
      /\ users' = [users EXCEPT ![u] = Advance(u)]
      /\ opened' = opened
  BY DEF ServerRpc
<1>3. executed' = [executed EXCEPT ![c] = Append(@,
                     [session |-> opened[c], from |-> c, index |-> m.index])]
  BY <1>1 DEF ServerRpc
<1>4. users'[u] = Advance(u) /\ \A v \in Slots \ {u} : users'[v] = users[v]
  BY <1>1, <1>2 DEF IInv, ServerSide
<1>5. At(c, u) /\ users'[u].recv_next = m.index + 1
  BY <1>1, <1>4, RecordIsUser DEF At
<1>6. /\ Turn(c) = m.index /\ m.index # NoUser
      /\ [d \in Clients |-> Turn(d)]' =
           [[d \in Clients |-> Turn(d)] EXCEPT ![c] = NextIndex(@)]
  BY <1>2, <1>4, <1>5, AdvanceMaps
<1> QED
  BY <1>2, <1>3, <1>6 DEF Service!Run, Service!NextIndex, NextIndex

\* ::disconnect ends the session, or is passed when the callback throws.
LEMMA ServerDisconnectMaps ==
  ASSUME IInv, UniqueAddress', NEW c \in Clients, NEW m \in up[c],
         ServerDisconnect(c, m)
  PROVE  Service!Close \/ Service!Pass(c)
<1> DEFINE u == m.user
<1>1. /\ u \in Slots /\ users[u] # NoUser /\ users[u].address = c
      /\ Advance(u) \in UserRecords /\ Advance(u).address = c
      /\ Advance(u).recv_next = m.index + 1
  BY AdvanceTyped DEF ServerDisconnect
<1>2. /\ m.cmd # "confirm" /\ ValidUser(c, u) /\ InTurn(u, m)
      /\ UNCHANGED <<opened, executed>>
  BY DEF ServerDisconnect
<1>3. \/ DeleteUsers(users, {u}, {})
      \/ DeleteUsers([users EXCEPT ![u] = Advance(u)], {u}, {u})
  BY DEF ServerDisconnect
<1>4. CASE DeleteUsers(users, {u}, {})
  <2>1. {u} \subseteq Slots \ Free /\ {} \subseteq {u}
    BY <1>1 DEF Free
  <2>2. /\ UsersStay
        /\ \A v \in Slots : users'[v] # NoUser => users'[v].recv_next = users[v].recv_next
    <3> HIDE DEF u
    <3> QED
      BY <1>4, <2>1, DeleteUsersOfTable, SMTT(20)
  <2>3. UniqueAddress /\ UNCHANGED <<opened, executed>>
    BY <1>2 DEF IInv
  <2> QED
    BY <2>2, <2>3, StayMapsToClose
<1>5. CASE DeleteUsers([users EXCEPT ![u] = Advance(u)], {u}, {u})
  <2> DEFINE r == [Advance(u) EXCEPT !.send_next = NextIndex(@)]
  <2>1. users'[u] = r /\ \A v \in Slots \ {u} : users'[v] = users[v]
    BY <1>1, <1>5 DEF DeleteUsers, IInv, ServerSide
  <2>2. r \in UserRecords /\ r.address = c /\ r.recv_next = m.index + 1
    BY <1>1, NextIndexReliable DEF UserRecords
  <2> HIDE DEF r
  <2>3. At(c, u) /\ users'[u].recv_next = m.index + 1
    BY <2>1, <2>2, RecordIsUser DEF At
  <2>4. /\ Turn(c) # NoUser
        /\ [d \in Clients |-> Turn(d)]' =
             [[d \in Clients |-> Turn(d)] EXCEPT ![c] = NextIndex(@)]
    BY <1>2, <2>1, <2>3, AdvanceMaps
  <2>5. UNCHANGED <<opened, executed>>
    BY <1>2
  <2>6. Service!Pass(c)
    BY <2>4, <2>5 DEF Service!Pass, Service!NextIndex, NextIndex
  <2> QED
    BY <2>6
<1> QED
  BY <1>3, <1>4, <1>5

\* A user for an address that has none is the service's Open.
LEMMA ServerConnectNewMaps ==
  ASSUME IInv, UniqueAddress', NEW c \in Clients, NEW m \in up[c],
         ServerConnectNew(c, m)
  PROVE  \E i \in Indices : Service!Open(c, i)
<1> USE DEF IInv
<1>1. PICK u \in Slots :
        users[u] = NoUser /\ users' = [users EXCEPT ![u] =
          [NewUser(c, m.index) EXCEPT !.send_next = NextIndex(@)]]
  BY DEF ServerConnectNew, IsAllocated, Free
<1> DEFINE r == [NewUser(c, m.index) EXCEPT !.send_next = NextIndex(@)]
<1>2. /\ m.index \in Nat /\ m.index \in Indices /\ m.index < MaxSends
      /\ ~HasFind(c)
      /\ opened' = [opened EXCEPT ![c] = @ + 1]
      /\ executed' = executed
  BY DEF ServerConnectNew, ClientSide, UpMsgs, Indices
<1>3. /\ NextIndex(m.index) \in ReliableIndices
      /\ NextIndex(0) \in ReliableIndices
  BY <1>2, Bounded, NextIndexReliable, UnsafeIndexAssumption DEF ReliableIndices
<1>4. r \in UserRecords /\ r.address = c /\ r.recv_next = NextIndex(m.index)
  BY <1>3 DEF NewUser, UserRecords
<1>5. users'[u] = r /\ \A v \in Slots \ {u} : users'[v] = users[v]
  BY <1>1 DEF ServerSide
<1> HIDE DEF r
<1>6. At(c, u) /\ Turn(c) = NoUser /\ Turn(c)' = NextIndex(m.index)
  BY <1>2, <1>4, <1>5, RecordIsUser, TurnWillBe DEF At, Turn
<1>7. ASSUME NEW d \in Clients \ {c}
      PROVE  Turn(d)' = Turn(d)
  <2>1. \A v \in Slots : /\ At(d, v) <=> ValidUser(d, v)
                         /\ ValidUser(d, v) => users'[v].recv_next = users[v].recv_next
    BY <1>1, <1>4, <1>5 DEF At, ValidUser
  <2> QED
    BY <2>1, TurnStays
<1>8. Service!Open(c, m.index)
  BY <1>2, <1>6, <1>7 DEF Service!Open, Service!NextIndex, NextIndex
<1> QED
  BY <1>2, <1>8

\* Every step of the listener and its clients is a step of the service, or none.
LEMMA NextMaps ==
  ASSUME IInv, IInv', [Next]_vars
  PROVE  [Service!Next]_(Service!serviceVars)
<1>0. UniqueAddress /\ UniqueAddress'
  BY DEF IInv
<1>1. ASSUME UNCHANGED <<users, opened, executed>>
      PROVE  UNCHANGED Service!serviceVars
  BY <1>1 DEF Service!serviceVars, Turn, HasFind, ValidUser
<1>2. ASSUME NEW c \in Clients, ClientStep(c)
      PROVE  UNCHANGED <<users, opened, executed>>
  BY <1>2 DEF ClientStep, Connect, Call, Disconnect, Destroy, WaitForTimeout,
              ClientErase, ClientReceive, WaitForConnectOk, serverVars
<1>3. ASSUME NEW c \in Clients, ServerReceive(c)
      PROVE  Service!Next \/ UNCHANGED <<users, opened, executed>>
  <2>1. PICK m \in up[c] :
          \/ ServerRpc(c, m) \/ ServerInvalid(c, m) \/ ServerDisconnect(c, m)
          \/ ServerConnectNew(c, m) \/ ServerConnectRefused(c, m)
          \/ ServerErase(c, m)
    BY <1>3 DEF ServerReceive
  <2>2. CASE ServerRpc(c, m) \/ ServerDisconnect(c, m) \/ ServerConnectNew(c, m)
    BY <1>0, <2>2, ServerRpcMaps, ServerDisconnectMaps, ServerConnectNewMaps
       DEF Service!Next, Service!Indices, Indices
  <2>3. CASE ServerInvalid(c, m) \/ ServerConnectRefused(c, m) \/ ServerErase(c, m)
    BY <2>3 DEF ServerInvalid, ServerConnectRefused, ServerErase, serverVars
  <2> QED
    BY <2>1, <2>2, <2>3
<1>4. ASSUME NEW U, ServerCall(U)
      PROVE  Service!Close
  <2>1. UNCHANGED <<opened, executed>>
    BY <1>4 DEF ServerCall
  <2> QED
    BY <1>0, <1>4, <2>1, ServerCallKeeps, StayMapsToClose DEF UsersStay
<1>5. ASSUME NEW D, CheckUserAlive(D)
      PROVE  Service!Close
  <2>1. UNCHANGED <<opened, executed>> /\ D \subseteq Slots \ Free
    BY <1>5 DEF CheckUserAlive
  <2>2. PICK T : T \subseteq D /\ DeleteUsers(users, D, T)
    <3>1. CASE DeleteUsers(users, D, {})
      BY <3>1
    <3>2. CASE \E last \in D : DeleteUsers(users, D, {last})
      <4>1. PICK last \in D : DeleteUsers(users, D, {last})
        BY <3>2
      <4>2. {last} \subseteq D
        OBVIOUS
      <4> QED
        BY <4>1, <4>2
    <3> QED
      BY <1>5, <3>1, <3>2 DEF CheckUserAlive
  <2> QED
    BY <1>0, <2>1, <2>2, DeleteUsersOfTable, StayMapsToClose
<1>6. CASE UNCHANGED vars
  BY <1>1, <1>6 DEF vars
<1>7. CASE Next
  BY <1>1, <1>2, <1>3, <1>4, <1>5, <1>7 DEF Next, ServerStep, Service!Next
<1> QED
  BY <1>6, <1>7

\* The listener implements SessionService.
THEOREM ListenerImplementsService == Spec => ImplementsService
<1>1. Init => Service!Init
  <2> SUFFICES ASSUME Init PROVE Service!Init
    OBVIOUS
  <2>1. \A c \in Clients : Turn(c) = NoUser
    BY DEF Init, Turn, HasFind
  <2> QED
    BY <2>1 DEF Init, Service!Init
<1>2. IInv /\ IInv' /\ [Next]_vars => [Service!Next]_(Service!serviceVars)
  BY NextMaps
<1> QED
  BY <1>1, <1>2, Invariance, PTL DEF Spec, ImplementsService, Service!Spec

-----------------------------------------------------------------------------
(* What the two sides of a session know of each other: ViewsAgree,         *)
(* DownstreamKept, UpstreamKept and GoodbyeKept, on top of the invariant   *)
(* above.  Everything here is about one address c at a time: what has been *)
(* sent between it and the listener before its first session, during it,   *)
(* and after.                                                              *)

\* In any session: the numbers of what is under way are numbers given already,
\* and a client confirms only what it has processed.
Numbered(c) ==
  /\ client[c].recv_next <= MaxServerSends + 1
  /\ \A m \in up[c] :
       /\ m.cmd = "confirm" => m.index < client[c].recv_next
       /\ m.cmd # "confirm" => m.index < client[c].send_next
       /\ m.cmd = "connect" => m.user = 0
  /\ \A m \in down[c] : m.cmd # "confirm" => m.index <= MaxServerSends
  /\ \A u \in Slots : ValidUser(c, u) =>
       /\ users[u].send_next \in 1 .. MaxServerSends
       /\ users[u].recv_next <= client[c].send_next

\* Command i of the client is queued, or was a ::connect.
Held(c, i) == \/ \E q \in cqueue[c] : q.msg.index = i
              \/ Msg(i, "connect", 0) \in up[c]

\* Before the first session the listener has sent nothing but confirmations
\* of refused ::connects.
Before(c) ==
  /\ client[c].recv_next = 0 /\ client[c].user_id = 0
  /\ \A m \in up[c] : m.user = 0
  /\ \A m \in down[c] : m.cmd = "confirm" /\ Msg(m.index, "connect", 0) \in up[c]
  /\ client[c].pc # "gone" => \A i \in 0 .. client[c].send_next - 1 : Held(c, i)

\* During it, with slot u.
During(c, u) ==
  /\ client[c].recv_next <= users[u].send_next
  /\ client[c].user_id = IF client[c].recv_next = 0 THEN 0 ELSE u
  /\ \A m \in up[c] : m.user \in {0, u}
  /\ \A m \in down[c] :
       /\ m.cmd = "confirm" => \/ m.index < users[u].recv_next
                               \/ Msg(m.index, "connect", 0) \in up[c]
       /\ m.cmd # "confirm" => m.index < users[u].send_next
       /\ m.cmd # "confirm" /\ m.index = 0 => m.cmd = "connect_ok" /\ m.user = u
  /\ \A i \in client[c].recv_next .. users[u].send_next - 1 :
       \E m \in squeue[c] : m.index = i
  /\ client[c].pc # "gone" =>
       \A i \in users[u].recv_next .. client[c].send_next - 1 : Held(c, i)

\* After it: command g was the ::disconnect_ok.
EndedBy(c, g) ==
  /\ \A m \in down[c] : m.index = g /\ m.cmd # "confirm" => m.cmd = "disconnect_ok"
  /\ client[c].recv_next <= g => Msg(g, "disconnect_ok", 0) \in squeue[c]
  /\ client[c].recv_next > g => ~client[c].is_connected

Ended(c) == \E g \in 1 .. MaxServerSends : EndedBy(c, g)

View(c) ==
  /\ Numbered(c)
  /\ opened[c] = 0 => Before(c)
  /\ \A u \in Slots : OnlySession(c, u) => During(c, u)
  /\ opened[c] = 1 /\ ~HasFind(c) => Ended(c)

Views == \A c \in Clients : View(c)

-----------------------------------------------------------------------------
(* Types.                                                                  *)

\* What IInv says of the state of one address.
LEMMA AddressTyped ==
  ASSUME IInv, NEW c \in Clients
  PROVE  /\ client[c] \in ClientRecords
         /\ client[c].recv_next \in Nat /\ client[c].send_next \in Nat
         /\ \A m \in up[c] : m \in UpMsgs /\ m.index \in Nat /\ m.index \in Indices
         /\ \A m \in down[c] : m \in DownMsgs /\ m.index \in Nat /\ m.index \in Indices
         /\ opened[c] \in Nat
         /\ \A u \in Slots : ValidUser(c, u) =>
              /\ users[u].send_next \in Nat /\ users[u].recv_next \in Nat
              /\ opened[c] >= 1
         /\ MaxServerSends \in Nat /\ MaxServerSends >= 1
<1> USE DEF IInv
<1>1. client[c] \in ClientRecords
  BY DEF ClientSide
<1>2. client[c].recv_next \in Nat /\ client[c].send_next \in Nat
  BY <1>1 DEF ClientRecords, ReliableIndices
<1>3. \A m \in up[c] : m \in UpMsgs /\ m.index \in Nat /\ m.index \in Indices
  BY DEF ClientSide, UpMsgs, Indices
<1>4. \A m \in down[c] : m \in DownMsgs /\ m.index \in Nat /\ m.index \in Indices
  BY DEF ServerSide, DownMsgs, Indices
<1>5. opened[c] \in Nat
  BY DEF Runs
<1>6. \A u \in Slots : ValidUser(c, u) =>
        /\ users[u].send_next \in Nat /\ users[u].recv_next \in Nat
        /\ opened[c] >= 1
  BY UserTyped DEF ValidUser, Runs, Free
<1> QED
  BY <1>1, <1>2, <1>3, <1>4, <1>5, <1>6, BoundsAssumption

\* What is numbered in a session at the listener is far from the wrap.
LEMMA ServerBounded ==
  ASSUME NEW i \in Nat, i <= MaxServerSends
  PROVE  NextIndex(i) = i + 1
<1>1. i + 1 < UnsafeIndex
  BY BoundsAssumption, NoWrapAssumption, UnsafeIndexAssumption
<1> QED
  BY <1>1, NextIndexAdds

-----------------------------------------------------------------------------
(* Steps that leave an address alone.                                      *)

\* A step that changes nothing of an address.
LEMMA UntouchedKeeps ==
  ASSUME NEW c \in Clients, View(c),
         client'[c] = client[c], cqueue'[c] = cqueue[c], up'[c] = up[c],
         down'[c] = down[c], squeue'[c] = squeue[c], opened'[c] = opened[c],
         \A u \in Slots : /\ At(c, u) <=> ValidUser(c, u)
                          /\ ValidUser(c, u) => users'[u] = users[u]
  PROVE  View(c)'
<1>1. \A u \in Slots : ValidUser(c, u)' <=> At(c, u)
  BY DEF ValidUser, At
<1>2. HasFind(c)' <=> HasFind(c)
  BY DEF HasFind, At, ValidUser
<1>3. Numbered(c)'
  BY <1>1 DEF View, Numbered
<1>4. opened'[c] = 0 => Before(c)'
  BY DEF View, Before, Held
<1>5. ASSUME NEW u \in Slots, OnlySession(c, u)' PROVE During(c, u)'
  <2>1. OnlySession(c, u) /\ users'[u] = users[u]
    BY <1>1, <1>5 DEF OnlySession
  <2>2. During(c, u)
    BY <2>1 DEF View
  <2> QED
    BY <2>1, <2>2 DEF During, Held
<1>6. opened'[c] = 1 /\ ~HasFind(c)' => Ended(c)'
  BY <1>2 DEF View, Ended, EndedBy
<1> QED
  BY <1>3, <1>4, <1>5, <1>6 DEF View

\* Where the table is unchanged, so is who has a session.
LEMMA SameTable ==
  ASSUME NEW c \in Clients, users' = users
  PROVE  /\ \A u \in Slots : ValidUser(c, u)' <=> ValidUser(c, u)
         /\ HasFind(c)' <=> HasFind(c)
         /\ opened'[c] = opened[c] =>
              \A u \in Slots : OnlySession(c, u)' <=> OnlySession(c, u)
BY DEF ValidUser, HasFind, OnlySession

-----------------------------------------------------------------------------
(* Steps of the client.                                                    *)

\* The client numbers a command (n = 1) or none (n = 0), and is not connected
\* by it; m is the command.
LEMMA IssueKeeps ==
  ASSUME IInv, NEW c \in Clients, View(c),
         NEW m, m.cmd # "confirm", m.index = client[c].send_next,
         m.user \in {0, client[c].user_id}, m.cmd = "connect" => m.user = 0,
         NEW n \in {0, 1},
         client'[c].send_next = client[c].send_next + n,
         client'[c].recv_next = client[c].recv_next,
         client'[c].user_id = client[c].user_id,
         client'[c].is_connected => client[c].is_connected,
         up[c] \subseteq up'[c], up'[c] \subseteq up[c] \cup {m},
         n = 0 => up'[c] = up[c],
         client'[c].pc # "gone" =>
           /\ client[c].pc # "gone"
           /\ cqueue[c] \subseteq cqueue'[c]
           /\ n = 1 => \E q \in cqueue'[c] : q.msg.index = m.index,
         UNCHANGED <<users, down, squeue, opened>>
  PROVE  View(c)'
<1>1. /\ client[c].send_next \in Nat /\ client'[c].send_next \in Nat
      /\ client[c].send_next <= client'[c].send_next
      /\ m.index \in Nat
      /\ \A x \in up[c] : x.index \in Nat
      /\ \A u \in Slots : ValidUser(c, u) => users[u].recv_next \in Nat
      /\ n = 1 => client'[c].send_next = m.index + 1
  BY AddressTyped
<1>2. Numbered(c)'
  <2>1. \A x \in up'[c] :
          /\ x.cmd = "confirm" => x.index < client'[c].recv_next
          /\ x.cmd # "confirm" => x.index < client'[c].send_next
          /\ x.cmd = "connect" => x.user = 0
    BY <1>1 DEF View, Numbered
  <2>2. \A u \in Slots : ValidUser(c, u) =>
          users[u].recv_next <= client'[c].send_next
    BY <1>1 DEF View, Numbered
  <2> QED
    BY <2>1, <2>2, SameTable DEF View, Numbered
<1>3. ASSUME NEW lo \in Nat,
             client[c].pc # "gone" =>
               \A i \in lo .. client[c].send_next - 1 : Held(c, i)
      PROVE  client'[c].pc # "gone" =>
               \A i \in lo .. client'[c].send_next - 1 : Held(c, i)'
  <2>1. ASSUME client'[c].pc # "gone", NEW i \in lo .. client'[c].send_next - 1
        PROVE  Held(c, i)'
    <3>1. i \in lo .. client[c].send_next - 1 \/ (n = 1 /\ i = m.index)
      BY <1>1
    <3> QED
      BY <1>3, <2>1, <3>1 DEF Held
  <2> QED
    BY <2>1
<1>4. opened'[c] = 0 => Before(c)'
  <2> SUFFICES ASSUME opened[c] = 0 PROVE Before(c)'
    OBVIOUS
  <2>1. Before(c)
    BY DEF View
  <2>2. client'[c].pc # "gone" => \A i \in 0 .. client'[c].send_next - 1 : Held(c, i)'
    BY <1>3, <2>1 DEF Before
  <2> QED
    BY <2>1, <2>2 DEF Before
<1>5. ASSUME NEW u \in Slots, OnlySession(c, u)' PROVE During(c, u)'
  <2>1. OnlySession(c, u) /\ ValidUser(c, u)
    BY <1>5, SameTable DEF OnlySession
  <2>2. During(c, u) /\ users[u].recv_next \in Nat
    BY <1>1, <2>1 DEF View
  <2>3. client'[c].pc # "gone" =>
          \A i \in users[u].recv_next .. client'[c].send_next - 1 : Held(c, i)'
    BY <1>3, <2>2 DEF During
  <2>4. \A x \in up'[c] : x.user \in {0, u}
    BY <2>2 DEF During
  <2> QED
    BY <2>2, <2>3, <2>4 DEF During
<1>6. opened'[c] = 1 /\ ~HasFind(c)' => Ended(c)'
  BY SameTable DEF View, Ended, EndedBy
<1> QED
  BY <1>2, <1>4, <1>5, <1>6 DEF View

\* A confirmation erases only what has been processed or was a ::connect.
LEMMA ClientEraseKeeps ==
  ASSUME IInv, NEW c \in Clients, View(c), NEW m \in down[c], ClientErase(c, m)
  PROVE  View(c)'
<1>1. /\ m.cmd = "confirm" /\ m.index \in Nat
      /\ \A q \in cqueue[c] : q.msg.index # m.index => q \in cqueue'[c]
      /\ UNCHANGED <<client, up, users, down, squeue, opened>>
  BY AddressTyped DEF ClientErase, serverVars, IInv, ClientSide
<1>2. Numbered(c)'
  BY <1>1, SameTable DEF View, Numbered
<1>3. ASSUME NEW i \in Nat, Held(c, i), i # m.index \/ Msg(i, "connect", 0) \in up[c]
      PROVE  Held(c, i)'
  BY <1>1, <1>3 DEF Held
<1>4. opened'[c] = 0 => Before(c)'
  <2> SUFFICES ASSUME opened[c] = 0 PROVE Before(c)'
    BY <1>1
  <2>1. Before(c)
    BY DEF View
  <2>2. Msg(m.index, "connect", 0) \in up[c]
    BY <2>1 DEF Before
  <2>3. client[c].pc # "gone" => \A i \in 0 .. client[c].send_next - 1 : Held(c, i)'
    BY <1>3, <2>1, <2>2, AddressTyped DEF Before
  <2> QED
    BY <1>1, <2>1, <2>3 DEF Before
<1>5. ASSUME NEW u \in Slots, OnlySession(c, u)' PROVE During(c, u)'
  <2>1. OnlySession(c, u) /\ ValidUser(c, u)
    BY <1>1, <1>5, SameTable DEF OnlySession
  <2>2. During(c, u) /\ users[u].recv_next \in Nat /\ client[c].send_next \in Nat
    BY <2>1, AddressTyped DEF View
  <2>3. m.index < users[u].recv_next \/ Msg(m.index, "connect", 0) \in up[c]
    BY <1>1, <2>2 DEF During
  <2>4. ASSUME client[c].pc # "gone",
               NEW i \in users[u].recv_next .. client[c].send_next - 1
        PROVE  Held(c, i)'
    <3>1. Held(c, i) /\ i \in Nat /\ i >= users[u].recv_next
      BY <2>2, <2>4 DEF During
    <3>2. i # m.index \/ Msg(i, "connect", 0) \in up[c]
      BY <1>1, <2>2, <2>3, <3>1
    <3> QED
      BY <1>3, <3>1, <3>2
  <2> QED
    BY <1>1, <2>2, <2>4 DEF During
<1>6. opened'[c] = 1 /\ ~HasFind(c)' => Ended(c)'
  BY <1>1, SameTable DEF View, Ended, EndedBy
<1> QED
  BY <1>2, <1>4, <1>5, <1>6 DEF View

\* process() of the client takes the next command of its session.
LEMMA TakeKeeps ==
  ASSUME IInv, NEW c \in Clients, View(c), NEW m \in down[c],
         m.cmd \in {"connect_ok", "rpc", "disconnect_ok"}, Accept(c, m),
         client'[c] = [After(c, m) EXCEPT !.pc = "idle"],
         client[c].pc # "gone",
         up[c] \subseteq up'[c], up'[c] \subseteq up[c] \cup {Confirm(m.index)},
         UNCHANGED <<cqueue, users, down, squeue, opened>>
  PROVE  View(c)'
<1>1. /\ m.index = client[c].recv_next /\ m.index \in Nat
      /\ m.cmd # "confirm" /\ m.index <= MaxServerSends
      /\ client[c] \in ClientRecords
      /\ client[c].send_next \in Nat
      /\ MaxServerSends \in Nat
  BY AddressTyped DEF Accept, View, Numbered
<1>2. NextIndex(m.index) = m.index + 1
  BY <1>1, ServerBounded
<1>3. /\ client'[c].recv_next = m.index + 1
      /\ client'[c].send_next = client[c].send_next
      /\ client'[c].user_id = IF m.cmd = "connect_ok" THEN m.user ELSE client[c].user_id
      /\ client'[c].is_connected = IF m.cmd = "connect_ok" THEN TRUE
                                   ELSE IF m.cmd = "disconnect_ok" THEN FALSE
                                   ELSE client[c].is_connected
  <2> DEFINE r == [client[c] EXCEPT !.recv_next = NextIndex(@)]
  <2>1. /\ r.recv_next = m.index + 1 /\ r.send_next = client[c].send_next
        /\ r.user_id = client[c].user_id /\ r.is_connected = client[c].is_connected
        /\ r \in [is_connected : BOOLEAN, user_id : 0 .. MaxUsers,
                  send_next : ReliableIndices, recv_next : Nat,
                  server : Points, point : Points,
                  pc : {"idle", "wait_for", "failed", "gone"}]
    BY <1>1, <1>2 DEF ClientRecords
  <2>2. After(c, m) = IF m.cmd = "connect_ok"
                      THEN [r EXCEPT !.user_id = m.user, !.is_connected = TRUE,
                                     !.point = "listener"]
                      ELSE IF m.cmd = "disconnect_ok"
                      THEN [r EXCEPT !.is_connected = FALSE]
                      ELSE r
    BY DEF After
  <2> HIDE DEF r
  <2>3. CASE m.cmd = "connect_ok"
    BY <2>1, <2>2, <2>3
  <2>4. CASE m.cmd = "disconnect_ok"
    BY <2>1, <2>2, <2>4
  <2>5. CASE m.cmd = "rpc"
    BY <2>1, <2>2, <2>5
  <2> QED
    BY <2>3, <2>4, <2>5
<1>4. /\ Confirm(m.index).cmd = "confirm" /\ Confirm(m.index).index = m.index
      /\ Confirm(m.index).user = 0
  BY DEF Confirm, Msg
<1>5. Numbered(c)'
  <2>1. \A x \in up'[c] :
          /\ x.cmd = "confirm" => x.index < client'[c].recv_next
          /\ x.cmd # "confirm" => x.index < client'[c].send_next
          /\ x.cmd = "connect" => x.user = 0
    BY <1>1, <1>3, <1>4, AddressTyped DEF View, Numbered
  <2>2. client'[c].recv_next <= MaxServerSends + 1
    BY <1>1, <1>3
  <2> QED
    BY <1>3, <2>1, <2>2, SameTable DEF View, Numbered
<1>6. opened'[c] = 0 => Before(c)'
  BY <1>1 DEF View, Before
<1>7. ASSUME NEW u \in Slots, OnlySession(c, u)' PROVE During(c, u)'
  <2>1. OnlySession(c, u) /\ ValidUser(c, u)
    BY <1>7, SameTable DEF OnlySession
  <2>2. During(c, u) /\ users[u].recv_next \in Nat /\ users[u].send_next \in Nat
    BY <2>1, AddressTyped DEF View
  <2>3. m.index < users[u].send_next
    BY <1>1, <2>2 DEF During
  <2>4. client'[c].user_id = u
    <3>1. CASE m.index = 0
      BY <1>1, <1>3, <2>2, <3>1 DEF During
    <3>2. CASE m.index # 0
      <4>1. m.cmd # "connect_ok"
        BY <3>2 DEF IInv, ServerSide
      <4> QED
        BY <1>1, <1>3, <2>2, <3>2, <4>1 DEF During
    <3> QED
      BY <3>1, <3>2
  <2>5. \A i \in client'[c].recv_next .. users[u].send_next - 1 :
          \E x \in squeue[c] : x.index = i
    BY <1>1, <1>3, <2>2 DEF During
  <2>6. client'[c].pc # "gone" =>
          \A i \in users[u].recv_next .. client'[c].send_next - 1 : Held(c, i)'
    BY <1>3, <2>2 DEF During, Held
  <2>7. /\ client'[c].recv_next <= users[u].send_next
        /\ client'[c].user_id = IF client'[c].recv_next = 0 THEN 0 ELSE u
        /\ \A x \in up'[c] : x.user \in {0, u}
    BY <1>1, <1>3, <1>4, <2>2, <2>3, <2>4 DEF During
  <2>8. \A x \in down'[c] :
          x.cmd = "confirm" => \/ x.index < users'[u].recv_next
                               \/ Msg(x.index, "connect", 0) \in up'[c]
    BY <2>2 DEF During
  <2> QED
    BY <2>2, <2>5, <2>6, <2>7, <2>8 DEF During
<1>8. opened'[c] = 1 /\ ~HasFind(c)' => Ended(c)'
  <2> SUFFICES ASSUME opened[c] = 1, ~HasFind(c) PROVE Ended(c)'
    BY SameTable
  <2>1. PICK g \in 1 .. MaxServerSends : EndedBy(c, g)
    BY DEF View, Ended
  <2>2. g \in Nat /\ g >= 1
    BY <1>1
  <2>3. client'[c].recv_next <= g =>
          Msg(g, "disconnect_ok", 0) \in squeue[c]
    BY <1>1, <1>3, <2>1, <2>2 DEF EndedBy
  <2>4. client'[c].recv_next > g => ~client'[c].is_connected
    <3>1. CASE client[c].recv_next = g
      BY <1>1, <1>3, <2>1, <3>1 DEF EndedBy
    <3>2. CASE client[c].recv_next > g
      <4>1. m.cmd # "connect_ok"
        BY <1>1, <2>2, <3>2 DEF IInv, ServerSide
      <4> QED
        BY <1>3, <2>1, <3>2, <4>1 DEF EndedBy
    <3>3. CASE client[c].recv_next < g
      BY <1>1, <1>3, <2>2, <3>3
    <3> QED
      BY <1>1, <2>2, <3>1, <3>2, <3>3
  <2>5. EndedBy(c, g)'
    BY <2>1, <2>3, <2>4 DEF EndedBy
  <2> QED
    BY <2>5 DEF Ended
<1> QED
  BY <1>5, <1>6, <1>7, <1>8 DEF View

\* Calls of the program on a client.
LEMMA ProgramStepKeeps ==
  ASSUME IInv, NEW c \in Clients, View(c),
         Connect(c) \/ Call(c) \/ Disconnect(c) \/ Destroy(c) \/ WaitForTimeout(c)
  PROVE  View(c)'
<1> DEFINE i == client[c].send_next
<1>1. /\ client[c] \in ClientRecords /\ i \in Nat
      /\ UNCHANGED <<users, down, squeue, opened>>
  BY AddressTyped DEF Connect, Call, Disconnect, Destroy, WaitForTimeout, serverVars
<1>2. ASSUME NEW s \in ClientRecords, NEW cmd \in {"connect", "rpc", "disconnect"},
             NEW user \in {0, client[c].user_id}, NEW to,
             cmd = "connect" => user = 0,
             ClientCmd(c, s, cmd, user, to), client[c].pc # "gone",
             s.send_next = i, s.recv_next = client[c].recv_next,
             s.user_id = client[c].user_id,
             s.is_connected => client[c].is_connected
      PROVE  View(c)'
  <2> DEFINE m == Msg(i, cmd, user)
             t == [s EXCEPT !.send_next = NextIndex(@),
                            !.pc = IF @ = "wait_for" THEN @ ELSE "idle"]
  <2>1. NextIndex(i) = i + 1
    <3>1. i < MaxSends
      BY <1>2 DEF ClientCmd
    <3> QED
      BY <1>1, <3>1, Bounded
  <2>2. /\ t.send_next = i + 1 /\ t.recv_next = client[c].recv_next
        /\ t.user_id = client[c].user_id
        /\ t.is_connected => client[c].is_connected
    BY <1>2, <2>1 DEF ClientRecords
  <2>3. client'[c] = t
    BY <1>2 DEF ClientCmd, IInv, ClientSide
  <2>4. /\ m.cmd # "confirm" /\ m.index = i /\ m.user = user
        /\ m.cmd = "connect" => m.user = 0
    BY <1>2 DEF Msg
  <2>5. /\ cqueue' = [cqueue EXCEPT ![c] = @ \cup {[msg |-> m, to |-> to]}]
        /\ up' = [up EXCEPT ![c] = IF to = "listener" THEN @ \cup {m} ELSE @]
    BY <1>2 DEF ClientCmd
  <2>6. [msg |-> m, to |-> to].msg = m
    OBVIOUS
  <2> HIDE DEF m, t
  <2>7. /\ cqueue[c] \subseteq cqueue'[c]
        /\ \E q \in cqueue'[c] : q.msg.index = m.index
        /\ up[c] \subseteq up'[c] /\ up'[c] \subseteq up[c] \cup {m}
    BY <2>5, <2>6 DEF IInv, ClientSide
  <2>8. /\ client'[c].send_next = client[c].send_next + 1
        /\ client'[c].recv_next = client[c].recv_next
        /\ client'[c].user_id = client[c].user_id
        /\ client'[c].is_connected => client[c].is_connected
    BY <2>2, <2>3
  <2>9. m.user \in {0, client[c].user_id}
    BY <2>4
  <2> QED
    BY <1>1, <1>2, <2>4, <2>7, <2>8, <2>9, IssueKeeps
<1>3. CASE Connect(c)
  <2> DEFINE s == [client[c] EXCEPT !.server = "listener", !.pc = "wait_for"]
  <2>1. /\ s \in ClientRecords /\ s.send_next = i /\ s.recv_next = client[c].recv_next
        /\ s.user_id = client[c].user_id /\ s.is_connected = client[c].is_connected
    BY <1>1 DEF ClientRecords, Points
  <2>2. ClientCmd(c, s, "connect", 0, "listener") /\ client[c].pc # "gone"
    BY <1>3 DEF Connect, AtRest
  <2> HIDE DEF s
  <2> QED
    BY <1>2, <2>1, <2>2
<1>4. CASE Call(c)
  <2>1. /\ ClientCmd(c, client[c], "rpc", client[c].user_id, client[c].point)
        /\ client[c].pc # "gone"
    BY <1>4 DEF Call, AtRest
  <2> QED
    BY <1>1, <1>2, <2>1
<1>5. CASE Disconnect(c)
  <2> DEFINE s == [client[c] EXCEPT !.is_connected = FALSE]
  <2>1. /\ s \in ClientRecords /\ s.send_next = i /\ s.recv_next = client[c].recv_next
        /\ s.user_id = client[c].user_id /\ s.is_connected = FALSE
    BY <1>1 DEF ClientRecords
  <2>2. /\ ClientCmd(c, s, "disconnect", client[c].user_id, client[c].server)
        /\ client[c].pc # "gone"
    BY <1>5 DEF Disconnect, AtRest
  <2> HIDE DEF s
  <2> QED
    BY <1>2, <2>1, <2>2
<1>6. CASE Destroy(c)
  <2> DEFINE m == Msg(i, "disconnect", client[c].user_id)
             n == IF client[c].is_connected THEN 1 ELSE 0
             t == [client[c] EXCEPT !.pc = "gone", !.is_connected = FALSE,
                     !.send_next = IF client[c].is_connected
                                   THEN NextIndex(@) ELSE @]
  <2>1. client'[c] = t
    BY <1>1, <1>6 DEF Destroy, IInv, ClientSide
  <2>2. client[c].is_connected => NextIndex(i) = i + 1
    BY <1>1, <1>6, Bounded DEF Destroy
  <2>3. /\ t.send_next = i + n /\ t.recv_next = client[c].recv_next
        /\ t.user_id = client[c].user_id /\ t.is_connected = FALSE /\ t.pc = "gone"
    BY <1>1, <2>2 DEF ClientRecords
  <2>4. /\ m.cmd = "disconnect" /\ m.index = i /\ m.user = client[c].user_id
    BY DEF Msg
  <2>5. up' = IF client[c].is_connected THEN [up EXCEPT ![c] = @ \cup {m}] ELSE up
    BY <1>6 DEF Destroy
  <2> HIDE DEF m, t
  <2>6. /\ up[c] \subseteq up'[c] /\ up'[c] \subseteq up[c] \cup {m}
        /\ n = 0 => up'[c] = up[c]
        /\ n \in {0, 1}
    BY <2>5 DEF IInv, ClientSide
  <2>7. /\ client'[c].send_next = client[c].send_next + n
        /\ client'[c].recv_next = client[c].recv_next
        /\ client'[c].user_id = client[c].user_id
        /\ ~client'[c].is_connected /\ client'[c].pc = "gone"
    BY <2>1, <2>3
  <2> HIDE DEF n
  <2>8. m.cmd # "confirm" /\ m.cmd # "connect" /\ m.user \in {0, client[c].user_id}
    BY <2>4
  <2> QED
    BY <1>1, <2>4, <2>6, <2>7, <2>8, IssueKeeps
<1>7. CASE WaitForTimeout(c)
  <2> DEFINE t == [client[c] EXCEPT !.pc = "failed"]
             m == Msg(i, "rpc", 0)
  <2>1. client'[c] = t /\ client[c].pc # "gone" /\ cqueue' = cqueue /\ up' = up
    BY <1>7 DEF WaitForTimeout, IInv, ClientSide
  <2>2. /\ t.send_next = i + 0 /\ t.recv_next = client[c].recv_next
        /\ t.user_id = client[c].user_id /\ t.is_connected = client[c].is_connected
    BY <1>1 DEF ClientRecords
  <2>3. /\ m.cmd = "rpc" /\ m.index = i /\ m.user = 0
    BY DEF Msg
  <2> HIDE DEF t, m
  <2>4. /\ client'[c].send_next = client[c].send_next + 0
        /\ client'[c].recv_next = client[c].recv_next
        /\ client'[c].user_id = client[c].user_id
        /\ client'[c].is_connected => client[c].is_connected
    BY <2>1, <2>2
  <2>5. m.cmd # "confirm" /\ m.cmd # "connect" /\ m.user \in {0, client[c].user_id}
    BY <2>3
  <2> QED
    BY <1>1, <2>1, <2>3, <2>4, <2>5, IssueKeeps
<1> QED
  BY <1>3, <1>4, <1>5, <1>6, <1>7

\* Datagrams the client reads.
LEMMA ReceiveStepKeeps ==
  ASSUME IInv, NEW c \in Clients, View(c), NEW m \in down[c],
         ClientErase(c, m) \/ ClientReceive(c, m) \/ WaitForConnectOk(c, m)
  PROVE  View(c)'
<1>1. CASE ClientErase(c, m)
  BY <1>1, ClientEraseKeeps
<1>2. ASSUME ClientReceive(c, m) \/ (WaitForConnectOk(c, m) /\ Accept(c, m))
      PROVE  View(c)'
  <2>1. /\ m.cmd \in {"connect_ok", "rpc", "disconnect_ok"} /\ Accept(c, m)
        /\ client[c].pc # "gone"
        /\ client' = [client EXCEPT ![c] = [After(c, m) EXCEPT !.pc = "idle"]]
        /\ up' = [up EXCEPT ![c] = @ \cup {Confirm(m.index)}] \/ up' = up
        /\ UNCHANGED <<cqueue, users, down, squeue, opened>>
    BY <1>2 DEF ClientReceive, WaitForConnectOk, AtRest, serverVars
  <2>2. /\ client'[c] = [After(c, m) EXCEPT !.pc = "idle"]
        /\ up[c] \subseteq up'[c] /\ up'[c] \subseteq up[c] \cup {Confirm(m.index)}
    BY <2>1 DEF IInv, ClientSide
  <2> QED
    BY <2>1, <2>2, TakeKeeps
<1>3. CASE WaitForConnectOk(c, m) /\ ~Accept(c, m)
  <2> DEFINE t == [client[c] EXCEPT !.pc = "idle"]
             x == Msg(client[c].send_next, "rpc", 0)
  <2>1. /\ client'[c] = t /\ client[c].pc # "gone" /\ cqueue' = cqueue /\ up' = up
        /\ UNCHANGED <<users, down, squeue, opened>>
    BY <1>3 DEF WaitForConnectOk, serverVars, IInv, ClientSide
  <2>2. client[c] \in ClientRecords /\ client[c].send_next \in Nat
    BY AddressTyped
  <2>3. /\ t.send_next = client[c].send_next + 0 /\ t.recv_next = client[c].recv_next
        /\ t.user_id = client[c].user_id /\ t.is_connected = client[c].is_connected
    BY <2>2 DEF ClientRecords
  <2>4. /\ x.cmd = "rpc" /\ x.index = client[c].send_next /\ x.user = 0
    BY DEF Msg
  <2> HIDE DEF t, x
  <2>5. /\ client'[c].send_next = client[c].send_next + 0
        /\ client'[c].recv_next = client[c].recv_next
        /\ client'[c].user_id = client[c].user_id
        /\ client'[c].is_connected => client[c].is_connected
    BY <2>1, <2>3
  <2>6. x.cmd # "confirm" /\ x.cmd # "connect" /\ x.user \in {0, client[c].user_id}
    BY <2>4
  <2> QED
    BY <2>1, <2>4, <2>5, <2>6, IssueKeeps
<1> QED
  BY <1>1, <1>2, <1>3

-----------------------------------------------------------------------------
(* Steps of the listener.                                                  *)

\* An answer that leaves the table alone: during a session, and before the
\* first, the listener so answers a ::connect only.
LEMMA AnswerKeeps ==
  ASSUME IInv, NEW c \in Clients, View(c), NEW i \in Nat,
         opened[c] = 0 \/ (\E u \in Slots : OnlySession(c, u)) =>
           Msg(i, "connect", 0) \in up[c],
         down'[c] \subseteq down[c] \cup {Confirm(i)},
         UNCHANGED <<client, cqueue, up, users, squeue, opened>>
  PROVE  View(c)'
<1>1. Confirm(i).cmd = "confirm" /\ Confirm(i).index = i
  BY DEF Confirm, Msg
<1>2. Numbered(c)'
  BY <1>1, SameTable DEF View, Numbered
<1>3. opened'[c] = 0 => Before(c)'
  BY <1>1 DEF View, Before, Held
<1>4. ASSUME NEW u \in Slots, OnlySession(c, u)' PROVE During(c, u)'
  <2>1. OnlySession(c, u)
    BY <1>4, SameTable DEF OnlySession
  <2>2. During(c, u) /\ Msg(i, "connect", 0) \in up[c]
    BY <2>1 DEF View
  <2>3. \A x \in down'[c] :
          /\ x.cmd = "confirm" => \/ x.index < users[u].recv_next
                                  \/ Msg(x.index, "connect", 0) \in up[c]
          /\ x.cmd # "confirm" => x.index < users[u].send_next
          /\ x.cmd # "confirm" /\ x.index = 0 => x.cmd = "connect_ok" /\ x.user = u
    BY <1>1, <2>2 DEF During
  <2> QED
    BY <2>2, <2>3 DEF During, Held
<1>5. opened'[c] = 1 /\ ~HasFind(c)' => Ended(c)'
  BY <1>1, SameTable DEF View, Ended, EndedBy
<1> QED
  BY <1>2, <1>3, <1>4, <1>5 DEF View

\* The session of user u goes on: d commands of it have been taken up and e
\* sent to it.
LEMMA SessionGoesOn ==
  ASSUME IInv, UniqueAddress', NEW c \in Clients, View(c),
         NEW u \in Slots, ValidUser(c, u), At(c, u),
         users'[u].recv_next \in Nat, users'[u].recv_next >= users[u].recv_next,
         users'[u].recv_next <= client[c].send_next,
         NEW e \in {0, 1}, users'[u].send_next = users[u].send_next + e,
         users'[u].send_next <= MaxServerSends,
         squeue[c] \subseteq squeue'[c],
         e = 1 => \E x \in squeue'[c] : x.index = users[u].send_next,
         \A x \in down'[c] :
           \/ x \in down[c]
           \/ x.cmd = "confirm" /\ x.index < users'[u].recv_next /\ x.index \in Nat
           \/ /\ e = 1 /\ x.cmd # "confirm" /\ x.index = users[u].send_next,
         UNCHANGED <<client, cqueue, up, opened>>
  PROVE  View(c)'
<1>1. /\ users[u].send_next \in Nat /\ users[u].recv_next \in Nat
      /\ users[u].send_next \in 1 .. MaxServerSends
      /\ MaxServerSends \in Nat
      /\ opened[c] \in Nat /\ opened[c] >= 1
      /\ \A x \in down[c] : x.index \in Nat
      /\ client[c].recv_next \in Nat /\ client[c].send_next \in Nat
  BY AddressTyped DEF View, Numbered
<1>2. \A v \in Slots : ValidUser(c, v) \/ ValidUser(c, v)' => v = u
  BY DEF ValidUser, At, UniqueAddress, Free, IInv
<1>3. Numbered(c)'
  <2>1. \A x \in down'[c] : x.cmd # "confirm" => x.index <= MaxServerSends
    BY <1>1 DEF View, Numbered
  <2>2. users'[u].send_next \in 1 .. MaxServerSends
    BY <1>1
  <2> QED
    BY <1>2, <2>1, <2>2 DEF View, Numbered
<1>4. opened'[c] # 0 /\ HasFind(c)'
  BY <1>1 DEF HasFind, At
<1>5. ASSUME NEW v \in Slots, OnlySession(c, v)' PROVE During(c, v)'
  <2>1. v = u /\ OnlySession(c, u)
    BY <1>2, <1>5 DEF OnlySession
  <2>2. During(c, u)
    BY <2>1 DEF View
  <2>3. \A x \in down'[c] :
          /\ x.cmd = "confirm" => \/ x.index < users'[u].recv_next
                                  \/ Msg(x.index, "connect", 0) \in up[c]
          /\ x.cmd # "confirm" => x.index < users'[u].send_next
          /\ x.cmd # "confirm" /\ x.index = 0 => x.cmd = "connect_ok" /\ x.user = u
    BY <1>1, <2>2 DEF During
  <2>4. \A i \in client[c].recv_next .. users'[u].send_next - 1 :
          \E x \in squeue'[c] : x.index = i
    <3>1. ASSUME NEW i \in client[c].recv_next .. users'[u].send_next - 1
          PROVE  \E x \in squeue'[c] : x.index = i
      <4>1. CASE i < users[u].send_next
        <5>1. i \in client[c].recv_next .. users[u].send_next - 1
          BY <1>1, <3>1, <4>1
        <5> QED
          BY <2>2, <5>1 DEF During
      <4>2. CASE ~(i < users[u].send_next)
        <5>1. e = 1 /\ i = users[u].send_next
          BY <1>1, <3>1, <4>2
        <5> QED
          BY <5>1
      <4> QED
        BY <4>1, <4>2
    <3> QED
      BY <3>1
  <2>5. client[c].recv_next <= users'[u].send_next
    BY <1>1, <2>2 DEF During
  <2>6. client[c].pc # "gone" =>
          \A i \in users'[u].recv_next .. client[c].send_next - 1 : Held(c, i)'
    <3>1. \A i \in users'[u].recv_next .. client[c].send_next - 1 :
            i \in users[u].recv_next .. client[c].send_next - 1
      BY <1>1
    <3> QED
      BY <2>2, <3>1 DEF During, Held
  <2> QED
    BY <2>1, <2>2, <2>3, <2>4, <2>5, <2>6 DEF During
<1> QED
  BY <1>3, <1>4, <1>5 DEF View

\* The session of user u ends with its ::disconnect_ok.
LEMMA SessionEnds ==
  ASSUME IInv, NEW c \in Clients, View(c),
         NEW u \in Slots, ValidUser(c, u),
         \A v \in Slots : ~At(c, v),
         Goodbye(u) \in squeue'[c],
         \A x \in down'[c] : x \in down[c] \/ x.cmd = "confirm" \/ x = Goodbye(u),
         UNCHANGED <<client, cqueue, up, opened>>
  PROVE  View(c)'
<1>0. PICK g \in 1 .. MaxServerSends : g = users[u].send_next
  BY DEF View, Numbered
<1>1. /\ g \in Nat
      /\ opened[c] \in Nat /\ opened[c] >= 1
      /\ \A x \in down[c] : x.index \in Nat
      /\ client[c].recv_next \in Nat
      /\ MaxServerSends \in Nat
  BY AddressTyped DEF View, Numbered
<1>2. Goodbye(u).index = g /\ Goodbye(u).cmd = "disconnect_ok"
      /\ Goodbye(u) = Msg(g, "disconnect_ok", 0)
  BY <1>0 DEF Goodbye, Msg
<1>3. \A v \in Slots : ~ValidUser(c, v)'
  BY DEF ValidUser, At
<1>4. Numbered(c)'
  BY <1>1, <1>2, <1>3 DEF View, Numbered
<1>5. ASSUME opened[c] = 1 PROVE Ended(c)'
  <2>1. During(c, u)
    BY <1>5 DEF View, OnlySession
  <2>2. /\ client[c].recv_next <= g
        /\ \A x \in down[c] : x.cmd # "confirm" => x.index < g
    BY <1>0, <2>1 DEF During
  <2>3. EndedBy(c, g)'
    BY <1>1, <1>2, <2>2 DEF EndedBy
  <2> QED
    BY <1>1, <2>3 DEF Ended
<1> QED
  BY <1>1, <1>3, <1>4, <1>5 DEF View, OnlySession

\* A confirmation erases, of the commands to c, only what c has processed.
LEMMA ServerEraseKeeps ==
  ASSUME IInv, NEW c \in Clients, View(c), NEW m \in up[c], ServerErase(c, m)
  PROVE  View(c)'
<1>1. /\ m.index < client[c].recv_next /\ m.index \in Nat
      /\ client[c].recv_next \in Nat
      /\ \A x \in squeue[c] : x.index # m.index => x \in squeue'[c]
      /\ UNCHANGED <<client, cqueue, users, up, down, opened>>
  BY AddressTyped DEF ServerErase, clientVars, View, Numbered, IInv, ServerSide
<1>2. Numbered(c)' /\ (opened'[c] = 0 => Before(c)')
  BY <1>1, SameTable DEF View, Numbered, Before, Held
<1>3. ASSUME NEW u \in Slots, OnlySession(c, u)' PROVE During(c, u)'
  <2>1. During(c, u)
    BY <1>1, <1>3, SameTable DEF OnlySession, View
  <2>2. \A i \in client[c].recv_next .. users[u].send_next - 1 :
          \E x \in squeue'[c] : x.index = i
    BY <1>1, <2>1 DEF During
  <2> QED
    BY <1>1, <2>1, <2>2 DEF During, Held
<1>4. opened'[c] = 1 /\ ~HasFind(c)' => Ended(c)'
  <2> SUFFICES ASSUME opened[c] = 1, ~HasFind(c) PROVE Ended(c)'
    BY <1>1, SameTable
  <2>1. PICK g \in 1 .. MaxServerSends : EndedBy(c, g)
    BY DEF View, Ended
  <2>2. Msg(g, "disconnect_ok", 0).index = g /\ g \in Nat
    BY AddressTyped DEF Msg
  <2>3. client[c].recv_next <= g => Msg(g, "disconnect_ok", 0) \in squeue'[c]
    BY <1>1, <2>1, <2>2 DEF EndedBy
  <2>4. EndedBy(c, g)'
    BY <1>1, <2>1, <2>3 DEF EndedBy
  <2> QED
    BY <2>4 DEF Ended
<1> QED
  BY <1>2, <1>3, <1>4 DEF View

\* ::connect: the first session begins with ::connect_ok, command 0 of the
\* listener, after the command that opened it.
LEMMA ServerConnectKeeps ==
  ASSUME IInv, IInv', NEW c \in Clients, View(c), NEW m \in up[c],
         ServerConnectNew(c, m)
  PROVE  View(c)'
<1>1. PICK u \in Slots :
        LET ok == Msg(0, "connect_ok", u)
        IN  /\ IsAllocated(u)
            /\ users' = [users EXCEPT ![u] =
                 [NewUser(c, m.index) EXCEPT !.send_next = NextIndex(@)]]
            /\ squeue' = [squeue EXCEPT ![c] = @ \cup {ok}]
            /\ \/ Answer(c, m, {ok})
               \/ down' = [down EXCEPT ![c] = @ \cup {ok}]
  BY DEF ServerConnectNew
<1> DEFINE ok == Msg(0, "connect_ok", u)
<1>2. /\ m.index \in Nat /\ m.index < client[c].send_next /\ m.cmd = "connect"
      /\ m.index < MaxSends
      /\ ~HasFind(c) /\ opened'[c] = opened[c] + 1 /\ opened[c] \in Nat
      /\ client[c].recv_next \in Nat /\ client[c].send_next \in Nat
      /\ UNCHANGED <<client, cqueue, up>>
  <2>1. /\ m.cmd = "connect" /\ ~HasFind(c)
        /\ opened' = [opened EXCEPT ![c] = @ + 1]
        /\ UNCHANGED <<client, cqueue, up>>
    BY DEF ServerConnectNew, clientVars
  <2>2. /\ m.index \in Nat /\ opened[c] \in Nat
        /\ client[c].recv_next \in Nat /\ client[c].send_next \in Nat
    BY AddressTyped
  <2>3. m.index < client[c].send_next /\ m.index < MaxSends
    BY <2>1 DEF View, Numbered, IInv, ClientSide
  <2>4. opened'[c] = opened[c] + 1
    BY <2>1 DEF IInv, Runs
  <2> QED
    BY <2>1, <2>2, <2>3, <2>4
<1>3. NextIndex(m.index) = m.index + 1 /\ NextIndex(0) = 1
  <2>1. 0 <= MaxServerSends /\ 0 \in Nat
    BY BoundsAssumption
  <2> QED
    BY <1>2, <2>1, Bounded, ServerBounded
<1>4. /\ users'[u].address = c /\ users'[u].send_next = 1
      /\ users'[u].recv_next = m.index + 1
  BY <1>1, <1>3 DEF NewUser, IInv, ServerSide
<1>5. At(c, u) /\ \A v \in Slots : ValidUser(c, v)' => v = u
  <2>1. [NewUser(c, m.index) EXCEPT !.send_next = NextIndex(@)] # NoUser
    <3>1. [NewUser(c, m.index) EXCEPT !.send_next = NextIndex(@)]
            = [address |-> c, send_next |-> 1, recv_next |-> m.index + 1]
      BY <1>3 DEF NewUser
    <3>2. 1 \in Indices /\ m.index + 1 \in Indices
      BY <1>2, Bounded, UnsafeIndexAssumption DEF Indices, ReliableIndices
    <3> QED
      BY <3>1, <3>2, NoUserAssumption
  <2>2. users'[u] # NoUser
    BY <1>1, <2>1 DEF IInv, ServerSide
  <2> QED
    BY <1>4, <2>2 DEF At, ValidUser, IInv, UniqueAddress, Free
<1>6. /\ ok.index = 0 /\ ok.cmd = "connect_ok" /\ ok.user = u
      /\ ok \in squeue'[c]
      /\ \A x \in down'[c] : x \in down[c] \/ x = ok \/ x = Confirm(m.index)
      /\ Confirm(m.index).cmd = "confirm" /\ Confirm(m.index).index = m.index
  BY <1>1 DEF Answer, IInv, ServerSide, Msg, Confirm
<1>7. Numbered(c)'
  <2>1. 1 \in 1 .. MaxServerSends /\ 0 <= MaxServerSends
    BY BoundsAssumption
  <2>2. m.index + 1 <= client[c].send_next
    BY <1>2
  <2>3. \A x \in down'[c] : x.cmd # "confirm" => x.index <= MaxServerSends
    BY <1>6, <2>1 DEF View, Numbered
  <2> QED
    BY <1>2, <1>4, <1>5, <2>1, <2>2, <2>3 DEF View, Numbered
<1>8. ASSUME NEW v \in Slots, OnlySession(c, v)' PROVE During(c, v)'
  <2>1. v = u /\ opened[c] = 0
    BY <1>2, <1>5, <1>8 DEF OnlySession
  <2>2. Before(c)
    BY <2>1 DEF View
  <2>3. \A x \in down'[c] :
          /\ x.cmd = "confirm" => \/ x.index < users'[u].recv_next
                                  \/ Msg(x.index, "connect", 0) \in up[c]
          /\ x.cmd # "confirm" => x.index < users'[u].send_next
          /\ x.cmd # "confirm" /\ x.index = 0 => x.cmd = "connect_ok" /\ x.user = u
    BY <1>2, <1>4, <1>6, <2>2 DEF Before
  <2>4. \A i \in client[c].recv_next .. users'[u].send_next - 1 :
          \E x \in squeue'[c] : x.index = i
    BY <1>4, <1>6, <2>2 DEF Before
  <2>5. client[c].pc # "gone" =>
          \A i \in users'[u].recv_next .. client[c].send_next - 1 : Held(c, i)'
    <3>1. \A i \in users'[u].recv_next .. client[c].send_next - 1 :
            i \in 0 .. client[c].send_next - 1
      BY <1>2, <1>4
    <3> QED
      BY <1>2, <2>2, <3>1 DEF Before, Held
  <2>6. /\ client[c].recv_next <= users'[u].send_next
        /\ client[c].user_id = IF client[c].recv_next = 0 THEN 0 ELSE u
        /\ \A x \in up[c] : x.user \in {0, u}
    BY <1>4, <2>2 DEF Before
  <2> QED
    BY <1>2, <2>1, <2>3, <2>4, <2>5, <2>6 DEF During
<1>9. opened'[c] # 0 /\ HasFind(c)'
  BY <1>2, <1>5 DEF HasFind, At
<1> QED
  BY <1>7, <1>8, <1>9 DEF View

\* Steps for another address.
LEMMA ElsewhereKeeps ==
  ASSUME NEW c, NEW d \in Clients, c # d, View(d),
         client'[d] = client[d], cqueue'[d] = cqueue[d], up'[d] = up[d],
         down'[d] = down[d], squeue'[d] = squeue[d], opened'[d] = opened[d],
         \A v \in Slots : users'[v] # users[v] =>
           /\ users[v] = NoUser \/ users[v].address = c
           /\ users'[v] = NoUser \/ users'[v].address = c
  PROVE  View(d)'
<1>1. \A v \in Slots : /\ At(d, v) <=> ValidUser(d, v)
                       /\ ValidUser(d, v) => users'[v] = users[v]
  BY DEF At, ValidUser
<1> QED
  BY <1>1, UntouchedKeeps

\* An rpc of a valid user in its turn, run or thrown from.
LEMMA ServerRpcView ==
  ASSUME IInv, IInv', Views, NEW c \in Clients, NEW m \in up[c], ServerRpc(c, m)
  PROVE  Views'
<1>1. /\ m.cmd = "rpc" /\ ValidUser(c, m.user) /\ InTurn(m.user, m)
      /\ users' = [users EXCEPT ![m.user] = Advance(m.user)]
      /\ Answer(c, m, {}) \/ UNCHANGED down
      /\ UNCHANGED <<client, cqueue, squeue, up, opened>>
  BY DEF ServerRpc, clientVars
<1>2. PICK u \in Slots : u = m.user
  BY <1>1 DEF ValidUser
<1>3. users' = [users EXCEPT ![u] = Advance(u)]
  BY <1>1, <1>2
<1>4. /\ m.index = users[u].recv_next /\ ValidUser(c, u) /\ users[u] # NoUser
      /\ Advance(u) \in UserRecords
      /\ Advance(u).address = c
      /\ Advance(u).send_next = users[u].send_next
      /\ Advance(u).recv_next = m.index + 1
      /\ m.index \in Nat
  BY <1>1, <1>2, AdvanceTyped DEF InTurn
<1>5. users'[u] = Advance(u) /\ Advance(u) # NoUser
  BY <1>3, <1>4, RecordIsUser DEF IInv, ServerSide
<1>6. /\ down' = [down EXCEPT ![c] = @ \cup {Confirm(m.index)}] \/ down' = down
      /\ Confirm(m.index).cmd = "confirm" /\ Confirm(m.index).index = m.index
  BY <1>1 DEF Answer, Confirm, Msg
<1>7. View(c)'
  <2>1. At(c, u)
    BY <1>4, <1>5 DEF At
  <2>2. /\ users'[u].recv_next \in Nat /\ users'[u].recv_next >= users[u].recv_next
        /\ users'[u].send_next = users[u].send_next + 0
        /\ users[u].send_next \in Nat
    BY <1>4, <1>5, AddressTyped
  <2>3. users'[u].recv_next <= client[c].send_next
    <3>1. m.index < client[c].send_next /\ client[c].send_next \in Nat
      BY <1>1, AddressTyped DEF Views, View, Numbered
    <3> QED
      BY <1>4, <1>5, <3>1
  <2>4. users'[u].send_next <= MaxServerSends
    BY <1>4, <1>5 DEF Views, View, Numbered
  <2>5. \A x \in down'[c] :
          \/ x \in down[c]
          \/ x.cmd = "confirm" /\ x.index < users'[u].recv_next /\ x.index \in Nat
    BY <1>4, <1>5, <1>6 DEF IInv, ServerSide
  <2>6. View(c) /\ squeue[c] \subseteq squeue'[c] /\ UniqueAddress'
    BY <1>1 DEF Views, IInv
  <2> QED
    BY <1>1, <1>4, <2>1, <2>2, <2>3, <2>4, <2>5, <2>6, SessionGoesOn
<1>8. ASSUME NEW d \in Clients, d # c PROVE View(d)'
  <2>1. \A v \in Slots : users'[v] # users[v] =>
           /\ users[v] = NoUser \/ users[v].address = c
           /\ users'[v] = NoUser \/ users'[v].address = c
    BY <1>3, <1>4, <1>5 DEF ValidUser, IInv, ServerSide
  <2>2. View(d) /\ down'[d] = down[d]
    BY <1>6, <1>8 DEF Views, IInv, ServerSide
  <2> QED
    BY <1>1, <1>8, <2>1, <2>2, ElsewhereKeeps
<1> QED
  BY <1>7, <1>8 DEF Views

\* The goodbyes to an address are those of its one user.
LEMMA GoodbyesOf ==
  ASSUME IInv, NEW c \in Clients, NEW D, D \subseteq Slots \ Free
  PROVE  /\ \A u \in Slots : ValidUser(c, u) =>
              GoodbyesTo(c, D) = IF u \in D THEN {Goodbye(u)} ELSE {}
         /\ (\A u \in Slots : ~ValidUser(c, u)) => GoodbyesTo(c, D) = {}
<1>1. \A v \in D : users[v].address = c <=> ValidUser(c, v)
  BY DEF ValidUser, Free
<1>2. \A u, v \in Slots : ValidUser(c, u) /\ ValidUser(c, v) => u = v
  BY DEF ValidUser, Free, IInv, UniqueAddress
<1>3. ASSUME NEW u \in Slots, ValidUser(c, u)
      PROVE  GoodbyesTo(c, D) = IF u \in D THEN {Goodbye(u)} ELSE {}
  <2>1. {v \in D : users[v].address = c} = IF u \in D THEN {u} ELSE {}
    BY <1>1, <1>2, <1>3
  <2> QED
    BY <2>1 DEF GoodbyesTo
<1>4. ASSUME \A u \in Slots : ~ValidUser(c, u)
      PROVE  GoodbyesTo(c, D) = {}
  <2>1. {v \in D : users[v].address = c} = {}
    BY <1>1, <1>4
  <2> QED
    BY <2>1 DEF GoodbyesTo
<1> QED
  BY <1>3, <1>4

\* delete_user, at any address: the session of a user that goes ends, that of
\* a user the callback threw for goes on, and another's is left alone.
LEMMA DeleteKeeps ==
  ASSUME IInv, UniqueAddress', NEW c \in Clients, View(c),
         NEW table, NEW D, D \subseteq Slots \ Free, NEW T, T \subseteq D,
         DeleteUsers(table, D, T),
         \A v \in Slots \ T : table[v] = users[v],
         \A v \in T : /\ table[v] \in UserRecords
                      /\ table[v].address = users[v].address
                      /\ table[v].send_next = users[v].send_next
                      /\ table[v].recv_next >= users[v].recv_next
                      /\ users[v].address = c =>
                           table[v].recv_next <= client[c].send_next,
         \A x \in down'[c] :
           \/ x \in down[c] \cup GoodbyesTo(c, D)
           \/ x.cmd = "confirm" /\ \E v \in D \ T : ValidUser(c, v),
         GoodbyesTo(c, D) = {} => down'[c] = down[c],
         UNCHANGED <<client, cqueue, up, opened>>
  PROVE  View(c)'
<1>1. /\ \A v \in T : users[v].send_next < MaxServerSends
      /\ users' = [v \in Slots |->
           IF v \in T THEN [table[v] EXCEPT !.send_next = NextIndex(@)]
           ELSE IF v \in D THEN NoUser ELSE table[v]]
      /\ squeue'[c] = squeue[c] \cup GoodbyesTo(c, D)
  BY DEF DeleteUsers
<1>2. ASSUME NEW v \in T
      PROVE  /\ users'[v] # NoUser /\ users'[v].address = users[v].address
             /\ users'[v].send_next = users[v].send_next + 1
             /\ users'[v].recv_next = table[v].recv_next
             /\ users'[v].recv_next \in Nat
             /\ users[v].send_next \in Nat
  <2>1. v \in Slots /\ users[v] # NoUser
    BY DEF Free
  <2>2. users[v].send_next \in Nat /\ users[v] \in UserRecords
    BY <2>1, UserTyped DEF IInv
  <2>3. NextIndex(users[v].send_next) = users[v].send_next + 1
        /\ users[v].send_next + 1 \in ReliableIndices
    BY <1>1, <2>2, Bounded
  <2>4. users'[v] = [table[v] EXCEPT !.send_next = users[v].send_next + 1]
    BY <1>1, <2>1, <2>3
  <2>5. /\ users'[v] \in UserRecords
        /\ users'[v].address = table[v].address
        /\ users'[v].send_next = users[v].send_next + 1
        /\ users'[v].recv_next = table[v].recv_next
    BY <2>3, <2>4 DEF UserRecords
  <2>6. users'[v].recv_next \in Nat
    BY <2>5 DEF UserRecords, ReliableIndices
  <2> QED
    BY <2>2, <2>5, <2>6, RecordIsUser
<1>3. \A v \in Slots \ T : users'[v] = IF v \in D THEN NoUser ELSE users[v]
  BY <1>1
<1>4. \A v \in Slots : At(c, v) <=> ValidUser(c, v) /\ v \notin D \ T
  BY <1>2, <1>3 DEF At, ValidUser, Free
<1>5. \A v, w \in Slots : ValidUser(c, v) /\ ValidUser(c, w) => v = w
  BY DEF ValidUser, Free, IInv, UniqueAddress
<1>6. ASSUME NEW u \in D \ T, ValidUser(c, u) PROVE View(c)'
  <2>1. GoodbyesTo(c, D) = {Goodbye(u)} /\ u \in Slots
    BY <1>6, GoodbyesOf
  <2>2. \A v \in Slots : ~At(c, v)
    BY <1>4, <1>5, <1>6, <2>1
  <2>3. Goodbye(u) \in squeue'[c]
    BY <1>1, <2>1
  <2>4. \A x \in down'[c] : x \in down[c] \/ x.cmd = "confirm" \/ x = Goodbye(u)
    BY <2>1
  <2> QED
    BY <1>6, <2>1, <2>2, <2>3, <2>4, SessionEnds
<1>7. ASSUME NEW u \in T, ValidUser(c, u) PROVE View(c)'
  <2>1. GoodbyesTo(c, D) = {Goodbye(u)} /\ u \in Slots /\ At(c, u)
    BY <1>4, <1>7, GoodbyesOf
  <2>2. Goodbye(u).index = users[u].send_next /\ Goodbye(u).cmd = "disconnect_ok"
    BY DEF Goodbye, Msg
  <2>3. /\ users'[u].recv_next \in Nat /\ users'[u].recv_next >= users[u].recv_next
        /\ users'[u].recv_next <= client[c].send_next
    BY <1>2, <1>7 DEF ValidUser
  <2>4. /\ users'[u].send_next = users[u].send_next + 1
        /\ users'[u].send_next <= MaxServerSends
    BY <1>1, <1>2, <1>7, BoundsAssumption, SMTT(20)
  <2>5. \A x \in down'[c] :
          x \in down[c] \/ (x.cmd # "confirm" /\ x.index = users[u].send_next)
    <3>1. \A v \in D \ T : ~ValidUser(c, v)
      BY <1>5, <1>7
    <3> QED
      BY <2>1, <2>2, <3>1
  <2>6. squeue[c] \subseteq squeue'[c] /\ \E x \in squeue'[c] : x.index = users[u].send_next
    BY <1>1, <2>1, <2>2
  <2> QED
    BY <1>7, <2>1, <2>3, <2>4, <2>5, <2>6, SessionGoesOn
<1>8. ASSUME \A v \in D : ~ValidUser(c, v) PROVE View(c)'
  <2>1. GoodbyesTo(c, D) = {}
    BY <1>8, GoodbyesOf
  <2>2. \A v \in Slots : /\ At(c, v) <=> ValidUser(c, v)
                         /\ ValidUser(c, v) => users'[v] = users[v]
    BY <1>3, <1>4, <1>8
  <2> QED
    BY <1>1, <2>1, <2>2, UntouchedKeeps
<1> QED
  BY <1>6, <1>7, <1>8

\* ::disconnect of a user, whether its slot becomes free or the callback throws.
LEMMA ServerDisconnectView ==
  ASSUME IInv, IInv', Views, NEW c \in Clients, NEW m \in up[c],
         ServerDisconnect(c, m)
  PROVE  Views'
<1>1. /\ m.cmd = "disconnect" /\ ValidUser(c, m.user) /\ InTurn(m.user, m)
      /\ UNCHANGED <<client, cqueue, up, opened>>
  BY DEF ServerDisconnect, clientVars
<1>2. PICK u \in Slots : u = m.user
  BY <1>1 DEF ValidUser
<1>3. /\ ValidUser(c, u) /\ u \in Slots \ Free
      /\ Advance(u) \in UserRecords
      /\ Advance(u).address = users[u].address /\ users[u].address = c
      /\ Advance(u).send_next = users[u].send_next
      /\ Advance(u).recv_next = m.index + 1
      /\ m.index = users[u].recv_next /\ m.index \in Nat
  BY <1>1, <1>2, AdvanceTyped DEF InTurn, Free
<1>4. /\ UniqueAddress'
      /\ {u} \subseteq Slots \ Free
      /\ Confirm(m.index).cmd = "confirm"
      /\ down \in [Clients -> SUBSET DownMsgs]
  BY <1>3 DEF IInv, ServerSide, Confirm, Msg
<1>5. /\ GoodbyesTo(c, {u}) = {Goodbye(u)}
      /\ \A d \in Clients : d # c => GoodbyesTo(d, {u}) = {}
  <2>1. GoodbyesTo(c, {u}) = {Goodbye(u)}
    BY <1>3, <1>4, GoodbyesOf
  <2>2. \A d \in Clients : d # c => GoodbyesTo(d, {u}) = {}
    BY <1>3 DEF GoodbyesTo
  <2> QED
    BY <2>1, <2>2
<1>6. ASSUME NEW d \in Clients,
             DeleteUsers(users, {u}, {}), Answer(c, m, {Goodbye(u)})
      PROVE  View(d)'
  <2>1. /\ \A x \in down'[d] :
             \/ x \in down[d] \cup GoodbyesTo(d, {u})
             \/ x.cmd = "confirm" /\ \E v \in {u} \ {} : ValidUser(d, v)
        /\ GoodbyesTo(d, {u}) = {} => down'[d] = down[d]
    BY <1>3, <1>4, <1>5, <1>6 DEF Answer
  <2> DEFINE T == {}
  <2>2. T \subseteq {u} /\ DeleteUsers(users, {u}, T)
    BY <1>6
  <2>3. /\ \A v \in Slots \ T : users[v] = users[v]
        /\ \A v \in T : FALSE
        /\ \A x \in down'[d] :
             \/ x \in down[d] \cup GoodbyesTo(d, {u})
             \/ x.cmd = "confirm" /\ \E v \in {u} \ T : ValidUser(d, v)
    BY <2>1
  <2> HIDE DEF T
  <2> QED
    BY <1>1, <1>4, <2>1, <2>2, <2>3, DeleteKeeps DEF Views
<1>7. ASSUME NEW d \in Clients,
             DeleteUsers([users EXCEPT ![u] = Advance(u)], {u}, {u}),
             down' = [down EXCEPT ![c] = @ \cup {Goodbye(u)}]
      PROVE  View(d)'
  <2>0. PICK table, T : table = [users EXCEPT ![u] = Advance(u)] /\ T = {u}
    OBVIOUS
  <2>1. /\ \A v \in Slots \ T : table[v] = users[v]
        /\ table[u] = Advance(u)
        /\ DeleteUsers(table, T, T)
        /\ T \subseteq Slots \ Free /\ T \subseteq T
    BY <1>4, <1>7, <2>0 DEF IInv, ServerSide
  <2>2. /\ \A x \in down'[d] :
             \/ x \in down[d] \cup GoodbyesTo(d, T)
             \/ x.cmd = "confirm" /\ \E v \in T \ T : ValidUser(d, v)
        /\ GoodbyesTo(d, T) = {} => down'[d] = down[d]
    BY <1>4, <1>5, <1>7, <2>0
  <2>3. users[u].address = d => table[u].recv_next <= client[d].send_next
    <3>1. m.index < client[c].send_next /\ client[c].send_next \in Nat
      BY <1>1, AddressTyped DEF Views, View, Numbered
    <3> QED
      BY <1>3, <2>1, <3>1
  <2>4. \A v \in T : /\ table[v] \in UserRecords
                     /\ table[v].address = users[v].address
                     /\ table[v].send_next = users[v].send_next
                     /\ table[v].recv_next >= users[v].recv_next
                     /\ users[v].address = d =>
                          table[v].recv_next <= client[d].send_next
    BY <1>3, <2>0, <2>1, <2>3
  <2>5. View(d) /\ UniqueAddress'
    BY <1>4 DEF Views
  <2> QED
    BY <1>1, <2>1, <2>2, <2>4, <2>5, DeleteKeeps
<1> QED
  BY <1>2, <1>6, <1>7 DEF ServerDisconnect, Views

\* The alive check.
LEMMA CheckUserAliveView ==
  ASSUME IInv, IInv', Views, NEW D, CheckUserAlive(D)
  PROVE  Views'
<1>1. /\ D \subseteq Slots \ Free
      /\ down' = [c \in Clients |-> down[c] \cup GoodbyesTo(c, D)]
      /\ UNCHANGED <<client, cqueue, up, opened>>
  BY DEF CheckUserAlive, clientVars
<1>2. PICK T : T \subseteq D /\ DeleteUsers(users, D, T)
  <2>1. CASE DeleteUsers(users, D, {})
    BY <2>1
  <2>2. CASE \E last \in D : DeleteUsers(users, D, {last})
    <3>1. PICK last \in D : DeleteUsers(users, D, {last})
      BY <2>2
    <3>2. {last} \subseteq D
      OBVIOUS
    <3> QED
      BY <3>1, <3>2
  <2> QED
    BY <2>1, <2>2 DEF CheckUserAlive
<1>3. ASSUME NEW c \in Clients PROVE View(c)'
  <2>1. \A v \in T : /\ users[v] \in UserRecords
                     /\ users[v].recv_next >= users[v].recv_next
                     /\ users[v].address = c =>
                          users[v].recv_next <= client[c].send_next
    <3>1. ASSUME NEW v \in T
          PROVE  /\ users[v] \in UserRecords /\ users[v].recv_next \in Nat
                 /\ users[v].address = c => ValidUser(c, v)
      BY <1>1, <1>2, <3>1, UserTyped DEF IInv, Free, ValidUser
    <3>2. \A v \in T : users[v].address = c => users[v].recv_next <= client[c].send_next
      BY <1>1, <1>2, <3>1 DEF Views, View, Numbered
    <3> QED
      BY <3>1, <3>2
  <2>2. \A x \in down'[c] : x \in down[c] \cup GoodbyesTo(c, D)
    BY <1>1
  <2>3. GoodbyesTo(c, D) = {} => down'[c] = down[c]
    BY <1>1
  <2>4. View(c) /\ UniqueAddress'
    BY DEF Views, IInv
  <2> QED
    BY <1>1, <1>2, <2>1, <2>2, <2>3, <2>4, DeleteKeeps
<1> QED
  BY <1>3 DEF Views

\* The listener calls the users of U.
LEMMA ServerCallView ==
  ASSUME IInv, IInv', Views, NEW U, ServerCall(U)
  PROVE  Views'
<1> SUFFICES ASSUME NEW c \in Clients PROVE View(c)'
  BY DEF Views
<1> DEFINE at == {v \in U : users[v].address = c}
           calls == {Msg(users[v].send_next, "rpc", 0) : v \in at}
<1>1. /\ U \subseteq Slots \ Free
      /\ \A v \in U : users[v].send_next < MaxServerSends
      /\ squeue'[c] = squeue[c] \cup calls
      /\ down'[c] = down[c] \cup calls
      /\ users' = [v \in Slots |->
           IF v \in U THEN [users[v] EXCEPT !.send_next = NextIndex(@)]
                      ELSE users[v]]
      /\ UNCHANGED <<client, cqueue, up, opened>>
  BY DEF ServerCall, clientVars
<1>2. ASSUME NEW v \in U
      PROVE  /\ users'[v] # NoUser /\ users'[v].address = users[v].address
             /\ users'[v].send_next = users[v].send_next + 1
             /\ users'[v].recv_next = users[v].recv_next
             /\ users[v].send_next \in Nat /\ users[v].recv_next \in Nat
  <2>1. v \in Slots /\ users[v] # NoUser
    BY <1>1 DEF Free
  <2>2. /\ users[v].send_next \in Nat /\ users[v].recv_next \in Nat
        /\ users[v] \in UserRecords
    BY <2>1, UserTyped DEF IInv
  <2>3. NextIndex(users[v].send_next) = users[v].send_next + 1
        /\ users[v].send_next + 1 \in ReliableIndices
    BY <1>1, <2>2, Bounded
  <2>4. users'[v] = [users[v] EXCEPT !.send_next = users[v].send_next + 1]
    BY <1>1, <2>1, <2>3
  <2>5. /\ users'[v] \in UserRecords
        /\ users'[v].address = users[v].address
        /\ users'[v].send_next = users[v].send_next + 1
        /\ users'[v].recv_next = users[v].recv_next
    BY <2>2, <2>3, <2>4 DEF UserRecords
  <2> QED
    BY <2>2, <2>5, RecordIsUser
<1>3. \A v \in Slots \ U : users'[v] = users[v]
  BY <1>1
<1>4. \A v \in Slots : At(c, v) <=> ValidUser(c, v)
  BY <1>1, <1>2, <1>3 DEF At, ValidUser, Free
<1>5. \A v \in U : users[v].address = c <=> ValidUser(c, v)
  BY <1>1 DEF ValidUser, Free
<1>6. ASSUME NEW u \in U, ValidUser(c, u) PROVE View(c)'
  <2>1. at = {u}
    BY <1>1, <1>5, <1>6 DEF ValidUser, Free, IInv, UniqueAddress
  <2>2. calls = {Msg(users[u].send_next, "rpc", 0)}
    BY <2>1
  <2>3. /\ Msg(users[u].send_next, "rpc", 0).index = users[u].send_next
        /\ Msg(users[u].send_next, "rpc", 0).cmd = "rpc"
    BY DEF Msg
  <2> HIDE DEF calls
  <2>4. /\ users'[u].recv_next \in Nat /\ users'[u].recv_next >= users[u].recv_next
        /\ users'[u].send_next = users[u].send_next + 1
        /\ users'[u].send_next <= MaxServerSends
    <3>1. /\ users[u].send_next < MaxServerSends
          /\ users[u].send_next \in Nat /\ users[u].recv_next \in Nat
          /\ MaxServerSends \in Nat
      BY <1>1, <1>2, <1>6, AddressTyped
    <3>2. /\ users'[u].send_next = users[u].send_next + 1
          /\ users'[u].recv_next = users[u].recv_next
      BY <1>2, <1>6
    <3> QED
      BY <3>1, <3>2
  <2>5. users'[u].recv_next <= client[c].send_next /\ View(c) /\ u \in Slots
    BY <1>1, <1>2, <1>6 DEF Views, View, Numbered
  <2>6. \A x \in down'[c] :
          x \in down[c] \/ (x.cmd # "confirm" /\ x.index = users[u].send_next)
    BY <1>1, <2>2, <2>3
  <2>7. squeue[c] \subseteq squeue'[c] /\ \E x \in squeue'[c] : x.index = users[u].send_next
    BY <1>1, <2>2, <2>3
  <2>8. At(c, u) /\ UniqueAddress'
    BY <1>4, <1>6, <2>5 DEF IInv
  <2> QED
    BY <1>1, <1>6, <2>4, <2>5, <2>6, <2>7, <2>8, SessionGoesOn
<1>7. ASSUME \A v \in U : ~ValidUser(c, v) PROVE View(c)'
  <2>1. calls = {}
    BY <1>5, <1>7
  <2>2. \A v \in Slots : ValidUser(c, v) => users'[v] = users[v]
    BY <1>3, <1>7
  <2>3. squeue'[c] = squeue[c] /\ down'[c] = down[c] /\ View(c)
    BY <1>1, <2>1 DEF Views
  <2> QED
    BY <1>1, <1>4, <2>2, <2>3, UntouchedKeeps
<1> QED
  BY <1>6, <1>7

\* Commands refused, with or without an ::error, and confirmed all the same.
LEMMA AnswerView ==
  ASSUME IInv, Views, NEW c \in Clients, NEW m \in up[c],
         ServerInvalid(c, m) \/ ServerConnectRefused(c, m)
  PROVE  Views'
<1>1. /\ Answer(c, m, {})
      /\ UNCHANGED <<client, cqueue, up, users, squeue, opened>>
  BY DEF ServerInvalid, ServerConnectRefused, clientVars, serverVars
<1>2. /\ down' = [down EXCEPT ![c] = @ \cup {Confirm(m.index)}]
      /\ down \in [Clients -> SUBSET DownMsgs]
  BY <1>1 DEF Answer, IInv, ServerSide
<1>3. m.index \in Nat /\ View(c) /\ m \in UpMsgs
  BY AddressTyped DEF Views
<1>4. ASSUME opened[c] = 0 \/ (\E u \in Slots : OnlySession(c, u))
      PROVE  Msg(m.index, "connect", 0) \in up[c]
  <2>1. CASE ServerConnectRefused(c, m)
    <3>1. m.cmd = "connect" /\ m.user = 0
      BY <1>3, <2>1 DEF ServerConnectRefused, View, Numbered
    <3>2. m = Msg(m.index, "connect", 0)
      BY <1>3, <3>1 DEF UpMsgs, Msg
    <3> QED
      BY <3>2
  <2>2. CASE ServerInvalid(c, m)
    <3>1. m.user # 0 /\ ~ValidUser(c, m.user)
      BY <2>2 DEF ServerInvalid
    <3>2. opened[c] # 0
      BY <1>3, <3>1 DEF View, Before
    <3>3. \A u \in Slots : ~OnlySession(c, u)
      BY <1>3, <3>1 DEF View, During, OnlySession
    <3> QED
      BY <1>4, <3>2, <3>3
  <2> QED
    BY <2>1, <2>2
<1>5. View(c)'
  <2>1. down'[c] \subseteq down[c] \cup {Confirm(m.index)}
    BY <1>2
  <2> QED
    BY <1>1, <1>3, <1>4, <2>1, AnswerKeeps
<1>6. ASSUME NEW d \in Clients, d # c PROVE View(d)'
  <2>1. down'[d] = down[d] /\ View(d)
    BY <1>2, <1>6 DEF Views
  <2> QED
    BY <1>1, <1>6, <2>1, ElsewhereKeeps
<1> QED
  BY <1>5, <1>6 DEF Views

\* A ::connect of an address that has no user.
LEMMA ServerConnectView ==
  ASSUME IInv, IInv', Views, NEW c \in Clients, NEW m \in up[c],
         ServerConnectNew(c, m)
  PROVE  Views'
<1>1. View(c)'
  BY ServerConnectKeeps DEF Views
<1>2. PICK u, ok :
        /\ users[u] = NoUser
        /\ users' = [users EXCEPT ![u] =
             [NewUser(c, m.index) EXCEPT !.send_next = NextIndex(@)]]
        /\ squeue' = [squeue EXCEPT ![c] = @ \cup {ok}]
        /\ \/ Answer(c, m, {ok})
           \/ down' = [down EXCEPT ![c] = @ \cup {ok}]
        /\ opened' = [opened EXCEPT ![c] = @ + 1]
        /\ UNCHANGED <<client, cqueue, up>>
  BY DEF ServerConnectNew, IsAllocated, Free, clientVars
<1>3. \A v \in Slots : users'[v] # users[v] =>
         /\ users[v] = NoUser
         /\ users'[v].address = c
  BY <1>2 DEF NewUser, IInv, ServerSide
<1>4. ASSUME NEW d \in Clients, d # c PROVE View(d)'
  <2>1. /\ down'[d] = down[d] /\ squeue'[d] = squeue[d]
        /\ opened'[d] = opened[d] /\ View(d)
    BY <1>2, <1>4 DEF Answer, IInv, ServerSide, Runs, Views
  <2> QED
    BY <1>2, <1>3, <1>4, <2>1, ElsewhereKeeps
<1> QED
  BY <1>1, <1>4 DEF Views

\* A confirmation at the listener.
LEMMA ServerEraseView ==
  ASSUME IInv, Views, NEW c \in Clients, NEW m \in up[c], ServerErase(c, m)
  PROVE  Views'
<1>1. /\ squeue' = [squeue EXCEPT ![c] = {q \in @ : q.index # m.index}]
      /\ UNCHANGED <<client, cqueue, users, up, down, opened>>
  BY DEF ServerErase, clientVars
<1>2. View(c)'
  BY ServerEraseKeeps DEF Views
<1>3. ASSUME NEW d \in Clients, d # c PROVE View(d)'
  BY <1>1, <1>3, ElsewhereKeeps DEF Views, IInv, ServerSide
<1> QED
  BY <1>2, <1>3 DEF Views

\* A step of a client.
LEMMA ClientStepView ==
  ASSUME IInv, Views, NEW c \in Clients, ClientStep(c)
  PROVE  Views'
<1>1. View(c)'
  BY ProgramStepKeeps, ReceiveStepKeeps DEF ClientStep, Views
<1>2. ASSUME NEW d \in Clients, d # c PROVE View(d)'
  <2>1. /\ client'[d] = client[d] /\ cqueue'[d] = cqueue[d] /\ up'[d] = up[d]
        /\ UNCHANGED <<down, users, squeue, opened>>
    <3>1. CASE Connect(c) \/ Call(c) \/ Disconnect(c)
      BY <1>2, <3>1 DEF Connect, Call, Disconnect, ClientCmd, serverVars, IInv, ClientSide
    <3>2. CASE Destroy(c)
      BY <1>2, <3>2 DEF Destroy, serverVars, IInv, ClientSide
    <3>3. CASE WaitForTimeout(c)
      BY <1>2, <3>3 DEF WaitForTimeout, serverVars, IInv, ClientSide
    <3>4. ASSUME NEW m \in down[c],
                 ClientErase(c, m) \/ ClientReceive(c, m) \/ WaitForConnectOk(c, m)
          PROVE  /\ client'[d] = client[d] /\ cqueue'[d] = cqueue[d] /\ up'[d] = up[d]
                 /\ UNCHANGED <<down, users, squeue, opened>>
      <4>1. CASE ClientErase(c, m)
        BY <1>2, <4>1 DEF ClientErase, serverVars, IInv, ClientSide
      <4>2. CASE ClientReceive(c, m)
        BY <1>2, <4>2 DEF ClientReceive, serverVars, IInv, ClientSide
      <4>3. CASE WaitForConnectOk(c, m)
        BY <1>2, <4>3 DEF WaitForConnectOk, serverVars, IInv, ClientSide
      <4> QED
        BY <3>4, <4>1, <4>2, <4>3
    <3> QED
      BY <3>1, <3>2, <3>3, <3>4 DEF ClientStep
  <2> QED
    BY <1>2, <2>1, ElsewhereKeeps DEF Views
<1> QED
  BY <1>1, <1>2 DEF Views

-----------------------------------------------------------------------------
(* The invariant.                                                          *)

\* Nothing has been sent yet.
LEMMA InitViews == Init => Views
<1> SUFFICES ASSUME Init, NEW c \in Clients PROVE View(c)
  BY DEF Views
<1>1. /\ client[c].recv_next = 0 /\ client[c].user_id = 0 /\ client[c].send_next = 0
      /\ up[c] = {} /\ down[c] = {} /\ opened[c] = 0
      /\ \A u \in Slots : users[u] = NoUser
  BY DEF Init, NewClient
<1>2. Numbered(c)
  BY <1>1, BoundsAssumption DEF Numbered, ValidUser
<1>3. Before(c)
  BY <1>1 DEF Before
<1> QED
  BY <1>1, <1>2, <1>3 DEF View, OnlySession

\* Every step keeps the views of every address.
LEMMA NextKeepsViews ==
  ASSUME IInv, IInv', Views, [Next]_vars
  PROVE  Views'
<1>1. CASE UNCHANGED vars
  BY <1>1 DEF vars, Views, View, Numbered, Before, During, Ended, EndedBy, Held,
              OnlySession, ValidUser, HasFind
<1>2. ASSUME NEW c \in Clients, ClientStep(c) PROVE Views'
  BY <1>2, ClientStepView
<1>3. ASSUME NEW c \in Clients, ServerReceive(c) PROVE Views'
  <2>1. PICK m \in up[c] :
          \/ ServerRpc(c, m) \/ ServerInvalid(c, m) \/ ServerDisconnect(c, m)
          \/ ServerConnectNew(c, m) \/ ServerConnectRefused(c, m)
          \/ ServerErase(c, m)
    BY <1>3 DEF ServerReceive
  <2> QED
    BY <2>1, ServerRpcView, AnswerView, ServerDisconnectView, ServerConnectView,
       ServerEraseView
<1>4. CASE ServerStep
  BY <1>4, ServerCallView, CheckUserAliveView DEF ServerStep
<1> QED
  BY <1>1, <1>2, <1>3, <1>4 DEF Next

\* What the two sides know of each other, in every reachable state.
THEOREM ViewsInvariant == Spec => []Views
<1>1. Views /\ IInv /\ IInv' /\ [Next]_vars => Views'
  BY NextKeepsViews
<1> QED
  BY <1>1, InitViews, Invariance, PTL DEF Spec

\* In the first session of a client the id it calls under is its slot, and
\* neither side expects a command the other has not numbered (the counters of
\* rpc_client and rpc_user).
THEOREM SidesAgree == Spec => []ViewsAgree
<1>1. IInv /\ Views => ViewsAgree
  <2> SUFFICES ASSUME IInv, Views, NEW c \in Clients, NEW u \in Slots, OnlySession(c, u)
               PROVE  /\ client[c].recv_next > 0 => client[c].user_id = u
                      /\ client[c].recv_next <= users[u].send_next
                      /\ users[u].recv_next <= client[c].send_next
    BY DEF ViewsAgree
  <2>1. During(c, u) /\ Numbered(c) /\ ValidUser(c, u)
    BY DEF Views, View, OnlySession
  <2>2. client[c].recv_next \in Nat
    BY AddressTyped
  <2> QED
    BY <2>1, <2>2 DEF During, Numbered
<1> QED
  BY <1>1, ViewsInvariant, Invariance, PTL

\* In the first session of a client, what it has not processed is queued by
\* the listener (the erase of the listener's process()).
THEOREM ListenerKeepsCommands == Spec => []DownstreamKept
<1>1. Views => DownstreamKept
  BY DEF Views, View, During, DownstreamKept
<1> QED
  BY <1>1, ViewsInvariant, PTL

\* In the first session of a client, what the listener has not processed is
\* queued by the client, but for a second ::connect (the erase of
\* process_commands and wait_for).
THEOREM ClientKeepsCommands == Spec => []UpstreamKept
<1>1. Views => UpstreamKept
  BY DEF Views, View, During, Held, UpstreamKept
<1> QED
  BY <1>1, ViewsInvariant, PTL

\* A client that believes in a session the listener has ended will be told
\* (delete_user queues the ::disconnect_ok before the slot is free).
THEOREM ListenerKeepsGoodbye == Spec => []GoodbyeKept
<1>1. IInv /\ Views => GoodbyeKept
  <2> SUFFICES ASSUME IInv, Views, NEW c \in Clients,
                      client[c].is_connected, opened[c] = 1, ~HasFind(c)
               PROVE  \E m \in squeue[c] : m.cmd = "disconnect_ok"
    BY DEF GoodbyeKept
  <2>1. PICK g \in 1 .. MaxServerSends : EndedBy(c, g)
    BY DEF Views, View, Ended
  <2>2. client[c].recv_next \in Nat /\ g \in Nat
    BY AddressTyped
  <2>3. Msg(g, "disconnect_ok", 0) \in squeue[c]
    BY <2>1, <2>2 DEF EndedBy
  <2>4. Msg(g, "disconnect_ok", 0).cmd = "disconnect_ok"
    BY DEF Msg
  <2> QED
    BY <2>3, <2>4
<1> QED
  BY <1>1, ViewsInvariant, Invariance, PTL
=============================================================================
