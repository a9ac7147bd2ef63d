----------------------------- MODULE RpcSession -----------------------------
(***************************************************************************)
(* Sessions between rpc_client objects and one rpc_listener                *)
(* (src/tinyrpc.cpp) over the reliable link of src/tinyfsssocket.cpp: the  *)
(* handshake, calls both ways, disconnection, the user table with its      *)
(* slots, and the drop of silent users.  Time is abstracted: a wait may    *)
(* time out, and a user may have been silent for five seconds, at any      *)
(* moment, so ::confrim_connection, which only renews last_packege, is     *)
(* not a step here.                                                        *)
(*                                                                         *)
(* `up' and `down' hold every datagram ever sent between a client and the  *)
(* listener.  Reading one leaves it there and none has to be read, which   *)
(* covers loss, reordering, duplication and every retransmission.  A       *)
(* datagram the code reads and drops without a change of state (a reliable *)
(* command out of its turn, anything but ::connect_ok and confirmations in *)
(* wait_for, ::error, which makes process_commands throw, a command of     *)
(* user 0 that is not ::connect) is then no step.                          *)
(***************************************************************************)
EXTENDS CmdIndex, Sequences, FiniteSets

CONSTANTS Clients,      \* rpc_client objects; each is also its address
          MaxUsers,     \* slots of the user table, argument of rpc_listener
          NoUser,       \* an empty slot (a null pointer in _users)
          MaxSends,     \* bound on the commands a client numbers
          MaxServerSends,  \* bound on those of one session at the listener,
                           \* its last ::disconnect_ok apart
          MaxOpened     \* bound on the sessions opened for one address

ASSUME MaxUsersAssumption == MaxUsers \in Nat /\ MaxUsers >= 1

ASSUME NoUserAssumption ==
  /\ NoUser \notin [address : Clients, send_next : Indices, recv_next : Indices]
  /\ NoUser \notin Indices

\* A session at the listener numbers its ::connect_ok at least.
ASSUME BoundsAssumption ==
  {MaxSends, MaxServerSends, MaxOpened} \subseteq Nat /\ MaxServerSends >= 1

\* The bounds keep the indices below unsafe_index (FssLink has the wrap).
ASSUME NoWrapAssumption ==
  MaxSends + 1 < UnsafeIndex /\ MaxServerSends + 1 < UnsafeIndex

VARIABLES
  client,    \* per client: the members of rpc_client, and where it is
  cqueue,    \* per client: its _sendPackeges
  users,     \* the listener's _users
  squeue,    \* per client address: the listener's _sendPackeges for it
  up, down,  \* per client: datagrams to and from the listener
  opened,    \* history, per address: sessions the listener has opened
  executed   \* history, per address: commands run in its sessions

clientVars == <<client, cqueue>>
serverVars == <<users, squeue, opened, executed>>
vars == <<client, cqueue, users, squeue, up, down, opened, executed>>

Slots == 1 .. MaxUsers
Points == {"unset", "listener"}
Upstream == {"connect", "rpc", "disconnect", "confirm"}
Downstream == {"connect_ok", "rpc", "disconnect_ok", "confirm"}

Msg(i, cmd, user) == [index |-> i, cmd |-> cmd, user |-> user]
Confirm(i) == Msg(i, "confirm", 0)

-----------------------------------------------------------------------------
\* Defect for mutation testing: _user_id is not initialised.
NewClientUninit == [is_connected |-> FALSE, user_id |-> UnsafeIndex,
                    send_next |-> 0, recv_next |-> 0,
                    server |-> "unset", point |-> "unset", pc |-> "idle"]

\* rpc_client: not connected, user id 0, both counters 0, no server address.
NewClient == [is_connected |-> FALSE, user_id |-> 0,
              send_next |-> 0, recv_next |-> 0,
              server |-> "unset",      \* _serverPoint of fss_socket_impl
              point |-> "unset",       \* _serverPoint of rpc_client_proc
              pc |-> "idle"]

\* The record of a user just connected by command i.
NewUser(c, i) == [address |-> c, send_next |-> 0, recv_next |-> NextIndex(i)]

Init == /\ client = [c \in Clients |-> NewClient]
        /\ cqueue = [c \in Clients |-> {}]
        /\ users = [u \in Slots |-> NoUser]
        /\ squeue = [c \in Clients |-> {}]
        /\ up = [c \in Clients |-> {}]
        /\ down = [c \in Clients |-> {}]
        /\ opened = [c \in Clients |-> 0]
        /\ executed = [c \in Clients |-> <<>>]

-----------------------------------------------------------------------------
(* The client: calls of the program.                                       *)

\* The program has the client; `failed' until its next step if connect() has
\* just thrown.
AtRest(c) == client[c].pc \in {"idle", "failed"}

\* cmd(iix(send_next), ...) to address `to': queued and sent; `s' is the
\* client's state otherwise.  An unset address takes the datagram nowhere.
ClientCmd(c, s, cmd, user, to) ==
  LET m == Msg(s.send_next, cmd, user)
  IN  /\ s.send_next < MaxSends
      /\ cqueue' = [cqueue EXCEPT ![c] = @ \cup {[msg |-> m, to |-> to]}]
      /\ up' = [up EXCEPT ![c] = IF to = "listener" THEN @ \cup {m} ELSE @]
      /\ client' = [client EXCEPT ![c] =
                      [s EXCEPT !.send_next = NextIndex(@),
                                !.pc = IF @ = "wait_for" THEN @ ELSE "idle"]]

\* connect() up to wait_for.  Nothing is reset, and nothing asks whether the
\* client is connected already.
Connect(c) ==
  /\ AtRest(c)
  /\ ClientCmd(c, [client[c] EXCEPT !.server = "listener", !.pc = "wait_for"],
               "connect", 0, "listener")
  /\ UNCHANGED <<down, serverVars>>

\* rpc_entity::call on a client: addressed by _serverPoint of the process,
\* which only a ::connect_ok sets.
Call(c) ==
  /\ AtRest(c)
  /\ ClientCmd(c, client[c], "rpc", client[c].user_id, client[c].point)
  /\ UNCHANGED <<down, serverVars>>

\* disconnect(): one reliable command, and the client is not connected any
\* more, whatever becomes of the command.
Disconnect(c) ==
  /\ AtRest(c)
  /\ client[c].is_connected
  /\ ClientCmd(c, [client[c] EXCEPT !.is_connected = FALSE],
               "disconnect", client[c].user_id, client[c].server)
  /\ UNCHANGED <<down, serverVars>>

\* ~rpc_client: disconnect(), then the socket and the queue are gone, so the
\* ::disconnect is never sent again.
Destroy(c) ==
  /\ AtRest(c)
  /\ client[c].is_connected => client[c].send_next < MaxSends
  /\ client' = [client EXCEPT
       ![c].pc = "gone", ![c].is_connected = FALSE,
       ![c].send_next = IF client[c].is_connected THEN NextIndex(@) ELSE @]
  /\ cqueue' = [cqueue EXCEPT ![c] = {}]
  /\ up' = IF client[c].is_connected
           THEN [up EXCEPT ![c] = @ \cup {Msg(client[c].send_next, "disconnect",
                                              client[c].user_id)}]
           ELSE up
  /\ UNCHANGED <<down, serverVars>>

-----------------------------------------------------------------------------
(* The client: datagrams.                                                  *)

\* A confirmation erases the queued command with its index that went to the
\* listener; process_commands and wait_for do the same.
ClientErase(c, m) ==
  /\ client[c].pc # "gone"
  /\ m.cmd = "confirm"
  /\ cqueue' = [cqueue EXCEPT ![c] =
       {q \in @ : ~(q.msg.index = m.index /\ q.to = "listener")}]
  /\ UNCHANGED <<client, up, down, serverVars>>

\* Defect for mutation testing: the client takes a command of any index.
AcceptAny(c, m) == m.index # UnsafeIndex

\* process() takes reliable command m: it is the next one.
Accept(c, m) ==
  /\ m.index = client[c].recv_next
  /\ m.index # UnsafeIndex

\* The state of the client after process() has taken m.
After(c, m) ==
  LET s == [client[c] EXCEPT !.recv_next = NextIndex(@)]
  IN  CASE m.cmd = "connect_ok" ->
             [s EXCEPT !.user_id = m.user, !.is_connected = TRUE,
                       !.point = "listener"]
        [] m.cmd = "disconnect_ok" -> [s EXCEPT !.is_connected = FALSE]
        [] OTHER -> s

\* process_commands with a reliable command: processed in its turn and
\* confirmed, unless an entity's rpc() threw; then the index is used up all
\* the same and no confirmation goes out.
ClientReceive(c, m) ==
  /\ AtRest(c)
  /\ m.cmd \in {"connect_ok", "rpc", "disconnect_ok"}
  /\ Accept(c, m)
  /\ client' = [client EXCEPT ![c] = [After(c, m) EXCEPT !.pc = "idle"]]
  /\ \/ up' = [up EXCEPT ![c] = @ \cup {Confirm(m.index)}]
     \/ m.cmd = "rpc" /\ UNCHANGED up
  /\ UNCHANGED <<cqueue, down, serverVars>>

\* wait_for: the first ::connect_ok to come ends it and connect() returns,
\* whether or not process() took the command.
WaitForConnectOk(c, m) ==
  /\ client[c].pc = "wait_for"
  /\ m.cmd = "connect_ok"
  /\ \/ /\ Accept(c, m)
        /\ client' = [client EXCEPT ![c] = [After(c, m) EXCEPT !.pc = "idle"]]
        /\ up' = [up EXCEPT ![c] = @ \cup {Confirm(m.index)}]
     \/ /\ ~Accept(c, m)
        /\ client' = [client EXCEPT ![c].pc = "idle"]
        /\ UNCHANGED up
  /\ UNCHANGED <<cqueue, down, serverVars>>

\* wait_for finds the socket empty after 4000 ms: connect() throws.
WaitForTimeout(c) ==
  /\ client[c].pc = "wait_for"
  /\ client' = [client EXCEPT ![c].pc = "failed"]
  /\ UNCHANGED <<cqueue, up, down, serverVars>>

-----------------------------------------------------------------------------
(* The listener: commands of user u at address c.                          *)

\* Defect for mutation testing: the address is not compared.
ValidUserAnywhere(c, u) == u \in Slots /\ users[u] # NoUser

\* check_user_id, and the address the user connected from.
ValidUser(c, u) == u \in Slots /\ users[u] # NoUser /\ users[u].address = c

\* Defect for mutation testing: any index from the next one on is in turn.
InTurnNewer(u, m) == m.index >= users[u].recv_next

\* The index test of process(), and the counter it moves.
InTurn(u, m) == m.index = users[u].recv_next

Advance(u) == [users[u] EXCEPT !.recv_next = NextIndex(@)]

\* Datagrams in ms go to c, and with them the confirmation of m.
Answer(c, m, ms) == down' = [down EXCEPT ![c] = @ \cup ms \cup {Confirm(m.index)}]

\* A reliable rpc of a valid user in its turn: run, and confirmed unless the
\* entity's rpc() threw.
ServerRpc(c, m) ==
  LET u == m.user
      owner == users[u].address
  IN  /\ m.cmd = "rpc"
      /\ ValidUser(c, u)
      /\ InTurn(u, m)
      /\ users' = [users EXCEPT ![u] = Advance(u)]
      /\ executed' = [executed EXCEPT ![owner] = Append(@,
           [session |-> opened[owner], from |-> c, index |-> m.index])]
      /\ Answer(c, m, {}) \/ UNCHANGED down
      /\ UNCHANGED <<clientVars, squeue, up, opened>>

\* A command of a user that is not in the table, or not at this address: the
\* client gets an ::error, and the command is confirmed without having been run.
ServerInvalid(c, m) ==
  /\ m.cmd \in {"rpc", "disconnect"}
  /\ m.user # 0
  /\ ~ValidUser(c, m.user)
  /\ Answer(c, m, {})
  /\ UNCHANGED <<clientVars, serverVars, up>>

\* The ::disconnect_ok of a user: reliable, and the last command of its session.
\* It stays in the listener's queue after the user is gone.
Goodbye(u) == Msg(users[u].send_next, "disconnect_ok", 0)

GoodbyesTo(c, D) == {Goodbye(u) : u \in {v \in D : users[v].address = c}}

\* Defect for mutation testing: the ::disconnect_ok is sent without queueing.
DeleteUsersUnqueued(table, D, T) ==
  /\ users' = [u \in Slots |->
       IF u \in T THEN [table[u] EXCEPT !.send_next = NextIndex(@)]
       ELSE IF u \in D THEN NoUser ELSE table[u]]
  /\ UNCHANGED squeue

\* delete_user for the slots of D: each user is told goodbye and its slot is
\* free, unless on_client_disconnected throws; those of T it throws for stay.
DeleteUsers(table, D, T) ==
  /\ \A u \in T : users[u].send_next < MaxServerSends
  /\ users' = [u \in Slots |->
       IF u \in T THEN [table[u] EXCEPT !.send_next = NextIndex(@)]
       ELSE IF u \in D THEN NoUser ELSE table[u]]
  /\ squeue' = [c \in Clients |-> squeue[c] \cup GoodbyesTo(c, D)]

\* ::disconnect of a valid user in its turn.  When the callback throws, the
\* index is used up and no confirmation goes out.
ServerDisconnect(c, m) ==
  LET u == m.user
  IN  /\ m.cmd = "disconnect"
      /\ ValidUser(c, u)
      /\ InTurn(u, m)
      /\ \/ /\ DeleteUsers(users, {u}, {})
            /\ Answer(c, m, {Goodbye(u)})
         \/ /\ DeleteUsers([users EXCEPT ![u] = Advance(u)], {u}, {u})
            /\ down' = [down EXCEPT ![c] = @ \cup {Goodbye(u)}]
      /\ UNCHANGED <<clientVars, up, opened, executed>>

-----------------------------------------------------------------------------
(* The listener: ::connect.                                                *)

\* Defect for mutation testing: the table is not searched for the address.
HasFindNever(c) == FALSE

HasFind(c) == \E u \in Slots : users[u] # NoUser /\ users[u].address = c

Free == {u \in Slots : users[u] = NoUser}

\* allocate_user_id: the lowest free slot.
IsAllocated(u) == u \in Free /\ \A v \in Free : u <= v

\* A new user: its stream starts after the index of this ::connect, and
\* ::connect_ok is the first command sent to it.  When on_client_connected
\* throws, all this is done, but no confirmation goes out.
ServerConnectNew(c, m) ==
  /\ m.cmd = "connect"
  /\ ~HasFind(c)
  /\ opened[c] < MaxOpened
  /\ \E u \in Slots :
       LET ok == Msg(0, "connect_ok", u)
       IN  /\ IsAllocated(u)
           /\ users' = [users EXCEPT ![u] =
                [NewUser(c, m.index) EXCEPT !.send_next = NextIndex(@)]]
           /\ squeue' = [squeue EXCEPT ![c] = @ \cup {ok}]
           /\ \/ Answer(c, m, {ok})
              \/ down' = [down EXCEPT ![c] = @ \cup {ok}]
  /\ opened' = [opened EXCEPT ![c] = @ + 1]
  /\ UNCHANGED <<clientVars, up, executed>>

\* "you user already connected" and "users limit detected": the client gets an
\* ::error, and the ::connect is confirmed.
ServerConnectRefused(c, m) ==
  /\ m.cmd = "connect"
  /\ HasFind(c) \/ Free = {}
  /\ Answer(c, m, {})
  /\ UNCHANGED <<clientVars, serverVars, up>>

-----------------------------------------------------------------------------
(* The listener: confirmations, calls of the program, the alive check.     *)

\* Defect for mutation testing: the erase matches the index alone.
ServerEraseAnywhere(c, m) ==
  /\ m.cmd = "confirm"
  /\ squeue' = [a \in Clients |-> {q \in squeue[a] : q.index # m.index}]
  /\ UNCHANGED <<clientVars, users, up, down, opened, executed>>

ServerErase(c, m) ==
  /\ m.cmd = "confirm"
  /\ squeue' = [squeue EXCEPT ![c] = {q \in @ : q.index # m.index}]
  /\ UNCHANGED <<clientVars, users, up, down, opened, executed>>

\* rpc_entity::call on the listener: to the users of U at once, one user or
\* (the overload without userId) every user in the table.
ServerCall(U) ==
  LET call(c) == {Msg(users[u].send_next, "rpc", 0) :
                    u \in {v \in U : users[v].address = c}}
  IN  /\ U # {}
      /\ U \subseteq Slots \ Free
      /\ \A u \in U : users[u].send_next < MaxServerSends
      /\ squeue' = [c \in Clients |-> squeue[c] \cup call(c)]
      /\ down' = [c \in Clients |-> down[c] \cup call(c)]
      /\ users' = [u \in Slots |->
           IF u \in U THEN [users[u] EXCEPT !.send_next = NextIndex(@)]
                      ELSE users[u]]
      /\ UNCHANGED <<clientVars, up, opened, executed>>

\* check_user_alive: the users D that have been silent too long, slot by slot.
\* When the callback throws, the loop has ended at the user it threw for.
CheckUserAlive(D) ==
  /\ D # {}
  /\ D \subseteq Slots \ Free
  /\ \/ DeleteUsers(users, D, {})
     \/ \E last \in D : /\ \A u \in D : u <= last
                       /\ DeleteUsers(users, D, {last})
  /\ down' = [c \in Clients |-> down[c] \cup GoodbyesTo(c, D)]
  /\ UNCHANGED <<clientVars, up, opened, executed>>

-----------------------------------------------------------------------------
ClientStep(c) ==
  \/ Connect(c) \/ Call(c) \/ Disconnect(c) \/ Destroy(c)
  \/ WaitForTimeout(c)
  \/ \E m \in down[c] :
       ClientErase(c, m) \/ ClientReceive(c, m) \/ WaitForConnectOk(c, m)

ServerReceive(c) ==
  \E m \in up[c] :
    \/ ServerRpc(c, m) \/ ServerInvalid(c, m) \/ ServerDisconnect(c, m)
    \/ ServerConnectNew(c, m) \/ ServerConnectRefused(c, m)
    \/ ServerErase(c, m)

ServerStep ==
  \/ \E u \in Slots : ServerCall({u})
  \/ ServerCall(Slots \ Free)
  \/ \E D \in SUBSET Slots : CheckUserAlive(D)

Next == (\E c \in Clients : ClientStep(c) \/ ServerReceive(c)) \/ ServerStep

Spec == Init /\ [][Next]_vars

-----------------------------------------------------------------------------
TypeOK ==
  /\ client \in [Clients -> [is_connected : BOOLEAN, user_id : 0 .. MaxUsers,
                             send_next : ReliableIndices,
                             recv_next : ReliableIndices,
                             server : Points, point : Points,
                             pc : {"idle", "wait_for", "failed", "gone"}]]
  /\ \A c \in Clients : cqueue[c] \subseteq
       [msg : [index : ReliableIndices, cmd : Upstream, user : 0 .. MaxUsers],
        to : Points]
  /\ users \in [Slots -> {NoUser} \cup
                  [address : Clients, send_next : ReliableIndices,
                   recv_next : ReliableIndices]]
  /\ \A c \in Clients : squeue[c] \cup down[c] \subseteq
       [index : Indices, cmd : Downstream, user : 0 .. MaxUsers]
  /\ \A c \in Clients : up[c] \subseteq
       [index : Indices, cmd : Upstream, user : 0 .. MaxUsers]
  /\ opened \in [Clients -> 0 .. MaxOpened]
  /\ executed \in [Clients -> Seq([session : 1 .. MaxOpened, from : Clients,
                                   index : ReliableIndices])]

\* No address holds two slots: a ::connect repeated by the 500 ms timer, or
\* arriving late, never opens a second session beside the first (the hasFind
\* loop of the listener's process()).
UniqueAddress ==
  \A u, v \in Slots \ Free : users[u].address = users[v].address => u = v

\* The commands run in a session are those of the client that opened it, in
\* its order and once each, although slots are used again, clients go on
\* calling under the id of a session that has ended, and every datagram may
\* come back later (the address and index tests of process()).
SessionStream ==
  \A c \in Clients : \A k \in 1 .. Len(executed[c]) :
    /\ executed[c][k].from = c
    /\ \A j \in 1 .. k - 1 :
         executed[c][j].session = executed[c][k].session =>
           executed[c][j].index < executed[c][k].index

\* User u is the first and only session of address c.
OnlySession(c, u) == ValidUser(c, u) /\ opened[c] = 1

\* While the first session of a client lasts, the two sides agree on it once
\* the client has taken ::connect_ok: the id it calls under is its slot, and
\* neither side expects a command the other has not numbered.
ViewsAgree ==
  \A c \in Clients, u \in Slots : OnlySession(c, u) =>
    /\ client[c].recv_next > 0 => client[c].user_id = u
    /\ client[c].recv_next <= users[u].send_next
    /\ users[u].recv_next <= client[c].send_next

\* In the first session of a client, everything the listener has sent it and
\* it has not processed is still queued by the listener (the erase matches
\* index and address only).
DownstreamKept ==
  \A c \in Clients, u \in Slots : OnlySession(c, u) =>
    \A i \in client[c].recv_next .. users[u].send_next - 1 :
      \E m \in squeue[c] : m.index = i

\* In the first session of a client, every command the listener has not
\* processed is still queued by the client.  The exception is a second
\* ::connect: the listener confirms it without moving recv_next, and the
\* session cannot go past its index.
UpstreamKept ==
  \A c \in Clients, u \in Slots :
    OnlySession(c, u) /\ client[c].pc # "gone" =>
      \A i \in users[u].recv_next .. client[c].send_next - 1 :
        \/ \E q \in cqueue[c] : q.msg.index = i
        \/ Msg(i, "connect", 0) \in up[c]

\* A client that believes in a session the listener has ended will be told:
\* the ::disconnect_ok is queued until the client confirms it (delete_user by
\* the alive check against is_connected of the client).
GoodbyeKept ==
  \A c \in Clients :
    client[c].is_connected /\ opened[c] = 1 /\ ~HasFind(c) =>
      \E m \in squeue[c] : m.cmd = "disconnect_ok"

\* The listener expects this command next of address c, if it has a session.
Turn(c) == IF HasFind(c)
           THEN users[CHOOSE u \in Slots : ValidUser(c, u)].recv_next
           ELSE NoUser

Service == INSTANCE SessionService WITH
             Closed <- NoUser,
             turn <- [c \in Clients |-> Turn(c)],
             sessions <- opened,
             ran <- executed

\* The listener implements SessionService: through the reuse of slots, callbacks
\* that throw and late datagrams, what it runs for an address is the gapless
\* stream of that address, session by session.
ImplementsService == Service!Spec

\* A client object is connected at most once in its life: recv_next is never
\* reset, and the ::connect_ok of every later session has index 0 again.
ConnectsOnce ==
  [][\A c \in Clients :
       ~client[c].is_connected /\ client'[c].is_connected
         => client[c].recv_next = 0]_vars

\* connect() throws "error of connect to point" unless it has succeeded: when
\* it returns, the client is connected.
ConnectReturnsConnected ==
  [][\A c \in Clients :
       client[c].pc = "wait_for" /\ client'[c].pc = "idle"
         => client'[c].is_connected]_vars
=============================================================================
