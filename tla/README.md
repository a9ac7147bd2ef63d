# TinySocket: formal models, checks and proofs

TinySocket is a small C++ library: a wrapper of BSD and Windows sockets, a
reliable command protocol on top of UDP (`fss_socket`), and remote calls between
clients and a listener on top of that (`rpc_client`, `rpc_listener`,
`rpc_entity`). This directory holds TLA+ models of the parts that decide
something, the TLC configurations that check small instances of them, and
theorems checked by TLAPS. Paths below are relative to the repository
(`src/...`).

## 1. The system

| part | state | operations | used by |
|---|---|---|---|
| `fss_socket` (`tinyfsssocket.*`) | `_sendPackeges` (packages sent and not confirmed, each with address and time), `_serverPoint`, the UDP socket | `cmd`, `unsafe_cmd`, `wait_for`, `receive_and_process` | client, listener |
| `fss_socket_proc::process` (callback, `tinyrpc.cpp`) | the counter `recv_next` of the client or of each user | decides whether a reliable command is in its turn; its result decides whether a confirmation goes out | `fss_socket` |
| `rpc_client` | `_is_connected`, `_user_id`, `send_next`, `recv_next`, `_serverPoint`, `update_timer` | `connect`, `disconnect`, `process_commands`, destructor | the program |
| `rpc_listener` | `_users` (slots of `rpc_user`: address, `send_next`, `recv_next`, `last_packege`), `update_timer` | `process`, `delete_user`, `check_user_alive`, `process_commands` | the program |
| `rpc_entity` registry | global vector `entitys`, `_thisId` of each object | `set_id`, `allocate_id`, `allocate_id_and_set`, destructor, `clear_entities`, `call` | client and listener, to dispatch |
| `binary_stream`, `package_stream`, `write_caster` (`tinybinarystream.h`) | buffer, capacity, cursor (`uint16_t`) | typed reads and writes, `seek_*`, `reset`, `flush` | arguments of calls |
| `socket`, `ip_end_point`, `ip_address*`, `dns_entry` (`tinysocket.*`) | descriptor and two flags; address bytes | system calls; address to text and back | everything |

**How they interact.** Nothing in the library starts a thread. A program calls
`process_commands` again and again; it calls `receive_and_process`, which first
repeats every package older than 500 ms and then reads datagrams and calls
`process` for each, which may call `rpc()` of an object of the program, which
may call back into `call`. Concurrency is that of the two programs and of UDP
between them, which loses, repeats and reorders. `connect` is the one blocking
operation: it spins in `wait_for` until any `::connect_ok` comes in or, with the
socket empty, 4000 ms have passed, confirming nothing else and dropping everything
else; each of its receives blocks for as long as the socket's time-out says, which
on Unix is seconds for every millisecond asked for.

**What is hard.** Confirmations are matched by index and address only; a
repeated command is rejected without being confirmed again; indices come round;
counters of a client outlive its sessions while those of the listener begin at 0
with each; slots are used again while the former client still calls under their
number; both sides measure silence with unsynchronised timers they look at only
when polled; exceptions of the program's callbacks leave `process` and
`check_user_alive` half way; raw pointers, ids and descriptors outlive the objects,
places and sockets they name. `PROJECT.json` lists each hazard at its line.

**What makes each part correct.** The link: commands processed in order and
once, none forgotten. Sessions: one per address, each running only the commands
of its own client; two sides that agree; a client that is told when its session
ends. Keep-alive: live users stay, dead ones go. Registry: no dangling place, no
object pushed out by another. Waiting: it ends in time, and takes an answer that
came in time. Descriptors: nobody acts on another's socket and none is lost.
Streams: what is read is what was written and no
cell outside the buffer is touched. Address text: printing and parsing are
inverse, and the parser takes exactly the written forms of an address.

## 2. Modules

| module | models | kind |
|---|---|---|
| `CmdIndex` | `increment_index`, `pre_add_index`, `pre_increment_index`, `unsafe_index` | operators |
| `CommandFifo` | nothing in the code: what a direction of the link promises | abstract specification |
| `FssLink` | one direction of `fss_socket` with the index test of `process` | state machine, implements `CommandFifo` |
| `FssLinkProofs` | theorems about `FssLink` | proofs |
| `WaitFor` | the loop of `fss_socket::wait_for` in time | state machine with time |
| `WaitForProofs` | theorems about `WaitFor` | proofs |
| `SessionService` | nothing in the code: what the listener promises about sessions | abstract specification |
| `RpcSession` | clients, listener, user table and their queues | state machine over the same indices, implements `SessionService` |
| `RpcSessionProofs` | theorems about `RpcSession`: types, slots, sessions, refinement, what the two sides know of each other | proofs |
| `KeepAlive` | `update_timer`, `last_packege` and polling | state machine with time |
| `KeepAliveProofs` | theorems about `KeepAlive` | proofs |
| `EntityRegistry` | `entitys` and the ids | state machine |
| `EntityRegistryProofs` | theorems about `EntityRegistry` | proofs |
| `SocketHandle` | `_fd` and the two flags of `socket`, and the descriptors of the process | state machine |
| `SocketHandleProofs` | theorems about `SocketHandle` | proofs |
| `BinaryStream` | `binary_stream`, `package_stream`: one message from its writer to its reader | state machine |
| `BinaryStreamProofs` | theorems about `BinaryStream` | proofs |
| `IpText` | `ts_inet_pton`, `ts_inet_ntop` of both families | operators and the reader as a state machine |
| `IpTextProofs` | theorems about `IpText` | proofs |
| `MC...` | instances for TLC | |

Operators named "Defect for mutation testing" are not part of any specification.
Each is a plausible bug put next to the definition it would replace; with it, a
run must report a violation. `PROJECT.json` pairs them with the properties.

### FssLink

`sendPackeges` is `_sendPackeges` (a set: the order of the vector matters only
to the order of retransmissions, which the network may change anyway); `cmdNet`
and `confNet` are the datagrams under way. `Cmd` is `cmd()` called with
`iix(send_next)`; `Resend` the 500 ms loop of `receive_and_process` and
`wait_for`; `Process`, `Reject` and `ProcessUnsafe` the three outcomes of one
turn of the receive loop; `ReceiveConf` the `erase(remove_if ...)`. A datagram
that arrives may stay in the network (it was duplicated). A callback that throws
has already moved `recv_next` and loses the confirmation; both outcomes are in
`Process`. The timer is abstracted: a queued package may be repeated any time.

The code has no defence against something that outlives a whole lap of indices
(2^32 - 1 commands). The specification says what it relies on: `FreshCmd` numbers
a command only if nothing under way or queued carries the index that comes
after it. For a 32-bit index this is an assumption about how long UDP keeps a
datagram, and about how long one package can stay queued: the second is not
guaranteed by the code once a confirmation is lost (`LostConfirmIsFinal`), so a
sender that numbers 2^32 - 1 commands after a lost confirmation is outside
this model.

### WaitFor

One wait of a client: `pc` says which part of the loop comes next, `Resend` is the
pass over `_sendPackeges`, `Receive` a datagram taken, `ReceiveNothing` a receive
that ran into its time-out, `LookAtDeadline` the test of `timeOut`, which the code
makes only when the socket stayed empty. `Block` is how long an empty socket
holds the thread: `set_receive_time_out` puts the milliseconds it is given into
`tv_sec`, so it is `DelayMs` seconds. `Tick` may come between any two steps; the
thread is never late by more than `Lag`. `quiet` and `early` are history: the time
since a datagram was last taken, and whether the awaited command has arrived
before the deadline. The index test of what arrives is the matter of `RpcSession`.

### RpcSession

`client[c]` has the members of `rpc_client` and `pc`, where its program is: at
rest, inside `wait_for`, just thrown out of `connect`, or destroyed. `cqueue[c]`
is the `_sendPackeges` of the client, `squeue[c]` the part of the listener's
one queue that goes to address `c`. `up` and `down` hold every datagram ever
sent. Reading leaves it there and nothing forces a read, so loss, reordering,
duplication and retransmission need no actions of their own, and commands that
the code reads and drops are no steps. One action stands for one branch of
`process` with the confirmation it leads to: `ServerRpc`, `ServerInvalid`,
`ServerDisconnect`, `ServerConnectNew`, `ServerConnectRefused`; `CheckUserAlive`
deletes any set of silent users. The index test and what passes it are the same
as in `FssLink`; here the counters live and die with sessions. Callbacks of the
program may throw: an entity's `rpc()` (the index is used up, no confirmation),
`on_client_connected` (the user is in the table and `::connect_ok` queued, no
confirmation), `on_client_disconnected` (goodbye said, the user stays; in
`check_user_alive` the loop also ends there).

`DeleteUsers` says goodbye and frees the slot in one step, while `delete_user` runs
`on_client_disconnected` between the two. A callback that only looks, or throws, makes no
difference; one that calls the user it is told of would number a command behind the
`::disconnect_ok`, and that is not modelled.

Not steps, because they change nothing the model keeps: `::error`,
`::confrim_connection` (it renews `last_packege`, see `KeepAlive`), unsafe calls.
The object a call is for is taken to exist; whether it does
is the matter of `EntityRegistry`. One entity on each side is enough: the entity
id of a command does not enter the protocol.

`SessionService` leaves out slots, ids, queues, datagrams and confirmations: an
address has at most one session, and in it the commands that follow the one that
opened it are taken up one by one. `turn` is the `recv_next` of the address's user,
`sessions` and `ran` are the histories `opened` and `executed`.

### KeepAlive

Time is a number of ticks; each timer is the time since it was set, read in whole
seconds as `duration_cast<seconds>` reads it. A call of `process_commands` reads
datagrams first and looks at its timer at its end, unless an exception has left it.
At the client a call ends in one of three ways: nothing was due (`ClientQuiet`), the
confirmation was sent (`ClientConfirms`), or `receive_and_process` threw, for an
`::error` or an entity's `rpc()` (`ClientThrows`): then the timer is not looked at and
nothing is sent, due or not. At the listener `ListenerReads` takes a confirmation out
of the socket, at any time during a call, and the call ends in one of four ways: an
exception (`ListenerThrows`, no check), no check due (`ListenerQuiet`), a check that
comes past the user (`ListenerChecks`), or a check that `on_client_disconnected` ends
(`CheckThrows`). In the last case the callback threw in `delete_user` for this user,
which is silent and stays in `_users`, or for one before it, and the loop never came to
this one; `update_timer` has been set all the same, so the next check is five seconds
away. The other users are not in the model: what they do to this one, they may do at
any time. A call need not empty the socket (`CallEnds`): an exception ends the reading
early, and no call reads more than `maxCommands` datagrams.

None of this is bounded by the library, so each thing that can go wrong has a bound of
its own, on how often it happens in a row, and the two properties are stated with them:

| constant | bounds |
|---|---|
| `ClientPoll`, `ServerPoll` | time from the end of one call to the end of the next, so a call that blocks counts in full |
| `Delay`, `MaxLosses` | the way of a datagram; confirmations lost in a row |
| `MaxClientThrows`, `MaxServerThrows` | calls in a row left by an exception of `receive_and_process` |
| `MaxLeft` | calls of the listener that may leave one datagram unread (a call with something to read takes at least one, so the socket's buffer gives such a bound) |
| `MaxAborts` | checks in a row ended by the callback before they have dealt with the user |

`LongestGap` is the oldest `last_packege` a check can see while the client goes on:
`KeptAlive` holds when it is less than five seconds. `LongestSilence` is how long a user
can outlast its last confirmation. The programs are taken to catch what the library
throws and to call again; one that does not is `Stop`, which is also a client that
crashes. `Init` is the call in which the user is connected, with both `update_timer`s at
any phase (one that is due may have been so for long); that `::connect_ok` arrives
promptly is an assumption (the client begins to send confirmations after it).
`silent`, `losses`, `clientThrown`, `serverThrown` and `aborted` are history. A
confirmation the network repeats is not a step of its own: within its `Delay` it could
only renew the user once more.

### EntityRegistry

`entitys` with places `0 .. size-1` (place 0 holds the pointer -1 for good),
`thisId[e]` the `_thisId` of each object, whether or not it is in the table. One
action per operation; `SetIdThrows` is `set_id` on a place in use. After
`clear_entities` the vector is shorter and objects may keep ids beyond its end; the
code's write of null through such an id goes to storage the vector still owns and
is overwritten when the vector grows: it is modelled as lost. Calls through the
pointer -1 or null have no defined outcome and are left out. The program may do
anything; the history `conduct` says how it has behaved so far: `careful` (it asked
for no id in use and every object deletes itself in `on_deleted`), `catching` (it
did ask, and caught the exception) or `any`. Properties that only a careful program
can expect say so.

### SocketHandle

`kernel[f]` is what stands behind descriptor `f`; a new socket gets the lowest free
number, as POSIX says. `fd`, `isConnected` and `isListening` are the members of the
class. `close()` takes 0 for "closed" and writes 0; it looks at the flags, not at
the socket, to decide whether to shut down, and leaves them set. `AcceptCopied` is
`accept` where the compiler makes the copy it may elide; `Copy` and `Assign` are the
compiler's own, which duplicate the number. After one of these two objects close one
descriptor, so the properties are stated for programs before their first copy, and
one copy per run is enough. `CloseStdin` makes 0 a number a socket can get.
`meant`, `ownEnd` and `copied` are history. A system call that the kernel refuses
throws and changes nothing.

### BinaryStream

A message is written into a `package_stream`, its first `stored_length()` bytes
travel (`Send`, as `rpc_entity::call` hands them over), and the other side reads
them through a stream of just that capacity, as `process` builds it. A byte is
"part k of the object v of s bytes", so reading an object back needs all its
bytes in place; anything else is `Junk`, any value. `index` keeps its width:
`IndexLimit` stands for 65536, and `Fits` is the test in the wider type of
`sizeof`. `WriteBlock` is one action for `write_data`, `write_vector` and
`write_string`, which are the same loop; when the buffer fills up it throws and the
torn block stays. `ReadBlock` with any room is `read_vector` and `read_string`, with
little room `read_data`. What a program does with a cursor it has moved itself is
followed only as far as which bytes are accessed.

`read_data_pointer` compares the length of a block with the capacity, not with
what is left: of a torn block it returns a pointer to bytes that are not all there
and moves the cursor beyond the end. `EndsWhereWritten` names this as its one
exception. The capacity of a stream is taken to be at most the 1392 bytes of a package.

### IpText

A text is a sequence of tokens; characters appear only where they decide
something (the digits of octets). `ReadDigits`, `ReadDoubleColon`, `ReadColon`,
`ReadDotted`, `ReadOther` are the turns of the loop of `ts_inet_pton6`, `Finish` what
follows it. `Meaning` is written from what addresses look like, not from the code:
lists of groups with at most one double colon that stands for one or more zero words,
and a dotted end. Version 4 is small enough to be operators.

## 3. Runs

| run | instance | what it shows |
|---|---|---|
| `link` | 3 reliable indices, 5 commands, 2 payloads, with fairness; 20 thousand states | in-order exactly-once processing, nothing forgotten, ends agree, a lost confirmation is final, refinement of `CommandFifo` with its fairness (every command is processed in the end) |
| `wait_for` | ticks of 250 ms, time-out 4 s, receive blocks 1 s, thread late by a tick, 2 datagrams in the socket; 222 thousand states | the wait ends within a receive of its time-out once traffic pauses; packages are sent again in time; an answer before the deadline ends the wait although other datagrams never stop |
| `session_one_client` | 1 client, 2 slots, 3 client commands, 2 listener commands, 2 sessions; 438 thousand states | the whole life of an address, with reconnection, late datagrams of the first session and callbacks that throw; both sides' views of the first session; refinement of `SessionService` |
| `session_two_clients` | 2 clients (symmetric), 1 slot, 2 client commands; 263 thousand states | refusal when full; a slot passing from one client to the other; refinement of `SessionService` |
| `session_broadcast` | 2 clients (symmetric), 2 slots, 2 listener commands; 116 thousand states | single and broadcast calls over the one queue |
| `session_reconnect` | 1 client, 1 slot, 2 sessions | a finding, below |
| `registry` | 3 objects, ids 0..3; 12 thousand states | no dangling place for any program; for a careful one, no object pushed out by another and no id shared |
| `registry_collision` | the same | a finding, below |
| `socket_handle` | 3 objects (symmetric), 2 descriptors beyond the standard ones, 3 sockets; 634 thousand states | each object has the socket it was made for, nobody else ends it, no descriptor is lost |
| `binary_stream` | 9 bytes, a cursor of 20 values, blocks of up to 2 bytes | every message that fits is read back, ends where it was written, and nothing outside is accessed |
| `ip_text` | 6561 addresses; all texts of up to 6 tokens, lists of up to 9 + 9 groups; 4092 dotted parts | reading against meaning, printing against reading |
| `keep_alive` | half-second ticks, client's calls end every tick, listener's every 2, delay 1; one loss, one exception on either side, one call that leaves a datagram and one check ended early in a row; 375 thousand states | live users stay and silent ones go in spite of all these together; both bounds are tight |

**Why the bounds are enough.** Five commands over three reliable indices go round
the cycle and past it, so an index is used twice while the first use may still
matter; two payloads tell two commands with one index apart. The wait is four times
as long as one blocking receive, and one package is enough because the pass over
the queue treats each by itself. With one client, two
sessions and two slots, everything that distinguishes a first from a later
session occurs, and a wrong second slot has room to appear; with two clients and
one slot the slot changes hands; the `::connect_ok` and a call to each of two users
give equal indices in both streams. Two descriptors for three objects run out and
come back. Three objects and four places let one object hold a
place while a second loses it to a third. Nine bytes hold an object of every size,
two blocks or a torn one, and the cursor, twice as wide as the buffer and no wider,
wraps within the reach of two objects. Words that are zero, small or all ones in every arrangement meet every branch
of the printer; lists of up to nine groups go one past a full address. In `KeepAlive` every kind
of failure may happen once in a row, which is enough to put it before and after every
other, and the parameters are such that `LongestGap` is one tick short of five seconds:
with one tick more (a `Delay` of 2) the user of a live client can be dropped, and with one tick less for
`LongestSilence` the second invariant fails, so neither is slack.

`CHECK_DEADLOCK FALSE` is given where the system really may stop: in the runs of
`RpcSession` (every client destroyed, every bound used up), of `BinaryStream` (the
reader has finished or thrown), `IpText` (the text has been read), `WaitFor` (the
wait has returned) and `SocketHandle` (the bound on sockets used up and every
object destroyed).

## 4. Fairness

In `link`, `WF(Resend(p))` for each package: a program that
keeps calling `process_commands` reaches the retransmission loop every time, and
nothing removes a package from the queue but its confirmation. `SF(Process(p))`: the
other program polls too, and UDP, which may lose a datagram any number of times,
does not lose every copy for ever. Strong fairness is needed because a loss
disables the step in between. The code cannot guarantee the second; it is the
assumption under which any retransmission protocol makes progress. Nothing
is assumed about confirmations: delivery does not depend on them.

In `wait_for`, `WF(Loop)` (the thread runs: each part of the loop is a few system
calls, the receive with a time-out) and `WF(Tick)` (time passes). Nothing is
assumed about the traffic, which may stop or never stop.

`RpcSession` has no liveness property. The code promises none that could be
checked: after a confirmation lost to an exception, or a `::connect` sent twice in
one session, a stream does not go on, however fair the network is. `UpstreamKept`
and `DownstreamKept` say instead what is still in the queues and will be sent again.
That is not delivery: a command called before the first `::connect_ok` is queued for an
address that is not set, stays in the queue, satisfies `UpstreamKept`, and no
network delivers it.

## 5. Proofs

`FssLinkProofs` proves, for every number of indices, every set of payloads and
every bound, `TypeOK`, `InOrderExactlyOnce`, `NothingForgotten`, `EndsAgree`,
`LostConfirmIsFinal` and `FIFO!SafeSpec` (the safety half of `ImplementsFairFifo`). The first three are not inductive: a
queued package with the right index and the wrong payload, or a stray
confirmation, would break them in one step. The strengthening `IInv` adds that
consecutive commands have consecutive indices (`Chained`), that the pending ones
(sent and not processed) have pairwise different indices, that every package in the queue
or the network carrying the index of a pending command is that command, that no
confirmation for a pending index exists, and that nothing carries the index of the
next command. That last part is what `FreshCmd` gives and what a lap of
indices could destroy. Each action has its lemma; `NextKeepsIInv` puts them together.
The refinement maps `Cmd` to `Send`, `Process` to `Deliver` and every other action
to a stutter.

`WaitForProofs` proves `TypeOK`, `InTime`, `ResentInTime` and `EarlyAnswerTaken` (the
safety half of `EarlyAnswerReturns`).
The argument is one of budgets: `Spent` is how long the present turn of the loop
may have taken when it is at `pc`, never more than `Late`, and a turn that began
after the deadline began with a datagram (`TurnInTime`). `SinceResend` is the
same budget counted from the pass over the queue. For the last property the
invariant says where an early answer is: in the socket still, while the deadline
has not been seen to pass with the socket empty.

`RpcSessionProofs` proves `TypeOK`, `UniqueAddress`, `SessionStream`, `ConnectsOnce`
and the refinement of `SessionService`, for any number of clients and slots. The
inductive invariant `IInv` has a part for each side (types; a client's command is
below its bound; every `::connect_ok` has number 0), the uniqueness of addresses and
`Runs`: the commands run in the session that lasts are below the `recv_next` of its
user, and no run command belongs to a session still to come. The refinement maps
`ServerRpc` to `Run`, `ServerConnectNew` to `Open`, the end of users to `Close`,
a `::disconnect` whose callback throws to `Pass`, and every other step to a
stutter; `Turn` is well defined because of `UniqueAddress`.

Its last part proves `ViewsAgree`, `DownstreamKept`, `UpstreamKept` and
`GoodbyeKept`. None is inductive: each depends on what is under way in both
directions. The invariant `View(c)` says for one address what has been sent in any
session (`Numbered`), before the first (`Before`), while it lasts (`During`) and
after it (`Ended`: which command was the `::disconnect_ok`, and that it is
queued as long as the client has not taken it). A confirmation is for a command
already processed, or for a `::connect`; without that last case the erase could
take an unprocessed command, and it is the exception of `UpstreamKept`.

`KeepAliveProofs` proves `TypeOK`, `KeptAlive` and `DroppedInTime` for every second,
interval between calls and delay, and for any bounds on losses, exceptions, datagrams left unread and
checks ended early. `ClientSends` bounds the client's silence by its own timer, the
exceptions so far and the time since its last call; `Renewing` says that the user was
renewed by the newest confirmation (`RenewalSeen`), or one sent at most a `Spacing` later
is on its way (`RenewalSent`) or in the socket (`RenewalUnread`). `LastSent` bounds the
other way how old what is read can be. `Checked` counts from the last check that dealt
with the user: a `Round` for each check ended since, and the exceptions since the last
check. The products in the bounds (so many calls, each so long) are kept as `Called`,
`Served`, `Sent` and `Rounds`, of which the proofs use only that they grow by one interval
a step (`Sums`).

`EntityRegistryProofs` proves `TypeOK`, `NoDangling`, `PlaceKept` and `Undisturbed`
for any set of objects and any bound on ids. The inductive invariant adds that places
beyond the end of the vector are null; `CInv`, which holds while the program is
careful, adds that no two living objects have the same id and each its place.

`SocketHandleProofs` proves `TypeOK`, `OwnSocket`, `EndedByItself` and `NoLeak` for
any set of objects and any number of descriptors. The invariant says that what is
behind a descriptor has been opened, that a closed object has the number 0, and,
before the first copy, that each object has its own socket and number.

`BinaryStreamProofs` proves `TypeOK`, `StaysInside`, `ReadsBack` and `EndsWhereWritten`
for every capacity, every width of the cursor and blocks of any length. For the first
two, `Inside` says that the cursor of a message that may be sent is not beyond the end of
its buffer, because that cursor becomes the capacity of the reader's stream. For the
others the invariant has to say where everything lies. `Layout` is a list of places:
object `n` occupies the bytes from `place[n]` to `place[n + 1]`, and after the last of
them comes the writer's cursor or the torn block that made it throw. `Reader` says that
a reader that has taken `n` objects stands at `place[n + 1]`. A write leaves what is before the
cursor alone (`Agree`), so the layout grows at its end; a read finds at its place
exactly one object, because a byte knows which part of which object it is.

`EndsWhereWritten` is proved under `NoWrap`: twice the capacity is less than the
number of values of the cursor. It is not an artefact. The pointer that
`read_data_pointer` returns for a torn block puts the cursor beyond the end by up to a
capacity; with a stream of more than 32767 bytes a `uint16_t` could come round to a place in
the message and the next read would return old bytes. Capacity 9 with a cursor of 10
values shows it. Streams of the library are packages of 1392 bytes, far from it.

`IpTextProofs` proves `TypeOK`, `ReadsTheMeaning`, `RoundTrip` and `ReadsWhatPrints4` for
texts of any length and for every address. What recursive functions compute, such as
the octet that digits add up to, is proved without an induction rule: if it failed
somewhere there would be a least number of digits at which it fails (`LeastNumber`,
from the well-foundedness of the numbers). The rest has three parts.

* What is printed: `PrintedTo` describes the text after each of the eight turns of
  `ts_inet_ntop6`, and `Ntop6Written` the whole of it: the groups before the run of
  zeros, the double colon, the groups after it. `Ntop6Means` concludes that it
  denotes the address.
* What a text denotes: `Span` says that tokens `a` to `z` are `m` groups with single
  colons between them. `ListIsSpan` and `GapParts` express `Meaning` with it, and
  `Orderly` collects what every text that denotes an address has in common, so that a
  refusal is justified by one token (`DisorderMeans`), by a second double colon
  (`TwoDoublesMean`) or by a ninth group (`TooManyMean`).
* What the reader knows: the invariant `Reader` says that `m` groups behind the double
  colon have been stored and stand in `words` after those before it (`ReadTo`), that
  `saw_xdigit` and `val` are the digits just passed, and that at the end the text
  has been read as `words` (`ReadAs`); the reader between two leading colons is the
  one state apart (`AtDouble`). `ReadsTheMeaning` is not inductive without it, since it
  is silent until the answer. TLC finds `Reader` true in every state of the run
  `ip_text`.

The assumptions are those of the modules on their constants: bounds are numbers,
model values are different from data (`JunkAssumption` among them), texts are sequences
of tokens in which a run of digits is maximal (`TextsAssumption`, what any division of
a string into tokens gives), `NoWrapAssumption` keeps the numbers of
`RpcSession` below `unsafe_index` (going round is proved in `FssLinkProofs`).

**Model-checked only.** Liveness (`ImplementsFairFifo`, `EarlyAnswerReturns`):
fairness is out of the prover's reach. Of the second the safety half is proved
(`EarlyAnswerTaken`), of the first the refinement without its fairness
(`LinkImplementsFifo`). Every other property of a passing run is a theorem.

## 6. Findings

* `session_reconnect`: `rpc_client::connect` throws "error of connect to point"
  unless `wait_for` saw `::connect_ok`, and `wait_for` says so whether or not
  `process` accepted the command. The second `connect` of one object therefore
  returns normally with `_is_connected` false: its `recv_next` goes on from the
  first session, the new `::connect_ok` has index 0. `ConnectsOnce` shows that an
  object is connected at most once in its life.
* `registry_collision`: `set_id` throws "entity collision detetcion" after it has
  stored the new id; the rejected object's next move or its destruction takes the
  place away from its owner.

Seen while reading, without a run: `operator<<` of `ip_address_v6`
(`tinysocket.cpp:668`) throws whenever `ts_inet_ntop` succeeds, because the comparison with
`nullptr` of its version 4 twin (line 659) is missing; `socket::set_receive_time_out`
(line 389) stores milliseconds as seconds on Unix.

## 7. Not modelled

* `write_caster`: a template of one loop that nothing in the library uses.
* `ip_end_point` and `dns_entry`: a `sockaddr` with its size, and one system call
  with a copy of its result. Addresses are equal or not in `RpcSession`.
* `cmd_hash`, a table-driven CRC-32 evaluated at compile time: command names are
  taken to be distinct, which they are for the names the library uses.
* Options, sends and receives of `socket`: single system calls that keep no state
  but two counters of bytes. Its constructors, `accept`, `listen`, `connect`,
  `shutdown`, `close`, copies and destructor are in `SocketHandle`.
* `insert_rpc_client` and `insert_rpc_server`: two global pointers. Dispatch through
  the pointer -1 or null, which has no defined outcome.
* Unsafe commands are in `FssLink` but not in `RpcSession`, where they change nothing.
* Windows: the models follow the Unix branches of the code.
* Build files.

## 8. What could follow

1. `KeepAlive` composed with the disconnection of `RpcSession`: a client that has left
   without its `::disconnect` being taken goes on sending `::confrim_connection`.
2. Sessions after the first: `ViewsAgree` and its companions speak of `opened = 1`,
   because a client object is connected at most once in its life.
