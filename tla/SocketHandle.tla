---------------------------- MODULE SocketHandle ----------------------------
(***************************************************************************)
(* The descriptors behind the objects of class socket (src/tinysocket.cpp) *)
(* on Unix: the constructors open one, close() and the destructor give it  *)
(* back and write 0 over it, accept and accept_new make objects for the    *)
(* descriptors the kernel hands out, and the compiler's copy constructor   *)
(* copies the number.  The kernel hands out the lowest free number, so the *)
(* number of a closed socket soon belongs to another.                      *)
(***************************************************************************)
EXTENDS Integers

CONSTANTS
  Sockets,      \* objects of class socket
  MaxFd,        \* bound on the descriptors of the process
  MaxOpened     \* bound on the sockets opened in a run

ASSUME HandleAssumption == {MaxFd, MaxOpened} \subseteq Nat

VARIABLES
  kernel,       \* what is behind each descriptor
  opened,       \* sockets the kernel has opened so far: 1 .. opened
  role,         \* what each of them is: fresh, listening or connected
  ended,        \* those shut down
  objects,      \* objects that have been constructed and not destroyed
  fd,           \* _fd
  isConnected,  \* _isConnected
  isListening,  \* _isListening
  meant,        \* history: the socket an object was made for, 0 once closed
  ownEnd,       \* history: sockets shut down through their own object
  copied        \* history: an object has been copied

kernelVars == <<kernel, opened, role, ended>>
flagVars == <<isConnected, isListening>>
vars == <<kernelVars, objects, fd, flagVars, meant, ownEnd, copied>>

Fds == 0 .. MaxFd
Kernels == 1 .. MaxOpened

\* Nothing, or something that is no socket (stdin, stdout, stderr).
Free == 0
Other == MaxOpened + 1

\* What a system call on an object's descriptor finds.
Behind(s) == kernel[fd[s]]
IsA(s, roles) == s \in objects /\ Behind(s) \in Kernels /\ role[Behind(s)] \in roles

Init ==
  /\ kernel = [f \in Fds |-> IF f <= 2 THEN Other ELSE Free]
  /\ opened = 0
  /\ role = [k \in Kernels |-> "fresh"]
  /\ ended = {}
  /\ objects = {}
  /\ fd = [s \in Sockets |-> 0]
  /\ isConnected = [s \in Sockets |-> FALSE]
  /\ isListening = [s \in Sockets |-> FALSE]
  /\ meant = [s \in Sockets |-> 0]
  /\ ownEnd = {}
  /\ copied = FALSE

LowestFree(f) == kernel[f] = Free /\ \A g \in Fds : kernel[g] = Free => f <= g

\* ::socket or ::accept gives descriptor f to the new socket.
Open(f) ==
  /\ f \in Fds
  /\ LowestFree(f)
  /\ opened < MaxOpened
  /\ opened' = opened + 1
  /\ kernel' = [kernel EXCEPT ![f] = opened + 1]

\* A new object with descriptor f, for the socket just opened.
Made(s, f) ==
  /\ s \notin objects
  /\ objects' = objects \cup {s}
  /\ fd' = [fd EXCEPT ![s] = f]
  /\ meant' = [meant EXCEPT ![s] = opened + 1]
  /\ isConnected' = [isConnected EXCEPT ![s] = FALSE]
  /\ isListening' = [isListening EXCEPT ![s] = FALSE]

\* Defect for mutation testing: the constructor misses that ::socket failed.
ConstructUnchecked(s) ==
  /\ \/ \E f \in Fds : Open(f) /\ Made(s, f)
     \/ /\ \A f \in Fds : kernel[f] # Free
        /\ Made(s, -1)
        /\ UNCHANGED <<kernel, opened>>
  /\ UNCHANGED <<role, ended, ownEnd, copied>>

\* The constructors: no object where ::socket fails.
Construct(s) ==
  /\ \E f \in Fds : Open(f) /\ Made(s, f)
  /\ UNCHANGED <<role, ended, ownEnd, copied>>

\* A listening socket stands behind the object.
Accepting(s) == IsA(s, {"listening"}) /\ Behind(s) \notin ended

\* accept_new, and accept where the compiler elides the copy.
Accept(s, t) ==
  /\ Accepting(s)
  /\ \E f \in Fds : Open(f) /\ Made(t, f)
  /\ role' = [role EXCEPT ![opened + 1] = "connected"]
  /\ UNCHANGED <<ended, ownEnd, copied>>

\* accept where it does not: the object returned is a copy, and the temporary
\* has closed the descriptor before the caller sees it.
AcceptCopied(s, t) ==
  /\ Accepting(s)
  /\ ~copied
  /\ opened < MaxOpened
  /\ opened' = opened + 1
  /\ \E f \in Fds : LowestFree(f) /\ Made(t, f)
  /\ copied' = TRUE
  /\ UNCHANGED <<kernel, role, ended, ownEnd>>

\* The compiler's copy constructor.
Copy(s, t) ==
  /\ s \in objects
  /\ t \notin objects
  /\ ~copied
  /\ copied' = TRUE
  /\ objects' = objects \cup {t}
  /\ fd' = [fd EXCEPT ![t] = fd[s]]
  /\ meant' = [meant EXCEPT ![t] = meant[s]]
  /\ isConnected' = [isConnected EXCEPT ![t] = isConnected[s]]
  /\ isListening' = [isListening EXCEPT ![t] = isListening[s]]
  /\ UNCHANGED <<kernelVars, ownEnd>>

\* The compiler's assignment: t's own descriptor is forgotten.
Assign(s, t) ==
  /\ {s, t} \subseteq objects
  /\ s # t
  /\ ~copied
  /\ copied' = TRUE
  /\ fd' = [fd EXCEPT ![t] = fd[s]]
  /\ meant' = [meant EXCEPT ![t] = meant[s]]
  /\ isConnected' = [isConnected EXCEPT ![t] = isConnected[s]]
  /\ isListening' = [isListening EXCEPT ![t] = isListening[s]]
  /\ UNCHANGED <<kernelVars, objects, ownEnd>>

\* The calls below that the kernel refuses throw, and nothing changes.
Listen(s) ==
  /\ IsA(s, {"fresh", "listening"})
  /\ role' = [role EXCEPT ![Behind(s)] = "listening"]
  /\ isListening' = [isListening EXCEPT ![s] = TRUE]
  /\ UNCHANGED <<kernel, opened, ended, objects, fd, isConnected, meant, ownEnd, copied>>

Connect(s) ==
  /\ IsA(s, {"fresh", "connected"})
  /\ role' = [role EXCEPT ![Behind(s)] = "connected"]
  /\ isConnected' = [isConnected EXCEPT ![s] = TRUE]
  /\ UNCHANGED <<kernel, opened, ended, objects, fd, isListening, meant, ownEnd, copied>>

\* ::shutdown of what is behind the object's descriptor.
EndBehind(s) ==
  /\ ended' = ended \cup {Behind(s)}
  /\ ownEnd' = ownEnd \cup ({Behind(s)} \cap {meant[s]})

Shutdown(s) ==
  /\ IsA(s, {"listening", "connected"})
  /\ EndBehind(s)
  /\ UNCHANGED <<kernel, opened, role, objects, fd, flagVars, meant, copied>>

\* The flags of the object, not the socket, decide whether close() shuts down.
EndIfFlagged(s) ==
  IF (isConnected[s] \/ isListening[s]) /\ IsA(s, {"listening", "connected"})
  THEN EndBehind(s)
  ELSE UNCHANGED <<ended, ownEnd>>

\* Defect for mutation testing: the number of the descriptor is kept.
CloseFdKeepsNumber(s) ==
  /\ kernel' = [kernel EXCEPT ![fd[s]] = Free]
  /\ EndIfFlagged(s)
  /\ meant' = [meant EXCEPT ![s] = 0]
  /\ UNCHANGED fd

\* close() past its test of _fd; the flags stay as they are.
CloseFd(s) ==
  /\ kernel' = [kernel EXCEPT ![fd[s]] = Free]
  /\ EndIfFlagged(s)
  /\ meant' = [meant EXCEPT ![s] = 0]
  /\ fd' = [fd EXCEPT ![s] = 0]

Close(s) ==
  /\ s \in objects
  /\ fd[s] # 0
  /\ CloseFd(s)
  /\ UNCHANGED <<opened, role, objects, flagVars, copied>>

\* Defect for mutation testing: the destructor does not close.
DestroyUnclosed(s) ==
  /\ s \in objects
  /\ objects' = objects \ {s}
  /\ UNCHANGED <<kernelVars, fd, flagVars, meant, ownEnd, copied>>

\* The destructor: close(), which does nothing for descriptor 0.
Destroy(s) ==
  /\ s \in objects
  /\ objects' = objects \ {s}
  /\ IF fd[s] = 0
     THEN UNCHANGED <<kernel, ended, fd, meant, ownEnd>>
     ELSE CloseFd(s)
  /\ UNCHANGED <<opened, role, flagVars, copied>>

\* The program closes its standard input.
CloseStdin ==
  /\ kernel[0] = Other
  /\ kernel' = [kernel EXCEPT ![0] = Free]
  /\ UNCHANGED <<opened, role, ended, objects, fd, flagVars, meant, ownEnd, copied>>

Next ==
  \/ \E s \in Sockets : \/ Construct(s) \/ Listen(s) \/ Connect(s)
                        \/ Shutdown(s) \/ Close(s) \/ Destroy(s)
  \/ \E s, t \in Sockets : \/ Accept(s, t) \/ AcceptCopied(s, t)
                           \/ Copy(s, t) \/ Assign(s, t)
  \/ CloseStdin

Spec == Init /\ [][Next]_vars

-----------------------------------------------------------------------------
TypeOK ==
  /\ kernel \in [Fds -> Kernels \cup {Free, Other}]
  /\ opened \in 0 .. MaxOpened
  /\ role \in [Kernels -> {"fresh", "listening", "connected"}]
  /\ ended \subseteq Kernels
  /\ objects \subseteq Sockets
  /\ fd \in [Sockets -> Fds]
  /\ isConnected \in [Sockets -> BOOLEAN]
  /\ isListening \in [Sockets -> BOOLEAN]
  /\ meant \in [Sockets -> 0 .. MaxOpened]
  /\ ownEnd \subseteq Kernels
  /\ copied \in BOOLEAN

\* Objects that have not been closed.
Holders == {s \in objects : meant[s] # 0}

\* As long as no object is copied, each has the socket it was made for, and
\* no two the same, in whatever order numbers are given back and handed out
\* again (socket, accept, close and the destructor).
OwnSocket ==
  ~copied =>
    /\ \A s \in Holders : Behind(s) = meant[s]
    /\ \A s, t \in Holders : fd[s] = fd[t] => s = t

\* And as long as standard input is open too, none is shut down but through
\* its own object: the 0 of a closed object is no socket.
EndedByItself ==
  ~copied /\ kernel[0] = Other => ended \cap {meant[s] : s \in Holders} \subseteq ownEnd

\* Under the same conditions every open socket has an object that will close
\* it: close() takes descriptor 0 for a socket already closed.
NoLeak ==
  ~copied /\ kernel[0] = Other =>
    \A f \in Fds : kernel[f] \in Kernels => \E s \in Holders : fd[s] = f
=============================================================================
