------------------------- MODULE SocketHandleProofs -------------------------
(***************************************************************************)
(* Proofs about SocketHandle, for every set of objects and every number of *)
(* descriptors.                                                            *)
(***************************************************************************)
EXTENDS SocketHandle, TLAPS

\* What is behind a descriptor has been opened.
Opened == \A f \in Fds : kernel[f] \in 1 .. opened \cup {Free, Other}

\* What an object was made for has been opened; what was shut down too.
History == /\ \A s \in Sockets : meant[s] \in 0 .. opened
           /\ ended \subseteq 1 .. opened

\* A closed object has the number 0.
ClosedIs0 == \A s \in objects : meant[s] = 0 => fd[s] = 0

HoldersOwn == \A s \in Holders : Behind(s) = meant[s]
HoldersDiffer == \A s, t \in Holders : fd[s] = fd[t] => s = t

\* Standard input is open.
Stdin == kernel[0] = Other

\* The inductive invariant.
IInv == /\ TypeOK
        /\ Opened
        /\ History
        /\ ~copied => ClosedIs0 /\ HoldersOwn /\ HoldersDiffer

LEMMA Constants ==
  /\ MaxFd \in Nat
  /\ MaxOpened \in Nat
  /\ Free = 0
  /\ Other = MaxOpened + 1
  /\ Free \notin Kernels
  /\ Other \notin Kernels
  /\ Free # Other
  /\ 0 \in Fds
BY HandleAssumption DEF Free, Other, Kernels, Fds

LEMMA InitIInv == Init => IInv
<1> SUFFICES ASSUME Init PROVE IInv
  OBVIOUS
<1>1. TypeOK
  <2>1. /\ opened = 0 /\ ended = {} /\ objects = {} /\ ownEnd = {} /\ copied = FALSE
        /\ 0 \in 0 .. MaxOpened
    BY Constants DEF Init
  <2>2. kernel \in [Fds -> Kernels \cup {Free, Other}]
    BY DEF Init
  <2>3. /\ role \in [Kernels -> {"fresh", "listening", "connected"}]
        /\ fd \in [Sockets -> Fds]
        /\ isConnected \in [Sockets -> BOOLEAN]
        /\ isListening \in [Sockets -> BOOLEAN]
        /\ meant \in [Sockets -> 0 .. MaxOpened]
    BY <2>1, Constants DEF Init
  <2> QED
    BY <2>1, <2>2, <2>3 DEF TypeOK
<1>2. Opened /\ History
  BY Constants DEF Init, Opened, History
<1>3. ClosedIs0 /\ HoldersOwn /\ HoldersDiffer
  BY DEF Init, ClosedIs0, HoldersOwn, HoldersDiffer, Holders
<1> QED
  BY <1>1, <1>2, <1>3 DEF IInv

\* A new socket at a free descriptor, for a new object.
LEMMA OpenKeepsIInv ==
  ASSUME IInv, NEW s \in Sockets, NEW f \in Fds, Open(f), Made(s, f),
         role' \in [Kernels -> {"fresh", "listening", "connected"}],
         UNCHANGED <<ended, ownEnd, copied>>
  PROVE  IInv'
<1> USE Constants
<1>1. opened + 1 \in Kernels /\ opened \in Nat /\ kernel[f] = 0
  BY DEF Open, LowestFree, IInv, TypeOK, Kernels
<1>2. TypeOK'
  BY <1>1 DEF Open, Made, IInv, TypeOK, Kernels
<1>3. Opened'
  BY <1>1 DEF Open, IInv, TypeOK, Opened
<1>4. History'
  BY <1>1 DEF Open, Made, IInv, TypeOK, History
<1>5. ASSUME ~copied PROVE ClosedIs0' /\ HoldersOwn' /\ HoldersDiffer'
  <2>1. ASSUME NEW t \in objects'
        PROVE  \/ t = s /\ fd'[t] = f /\ meant'[t] = opened + 1 /\ kernel'[f] = opened + 1
               \/ t \in objects /\ t # s /\ fd'[t] = fd[t] /\ meant'[t] = meant[t]
    BY <2>1 DEF Open, Made, IInv, TypeOK
  <2>2. ASSUME NEW t \in Holders
        PROVE  fd[t] # f /\ kernel'[fd[t]] = meant[t]
    <3>1. kernel[fd[t]] = meant[t] /\ meant[t] # 0 /\ fd[t] \in Fds
      BY <1>5, <2>2 DEF IInv, HoldersOwn, Holders, Behind, TypeOK
    <3>2. fd[t] # f
      BY <1>1, <3>1
    <3> QED
      BY <3>1, <3>2 DEF Open, IInv, TypeOK
  <2>3. opened + 1 # 0
    BY <1>1
  <2>4. ClosedIs0'
    BY <1>5, <2>1, <2>3 DEF ClosedIs0, IInv
  <2>5. HoldersOwn'
    BY <2>1, <2>2 DEF HoldersOwn, Holders, Behind
  <2>6. HoldersDiffer'
    BY <1>5, <2>1, <2>2 DEF HoldersDiffer, Holders, IInv
  <2> QED
    BY <2>4, <2>5, <2>6
<1> QED
  BY <1>2, <1>3, <1>4, <1>5 DEF IInv

\* close() of an object's own descriptor.
LEMMA CloseFdKeepsIInv ==
  ASSUME IInv, NEW s \in objects, fd[s] # 0, CloseFd(s),
         objects' \in {objects, objects \ {s}},
         UNCHANGED <<opened, role, flagVars, copied>>
  PROVE  IInv'
<1> USE Constants
<1>1. /\ ended' \subseteq Kernels
      /\ ended' \subseteq 1 .. opened
      /\ ownEnd' \subseteq Kernels
  <2>1. CASE EndBehind(s) /\ IsA(s, {"listening", "connected"})
    <3>1. Behind(s) \in Kernels /\ Behind(s) \in 1 .. opened
      BY <2>1 DEF IsA, Behind, IInv, Opened, TypeOK
    <3> QED
      BY <2>1, <3>1 DEF EndBehind, IInv, History, TypeOK
  <2>2. CASE UNCHANGED <<ended, ownEnd>>
    BY <2>2 DEF IInv, History, TypeOK
  <2> QED
    BY <2>1, <2>2 DEF CloseFd, EndIfFlagged
<1>2. TypeOK'
  BY <1>1 DEF CloseFd, flagVars, IInv, TypeOK
<1>3. Opened'
  BY DEF CloseFd, IInv, TypeOK, Opened
<1>4. History'
  BY <1>1 DEF CloseFd, IInv, TypeOK, History
<1>5. ASSUME ~copied PROVE ClosedIs0' /\ HoldersOwn' /\ HoldersDiffer'
  <2>1. s \in Holders
    BY <1>5 DEF IInv, ClosedIs0, Holders, TypeOK
  <2>2. meant'[s] = 0 /\ fd'[s] = 0
    BY DEF CloseFd, IInv, TypeOK
  <2>3. \A t \in Sockets \ {s} : meant'[t] = meant[t] /\ fd'[t] = fd[t]
    BY DEF CloseFd, IInv, TypeOK
  <2>4. \A t \in Holders' : t \in Holders /\ t # s
    BY <2>2, <2>3 DEF Holders, IInv, TypeOK
  <2>5. \A t \in Holders' : kernel'[fd[t]] = kernel[fd[t]]
    BY <1>5, <2>1, <2>4 DEF CloseFd, IInv, HoldersDiffer, TypeOK, Holders
  <2>6. ClosedIs0'
    BY <1>5, <2>2, <2>3 DEF ClosedIs0, IInv, TypeOK
  <2>7. HoldersOwn'
    BY <1>5, <2>3, <2>4, <2>5 DEF HoldersOwn, Behind, IInv, Holders, TypeOK
  <2>8. HoldersDiffer'
    BY <1>5, <2>3, <2>4 DEF HoldersDiffer, IInv, Holders, TypeOK
  <2> QED
    BY <2>6, <2>7, <2>8
<1> QED
  BY <1>2, <1>3, <1>4, <1>5 DEF IInv

LEMMA NextKeepsIInv == IInv /\ [Next]_vars => IInv'
<1> SUFFICES ASSUME IInv, [Next]_vars PROVE IInv'
  OBVIOUS
<1> USE Constants
<1>1. ASSUME NEW s \in Sockets, Construct(s) PROVE IInv'
  BY <1>1, OpenKeepsIInv DEF Construct, IInv, TypeOK
<1>2. ASSUME NEW s \in Sockets, NEW t \in Sockets, Accept(s, t) PROVE IInv'
  <2>1. PICK f \in Fds : Open(f) /\ Made(t, f)
    BY <1>2 DEF Accept
  <2>2. role' \in [Kernels -> {"fresh", "listening", "connected"}]
    BY <1>2 DEF Accept, IInv, TypeOK
  <2> QED
    BY <1>2, <2>1, <2>2, OpenKeepsIInv DEF Accept
<1>3. ASSUME NEW s \in Sockets, NEW t \in Sockets, AcceptCopied(s, t) PROVE IInv'
  <2>1. PICK f \in Fds : LowestFree(f) /\ Made(t, f)
    BY <1>3 DEF AcceptCopied
  <2>2. opened + 1 \in 0 .. MaxOpened /\ opened' = opened + 1 /\ opened \in Nat
    BY <1>3 DEF AcceptCopied, IInv, TypeOK
  <2>3. copied' = TRUE /\ UNCHANGED <<kernel, role, ended, ownEnd>>
    BY <1>3 DEF AcceptCopied
  <2>4. TypeOK'
    BY <2>1, <2>2, <2>3 DEF Made, IInv, TypeOK
  <2>5. Opened' /\ History'
    BY <2>1, <2>2, <2>3 DEF Made, IInv, TypeOK, Opened, History
  <2> QED
    BY <2>3, <2>4, <2>5 DEF IInv
<1>4. ASSUME NEW s \in Sockets, NEW t \in Sockets, Copy(s, t) \/ Assign(s, t)
      PROVE  IInv'
  <2>1. copied' = TRUE /\ UNCHANGED <<kernelVars, ownEnd>>
    BY <1>4 DEF Copy, Assign
  <2>2. TypeOK'
    BY <1>4, <2>1 DEF Copy, Assign, kernelVars, IInv, TypeOK
  <2>3. Opened' /\ History'
    BY <1>4, <2>1 DEF Copy, Assign, kernelVars, IInv, TypeOK, Opened, History
  <2> QED
    BY <2>1, <2>2, <2>3 DEF IInv
<1>5. ASSUME NEW s \in Sockets, Listen(s) \/ Connect(s) PROVE IInv'
  <2>1. /\ UNCHANGED <<kernel, opened, ended, objects, fd, meant, ownEnd, copied>>
        /\ role' \in [Kernels -> {"fresh", "listening", "connected"}]
        /\ isConnected' \in [Sockets -> BOOLEAN]
        /\ isListening' \in [Sockets -> BOOLEAN]
    BY <1>5 DEF Listen, Connect, IsA, IInv, TypeOK
  <2> QED
    BY <2>1 DEF IInv, TypeOK, Opened, History, ClosedIs0, HoldersOwn,
                HoldersDiffer, Holders, Behind
<1>6. ASSUME NEW s \in Sockets, Shutdown(s) PROVE IInv'
  <2>1. Behind(s) \in Kernels /\ Behind(s) \in 1 .. opened
    BY <1>6 DEF Shutdown, IsA, Behind, IInv, Opened, TypeOK
  <2>2. /\ ended' \subseteq Kernels
        /\ ended' \subseteq 1 .. opened
        /\ ownEnd' \subseteq Kernels
    BY <1>6, <2>1 DEF Shutdown, EndBehind, IInv, History, TypeOK
  <2>3. UNCHANGED <<kernel, opened, role, objects, fd, flagVars, meant, copied>>
    BY <1>6 DEF Shutdown
  <2> QED
    BY <2>2, <2>3 DEF flagVars, IInv, TypeOK, Opened, History, ClosedIs0,
                      HoldersOwn, HoldersDiffer, Holders, Behind
<1>7. ASSUME NEW s \in Sockets, Close(s) PROVE IInv'
  BY <1>7, CloseFdKeepsIInv DEF Close
<1>8. ASSUME NEW s \in Sockets, Destroy(s) PROVE IInv'
  <2>1. CASE fd[s] = 0
    <3>1. /\ UNCHANGED <<kernelVars, fd, flagVars, meant, ownEnd, copied>>
          /\ objects' = objects \ {s}
      BY <1>8, <2>1 DEF Destroy, kernelVars
    <3> QED
      BY <3>1 DEF kernelVars, flagVars, IInv, TypeOK, Opened, History, ClosedIs0,
                  HoldersOwn, HoldersDiffer, Holders, Behind
  <2>2. CASE fd[s] # 0
    BY <1>8, <2>2, CloseFdKeepsIInv DEF Destroy
  <2> QED
    BY <2>1, <2>2
<1>9. CASE CloseStdin
  <2>1. /\ kernel[0] = Other
        /\ kernel' = [kernel EXCEPT ![0] = Free]
        /\ UNCHANGED <<opened, role, ended, objects, fd, flagVars, meant, ownEnd, copied>>
    BY <1>9 DEF CloseStdin
  <2>2. TypeOK' /\ Opened' /\ History'
    BY <2>1 DEF flagVars, IInv, TypeOK, Opened, History
  <2>3. ASSUME ~copied PROVE ClosedIs0' /\ HoldersOwn' /\ HoldersDiffer'
    <3>1. \A s \in Holders : meant[s] \in Kernels /\ fd[s] \in Fds
      BY DEF Holders, IInv, TypeOK, Kernels
    <3>2. \A s \in Holders : kernel[fd[s]] # Other
      BY <2>3, <3>1 DEF IInv, HoldersOwn, Behind
    <3>3. \A s \in Holders : kernel'[fd[s]] = kernel[fd[s]]
      BY <2>1, <3>1, <3>2 DEF IInv, TypeOK
    <3> QED
      BY <2>1, <2>3, <3>3
         DEF IInv, ClosedIs0, HoldersOwn, HoldersDiffer, Holders, Behind
  <2> QED
    BY <2>1, <2>2, <2>3 DEF IInv
<1>10. CASE UNCHANGED vars
  BY <1>10 DEF vars, kernelVars, flagVars, IInv, TypeOK, Opened, History,
               ClosedIs0, HoldersOwn, HoldersDiffer, Holders, Behind
<1> QED
  BY <1>1, <1>2, <1>3, <1>4, <1>5, <1>6, <1>7, <1>8, <1>9, <1>10 DEF Next

\* The invariant holds of every program.
THEOREM Invariance == Spec => []IInv
BY InitIInv, NextKeepsIInv, PTL DEF Spec

\* All variables keep their types.
THEOREM TypeCorrect == Spec => []TypeOK
BY Invariance, PTL DEF IInv

\* Without copies every object that has not been closed has its own socket
\* behind its descriptor, however often the number has changed hands.
THEOREM SocketsAreOwn == Spec => []OwnSocket
<1>1. IInv => OwnSocket
  BY DEF IInv, OwnSocket, HoldersOwn, HoldersDiffer
<1> QED
  BY <1>1, Invariance, PTL

-----------------------------------------------------------------------------
(* As long as standard input is open and nothing has been copied.          *)

\* No object that could call has another's socket behind its number.
LEMMA OwnOrNone ==
  ASSUME IInv, ~copied, Stdin, NEW s \in objects
  PROVE  /\ Behind(s) \in Kernels => s \in Holders /\ Behind(s) = meant[s]
         /\ s \in Holders => fd[s] # 0
<1>1. CASE meant[s] = 0
  BY <1>1, Constants DEF IInv, ClosedIs0, Behind, Stdin, Holders
<1>2. CASE meant[s] # 0
  <2>1. s \in Holders /\ Behind(s) = meant[s] /\ meant[s] \in Kernels
    BY <1>2 DEF Holders, IInv, HoldersOwn, TypeOK, Kernels
  <2> QED
    BY <2>1, Constants DEF Behind, Stdin
<1> QED
  BY <1>1, <1>2

\* A socket that is shut down is shut down through its own object.
LEMMA EndBehindIsOwn ==
  ASSUME IInv, ~copied, Stdin, NEW s \in objects,
         EndBehind(s), Behind(s) \in Kernels, EndedByItself
  PROVE  ended' \cap {meant[t] : t \in Holders} \subseteq ownEnd'
BY OwnOrNone DEF EndBehind, EndedByItself, Stdin

LEMMA EndedByItselfKept == IInv /\ EndedByItself /\ [Next]_vars => EndedByItself'
<1> SUFFICES ASSUME IInv, EndedByItself, [Next]_vars, ~copied', Stdin'
             PROVE  ended' \cap {meant'[t] : t \in Holders'} \subseteq ownEnd'
  BY DEF EndedByItself, Stdin
<1> USE Constants
<1>0. ~copied
  BY DEF Next, Construct, Accept, AcceptCopied, Copy, Assign, Listen, Connect,
         Shutdown, Close, Destroy, CloseStdin, vars
<1>1. ASSUME NEW s \in Sockets, NEW f \in Fds, Open(f), Made(s, f),
             UNCHANGED <<ended, ownEnd>>
      PROVE  ended' \cap {meant'[t] : t \in Holders'} \subseteq ownEnd'
  <2>1. Stdin
    BY <1>1 DEF Stdin, Open, LowestFree, IInv, TypeOK
  <2>2. opened + 1 \notin ended
    BY DEF IInv, History, TypeOK
  <2>3. \A t \in Holders' : meant'[t] = opened + 1 \/ (t \in Holders /\ meant'[t] = meant[t])
    BY <1>1 DEF Made, Holders, IInv, TypeOK
  <2> QED
    BY <1>0, <1>1, <2>1, <2>2, <2>3 DEF EndedByItself, Stdin
<1>2. ASSUME NEW s \in objects, Stdin, objects' \subseteq objects, CloseFd(s)
      PROVE  ended' \cap {meant'[t] : t \in Holders'} \subseteq ownEnd'
  <2>1. \A t \in Holders' : t \in Holders /\ meant'[t] = meant[t]
    BY <1>2 DEF CloseFd, Holders, IInv, TypeOK
  <2>2. ended' \cap {meant[t] : t \in Holders} \subseteq ownEnd'
    <3>1. CASE EndBehind(s) /\ IsA(s, {"listening", "connected"})
      BY <1>0, <1>2, <3>1, EndBehindIsOwn DEF IsA
    <3>2. CASE UNCHANGED <<ended, ownEnd>>
      BY <1>0, <1>2, <3>2 DEF EndedByItself, Stdin
    <3> QED
      BY <1>2, <3>1, <3>2 DEF CloseFd, EndIfFlagged
  <2> QED
    BY <2>1, <2>2
<1>3. ASSUME NEW s \in Sockets, Construct(s) PROVE ended' \cap {meant'[t] : t \in Holders'} \subseteq ownEnd'
  BY <1>1, <1>3 DEF Construct
<1>4. ASSUME NEW s \in Sockets, NEW t \in Sockets, Accept(s, t)
      PROVE  ended' \cap {meant'[u] : u \in Holders'} \subseteq ownEnd'
  BY <1>1, <1>4 DEF Accept
<1>5. ASSUME NEW s \in Sockets, Listen(s) \/ Connect(s)
      PROVE  ended' \cap {meant'[t] : t \in Holders'} \subseteq ownEnd'
  BY <1>0, <1>5 DEF Listen, Connect, EndedByItself, Holders, Stdin
<1>6. ASSUME NEW s \in Sockets, Shutdown(s)
      PROVE  ended' \cap {meant'[t] : t \in Holders'} \subseteq ownEnd'
  <2>1. Stdin /\ UNCHANGED <<objects, meant>> /\ EndBehind(s)
    BY <1>6 DEF Shutdown, Stdin
  <2>2. s \in objects /\ Behind(s) \in Kernels
    BY <1>6 DEF Shutdown, IsA
  <2> QED
    BY <1>0, <2>1, <2>2, EndBehindIsOwn DEF Holders
<1>7. ASSUME NEW s \in Sockets, Close(s)
      PROVE  ended' \cap {meant'[t] : t \in Holders'} \subseteq ownEnd'
  <2>1. Stdin
    BY <1>7 DEF Close, CloseFd, Stdin, IInv, TypeOK
  <2> QED
    BY <1>2, <1>7, <2>1 DEF Close
<1>8. ASSUME NEW s \in Sockets, Destroy(s)
      PROVE  ended' \cap {meant'[t] : t \in Holders'} \subseteq ownEnd'
  <2>1. CASE fd[s] = 0
    BY <1>0, <1>8, <2>1 DEF Destroy, EndedByItself, Holders, Stdin
  <2>2. CASE fd[s] # 0
    <3>1. Stdin
      BY <1>8, <2>2 DEF Destroy, CloseFd, Stdin, IInv, TypeOK
    <3> QED
      BY <1>2, <1>8, <2>2, <3>1 DEF Destroy
  <2> QED
    BY <2>1, <2>2
<1>9. CASE CloseStdin
  BY <1>9 DEF CloseStdin, Stdin, IInv, TypeOK
<1>10. CASE UNCHANGED vars
  BY <1>0, <1>10 DEF vars, kernelVars, EndedByItself, Holders, Stdin
<1> QED
  BY <1>0, <1>3, <1>4, <1>5, <1>6, <1>7, <1>8, <1>9, <1>10
     DEF Next, AcceptCopied, Copy, Assign

\* Without copies, and with standard input open, no object shuts down the
\* socket of another.
THEOREM NobodyElseEnds == Spec => []EndedByItself
<1>1. Init => EndedByItself
  BY DEF Init, EndedByItself
<1> QED
  BY <1>1, InitIInv, NextKeepsIInv, EndedByItselfKept, PTL DEF Spec

LEMMA NoLeakKept == IInv /\ NoLeak /\ [Next]_vars => NoLeak'
<1> SUFFICES ASSUME IInv, NoLeak, [Next]_vars, ~copied', Stdin',
                    NEW f \in Fds, kernel'[f] \in Kernels
             PROVE  \E s \in Holders' : fd'[s] = f
  BY DEF NoLeak, Stdin
<1> USE Constants
<1>0. ~copied
  BY DEF Next, Construct, Accept, AcceptCopied, Copy, Assign, Listen, Connect,
         Shutdown, Close, Destroy, CloseStdin, vars
<1>1. ASSUME NEW s \in Sockets, NEW g \in Fds, Open(g), Made(s, g)
      PROVE  \E t \in Holders' : fd'[t] = f
  <2>1. Stdin
    BY <1>1 DEF Stdin, Open, LowestFree, IInv, TypeOK
  <2>2. opened + 1 # 0
    BY DEF IInv, TypeOK
  <2>3. s \in Holders' /\ fd'[s] = g
    BY <1>1, <2>2 DEF Made, Holders, IInv, TypeOK
  <2>4. \A t \in Holders : t \in Holders' /\ fd'[t] = fd[t]
    BY <1>1 DEF Made, Holders, IInv, TypeOK
  <2>5. f # g => kernel[f] = kernel'[f]
    BY <1>1 DEF Open, IInv, TypeOK
  <2> QED
    BY <1>0, <2>1, <2>3, <2>4, <2>5 DEF NoLeak, Stdin
<1>2. ASSUME NEW s \in objects, Stdin, fd[s] # 0, CloseFd(s),
             objects' \in {objects, objects \ {s}}
      PROVE  \E t \in Holders' : fd'[t] = f
  <2>1. f # fd[s] /\ kernel[f] = kernel'[f]
    BY <1>2 DEF CloseFd, IInv, TypeOK
  <2>2. PICK t \in Holders : fd[t] = f
    BY <1>0, <1>2, <2>1 DEF NoLeak, Stdin
  <2>3. t \in Holders' /\ fd'[t] = fd[t]
    BY <1>2, <2>1, <2>2 DEF CloseFd, Holders, IInv, TypeOK
  <2> QED
    BY <2>2, <2>3
<1>3. ASSUME UNCHANGED <<kernel, objects, fd, meant>>
      PROVE  \E t \in Holders' : fd'[t] = f
  BY <1>0, <1>3 DEF NoLeak, Holders, Stdin
<1>4. ASSUME NEW s \in Sockets, Construct(s) PROVE \E t \in Holders' : fd'[t] = f
  BY <1>1, <1>4 DEF Construct
<1>5. ASSUME NEW s \in Sockets, NEW t \in Sockets, Accept(s, t)
      PROVE  \E u \in Holders' : fd'[u] = f
  BY <1>1, <1>5 DEF Accept
<1>6. ASSUME NEW s \in Sockets, Listen(s) \/ Connect(s) \/ Shutdown(s)
      PROVE  \E t \in Holders' : fd'[t] = f
  BY <1>3, <1>6 DEF Listen, Connect, Shutdown
<1>7. ASSUME NEW s \in Sockets, Close(s) PROVE \E t \in Holders' : fd'[t] = f
  <2>1. Stdin
    BY <1>7 DEF Close, CloseFd, Stdin, IInv, TypeOK
  <2> QED
    BY <1>2, <1>7, <2>1 DEF Close
<1>8. ASSUME NEW s \in Sockets, Destroy(s) PROVE \E t \in Holders' : fd'[t] = f
  <2>1. CASE fd[s] = 0
    <3>1. Stdin /\ UNCHANGED <<kernel, fd, meant>> /\ objects' = objects \ {s}
      BY <1>8, <2>1 DEF Destroy, Stdin
    <3>2. s \notin Holders
      BY <1>0, <1>8, <2>1, <3>1, OwnOrNone DEF Holders
    <3>3. Holders' = Holders
      BY <3>1, <3>2 DEF Holders
    <3> QED
      BY <1>0, <3>1, <3>3 DEF NoLeak, Stdin
  <2>2. CASE fd[s] # 0
    <3>1. Stdin
      BY <1>8, <2>2 DEF Destroy, CloseFd, Stdin, IInv, TypeOK
    <3> QED
      BY <1>2, <1>8, <2>2, <3>1 DEF Destroy
  <2> QED
    BY <2>1, <2>2
<1>9. CASE CloseStdin
  BY <1>9 DEF CloseStdin, Stdin, IInv, TypeOK
<1>10. CASE UNCHANGED vars
  BY <1>3, <1>10 DEF vars, kernelVars
<1> QED
  BY <1>0, <1>4, <1>5, <1>6, <1>7, <1>8, <1>9, <1>10
     DEF Next, AcceptCopied, Copy, Assign

\* Without copies, and with standard input open, every open socket has an
\* object that will close it.
THEOREM NothingLeaks == Spec => []NoLeak
<1>1. Init => NoLeak
  BY Constants DEF Init, NoLeak
<1> QED
  BY <1>1, InitIInv, NextKeepsIInv, NoLeakKept, PTL DEF Spec
=============================================================================
