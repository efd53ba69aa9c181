-------------------------- MODULE DescriptorsProofs --------------------------
(***************************************************************************)
(* Proofs about Descriptors, for any number of threads, descriptors, files *)
(* and interruptions.                                                      *)
(***************************************************************************)
EXTENDS Descriptors, TLAPS

(* The inductive invariant: as long as nobody has lost anything, a thread  *)
(* has the descriptors it has called for, unless its close was cut, and    *)
(* what its last close or connect has told it is true.                     *)
ThreadInv(t) ==
  /\ pc[t] \notin {"idle", "undefined"} => fd[t] \in Fds /\ fd2[t] \in Fds
  /\ pc[t] = "undefined" => wronged
  /\ pc[t] # "idle" => last[t].op = "none"
  /\ last[t].op # "none" => last[t].fd \in Fds
  /\ ~wronged =>
       /\ pc[t] \in {"fclose", "dup2", "getfd", "setfd", "connect"} => Mine(t, fd[t])
       /\ pc[t] = "dup2" => Mine(t, fd2[t]) \/ status[t]
       /\ pc[t] = "close" => Mine(t, fd[t]) \/ cut
       /\ pc[t] = "connect" /\ interrupts[t] = 0 => link[table[fd[t]]] = "idle"
       /\ last[t].op = "close" => ~Mine(t, last[t].fd)
       /\ last[t].op = "connect" =>
            /\ Mine(t, last[t].fd)
            /\ last[t].ok => link[table[last[t].fd]] = "connected"
            /\ ~last[t].ok /\ ~last[t].retried => link[table[last[t].fd]] = "idle"

IInv == TypeOK /\ OthersKept /\ NotInherited /\ \A t \in Threads : ThreadInv(t)

(* The record of what a call has told its thread may be empty.             *)
LEMMA NothingIsOne ==
  Nothing \in [op : {"none", "close", "connect"}, fd : Fds \cup {None}, ok : BOOLEAN, retried : BOOLEAN]
  BY DEF Nothing

(* Initially no thread is in a call and no descriptor is open.             *)
LEMMA InitInv == Init => IInv
  <1> SUFFICES ASSUME Init PROVE IInv
    OBVIOUS
  <1> USE DescriptorAssumption DEF Init
  <1>1. TypeOK
    <2>1. last \in [Threads -> [op : {"none", "close", "connect"}, fd : Fds \cup {None},
                               ok : BOOLEAN, retried : BOOLEAN]]
      BY NothingIsOne
    <2>2. table \in [Fds -> Files \cup {None}] /\ owner \in [Files -> Threads \cup {None}]
          /\ \A f \in Files : owner[f] # None <=> \E d \in Fds : table[d] = f
      OBVIOUS
    <2>3. releases \in BOOLEAN /\ cut \in BOOLEAN /\ wronged \in BOOLEAN
          /\ status \in [Threads -> BOOLEAN] /\ cloexec \in SUBSET Fds /\ guarded \in SUBSET Fds
      OBVIOUS
    <2> QED
      BY <2>1, <2>2, <2>3 DEF TypeOK
  <1>2. OthersKept /\ NotInherited
    BY DEF OthersKept, NotInherited
  <1>3. \A t \in Threads : ThreadInv(t)
    BY DEF ThreadInv, Nothing
  <1> QED
    BY <1>1, <1>2, <1>3 DEF IInv

(* A step of t that leaves the others what is theirs keeps what the        *)
(* invariant says of them.                                                 *)
LEMMA OthersStep ==
  ASSUME IInv, NEW t \in Threads,
         TypeOK', OthersKept', NotInherited', ThreadInv(t)',
         cut => cut', wronged => wronged',
         \A u \in Threads \ {t} :
           pc'[u] = pc[u] /\ fd'[u] = fd[u] /\ fd2'[u] = fd2[u] /\ last'[u] = last[u]
           /\ interrupts'[u] = interrupts[u] /\ status'[u] = status[u],
         ~wronged' =>
           \A u \in Threads \ {t}, d \in Fds :
             /\ Mine(u, d)' <=> Mine(u, d)
             /\ Mine(u, d) => table'[d] = table[d] /\ link'[table[d]] = link[table[d]]
  PROVE  IInv'
  <1> SUFFICES ASSUME NEW u \in Threads \ {t} PROVE ThreadInv(u)'
    BY DEF IInv
  <1>1. ThreadInv(u)
    BY DEF IInv
  <1>2. wronged' \in BOOLEAN /\ wronged \in BOOLEAN
    BY DEF IInv, TypeOK
  <1> QED
    BY <1>1, <1>2 DEF ThreadInv

(* A thread that begins a call changes only what it is about to do.        *)
LEMMA BeginStep ==
  ASSUME IInv, NEW t \in Threads, NEW op \in {"close", "fclose", "dup2", "getfd", "connect"},
         NEW d \in Fds, NEW d2 \in Fds, NEW flag \in BOOLEAN, Begin(t, op, d, d2, flag),
         op = "connect" => link[table[d]] = "idle",
         op = "dup2" => Mine(t, d2) \/ flag
  PROVE  IInv'
  <1> USE DescriptorAssumption DEF Begin, kernel, history
  <1>1. TypeOK'
    BY NothingIsOne DEF TypeOK, IInv
  <1>2. \A u \in Threads, e \in Fds : Mine(u, e)' <=> Mine(u, e)
    BY DEF Mine
  <1>3. ThreadInv(t)'
    BY <1>2 DEF ThreadInv, TypeOK, IInv, Nothing, Mine
  <1>4. OthersKept' /\ NotInherited'
    BY DEF OthersKept, NotInherited, IInv
  <1>5. \A u \in Threads \ {t} :
           pc'[u] = pc[u] /\ fd'[u] = fd[u] /\ fd2'[u] = fd2[u] /\ last'[u] = last[u]
           /\ interrupts'[u] = interrupts[u] /\ status'[u] = status[u]
    BY DEF TypeOK, IInv
  <1> QED
    BY <1>1, <1>2, <1>3, <1>4, <1>5, OthersStep

(* Nobody but its owner loses a descriptor when one is released, and none  *)
(* is gained.                                                              *)
Released(d) ==
  /\ table' \in [Fds -> Files \cup {None}]
  /\ owner' \in [Files -> Threads \cup {None}]
  /\ \A f \in Files : owner'[f] # None <=> \E e \in Fds : table'[e] = f
  /\ link' \in [Files -> {"idle", "connecting", "connected"}]
  /\ cloexec' \in SUBSET Fds /\ guarded' \in SUBSET Fds
  /\ guarded \subseteq cloexec => guarded' \subseteq cloexec'
  /\ \A u \in Threads : ~Mine(u, d)'
  /\ \A u \in Threads, e \in Fds \ {d} :
       /\ Mine(u, e)' <=> Mine(u, e)
       /\ Mine(u, e) => table'[e] = table[e] /\ link'[table[e]] = link[table[e]]

(* A close takes the descriptor out of the table, and the last one of a    *)
(* file the file with it.                                                  *)
LEMMA ReleaseOwn ==
  ASSUME TypeOK, NEW d \in Fds, table[d] # None, Release(d)
  PROVE  Released(d)
  <1> USE DescriptorAssumption DEF Release, TypeOK
  <1>1. /\ table' \in [Fds -> Files \cup {None}]
        /\ owner' \in [Files -> Threads \cup {None}]
        /\ link' \in [Files -> {"idle", "connecting", "connected"}]
        /\ cloexec' \in SUBSET Fds /\ guarded' \in SUBSET Fds
        /\ guarded \subseteq cloexec => guarded' \subseteq cloexec'
    OBVIOUS
  <1>2. \A f \in Files : owner'[f] # None <=> \E e \in Fds : table'[e] = f
    OBVIOUS
  <1>3. \A u \in Threads : ~Mine(u, d)'
    BY DEF Mine
  <1>4. ASSUME NEW u \in Threads, NEW e \in Fds \ {d}
        PROVE  /\ Mine(u, e)' <=> Mine(u, e)
               /\ Mine(u, e) => table'[e] = table[e] /\ link'[table[e]] = link[table[e]]
    BY DEF Mine
  <1> QED
    BY <1>1, <1>2, <1>3, <1>4 DEF Released

(* What a return and another try leave of a call.                          *)
Returned(t, ok) ==
  /\ pc' \in [Threads -> {"idle", "close", "fclose", "dup2", "getfd", "setfd", "connect", "undefined"}]
  /\ fd' \in [Threads -> Fds \cup {None}] /\ fd2' \in [Threads -> Fds \cup {None}]
  /\ status' \in [Threads -> BOOLEAN] /\ interrupts' \in [Threads -> 0 .. MaxInterrupts]
  /\ last' \in [Threads -> [op : {"none", "close", "connect"}, fd : Fds \cup {None},
                            ok : BOOLEAN, retried : BOOLEAN]]
  /\ releases' = releases
  /\ pc'[t] = "idle"
  /\ IF pc[t] \in {"close", "connect"}
     THEN /\ last'[t].op = pc[t] /\ last'[t].fd = fd[t]
          /\ last'[t].ok = ok /\ last'[t].retried = (interrupts[t] > 0)
     ELSE last'[t].op = "none"
  /\ \A u \in Threads \ {t} :
       pc'[u] = pc[u] /\ fd'[u] = fd[u] /\ fd2'[u] = fd2[u] /\ last'[u] = last[u]
       /\ interrupts'[u] = interrupts[u] /\ status'[u] = status[u]

(* A call that returns leaves nothing but what it has told its thread.     *)
LEMMA ReturnCall ==
  ASSUME TypeOK, NEW t \in Threads, NEW ok \in BOOLEAN, Return(t, ok)
  PROVE  Returned(t, ok)
  <1> USE DescriptorAssumption DEF Return, TypeOK
  <1>1. last' \in [Threads -> [op : {"none", "close", "connect"}, fd : Fds \cup {None},
                               ok : BOOLEAN, retried : BOOLEAN]]
    BY NothingIsOne
  <1>2. IF pc[t] \in {"close", "connect"}
        THEN /\ last'[t].op = pc[t] /\ last'[t].fd = fd[t]
             /\ last'[t].ok = ok /\ last'[t].retried = (interrupts[t] > 0)
        ELSE last'[t].op = "none"
    BY DEF Nothing
  <1> QED
    BY <1>1, <1>2 DEF Returned

(* The call has met an EINTR and is where it was.                          *)
Retried(t) ==
  /\ interrupts' \in [Threads -> 0 .. MaxInterrupts] /\ interrupts'[t] > 0
  /\ \A u \in Threads \ {t} : interrupts'[u] = interrupts[u]
  /\ UNCHANGED <<releases, pc, fd, fd2, status, last>>

(* The loop around a system call goes round after an EINTR and returns     *)
(* otherwise.                                                              *)
LEMMA TryAgain ==
  ASSUME TypeOK, NEW t \in Threads, NEW errno, MayMeet(t, errno), GoesOn(t, errno)
  PROVE  IF errno = "EINTR" THEN Retried(t) ELSE Returned(t, errno = "none")
  <1>1. CASE errno = "EINTR"
    BY <1>1, DescriptorAssumption DEF GoesOn, TriesAgain, MayMeet, TypeOK, Retried
  <1>2. CASE errno # "EINTR"
    BY <1>2, ReturnCall DEF GoesOn, TriesAgain, Succeeds
  <1> QED
    BY <1>1, <1>2

-----------------------------------------------------------------------------
(* One lemma per system call.                                              *)

(* The others keep what is theirs when a thread releases its descriptor.   *)
LEMMA ReleaseMine ==
  ASSUME TypeOK, NEW t \in Threads, NEW d \in Fds, Mine(t, d), Released(d),
         NEW u \in Threads \ {t}, NEW e \in Fds
  PROVE  /\ Mine(u, e)' <=> Mine(u, e)
         /\ Mine(u, e) => table'[e] = table[e] /\ link'[table[e]] = link[table[e]]
  <1>1. ~Mine(u, d)
    BY DEF Mine
  <1> QED
    BY <1>1 DEF Released

(* xcp_fd_close keeps the invariant: a close that is made again has an own *)
(* descriptor, or an EINTR has cut the one before.                         *)
LEMMA CloseStep ==
  ASSUME IInv, NEW t \in Threads, CloseCall(t)
  PROVE  IInv'
  <1> USE DescriptorAssumption
  <1>1. PICK errno \in IF table[fd[t]] = None THEN {"EBADF"} ELSE {"none", "EIO", "EINTR"} :
          /\ MayMeet(t, errno)
          /\ GoesOn(t, errno)
          /\ IF errno = "EBADF" \/ (errno = "EINTR" /\ ~releases)
             THEN UNCHANGED <<kernel, history>>
             ELSE /\ Release(fd[t])
                  /\ cut' = (cut \/ errno = "EINTR")
                  /\ wronged' = (wronged \/ ~Mine(t, fd[t]))
    BY DEF CloseCall
  <1>2. pc[t] = "close" /\ fd[t] \in Fds /\ ThreadInv(t) /\ TypeOK
    BY DEF CloseCall, IInv, ThreadInv
  <1>d. PICK d \in Fds : d = fd[t]
    BY <1>2
  <1>3. IF errno = "EINTR" THEN Retried(t) ELSE Returned(t, errno = "none")
    BY <1>1, <1>2, <1>d, TryAgain
  <1>4. \A u \in Threads \ {t} :
          pc'[u] = pc[u] /\ fd'[u] = fd[u] /\ fd2'[u] = fd2[u] /\ last'[u] = last[u]
          /\ interrupts'[u] = interrupts[u] /\ status'[u] = status[u]
    BY <1>3 DEF Returned, Retried
  <1>5. CASE errno = "EBADF" \/ (errno = "EINTR" /\ ~releases)
    <2>1. UNCHANGED <<kernel, history>> /\ \A u \in Threads, e \in Fds : Mine(u, e)' <=> Mine(u, e)
      BY <1>1, <1>5 DEF kernel, history, Mine
    <2>2. TypeOK' /\ OthersKept' /\ NotInherited'
      BY <2>1, <1>2, <1>d, <1>3
         DEF TypeOK, Returned, Retried, kernel, history, OthersKept, NotInherited, IInv
    <2>3. ThreadInv(t)'
      <3>1. CASE errno = "EBADF"
        <4>1. Returned(t, FALSE) /\ ~Mine(t, fd[t])
          BY <3>1, <1>1, <1>3 DEF Mine
        <4> QED
          BY <4>1, <2>1, <1>2, <1>d DEF ThreadInv, Returned, kernel, history, Mine
      <3>2. CASE errno = "EINTR"
        BY <3>2, <2>1, <1>3, <1>2, <1>d DEF ThreadInv, Retried, kernel, history
      <3> QED
        BY <1>5, <3>1, <3>2
    <2> QED
      BY <2>1, <2>2, <2>3, <1>4, OthersStep DEF kernel, history
  <1>6. CASE ~(errno = "EBADF" \/ (errno = "EINTR" /\ ~releases))
    <2>1. /\ table[fd[t]] # None /\ Release(fd[t])
          /\ cut' = (cut \/ errno = "EINTR")
          /\ wronged' = (wronged \/ ~Mine(t, fd[t]))
          /\ errno \in {"none", "EIO", "EINTR"}
      BY <1>1, <1>6
    <2>2. Released(d)
      BY <2>1, <1>2, <1>d, ReleaseOwn
    <2>3. OthersKept'
      BY <2>1, <1>2, <1>d DEF OthersKept, IInv, ThreadInv, TypeOK
    <2>4. TypeOK' /\ NotInherited'
      BY <2>1, <2>2, <1>2, <1>d, <1>3 DEF TypeOK, Released, Returned, Retried, NotInherited, IInv
    <2>5. ThreadInv(t)'
      <3>1. CASE errno = "EINTR"
        BY <3>1, <2>1, <2>2, <1>2, <1>d, <1>3 DEF ThreadInv, Released, Retried, TypeOK, Mine
      <3>2. CASE errno # "EINTR"
        <4>1. pc'[t] = "idle" /\ last'[t].op = "close" /\ last'[t].fd = fd[t]
          BY <3>2, <1>2, <1>d, <1>3 DEF Returned
        <4>2. ~(table'[d] # None /\ owner'[table'[d]] = t)
          BY <2>2 DEF Released, Mine
        <4> QED
          BY <4>1, <4>2, <1>2, <1>d DEF ThreadInv, Mine
      <3> QED
        BY <3>1, <3>2
    <2>6. ~wronged' =>
            \A u \in Threads \ {t}, e \in Fds :
              /\ Mine(u, e)' <=> Mine(u, e)
              /\ Mine(u, e) => table'[e] = table[e] /\ link'[table[e]] = link[table[e]]
      BY <2>1, <2>2, <1>2, <1>d, ReleaseMine
    <2> QED
      BY <2>1, <2>3, <2>4, <2>5, <2>6, <1>4, OthersStep
  <1> QED
    BY <1>5, <1>6

(* So does xcp_file_close, whose stream is gone after any fclose.          *)
LEMMA FcloseStep ==
  ASSUME IInv, NEW t \in Threads, FcloseCall(t)
  PROVE  IInv'
  <1> USE DescriptorAssumption
  <1>1. PICK errno \in IF table[fd[t]] = None THEN {"EBADF"} ELSE {"none", "EIO", "EINTR"} :
          /\ MayMeet(t, errno)
          /\ IF TriesAgain(errno)
             THEN /\ pc' = [pc EXCEPT ![t] = "undefined"]
                  /\ interrupts' = [interrupts EXCEPT ![t] = @ + 1]
                  /\ wronged' = TRUE
                  /\ UNCHANGED <<releases, fd, fd2, status, last>>
             ELSE /\ Return(t, Succeeds(errno))
                  /\ wronged' = (wronged \/ (table[fd[t]] # None /\ ~Mine(t, fd[t])))
          /\ cut' = (cut \/ errno = "EINTR")
          /\ IF errno = "EBADF" \/ (errno = "EINTR" /\ ~releases)
             THEN UNCHANGED kernel
             ELSE Release(fd[t])
    BY DEF FcloseCall
  <1>2. pc[t] = "fclose" /\ fd[t] \in Fds /\ ThreadInv(t) /\ TypeOK
    BY DEF FcloseCall, IInv, ThreadInv
  <1>d. PICK d \in Fds : d = fd[t]
    BY <1>2
  <1>3. UNCHANGED kernel \/ (table[fd[t]] # None /\ Released(d))
    BY <1>1, <1>2, <1>d, ReleaseOwn
  <1>k. /\ table' \in [Fds -> Files \cup {None}]
        /\ owner' \in [Files -> Threads \cup {None}]
        /\ \A f \in Files : owner'[f] # None <=> \E e \in Fds : table'[e] = f
        /\ link' \in [Files -> {"idle", "connecting", "connected"}]
        /\ cloexec' \in SUBSET Fds /\ guarded' \in SUBSET Fds
    <2>1. CASE UNCHANGED kernel
      BY <2>1, <1>2 DEF kernel, TypeOK
    <2>2. CASE table[d] # None /\ Released(d)
      BY <2>2 DEF Released
    <2> QED
      BY <1>d, <1>3, <2>1, <2>2
  <1>4. CASE errno = "EINTR"
    <2>1. /\ pc' = [pc EXCEPT ![t] = "undefined"]
          /\ interrupts' = [interrupts EXCEPT ![t] = @ + 1] /\ interrupts[t] < MaxInterrupts
          /\ wronged' /\ wronged' = TRUE /\ cut' = TRUE
          /\ UNCHANGED <<releases, fd, fd2, status, last>>
      BY <1>1, <1>4 DEF TriesAgain, MayMeet
    <2>2. TypeOK'
      BY <2>1, <1>2, <1>k DEF TypeOK
    <2>3. OthersKept' /\ NotInherited' /\ ThreadInv(t)'
      BY <2>1, <1>2, <1>d DEF OthersKept, NotInherited, ThreadInv, TypeOK
    <2> QED
      BY <2>1, <2>2, <2>3, <1>2, <1>d, OthersStep DEF TypeOK
  <1>5. CASE errno # "EINTR"
    <2>1. /\ Return(t, errno = "none")
          /\ wronged' = (wronged \/ (table[fd[t]] # None /\ ~Mine(t, fd[t])))
          /\ cut' = cut
      BY <1>1, <1>2, <1>d, <1>5 DEF TriesAgain, Succeeds, TypeOK
    <2>2. Returned(t, errno = "none")
      BY <2>1, <1>2, <1>d, ReturnCall
    <2>3. TypeOK'
      BY <2>1, <2>2, <1>2, <1>k DEF TypeOK, Returned
    <2>4. OthersKept' /\ NotInherited'
      BY <2>1, <1>2, <1>d, <1>3
         DEF OthersKept, NotInherited, IInv, Released, kernel, ThreadInv, TypeOK
    <2>5. ThreadInv(t)'
      BY <2>2, <1>2, <1>d DEF ThreadInv, Returned
    <2>6. ~wronged' =>
            \A u \in Threads \ {t}, e \in Fds :
              /\ Mine(u, e)' <=> Mine(u, e)
              /\ Mine(u, e) => table'[e] = table[e] /\ link'[table[e]] = link[table[e]]
      <3>1. CASE UNCHANGED kernel
        BY <3>1 DEF kernel, Mine
      <3>2. CASE table[fd[t]] # None /\ Released(d)
        BY <2>1, <3>2, <1>2, <1>d, ReleaseMine
      <3> QED
        BY <1>3, <3>1, <3>2
    <2> QED
      BY <2>1, <2>2, <2>3, <2>4, <2>5, <2>6, OthersStep DEF Returned
  <1> QED
    BY <1>4, <1>5

(* The two steps of xcp_fd_set_close_on_exec change one flag of an own     *)
(* descriptor.                                                             *)
LEMMA FlagSteps ==
  ASSUME IInv, NEW t \in Threads, GetFd(t) \/ SetFd(t)
  PROVE  IInv'
  <1> USE DescriptorAssumption
  <1>1. fd[t] \in Fds /\ fd2[t] \in Fds /\ ThreadInv(t) /\ TypeOK /\ pc[t] \in {"getfd", "setfd"}
    BY DEF GetFd, SetFd, IInv, ThreadInv
  <1>2. /\ UNCHANGED <<table, owner, link, cut, wronged>>
        /\ \A u \in Threads, d \in Fds : Mine(u, d)' <=> Mine(u, d)
    BY DEF GetFd, SetFd, kernel, history, Mine
  <1>3. CASE pc[t] = "getfd" /\ table[fd[t]] # None
    <2>1. /\ pc' = [pc EXCEPT ![t] = "setfd"]
          /\ UNCHANGED <<releases, fd, fd2, status, interrupts, last, kernel, history>>
      BY <1>3 DEF GetFd, SetFd
    <2>2. TypeOK' /\ OthersKept' /\ NotInherited'
      BY <2>1, <1>1 DEF TypeOK, OthersKept, NotInherited, kernel, history, IInv
    <2>3. ThreadInv(t)'
      BY <2>1, <1>1, <1>3 DEF ThreadInv, kernel, history, TypeOK, Mine
    <2> QED
      BY <2>1, <2>2, <2>3, <1>1, <1>2, OthersStep DEF TypeOK
  <1>4. CASE pc[t] = "setfd" \/ table[fd[t]] = None
    <2>1. PICK ok \in BOOLEAN : Returned(t, ok)
      BY <1>1, <1>4, ReturnCall DEF GetFd, SetFd, Succeeds
    <2>2. /\ cloexec' \in SUBSET Fds /\ guarded' \in SUBSET Fds
          /\ NotInherited'
      <3>1. CASE pc[t] = "getfd"
        BY <3>1, <1>1 DEF GetFd, SetFd, kernel, history, NotInherited, IInv, TypeOK
      <3>2. CASE pc[t] = "setfd"
        <4>1. PICK errno : /\ cloexec' = IF errno = "none" THEN SetFlag(fd[t], status[t]) ELSE cloexec
                           /\ guarded' = IF Mine(t, fd[t]) THEN Known(fd[t], status[t], errno) ELSE guarded
          BY <3>2 DEF GetFd, SetFd
        <4>2. ~wronged => Mine(t, fd[t])
          BY <3>2, <1>1 DEF ThreadInv
        <4> QED
          BY <4>1, <4>2, <1>1, <1>2 DEF SetFlag, Known, NotInherited, IInv, TypeOK
      <3> QED
        BY <1>1, <3>1, <3>2
    <2>3. TypeOK' /\ OthersKept'
      BY <2>1, <2>2, <1>1, <1>2 DEF TypeOK, Returned, OthersKept, IInv
    <2>4. ThreadInv(t)'
      BY <2>1, <1>1 DEF ThreadInv, Returned
    <2> QED
      BY <2>1, <2>2, <2>3, <2>4, <1>2, OthersStep DEF Returned
  <1> QED
    BY <1>1, <1>3, <1>4

(* xcp_sock_connect keeps the invariant: its first attempt finds the socket*)
(* idle, later ones what the first has left.                               *)
LEMMA ConnectStep ==
  ASSUME IInv, NEW t \in Threads, ConnectCall(t)
  PROVE  IInv'
  <1> USE DescriptorAssumption
  <1>1. pc[t] = "connect" /\ fd[t] \in Fds /\ ThreadInv(t) /\ TypeOK
    BY DEF ConnectCall, IInv, ThreadInv
  <1>2. /\ UNCHANGED <<table, owner, cloexec, guarded, cut, wronged>>
        /\ \A u \in Threads, d \in Fds : Mine(u, d)' <=> Mine(u, d)
    BY DEF ConnectCall, kernel, history, Mine
  <1>3. CASE table[fd[t]] = None
    <2>1. Returned(t, FALSE) /\ UNCHANGED link
      BY <1>1, <1>3, ReturnCall DEF ConnectCall, kernel
    <2>2. TypeOK' /\ OthersKept' /\ NotInherited'
      BY <2>1, <1>1, <1>2 DEF TypeOK, Returned, OthersKept, NotInherited, IInv
    <2>3. ThreadInv(t)'
      BY <2>1, <1>1, <1>2, <1>3 DEF ThreadInv, Returned, Mine
    <2> QED
      BY <2>1, <2>2, <2>3, <1>2, OthersStep DEF Returned
  <1>4. CASE table[fd[t]] # None
    <2>1. PICK errno \in {"none", "ECONNREFUSED", "EINTR", "EALREADY", "EISCONN"},
               next \in {"idle", "connecting", "connected"} :
            /\ ConnectOutcome(link[table[fd[t]]], errno, next)
            /\ MayMeet(t, errno)
            /\ GoesOn(t, errno)
            /\ link' = [link EXCEPT ![table[fd[t]]] = next]
            /\ UNCHANGED <<table, owner, cloexec, guarded>>
      BY <1>4 DEF ConnectCall
    <2>2. IF errno = "EINTR" THEN Retried(t) ELSE Returned(t, errno = "none")
      BY <2>1, <1>1, TryAgain
    <2>f. PICK f \in Files : f = table[fd[t]]
      <3>1. table \in [Fds -> Files \cup {None}]
        BY <1>1 DEF TypeOK
      <3>2. table[fd[t]] \in Files
        BY <3>1, <1>1, <1>4
      <3> QED
        BY <3>2
    <2>l. /\ link' \in [Files -> {"idle", "connecting", "connected"}] /\ link'[f] = next
          /\ \A g \in Files \ {f} : link'[g] = link[g]
      BY <2>1, <2>f, <1>1 DEF TypeOK
    <2>3. TypeOK' /\ OthersKept' /\ NotInherited'
      <3>1. OthersKept' /\ NotInherited'
        BY <1>2 DEF OthersKept, NotInherited, IInv
      <3>2. CASE errno = "EINTR"
        BY <3>1, <3>2, <2>2, <2>l, <1>1, <1>2 DEF TypeOK, Retried
      <3>3. CASE errno # "EINTR"
        BY <3>1, <3>3, <2>2, <2>l, <1>1, <1>2 DEF TypeOK, Returned
      <3> QED
        BY <3>1, <3>2, <3>3
    <2>4. table'[fd[t]] = f /\ link'[f] = next
      BY <2>l, <2>f, <1>2
    <2>5. ThreadInv(t)'
      <3>1. CASE errno = "EINTR"
        BY <3>1, <2>2, <1>1, <1>2 DEF ThreadInv, Retried, Mine
      <3>2. CASE errno # "EINTR"
        <4>1. /\ pc'[t] = "idle" /\ last'[t].op = "connect" /\ last'[t].fd = fd[t]
              /\ last'[t].ok = (errno = "none") /\ last'[t].retried = (interrupts[t] > 0)
          BY <3>2, <2>2, <1>1 DEF Returned
        <4>2. ~wronged => Mine(t, fd[t])
          BY <1>1 DEF ThreadInv
        <4>3. errno = "none" => next = "connected"
          BY <2>1 DEF ConnectOutcome
        <4>4. errno # "none" /\ interrupts[t] = 0 /\ ~wronged => next = "idle"
          BY <2>1, <3>2, <1>1 DEF ConnectOutcome, ThreadInv
        <4> QED
          <5>1. ~wronged' => Mine(t, fd[t]) /\ table'[fd[t]] # None /\ owner'[table'[fd[t]]] = t
            BY <4>2, <1>2 DEF Mine
          <5>2. /\ last'[t].ok => link'[f] = "connected"
                /\ ~wronged' /\ ~last'[t].ok /\ ~last'[t].retried => link'[f] = "idle"
            <6>1. interrupts[t] > 0 \/ interrupts[t] = 0
              BY <1>1 DEF TypeOK
            <6> QED
              BY <6>1, <4>1, <4>3, <4>4, <2>l, <1>2, Zenon
          <5> QED
            BY <4>1, <5>1, <5>2, <2>4, <1>1 DEF ThreadInv, Mine
      <3> QED
        BY <3>1, <3>2
    <2>6. ~wronged' =>
            \A u \in Threads \ {t}, d \in Fds :
              /\ Mine(u, d)' <=> Mine(u, d)
              /\ Mine(u, d) => table'[d] = table[d] /\ link'[table[d]] = link[table[d]]
      BY <2>l, <2>f, <1>1, <1>2 DEF ThreadInv, Mine, TypeOK
    <2>7. \A u \in Threads \ {t} :
            pc'[u] = pc[u] /\ fd'[u] = fd[u] /\ fd2'[u] = fd2[u] /\ last'[u] = last[u]
            /\ interrupts'[u] = interrupts[u] /\ status'[u] = status[u]
      BY <2>2 DEF Returned, Retried
    <2> QED
      BY <2>3, <2>5, <2>6, <2>7, <1>2, OthersStep
  <1> QED
    BY <1>3, <1>4

(* A free descriptor becomes another name of the caller's file, or takes   *)
(* the place of the caller's own; the others keep what is theirs.          *)
LEMMA ReplaceOwn ==
  ASSUME TypeOK, NEW t \in Threads, NEW d \in Fds, NEW e \in Fds, d # e,
         table[d] # None, Replace(d, e)
  PROVE  /\ table' \in [Fds -> Files \cup {None}]
         /\ owner' \in [Files -> Threads \cup {None}]
         /\ \A f \in Files : owner'[f] # None <=> \E c \in Fds : table'[c] = f
         /\ link' \in [Files -> {"idle", "connecting", "connected"}]
         /\ cloexec' \in SUBSET Fds /\ guarded' \in SUBSET Fds
         /\ guarded \subseteq cloexec => guarded' \subseteq cloexec'
         /\ Mine(t, d) /\ (table[e] = None \/ Mine(t, e)) =>
              \A u \in Threads \ {t}, c \in Fds :
                /\ Mine(u, c)' <=> Mine(u, c)
                /\ Mine(u, c) => table'[c] = table[c] /\ link'[table[c]] = link[table[c]]
  <1> USE DescriptorAssumption DEF TypeOK
  <1>1. /\ table[d] \in Files /\ table' = [table EXCEPT ![e] = table[d]]
        /\ table' \in [Fds -> Files \cup {None}]
        /\ cloexec' \in SUBSET Fds /\ guarded' \in SUBSET Fds
        /\ guarded \subseteq cloexec => guarded' \subseteq cloexec'
    BY DEF Replace
  <1>2. CASE table[e] = None \/ \E c \in Fds \ {e} : table[c] = table[e]
    <2>1. UNCHANGED <<owner, link>>
      BY <1>2 DEF Replace
    <2>2. \A f \in Files : owner'[f] # None <=> \E c \in Fds : table'[c] = f
      BY <1>1, <1>2, <2>1
    <2>3. ASSUME NEW u \in Threads \ {t}, NEW c \in Fds, Mine(t, d), table[e] = None \/ Mine(t, e)
          PROVE  /\ Mine(u, c)' <=> Mine(u, c)
                 /\ Mine(u, c) => table'[c] = table[c] /\ link'[table[c]] = link[table[c]]
      BY <1>1, <2>1, <2>3 DEF Mine
    <2> QED
      BY <1>1, <2>1, <2>2, <2>3
  <1>3. CASE table[e] # None /\ \A c \in Fds \ {e} : table[c] # table[e]
    <2>f. PICK f \in Files : f = table[e]
      BY <1>3
    <2>1. owner' = [owner EXCEPT ![f] = None] /\ link' = [link EXCEPT ![f] = "idle"]
      BY <1>3, <2>f DEF Replace
    <2>2. \A g \in Files : owner'[g] # None <=> \E c \in Fds : table'[c] = g
      BY <1>1, <1>3, <2>f, <2>1
    <2>3. ASSUME NEW u \in Threads \ {t}, NEW c \in Fds, Mine(t, d), table[e] = None \/ Mine(t, e)
          PROVE  /\ Mine(u, c)' <=> Mine(u, c)
                 /\ Mine(u, c) => table'[c] = table[c] /\ link'[table[c]] = link[table[c]]
      BY <1>1, <1>3, <2>f, <2>1, <2>3 DEF Mine
    <2> QED
      BY <1>1, <2>1, <2>2, <2>3
  <1> QED
    BY <1>2, <1>3

(* xcp_fd_dup keeps the invariant: what it replaces is an own descriptor   *)
(* or was free at the call, and it takes the flag away.                    *)
LEMMA DupStep ==
  ASSUME IInv, NEW t \in Threads, DupCall(t)
  PROVE  IInv'
  <1> USE DescriptorAssumption
  <1>1. /\ pc[t] = "dup2" /\ ThreadInv(t) /\ TypeOK
        /\ ~wronged => Mine(t, fd[t]) /\ (Mine(t, fd2[t]) \/ status[t])
    BY DEF DupCall, IInv, ThreadInv
  <1>d. PICK d \in Fds, e \in Fds : d = fd[t] /\ e = fd2[t]
    BY <1>1 DEF ThreadInv
  <1>2. PICK errno \in IF table[fd[t]] = None THEN {"EBADF"} ELSE {"none", "EINTR", "EBUSY"} :
          /\ MayMeet(t, errno)
          /\ GoesOn(t, errno)
          /\ IF errno = "none" /\ fd[t] # fd2[t]
             THEN /\ Replace(fd[t], fd2[t])
                  /\ wronged' = (wronged \/ (table[fd2[t]] # None /\ ~Mine(t, fd2[t])))
                  /\ cut' = (cut \/ (table[fd2[t]] # None /\ status[t]))
             ELSE UNCHANGED <<kernel, history>>
    BY DEF DupCall
  <1>3. IF errno = "EINTR" THEN Retried(t) ELSE Returned(t, errno = "none")
    BY <1>1, <1>2, TryAgain
  <1>4. \A u \in Threads \ {t} :
          pc'[u] = pc[u] /\ fd'[u] = fd[u] /\ fd2'[u] = fd2[u] /\ last'[u] = last[u]
          /\ interrupts'[u] = interrupts[u] /\ status'[u] = status[u]
    BY <1>3 DEF Returned, Retried
  <1>5. CASE ~(errno = "none" /\ d # e)
    <2>1. /\ UNCHANGED <<kernel, cut, wronged>>
          /\ \A u \in Threads, c \in Fds : Mine(u, c)' <=> Mine(u, c)
      BY <1>2, <1>5, <1>d DEF kernel, history, Mine
    <2>2. TypeOK' /\ OthersKept' /\ NotInherited'
      BY <2>1, <1>1, <1>3 DEF TypeOK, Returned, Retried, kernel, OthersKept, NotInherited, IInv
    <2>3. ThreadInv(t)'
      <3>1. CASE errno = "EINTR"
        BY <3>1, <2>1, <1>1, <1>3 DEF ThreadInv, Retried, kernel, Mine
      <3>2. CASE errno # "EINTR"
        BY <3>2, <1>1, <1>3 DEF ThreadInv, Returned
      <3> QED
        BY <3>1, <3>2
    <2> QED
      BY <2>1, <2>2, <2>3, <1>4, OthersStep DEF kernel
  <1>6. CASE errno = "none" /\ d # e
    <2>1. /\ table[d] # None /\ Replace(d, e)
          /\ cut' = (cut \/ (table[e] # None /\ status[t]))
          /\ wronged' = (wronged \/ (table[e] # None /\ ~Mine(t, e)))
      BY <1>2, <1>6, <1>d
    <2>2. Returned(t, errno = "none")
      BY <1>3, <1>6
    <2>3. TypeOK' /\ NotInherited'
      BY <2>1, <2>2, <1>1, <1>6, ReplaceOwn DEF TypeOK, Returned, NotInherited, IInv
    <2>4. OthersKept' /\ ThreadInv(t)'
      BY <2>1, <2>2, <1>1, <1>d DEF OthersKept, ThreadInv, Returned, IInv, TypeOK
    <2>5. ~wronged' =>
            \A u \in Threads \ {t}, c \in Fds :
              /\ Mine(u, c)' <=> Mine(u, c)
              /\ Mine(u, c) => table'[c] = table[c] /\ link'[table[c]] = link[table[c]]
      BY <2>1, <1>1, <1>d, <1>6, ReplaceOwn DEF TypeOK
    <2> QED
      BY <2>1, <2>3, <2>4, <2>5, <1>1, <1>4, OthersStep DEF TypeOK
  <1> QED
    BY <1>5, <1>6

-----------------------------------------------------------------------------
(* The program, the kernel and the theorems.                               *)

(* A thread that opens a file is given a number that is free.              *)
LEMMA OpenStep ==
  ASSUME IInv, NEW t \in Threads, NEW f \in Files, Open(t, f)
  PROVE  IInv'
  <1> USE DescriptorAssumption
  <1>1. PICK d \in Fds : table[d] = None /\ table' = [table EXCEPT ![d] = f]
    BY DEF Open
  <1>2. /\ pc[t] = "idle" /\ owner[f] = None /\ owner' = [owner EXCEPT ![f] = t]
        /\ last' = [last EXCEPT ![t] = Nothing]
        /\ UNCHANGED <<releases, link, cloexec, guarded, cut, wronged, pc, fd, fd2, status, interrupts>>
    BY DEF Open, history
  <1>3. TypeOK /\ ThreadInv(t) /\ \A e \in Fds : table[e] # f
    BY <1>2 DEF IInv, TypeOK
  <1>4. TypeOK'
    <2>1. \A g \in Files : owner'[g] # None <=> \E e \in Fds : table'[e] = g
      BY <1>1, <1>2, <1>3 DEF TypeOK
    <2>2. last' \in [Threads -> [op : {"none", "close", "connect"}, fd : Fds \cup {None},
                                ok : BOOLEAN, retried : BOOLEAN]]
      BY <1>2, <1>3, NothingIsOne DEF TypeOK
    <2> QED
      BY <2>1, <2>2, <1>1, <1>2, <1>3 DEF TypeOK
  <1>5. OthersKept' /\ NotInherited'
    BY <1>2 DEF OthersKept, NotInherited, IInv
  <1>6. ThreadInv(t)'
    BY <1>2, <1>3 DEF ThreadInv, TypeOK, Nothing
  <1>7. ASSUME NEW u \in Threads \ {t}, NEW e \in Fds
        PROVE  /\ Mine(u, e)' <=> Mine(u, e)
               /\ Mine(u, e) => table'[e] = table[e] /\ link'[table[e]] = link[table[e]]
    BY <1>1, <1>2, <1>3 DEF Mine, TypeOK
  <1> QED
    BY <1>2, <1>3, <1>4, <1>5, <1>6, <1>7, OthersStep DEF TypeOK

(* A connection that goes on in the kernel ends without a thread being     *)
(* told.                                                                   *)
LEMMA SettleStep ==
  ASSUME IInv, NEW f \in Files, Settle(f)
  PROVE  IInv'
  <1>1. PICK state \in {"idle", "connected"} : link' = [link EXCEPT ![f] = state]
    BY DEF Settle
  <1>2. link[f] = "connecting" /\ UNCHANGED <<releases, table, owner, cloexec, guarded, history, call>>
    BY DEF Settle
  <1>3. TypeOK' /\ OthersKept' /\ NotInherited'
    BY <1>1, <1>2 DEF IInv, TypeOK, OthersKept, NotInherited, history, call
  <1>4. ASSUME NEW t \in Threads
        PROVE  ThreadInv(t)'
    <2>1. ThreadInv(t) /\ link \in [Files -> {"idle", "connecting", "connected"}]
      BY DEF IInv, TypeOK
    <2>2. \A g : g \in Files /\ link[g] # "connecting" => link'[g] = link[g]
      BY <1>1, <1>2, <2>1
    <2>3. \A d \in Fds : Mine(t, d) => table[d] \in Files
      BY DEF Mine, IInv, TypeOK
    <2> QED
      BY <1>2, <2>1, <2>2, <2>3 DEF ThreadInv, Mine, history, call
  <1> QED
    BY <1>3, <1>4 DEF IInv

(* Every step keeps the invariant.                                         *)
LEMMA NextInv ==
  ASSUME IInv, [Next]_vars
  PROVE  IInv'
  <1>1. ASSUME NEW t \in Threads, NEW d \in Fds,
               \/ Close(t, d) \/ FileClose(t, d)
               \/ \E d2 \in Fds : Dup(t, d, d2)
               \/ \E flag \in BOOLEAN : SetCloseOnExec(t, d, flag)
        PROVE  IInv'
    BY <1>1, BeginStep DEF Close, FileClose, Dup, SetCloseOnExec
  <1>2. ASSUME NEW t \in Threads, NEW d \in Fds, SockConnect(t, d)
        PROVE  IInv'
    BY <1>2, BeginStep DEF SockConnect
  <1>3. ASSUME NEW t \in Threads, CloseCall(t) \/ FcloseCall(t) \/ DupCall(t)
        PROVE  IInv'
    BY <1>3, CloseStep, FcloseStep, DupStep
  <1>4. ASSUME NEW t \in Threads, GetFd(t) \/ SetFd(t) \/ ConnectCall(t)
        PROVE  IInv'
    BY <1>4, FlagSteps, ConnectStep
  <1>5. ASSUME NEW f \in Files, Settle(f) \/ \E t \in Threads : Open(t, f)
        PROVE  IInv'
    BY <1>5, OpenStep, SettleStep
  <1>6. CASE UNCHANGED vars
    <2>1. /\ UNCHANGED <<releases, table, owner, link, cloexec, guarded, cut, wronged>>
          /\ UNCHANGED <<pc, fd, fd2, status, interrupts, last>>
      BY <1>6 DEF vars, kernel, history, call
    <2> QED
      BY <2>1 DEF IInv, TypeOK, OthersKept, NotInherited, ThreadInv, Mine
  <1> QED
    BY <1>1, <1>2, <1>3, <1>4, <1>5, <1>6 DEF Next

(* The inductive invariant holds for any number of threads, descriptors,   *)
(* files and interruptions.                                                *)
LEMMA Invariant == Spec => []IInv
  BY InitInv, NextInv, PTL DEF Spec

(* The variables of the calls and of the kernel keep their types, and a    *)
(* file is somebody's exactly while a descriptor refers to it.             *)
THEOREM TypeCorrect == Spec => []TypeOK
  BY Invariant, PTL DEF IInv

(* Whatever the threads do, nothing of another thread is closed, and no    *)
(* stream twice, before an EINTR has come with its descriptor gone: the    *)
(* loops of io.c 27-35 and file.c 26-33 add no other way to lose a file.   *)
THEOREM OthersAreKept == Spec => []OthersKept
  BY Invariant, PTL DEF IInv

(* As long as nobody has lost anything, whoever returns from xcp_fd_close  *)
(* no longer has the descriptor, on systems of either kind (io.c 27-35).   *)
THEOREM CloseIsDone == Spec => []CloseDone
  <1>1. IInv => CloseDone
    BY DEF IInv, ThreadInv, CloseDone
  <1> QED
    BY <1>1, Invariant, PTL

(* A success of xcp_sock_connect means a connected socket, and a failure   *)
(* without an EINTR a socket on which nothing goes on (network.c 25-32).   *)
THEOREM ConnectIsTold == Spec => []ConnectTold
  <1>1. IInv => ConnectTold
    BY DEF IInv, ThreadInv, ConnectTold
  <1> QED
    BY <1>1, Invariant, PTL

(* What a caller of xcp_fd_set_close_on_exec believes closed on exec is    *)
(* (io.c 45-60), whatever other threads do with their descriptors.         *)
THEOREM FlagIsKept == Spec => []NotInherited
  BY Invariant, PTL DEF IInv
=============================================================================
