---------------------------- MODULE Descriptors -----------------------------
(***************************************************************************)
(* xcp_fd_close, xcp_fd_dup and xcp_fd_set_close_on_exec of src/src/io.c,  *)
(* xcp_file_close of file.c and xcp_sock_connect of network.c, called by   *)
(* threads that share the descriptors of their process.                    *)
(*                                                                         *)
(* A thread uses its own files only, but may duplicate one onto a number   *)
(* that is free; a socket blocks.  One step of a call is one system call   *)
(* with its outcome; opening and what becomes of an interrupted connection *)
(* are up to the program and the kernel.                                   *)
(***************************************************************************)
EXTENDS Integers

CONSTANTS
  Threads,
  Fds,            \* the descriptor numbers
  Files,          \* open files of the process
  None,           \* no file, no thread
  MaxInterrupts   \* bound on the EINTRs one call meets

ASSUME DescriptorAssumption ==
  /\ Fds \subseteq Nat /\ MaxInterrupts \in Nat
  /\ None \notin Threads \cup Files

VARIABLES
  releases,       \* close has released the descriptor when it fails with EINTR
  table,          \* the file behind each descriptor
  owner,          \* the thread that has opened it
  link,           \* a socket's connection: "idle", "connecting" or "connected"
  cloexec,        \* the descriptors with FD_CLOEXEC
  pc,             \* the system call a thread is at, or "idle"
  fd, fd2, status,\* the arguments of its call; status of a dup: whether fd2 was free
  interrupts,     \* how often the call has been tried again
  last,           \* the close or connect a thread has just returned from, and its result
  guarded,        \* history: descriptors with close-on-exec, as far as callers know
  cut,            \* history: an EINTR has come with the descriptor or stream gone, or a
                  \* number that was free for the caller of dup has been taken meanwhile
  wronged         \* history: something has been closed that was another's, or twice

kernel  == <<table, owner, link, cloexec, guarded>>
history == <<cut, wronged>>
call    == <<pc, fd, fd2, status, interrupts, last>>
vars    == <<releases, kernel, history, call>>

Nothing == [op |-> "none", fd |-> None, ok |-> TRUE, retried |-> FALSE]

TypeOK ==
  /\ releases \in BOOLEAN /\ cut \in BOOLEAN /\ wronged \in BOOLEAN
  /\ table \in [Fds -> Files \cup {None}]
  /\ owner \in [Files -> Threads \cup {None}]
  /\ \A f \in Files : owner[f] # None <=> \E d \in Fds : table[d] = f
  /\ link \in [Files -> {"idle", "connecting", "connected"}]
  /\ cloexec \in SUBSET Fds /\ guarded \in SUBSET Fds
  /\ pc \in [Threads -> {"idle", "close", "fclose", "dup2", "getfd", "setfd", "connect", "undefined"}]
  /\ fd \in [Threads -> Fds \cup {None}] /\ fd2 \in [Threads -> Fds \cup {None}]
  /\ status \in [Threads -> BOOLEAN]
  /\ interrupts \in [Threads -> 0 .. MaxInterrupts]
  /\ last \in [Threads -> [op : {"none", "close", "connect"}, fd : Fds \cup {None}, ok : BOOLEAN, retried : BOOLEAN]]

Init ==
  /\ releases \in BOOLEAN
  /\ table = [d \in Fds |-> None] /\ owner = [f \in Files |-> None]
  /\ link = [f \in Files |-> "idle"] /\ cloexec = {} /\ guarded = {}
  /\ pc = [t \in Threads |-> "idle"]
  /\ fd = [t \in Threads |-> None] /\ fd2 = [t \in Threads |-> None]
  /\ status = [t \in Threads |-> FALSE] /\ interrupts = [t \in Threads |-> 0]
  /\ last = [t \in Threads |-> Nothing]
  /\ cut = FALSE /\ wronged = FALSE

Mine(t, d) == table[d] # None /\ owner[table[d]] = t

-----------------------------------------------------------------------------
(* Calls begin, are tried again and return.                                *)

Begin(t, op, d, d2, flag) ==
  /\ pc[t] = "idle" /\ Mine(t, d)
  /\ pc' = [pc EXCEPT ![t] = op]
  /\ fd' = [fd EXCEPT ![t] = d]
  /\ fd2' = [fd2 EXCEPT ![t] = d2]
  /\ status' = [status EXCEPT ![t] = flag]
  /\ interrupts' = [interrupts EXCEPT ![t] = 0]
  /\ last' = [last EXCEPT ![t] = Nothing]
  /\ UNCHANGED <<releases, kernel, history>>

Close(t, d) == Begin(t, "close", d, d, FALSE)

FileClose(t, d) == Begin(t, "fclose", d, d, FALSE)

Dup(t, d, d2) ==
  (Mine(t, d2) \/ table[d2] = None) /\ Begin(t, "dup2", d, d2, table[d2] = None)

SetCloseOnExec(t, d, flag) == Begin(t, "getfd", d, d, flag)

SockConnect(t, d) ==
  Mine(t, d) /\ link[table[d]] = "idle" /\ Begin(t, "connect", d, d, FALSE)

(* What the loops of xcp_fd_close, _fd_dup, _file_close and _sock_connect  *)
(* make of errno.                                                          *)
TriesAgain_Always(errno) == errno # "none"

TriesAgain_Never(errno) == FALSE

TriesAgain(errno) == errno = "EINTR"

Succeeds_Already(errno) == errno \in {"none", "EALREADY"}

Succeeds(errno) == errno = "none"

MayMeet(t, errno) == errno = "EINTR" => interrupts[t] < MaxInterrupts

Return(t, ok) ==
  /\ pc' = [pc EXCEPT ![t] = "idle"]
  /\ last' = [last EXCEPT ![t] =
                IF pc[t] \in {"close", "connect"}
                THEN [op |-> pc[t], fd |-> fd[t], ok |-> ok, retried |-> interrupts[t] > 0]
                ELSE Nothing]
  /\ fd' = [fd EXCEPT ![t] = None] /\ fd2' = [fd2 EXCEPT ![t] = None]
  /\ status' = [status EXCEPT ![t] = FALSE] /\ interrupts' = [interrupts EXCEPT ![t] = 0]
  /\ UNCHANGED releases

GoesOn(t, errno) ==
  IF TriesAgain(errno)
  THEN /\ interrupts' = [interrupts EXCEPT ![t] = @ + 1]
       /\ UNCHANGED <<releases, pc, fd, fd2, status, last>>
  ELSE Return(t, Succeeds(errno))

-----------------------------------------------------------------------------
(* The system calls.                                                       *)

(* The descriptor is free; its file goes with its last descriptor.         *)
Release(d) ==
  LET f      == table[d]
      isLast == \A e \in Fds \ {d} : table[e] # f
  IN  /\ table' = [table EXCEPT ![d] = None]
      /\ owner' = IF isLast THEN [owner EXCEPT ![f] = None] ELSE owner
      /\ link' = IF isLast THEN [link EXCEPT ![f] = "idle"] ELSE link
      /\ cloexec' = cloexec \ {d} /\ guarded' = guarded \ {d}

(* close: EBADF for a free descriptor; one that is not is released but     *)
(* when the call is interrupted on a system that keeps it.                 *)
CloseCall(t) ==
  /\ pc[t] = "close"
  /\ \E errno \in IF table[fd[t]] = None THEN {"EBADF"} ELSE {"none", "EIO", "EINTR"} :
       /\ MayMeet(t, errno)
       /\ GoesOn(t, errno)
       /\ IF errno = "EBADF" \/ (errno = "EINTR" /\ ~releases)
          THEN UNCHANGED <<kernel, history>>
          ELSE /\ Release(fd[t])
               /\ cut' = (cut \/ errno = "EINTR")
               /\ wronged' = (wronged \/ ~Mine(t, fd[t]))

(* fclose: the stream is gone, and its descriptor closed once, whatever is *)
(* returned; the next call with the same stream may do anything.           *)
FcloseCall(t) ==
  /\ pc[t] = "fclose"
  /\ \E errno \in IF table[fd[t]] = None THEN {"EBADF"} ELSE {"none", "EIO", "EINTR"} :
       /\ MayMeet(t, errno)
       /\ IF TriesAgain(errno)
          THEN /\ pc' = [pc EXCEPT ![t] = "undefined"]
               /\ interrupts' = [interrupts EXCEPT ![t] = @ + 1]
               /\ wronged' = TRUE
               /\ UNCHANGED <<releases, fd, fd2, status, last>>
          ELSE /\ Return(t, Succeeds(errno))
               /\ wronged' = (wronged \/ (table[fd[t]] # None /\ ~Mine(t, fd[t])))
       /\ cut' = (cut \/ errno = "EINTR")
       /\ IF errno = "EBADF" \/ (errno = "EINTR" /\ ~releases)
          THEN UNCHANGED kernel
          ELSE Release(fd[t])

(* dup2: fd2 gets the file of fd without FD_CLOEXEC, in one step.          *)
Replace(d, d2) ==
  LET f      == table[d2]
      isLast == f # None /\ \A e \in Fds \ {d2} : table[e] # f
  IN  /\ table' = [table EXCEPT ![d2] = table[d]]
      /\ owner' = IF isLast THEN [owner EXCEPT ![f] = None] ELSE owner
      /\ link' = IF isLast THEN [link EXCEPT ![f] = "idle"] ELSE link
      /\ cloexec' = cloexec \ {d2} /\ guarded' = guarded \ {d2}

DupCall(t) ==
  /\ pc[t] = "dup2"
  /\ \E errno \in IF table[fd[t]] = None THEN {"EBADF"} ELSE {"none", "EINTR", "EBUSY"} :
       /\ MayMeet(t, errno)
       /\ GoesOn(t, errno)
       /\ IF errno = "none" /\ fd[t] # fd2[t]
          THEN /\ Replace(fd[t], fd2[t])
               /\ wronged' = (wronged \/ (table[fd2[t]] # None /\ ~Mine(t, fd2[t])))
               /\ cut' = (cut \/ (table[fd2[t]] # None /\ status[t]))
          ELSE UNCHANGED <<kernel, history>>

(* fcntl with F_GETFD; the one flag there is makes what it returns matter  *)
(* for F_SETFD only by being no error.                                     *)
GetFd(t) ==
  /\ pc[t] = "getfd"
  /\ IF table[fd[t]] = None
     THEN Return(t, FALSE)
     ELSE pc' = [pc EXCEPT ![t] = "setfd"] /\ UNCHANGED <<releases, fd, fd2, status, interrupts, last>>
  /\ UNCHANGED <<kernel, history>>

SetFlag(d, flag) == IF flag THEN cloexec \cup {d} ELSE cloexec \ {d}

(* What a caller knows when the call has returned.                         *)
Known_Unchecked(d, flag, errno) == IF flag THEN guarded \cup {d} ELSE guarded \ {d}

Known(d, flag, errno) ==
  IF errno = "none" /\ flag THEN guarded \cup {d} ELSE guarded \ {d}

SetFd(t) ==
  /\ pc[t] = "setfd"
  /\ \E errno \in IF table[fd[t]] = None THEN {"EBADF"} ELSE {"none", "EPERM"} :
       /\ Return(t, Succeeds(errno))
       /\ cloexec' = IF errno = "none" THEN SetFlag(fd[t], status[t]) ELSE cloexec
       /\ guarded' = IF Mine(t, fd[t]) THEN Known(fd[t], status[t], errno) ELSE guarded
  /\ UNCHANGED <<table, owner, link, history>>

(* connect on a blocking socket.  After an EINTR the first attempt goes on *)
(* (it does not for a local socket), and the next call waits for it, fails *)
(* with EALREADY, or comes too late, with EISCONN.                         *)
ConnectOutcome(state, errno, next) ==
  CASE errno = "none"         -> state # "connected" /\ next = "connected"
    [] errno = "ECONNREFUSED" -> state # "connected" /\ next = "idle"
    [] errno = "EINTR"        -> state # "connected" /\ next \in {state, "connecting"}
    [] errno = "EALREADY"     -> state = "connecting" /\ next = state
    [] errno = "EISCONN"      -> state = "connected" /\ next = state
    [] OTHER                  -> FALSE

ConnectCall(t) ==
  /\ pc[t] = "connect"
  /\ IF table[fd[t]] = None
     THEN Return(t, FALSE) /\ UNCHANGED kernel
     ELSE \E errno \in {"none", "ECONNREFUSED", "EINTR", "EALREADY", "EISCONN"},
             next \in {"idle", "connecting", "connected"} :
            /\ ConnectOutcome(link[table[fd[t]]], errno, next)
            /\ MayMeet(t, errno)
            /\ GoesOn(t, errno)
            /\ link' = [link EXCEPT ![table[fd[t]]] = next]
            /\ UNCHANGED <<table, owner, cloexec, guarded>>
  /\ UNCHANGED history

-----------------------------------------------------------------------------
(* The program and the kernel.                                             *)

(* open, socket or accept returns the lowest free descriptor.              *)
Open(t, f) ==
  /\ pc[t] = "idle" /\ owner[f] = None
  /\ \E d \in Fds :
       /\ table[d] = None /\ \A e \in Fds : table[e] = None => d <= e
       /\ table' = [table EXCEPT ![d] = f]
  /\ owner' = [owner EXCEPT ![f] = t]
  /\ last' = [last EXCEPT ![t] = Nothing]
  /\ UNCHANGED <<releases, link, cloexec, guarded, history, pc, fd, fd2, status, interrupts>>

(* An attempt to connect that was interrupted succeeds or fails.           *)
Settle(f) ==
  /\ link[f] = "connecting"
  /\ \E state \in {"idle", "connected"} : link' = [link EXCEPT ![f] = state]
  /\ UNCHANGED <<releases, table, owner, cloexec, guarded, history, call>>

Next ==
  \/ \E t \in Threads, d \in Fds :
       \/ Close(t, d) \/ FileClose(t, d) \/ SockConnect(t, d)
       \/ \E d2 \in Fds : Dup(t, d, d2)
       \/ \E flag \in BOOLEAN : SetCloseOnExec(t, d, flag)
  \/ \E t \in Threads :
       \/ CloseCall(t) \/ FcloseCall(t) \/ DupCall(t) \/ GetFd(t) \/ SetFd(t) \/ ConnectCall(t)
       \/ \E f \in Files : Open(t, f)
  \/ \E f \in Files : Settle(f)

Spec == Init /\ [][Next]_vars

-----------------------------------------------------------------------------
(* Properties.                                                             *)

(* No call closes what belongs to another thread, or closes a stream a     *)
(* second time, unless a close has been interrupted with its descriptor    *)
(* gone, or the number a dup was given has been opened by another after    *)
(* the call (io.c 27-43, file.c 26-33): EINTR is the only error after      *)
(* which a call is made again.                                             *)
OthersKept == wronged => cut

(* After xcp_fd_close the caller no longer has the descriptor, whatever is *)
(* returned, on systems of either kind: this is what the loop is for.      *)
CloseDone ==
  ~wronged =>
    \A t \in Threads : pc[t] = "idle" /\ last[t].op = "close" => ~Mine(t, last[t].fd)

(* xcp_sock_connect returns no success for a socket that is not connected; *)
(* and after a failure nothing is connected or still being connected,      *)
(* unless the call met an EINTR, after which a failure may leave both      *)
(* (network.c 25-32).                                                      *)
ConnectTold ==
  ~wronged =>
    \A t \in Threads :
      pc[t] = "idle" /\ last[t].op = "connect" =>
        /\ last[t].ok => link[table[last[t].fd]] = "connected"
        /\ ~last[t].ok /\ ~last[t].retried => link[table[last[t].fd]] = "idle"

(* From the success of xcp_fd_set_close_on_exec with true on, until it is  *)
(* reset, closed or replaced, a descriptor is not inherited by a program   *)
(* that any thread may execute (io.c 45-60).                               *)
NotInherited == ~wronged => guarded \subseteq cloexec
=============================================================================
