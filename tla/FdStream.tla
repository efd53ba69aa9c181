------------------------------ MODULE FdStream ------------------------------
(***************************************************************************)
(* The stream functions of src/src/io.c and src/src/network.c at work:     *)
(* xcp_fd_write_all and xcp_sock_send_shared_fd, which ends in it, in one  *)
(* process, xcp_fd_read_all, with its xcp_fd_wait_read,                    *)
(* xcp_fd_wait_for_rdata and xcp_fd_read, in others, and a pipe or stream  *)
(* socket between them.                                                    *)
(*                                                                         *)
(* Bytes are the numbers 1, 2, 3, ... in the order in which the writing    *)
(* program means them to be read.  A caller goes on from the offset a      *)
(* failed call has reported; _send_shared_fd reports none, so after its    *)
(* failure the caller can only close.  A read, write or sendmsg that fails *)
(* with EINTR, EAGAIN or EWOULDBLOCK is tried again with the same          *)
(* arguments, so it changes nothing and is not a step; a poll that fails   *)
(* with EINTR is, as it starts its timeout afresh.                         *)
(***************************************************************************)
EXTENDS Integers, Sequences, FiniteSets

CONSTANTS
  Readers,
  Total,          \* bytes the writing program has to send
  Capacity,       \* bytes the pipe holds
  Counts,         \* values of `count' a caller of _read_all or _write_all uses
  Timeouts,       \* values of `timeout': 0 does not poll, a negative one waits for ever
  MaxInterrupts   \* bound on the EINTRs one wait meets

ASSUME StreamAssumption ==
  /\ Total \in Nat /\ Capacity \in Nat \ {0} /\ MaxInterrupts \in Nat
  /\ Counts \subseteq Nat /\ Timeouts \subseteq Int

ERRNO == -1       \* XCP_ERR_ERRNO

Bytes == 1 .. Total

VARIABLES
  pipe,           \* the bytes in transit
  closed,         \* the writer has closed its end
  wpc,            \* the writer: at its "sendmsg", at its "write", or "idle"
  wcount, wpos,   \* count and, counted from its start, how far the call has come
  sharing,        \* the call is a _send_shared_fd
  broken,         \* a _send_shared_fd has failed
  carriers,       \* the bytes that carry a descriptor
  openings,       \* history: the bytes with which a _send_shared_fd began
  base,           \* bytes sent according to the offsets _write_all has reported
  rpc,            \* xcp_fd_read_all: at its "poll" or its "read", or "idle"
  count, timeout, \* its arguments
  buf,            \* its buffer, up to pos
  left,           \* time until the poll returns 0
  waited,         \* time spent in this xcp_fd_wait_for_rdata
  interrupts,     \* EINTRs met by it
  ret,            \* what the last _read_all returned
  known           \* the bytes a caller has according to the offsets reported

writer == <<wpc, wcount, wpos, sharing, broken, carriers, openings, base>>
clock  == <<left, waited, interrupts>>
reader == <<rpc, count, timeout, buf, clock, ret, known>>
vars   == <<pipe, closed, writer, reader>>

TypeOK ==
  /\ pipe \in Seq(Bytes) /\ Len(pipe) <= Capacity
  /\ closed \in BOOLEAN
  /\ wpc \in {"idle", "sendmsg", "write"} /\ sharing \in BOOLEAN /\ broken \in BOOLEAN
  /\ carriers \in SUBSET Bytes /\ openings \in SUBSET Bytes
  /\ wcount \in Counts \cup {0} /\ wpos \in 0 .. Total /\ base \in 0 .. Total
  /\ rpc \in [Readers -> {"idle", "poll", "read"}]
  /\ count \in [Readers -> Counts \cup {0}] /\ timeout \in [Readers -> Timeouts \cup {0}]
  /\ buf \in [Readers -> Seq(Bytes)]
  /\ left \in [Readers -> Int] /\ waited \in [Readers -> Nat]
  /\ interrupts \in [Readers -> 0 .. MaxInterrupts]
  /\ ret \in [Readers -> Nat \cup {ERRNO}]
  /\ known \in [Readers -> Seq(Bytes)]

Init ==
  /\ pipe = << >> /\ closed = FALSE
  /\ wpc = "idle" /\ wcount = 0 /\ wpos = 0 /\ base = 0
  /\ sharing = FALSE /\ broken = FALSE /\ carriers = {} /\ openings = {}
  /\ rpc = [r \in Readers |-> "idle"]
  /\ count = [r \in Readers |-> 0] /\ timeout = [r \in Readers |-> 0]
  /\ buf = [r \in Readers |-> << >>]
  /\ left = [r \in Readers |-> 0] /\ waited = [r \in Readers |-> 0]
  /\ interrupts = [r \in Readers |-> 0]
  /\ ret = [r \in Readers |-> 0]
  /\ known = [r \in Readers |-> << >>]

-----------------------------------------------------------------------------
(* The writer.                                                             *)

MayWrite(n) == wpc = "idle" /\ ~closed /\ ~broken /\ base + n <= Total

(* xcp_fd_write_all(fd, buf, count, &offset) is called.                    *)
WriteAll(n) ==
  /\ MayWrite(n)
  /\ wpc' = "write" /\ wcount' = n
  /\ UNCHANGED <<pipe, closed, wpos, sharing, broken, carriers, openings, base, reader>>

(* xcp_sock_send_shared_fd(sock, buf, count, sharedFd) is called.          *)
SendSharedFd(n) ==
  /\ MayWrite(n)
  /\ wpc' = "sendmsg" /\ wcount' = n /\ sharing' = TRUE
  /\ openings' = IF n > 0 THEN openings \cup {base + 1} ELSE openings
  /\ UNCHANGED <<pipe, closed, wpos, broken, carriers, base, reader>>

(* The call returns: `pos' is stored through offset, or, when a descriptor *)
(* is shared, is known only if all was sent.                               *)
WriteReturns(pos) ==
  /\ wpc' = "idle" /\ wcount' = 0 /\ wpos' = 0 /\ sharing' = FALSE
  /\ base' = base + pos
  /\ broken' = (sharing /\ pos < wcount)

(* n bytes are taken by the pipe, any number that fits; it may be 0 only   *)
(* when nothing is left to send.                                           *)
Transfers(n) ==
  /\ n \in 0 .. wcount - wpos /\ (n = 0 <=> wcount = wpos)
  /\ Len(pipe) + n <= Capacity
  /\ pipe' = pipe \o [i \in 1 .. n |-> base + wpos + i]

(* After a transfer the call goes on with xcp_fd_write, or returns.        *)
GoesOn(n, step) ==
  IF wpos + n < wcount
  THEN wpos' = wpos + n /\ wpc' = step /\ UNCHANGED <<wcount, sharing, broken, base>>
  ELSE WriteReturns(wpos + n)

(* One write of the loop of _write_all.                                    *)
Write(n) ==
  /\ wpc = "write"
  /\ Transfers(n)
  /\ GoesOn(n, "write")
  /\ UNCHANGED <<closed, carriers, openings, reader>>

(* sendmsg: the descriptor goes with the first byte, and with none when    *)
(* there is none.  What is left is for _write_all.                         *)
AfterSendMsg_Again == "sendmsg"

AfterSendMsg == "write"

SendMsg(n) ==
  /\ wpc = "sendmsg"
  /\ Transfers(n)
  /\ carriers' = IF n > 0 THEN carriers \cup {base + wpos + 1} ELSE carriers
  /\ GoesOn(n, AfterSendMsg)
  /\ UNCHANGED <<closed, openings, reader>>

(* A write or the sendmsg fails for good, with EPIPE say.                  *)
WriteFails ==
  /\ wpc # "idle"
  /\ WriteReturns(wpos)
  /\ UNCHANGED <<pipe, closed, carriers, openings, reader>>

CloseWriter ==
  /\ wpc = "idle" /\ ~closed
  /\ closed' = TRUE
  /\ UNCHANGED <<pipe, writer, reader>>

-----------------------------------------------------------------------------
(* The readers.                                                            *)

(* The start of xcp_fd_wait_read: with a timeout it polls first.           *)
WaitRead(r, ms) ==
  /\ rpc' = [rpc EXCEPT ![r] = IF ms # 0 THEN "poll" ELSE "read"]
  /\ left' = [left EXCEPT ![r] = ms]
  /\ waited' = [waited EXCEPT ![r] = 0]
  /\ interrupts' = [interrupts EXCEPT ![r] = 0]

(* xcp_fd_read_all(fd, buf, count, timeout, &offset) is called.            *)
ReadAll(r, n, ms) ==
  /\ rpc[r] = "idle"
  /\ count' = [count EXCEPT ![r] = n]
  /\ timeout' = [timeout EXCEPT ![r] = ms]
  /\ WaitRead(r, ms)
  /\ UNCHANGED <<pipe, closed, writer, buf, ret, known>>

(* It returns `value', having stored the number of bytes in `bytes'        *)
(* through offset; the caller keeps that many.                             *)
ReadReturns(r, value, bytes) ==
  /\ rpc' = [rpc EXCEPT ![r] = "idle"]
  /\ ret' = [ret EXCEPT ![r] = value]
  /\ known' = [known EXCEPT ![r] = @ \o bytes]
  /\ buf' = [buf EXCEPT ![r] = << >>]
  /\ left' = [left EXCEPT ![r] = 0]
  /\ waited' = [waited EXCEPT ![r] = 0]
  /\ interrupts' = [interrupts EXCEPT ![r] = 0]
  /\ count' = [count EXCEPT ![r] = IF value = ERRNO THEN 0 ELSE @]
  /\ timeout' = [timeout EXCEPT ![r] = 0]

(* xcp_fd_wait_for_rdata: poll returns a positive value ...                *)
PollReady(r) ==
  /\ rpc[r] = "poll"
  /\ pipe # << >> \/ closed
  /\ rpc' = [rpc EXCEPT ![r] = "read"]
  /\ UNCHANGED <<pipe, closed, writer, count, timeout, buf, clock, ret, known>>

(* ... or 0: XCP_ERR_TIMEOUT, which _read_all turns into XCP_ERR_ERRNO ... *)
Expired_NoOffset(r) == ReadReturns(r, ERRNO, << >>)

Expired_WaitsAgain(r) ==
  WaitRead(r, timeout[r]) /\ UNCHANGED <<count, timeout, buf, ret, known>>

Expired(r) == ReadReturns(r, ERRNO, buf[r])

PollExpires(r) ==
  /\ rpc[r] = "poll"
  /\ left[r] = 0 /\ pipe = << >> /\ ~closed
  /\ Expired(r)
  /\ UNCHANGED <<pipe, closed, writer>>

(* ... or -1 with EINTR, and is called again with the whole timeout.       *)
AfterEINTR_Reads == "read"

AfterEINTR == "poll"

PollInterrupted(r) ==
  /\ rpc[r] = "poll"
  /\ interrupts[r] < MaxInterrupts
  /\ rpc' = [rpc EXCEPT ![r] = AfterEINTR]
  /\ interrupts' = [interrupts EXCEPT ![r] = @ + 1]
  /\ left' = [left EXCEPT ![r] = timeout[r]]
  /\ UNCHANGED <<pipe, closed, writer, count, timeout, buf, waited, ret, known>>

(* xcp_fd_read returned n bytes, none at the end of the stream: the rest   *)
(* of the body of _read_all's loop.                                        *)
Ends_Short(r, n, bytes) == TRUE

Ends_NoBreak(r, n, bytes) == Len(bytes) >= count[r]

Ends(r, n, bytes) == n = 0 \/ Len(bytes) >= count[r]

Read(r, n) ==
  LET bytes == buf[r] \o SubSeq(pipe, 1, n)
  IN  /\ pipe' = SubSeq(pipe, n + 1, Len(pipe))
      /\ IF Ends(r, n, bytes)
         THEN ReadReturns(r, Len(bytes), bytes)
         ELSE /\ buf' = [buf EXCEPT ![r] = bytes]
              /\ WaitRead(r, timeout[r])
              /\ UNCHANGED <<count, timeout, ret, known>>
      /\ UNCHANGED <<closed, writer>>

(* read: 0 when nothing is asked for or the stream has ended, otherwise    *)
(* any number of bytes that are there, and it blocks when none are.        *)
Reads(r) ==
  /\ rpc[r] = "read"
  /\ \E n \in 0 .. Len(pipe) :
       /\ n <= count[r] - Len(buf[r])
       /\ n = 0 <=> count[r] = Len(buf[r]) \/ (closed /\ pipe = << >>)
       /\ Read(r, n)

(* poll or read fails for good.                                            *)
ReadFails(r) ==
  /\ rpc[r] # "idle"
  /\ ReadReturns(r, ERRNO, buf[r])
  /\ UNCHANGED <<pipe, closed, writer>>

(* Time passes for the polls, none of which outlasts its timeout.          *)
Tick ==
  LET polling == {r \in Readers : rpc[r] = "poll"}
      running == {r \in polling : left[r] > 0}
  IN  /\ running # {} /\ \A r \in polling : left[r] # 0
      /\ left' = [r \in Readers |-> IF r \in running THEN left[r] - 1 ELSE left[r]]
      /\ waited' = [r \in Readers |-> IF r \in running THEN waited[r] + 1 ELSE waited[r]]
      /\ UNCHANGED <<pipe, closed, writer, rpc, count, timeout, buf, interrupts, ret, known>>

ReaderStep(r) == PollReady(r) \/ PollExpires(r) \/ Reads(r)

Next ==
  \/ \E n \in Counts : WriteAll(n) \/ SendSharedFd(n)
  \/ \E n \in 0 .. Capacity : Write(n) \/ SendMsg(n)
  \/ WriteFails \/ CloseWriter
  \/ \E r \in Readers :
       \/ \E n \in Counts, ms \in Timeouts : ReadAll(r, n, ms)
       \/ ReaderStep(r) \/ PollInterrupted(r) \/ ReadFails(r)
  \/ Tick

Spec == Init /\ [][Next]_vars

(* Readers are scheduled and time passes; the writer promises nothing.     *)
LiveSpec == Spec /\ WF_vars(Tick) /\ \A r \in Readers : WF_vars(ReaderStep(r))
-----------------------------------------------------------------------------
(* Properties.                                                             *)

Increasing(s) == \A i, j \in DOMAIN s : i < j => s[i] < s[j]

Elements(s) == {s[i] : i \in DOMAIN s}

Received(r) == known[r] \o buf[r]

(* Every byte written is in one place: with the reader that got it, by the *)
(* buffer or the offset it was told, or in transit; and each reader has    *)
(* its bytes in order.  So partial reads and writes, timeouts, errors and  *)
(* calls that go on from a reported offset lose, repeat and reorder        *)
(* nothing (io.c 97-143), with several readers on one descriptor as well.  *)
Conserved ==
  /\ Increasing(pipe)
  /\ \A r \in Readers : Increasing(Received(r))
  /\ (UNION {Elements(Received(r)) : r \in Readers}) \cup Elements(pipe) = 1 .. base + wpos
  /\ \A r \in Readers :
       /\ Elements(Received(r)) \cap Elements(pipe) = {}
       /\ \A q \in Readers \ {r} : Elements(Received(r)) \cap Elements(Received(q)) = {}

(* A descriptor is passed once by each _send_shared_fd that gets a byte    *)
(* through, with its first byte, however the message is cut up and         *)
(* wherever it fails (network.c 63-77).                                    *)
FdPassedOnce == carriers = {b \in openings : b <= base + wpos}

(* "If less bytes than expected are returned: [...] Pipe is empty and      *)
(* there is no more writer." (io.h 50-53): a result that is not an error   *)
(* falls short of count only at the end of the stream.                     *)
ShortIsEnd ==
  \A r \in Readers :
    rpc[r] = "idle" /\ ret[r] # ERRNO /\ ret[r] < count[r] => closed /\ pipe = << >>

(* "Wait `timeout` milliseconds for available readable data in fd."        *)
(* (io.h 41): an xcp_fd_wait_for_rdata (io.c 64-74) lasts no longer.  This *)
(* is so only until a signal comes: poll then starts again with all of the *)
(* timeout (io.c 72), which the TODO of io.h 31 names.                     *)
WaitIsBounded == \A r \in Readers : timeout[r] > 0 => waited[r] <= timeout[r]

(* When one process reads, what poll has announced is still there when the *)
(* read is made, so a read_all with a timeout does not block.              *)
ReadyWhenRead ==
  \A r \in Readers : rpc[r] = "read" /\ timeout[r] # 0 => pipe # << >> \/ closed

(* A _read_all with a timeout returns, whatever the writer does or fails   *)
(* to do.                                                                  *)
TimedReadReturns ==
  \A r \in Readers : rpc[r] # "idle" /\ timeout[r] > 0 ~> rpc[r] = "idle"

(* Once the writer has closed, a _read_all returns, with any timeout: the  *)
(* loop of io.c 99-108 ends at the end of the stream.                      *)
ClosedReadReturns == \A r \in Readers : closed /\ rpc[r] # "idle" ~> rpc[r] = "idle"
=============================================================================
