# Verification of xcp-ng-generic-lib

TLA+ models, TLC runs and TLAPS proofs for the C library in `src/`. Line numbers
refer to `src/src/coroutine.c`, `src/src/io.c` and so on; `PROJECT.json` maps
every definition to the lines it stands for.

## 1. Inventory

The library is a set of small components; the tests of the repository cover none of them.

| Component | State it keeps | Operations | What is hard |
|---|---|---|---|
| coroutine scheduler (`coroutine.c`) | per thread: `current`, a dummy for the thread's own stack; per coroutine: `caller`, saved env, one intrusive link, a pending list; per running `resume`: its argument, a local queue | `resume`, `yield`, `process`, `get_self`, end of a callback, `destroy` | stacks switched by hand, nesting of resumes, queues that share links, who frees what |
| coroutine creation (`coroutine.c` 47-70, 141-240) | process: disposition of SIGUSR1; thread: signal mask, alternate stack, trampoline record | `create` (malloc, mmap, mprotect, the twelve-step signal trick) | asynchronous signals, threads, process-wide state, failures half way |
| descriptor I/O (`io.c`) | none of its own; the stream's, and the process's table of descriptors | `read_all`, `write_all`, `wait_for_rdata`, `wait_read`, `read`, `write`, `pread`, `preadv`, `poll`, `close`, `dup`, `set_close_on_exec` | partial transfers, EINTR, timeouts, end of file, other readers; other threads that get the number of a closed descriptor |
| sockets (`network.c`) | the connection of the socket | `connect`, `send_shared_fd` | retry after EINTR, a descriptor passed with a partial send |
| crash handler (`stacktrace.c`) | nine signal dispositions of the process | set, clear, the default handler | signals in several threads while the nine are set one by one, a crash within the handler, a crash within `malloc` |
| stack trace symbols (`bfd-stacktrace.c`, `std-stacktrace.c`) | none | `xcp_stacktrace_symbols` | failure paths that free what was allocated |
| files (`file.c`) | none | `close`, `readlink`, `size` | a link that changes between calls, a stream closed twice |
| paths, strings, byte order, arithmetic, algorithms | none | pure functions and macros | boundaries: empty, leading slashes, narrowing, overflow |

Interactions: the scheduler runs what creation made (the env saved in step 10 is
where the first resume jumps to); `send_shared_fd` ends in `write_all`; the
crash handler calls the stack trace builder, which calls `xcp_readlink` and has to
release what it holds whichever call fails.

What makes each correct, in one line: *scheduler*: control always returns to the
resume that waits for it, pending coroutines run once and in order, memory is
freed once and not while in use. *Creation*: the new env is on the new stack and
nothing else of the process has changed. *Streams*: the bytes arrive once, in
order, and the result says how many. *Table*: no call closes what is another's,
and what it returns is true. *Crash handler*: a trace, during which every signal has its
default action, then the process is killed. *Stack trace*: nothing leaks, and only
what was set is freed.
*Pure functions*: they agree with a reference definition.

`PROJECT.json` lists the hazards, each at the line where it bites.

## 2. Modules

`Stailq` — the `<sys/queue.h>` tail queue at the level of links, as used by
`coroutine.c`. External code, modelled because one link per coroutine is what
makes the queues delicate.

`Coroutine` — the scheduler of one thread. A variable per field of
`XcpCoroutine` and per local of a running `resume`; `point[c]` is where c stands,
hence where a jump to its env lands. One action per stretch of code between two
context switches: `Create`, `Resume` (272-278), `Fetch` (one pass up to the
jump, 279-287), `Settle` (289-301), `Leave`, `Yield`, `Finish` (149-150),
`Process` with its branch `Enqueue`. `abort()`, an access to a freed coroutine
and a second free end the behaviour and are recorded in `fault`. The user code
is unrestricted except for the constant `Uses`, which says whether it calls
`process`, lets a coroutine taken from a pending list return, and hands over
coroutines that are still pending. `NDEBUG` selects the build. `owed` is a
history variable.

`CoroutineScheduler` — the abstract promise: a stack of activities with things
to do, posts run in order before what was left. `CoroutineRefinement` holds the
mapping from `Coroutine` to it: the stack is read off the caller links, the
lists off the intrusive queues.

`CoroutineInit` — `create` in several threads. `pc[t]` walks through the numbered
steps of the source; the kernel's part (mask, disposition, alternate stack,
pending signal, delivery) is modelled from the calls made. The program may have
SIGUSR1 at default, ignored or handled, blocked or not in each thread, and may
send it to its own threads at any moment (`Send`) if it is not at default.
`Serial` says whether the program calls `create` in one thread at a time. The
`abort()` branches of the signal calls (184-228) are left out: with the arguments
they are given, valid signals, sets and stacks, these calls cannot fail.
Signals directed at the process rather than at a thread are not modelled.

`FdStream` — one process in `write_all` or in `xcp_sock_send_shared_fd`, which ends
in it, others in `read_all`, a pipe or stream socket of bounded capacity between
them. `carriers` holds the bytes a descriptor travels with; a failed
`send_shared_fd` reports no offset, so the caller can then only close. Bytes are
numbered, reads and writes transfer any possible amount, a poll can be interrupted,
expire or announce data, calls can fail, and callers go on from the offset that a
failed call reported. Retries after EINTR or EAGAIN in `read` and `write` change
nothing and are not steps.

`StackTrace` — `xcp_stacktrace_symbols_fd` with `stacktrace_symbols` and
`xcp_readlink`. `pc` stands at the next call that can fail; `heap` and `texts`
are what is allocated, object files that are open included; texts are their
lengths. `Failing` selects the calls that may fail. The target of
`/proc/self/exe` may change at any moment (`Rename`). A free of an element that
was never set, or of `locations[-1]`, is undefined: it may pass or lead to
`"undefined"`. What libbfd and the dynamic linker answer is left open, with one
constant: `Empty` says what `bfd_read_minisymbols` leaves when it finds no symbols
(`ReadSymbols` is the first call, `ReadDynamic` the second), a table that has to
be freed or nothing, as versions of libbfd differ. With nothing, the pointer may
still be unset when it is used and freed (`Format`); with a table, the second call
loses the first one's (`Lost`).

`Paths`, `Strings` — `path.c` and `string.c` as operators on sequences of
characters; pointers are indexes and a null result is a flag. `strtoll` saturates
and the narrowing conversion wraps; the limits of the three types are constants.

`Numbers` — `endian.h`, `math.h` and `algorithm.h` as operators. A byte is a
digit in a base that stands for 256, so that the eight bytes of a `uint64_t` make
a number TLC can handle; a swap is the shifts of the source's table of masks. The
rounding macros have operands of two widths, as a `Y` narrower than `X` is what
the cast in the mask is for. The bitwise operators of C are external: a word is
the set of its bits, and `&`, `|` and `~` are what they do to such sets.

`PureFunctions` — the inputs of these three modules and their properties: its
state is the input, a string that grows, which is also taken for bytes.

`Descriptors` — the table of descriptors of a process and the threads that share
it, in `xcp_fd_close`, `xcp_fd_dup`, `xcp_fd_set_close_on_exec`,
`xcp_file_close` and `xcp_sock_connect`. A call begins (`Close`, `FileClose`,
`Dup`, `SetCloseOnExec`, `SockConnect`), and each step of it (`CloseCall`, ...)
is one system call with its outcome and what the loop around it makes of errno
(`GoesOn`). The kernel is external: `Release` on a close, with or without an
EINTR (`releases` selects the kind of system, Linux or one that keeps the
descriptor), `Replace` for dup2, `Open` with the lowest free number, `Settle` for
a connection that an EINTR has left under way. A thread uses its own files, and
may duplicate one onto its own descriptor or onto a number that is free (handing
over another thread's descriptor is a mistake of the caller and left out); the
harm comes from descriptor numbers that are given to somebody else. After a
second `fclose` of a stream anything may happen: the thread is at `"undefined"`.
`guarded`, `cut` and `wronged` are history variables.

`CrashHandler` — the dispositions of the signals the library handles and, for
each thread, the stack of calls and handlers it is in. `SignalCall` is one of
the nine calls of `signal`, so that a signal may come between any two, in any
thread; `Raise` is a signal and pushes the handler, with the reset it begins
with; `Trace`, `TraceGoesOn` and `Exit` are the rest of `default_crash_handler`,
and the trace itself uses of the heap, whose one lock is taken and released at each
of them, so that two traces can alternate (`StackTrace` models what the trace
does). A signal is blocked while its handler runs. `overlap` and `meddled` are
history variables.

`CoroutineProofs`, `CoroutineRefinementProofs`, `CoroutineInitProofs`,
`DescriptorsProofs`, `CrashHandlerProofs`, `FdStreamProofs`, `StackTraceProofs`,
`PureFunctionsProofs` — the proofs. `MC*` — the instances; `MCFunctions` only
says which byte and which digit a character is taken for.

Definitions with an underscore (`Destroyed_Self`) are plausible mistakes in the
definition they are named after; each property is shown to fail for one.

## 3. Runs

| Run | Checks | Bounds |
|---|---|---|
| `coroutine_full` | `CallChain`, `NotReachable`, `ActiveIsAllocated`, `PendingKept`, `ImplementsScheduler` | 3 coroutines and the thread's stack, asserts compiled out |
| `coroutine_contract` | `MemorySafe`, `FinishedIsFreed`, `PendingIsRunAtLast` | 3 coroutines; callbacks return only when entered for the argument of their resume |
| `coroutine_destroy` | finding: `PendingAllocated` fails | 3 coroutines |
| `init_serial` | `ActionRestored`, `ThreadRestored`, `Ready`, `NoLeak`, `CreateReturns` | 2 threads, 2 coroutines, 2 signals of the program |
| `init_race` | finding: `ActionRestored` fails | 2 threads at once |
| `stream_shared` | `Conserved`, `FdPassedOnce`, `ShortIsEnd` | 2 readers, 3 bytes, a pipe of 2, 1 EINTR per wait |
| `stream_timed` | `ReadyWhenRead`, `TimedReadReturns`, `ClosedReadReturns` | 1 reader, 3 bytes, timeouts -1, 0, 2, 2 EINTRs per wait |
| `stacktrace_paths` | `TypeOK`, `OnlyTablesLeak`, `NameWhole`, `LinesFit` | 0, 1, 3 or 11 frames, two lengths of line, targets of 3, 15 and 40 bytes; all calls may fail; libbfd leaves a table or nothing for no symbols |
| `stacktrace_memory` | finding: `FailureReturns` fails | the same with up to 3 frames and no table for no symbols |
| `functions` | `ParentIsReference`, `CombineAssociative`, `NumberExact`, `TrimmedAtEnd`, `HexReadsBack`, `WireOrder`, `RoundedAsNamed`, `FindsFirst` | every string of up to 6 characters over 6; `int` from -16 to 15, `long` and `long long` from -128 to 127; bytes in base 6, integers of 7 and 5 bits for the rounding macros |
| `descriptors` | `OthersKept`, `CloseDone`, `ConnectTold`, `NotInherited` | 2 threads, 3 descriptors, 2 files, 1 EINTR per call; up to the first loss (`Unharmed`) |
| `crash_handler` | `NoSecondTrace`, `SameForAll` | 2 threads, 2 signals handled, 2 raised |

But for `StackTrace`, the type invariants and the inductive invariants that section 4 proves for every
value of the constants are not among the runs' invariants; the model checker is
kept for what it alone can say and, where a theorem says it too, for the mutants.

Three coroutines are the least with which one can be current, one wait for it in
a resume and one be pending, and with which a queue of two can be spliced in
front of another; the properties the proofs cover need no bound. Two threads are
enough for a race on one disposition. Three bytes through a pipe of two force
partial writes and reads and a wait in the middle of a call. Eleven frames are
the least with a frame number of two digits, on which the length of the block of
strings depends; 15 bytes just fill the first buffer of `xcp_readlink` and 40 need
it doubled twice. Six characters hold every combination of slashes before,
between and after two components, and numbers beyond all the widths. Two files and
three descriptors leave room for a duplicate and for a number that is free; one
EINTR is enough to lose a descriptor, and `Unharmed` stops there because every
property speaks of what came before; threads and files are interchangeable, and
no property names one, so the symmetry is sound. Two signals are the least with
which the nine can disagree and with which one handler can interrupt another; the
theorems about both modules are for any number.

Deadlock is not checked: a program may stop calling the library, the scheduler
model stops after an abort and the crash handler with the process.

**Findings.** (1) Line 296 of `coroutine.c` destroys the argument of `resume`
whichever coroutine has terminated: when a *pending* coroutine returns, a living
coroutine is freed and the finished one leaks. `coroutine_contract` shows that
all is well as long as this does not happen. (2) Concurrent creates in two
threads can leave the trampoline as the handler of SIGUSR1. (3) When the block of
strings cannot be allocated, or `asprintf` fails, the failure path of
`stacktrace_symbols` frees a pointer it does not own: after the loop `i` is -1.
The trace shows `asprintf`. The same property fails for a third reason, without any
failing call: when both calls of `bfd_read_minisymbols` find nothing, `read_symbols`
returns success, and with a libbfd that sets no table then the unset pointer of
line 137 is used and freed (144-145).

**Known limits.** These behaviours shape the properties. Some of them contradict
what the headers say. `io.h` 41 says "Wait `timeout` milliseconds", but `poll` is
called again with the whole timeout after each signal, as the TODO of `io.h` 31
admits: `WaitIsBounded` is false, and the theorems of section 4 say what is true.
`stacktrace.h` 31-32 says that after the trace "the default signal action is
executed" and the program killed, but the code calls `_exit(128 + signal)`
(`stacktrace.c` 33), which shows the parent no death by signal and leaves no core;
and the trace allocates memory, so a signal that comes inside `malloc` leaves the
process in its crash handler for ever. No property says that a crash ends the
process. `stacktrace.h` 62 says that `free(strings)` releases everything, but with
a libbfd that allocates a table also when it finds no static symbols, line 78 of
`bfd-stacktrace.c` overwrites the pointer to the table of line 76, which is lost, once
per frame in a stripped file: `NoLeak` is false and `OnlyTablesLeak` says that this
is all. The others are contradicted by nothing in the sources. The splice in
front (291) lets two coroutines that `process` each other starve a third, so
`PendingIsRunAtLast` speaks of programs that call `process` finitely often. A
coroutine has one link, so `resume` or `process` of one that is still pending
drops others from the list; the runs leave such programs out, and so do the
theorems about the queues, while those that rest on `IndInv` alone include them.
A finished coroutine is never resumed in the runs. With two readers on one
descriptor, what `poll` has announced to one may be read by the other, and the
first then blocks beyond its timeout; the properties of timed reads speak of a
single reader. A close that fails with EINTR is made again: on systems that keep the
descriptor this is what `CloseDone` needs, on Linux it can close a descriptor that
another thread has been given meanwhile, and for `fclose` it is undefined on both,
so `OthersKept` says that only one other thing ever does harm: a number that was
free when `xcp_fd_dup` was called with it and is another thread's when it is
replaced. A connect that is made again after an EINTR can fail with EALREADY or
EISCONN while the first attempt goes on or has succeeded, so `ConnectTold` says
nothing of failures after an EINTR.
Threads that were all in their crash handlers before the last signal was reset
make a trace each; `NoSecondTrace` says that none begins later. Calls of
`xcp_set_crash_handler` that overlap can leave the signals with different
dispositions, which is what `SameForAll` exempts.

**Fairness.** In `Coroutine`, the steps inside the library (`Fetch`, `Settle`,
`Leave`) are the thread's next instructions: weak fairness. A coroutine that is
run again and again is assumed to yield or return at last (strong fairness):
without it, any callback with an endless loop refutes every liveness property.
In `CoroutineInit` a thread goes on and an unblocked pending signal is
delivered. In `FdStream` readers are scheduled and time passes, while the writer
promises nothing.

## 4. Proofs

`CoroutineProofs` proves, for every finite or infinite set of coroutines, every
`Uses` and both builds, that `Spec` implies always `IndInv`, and from it
`TypeOK`, `CallChain`, `NotReachable` and `ActiveIsAllocated`, and also `NoNullUsed`:
at each place of the code the links it is about to follow are coroutines. None of
these is inductive alone. The argument:

- *Standing* says where a coroutine can be, tied to whether it has a caller;
  *Pointers* says that queues and arguments lead only to coroutines that exist.
- *CallChain* says that the caller links from the current coroutine visit exactly
  the active ones: every set of active coroutines that contains the current one
  and is closed under `caller` is the set of all of them. This form needs no
  recursion: entering a coroutine adds one element to every closed set, leaving
  removes one.
- *ArgumentOutside* says that the argument of a running `resume` is outside some
  closed set containing that `resume`. When control comes back to the `resume`
  that set is the whole chain, so what line 296 frees is not in use. The check
  at line 283 is what establishes it.
- A resume of the thread's dummy lands in a waiting `resume` with status
  `Running`; `Misdirected` is that one state before the abort.

The second half of the module proves what the queues and the memory of the
scheduler need, for any number of coroutines. The links are data, so the invariant never
walks along them: `Spells` says that a head and the links spell out a given
sequence, and `Queues(posts, todo)` that there is such a sequence for every
pending list and every local queue, that no coroutine is in two places, and that
what is listed is what is owed and the argument of a `resume` just called. One
lemma per queue operation says what it does to the sequences (`InsertSpells`,
`RemoveSpells`, and for the splice in front likewise), one per action that some
sequences are spelt out afterwards. It follows

- that a pending coroutine stays in exactly one queue until a `resume` enters it
  (`PendingKept`), if no coroutine is handed over while it is pending;
- that every finished coroutine is freed (`FinishedIsFreed`), if callbacks return
  only in the pass their `resume` was asked for. `Ended` is the invariant: a
  coroutine that is done is gone or is the argument line 296 is about to free;
- that nothing freed is touched or freed twice (`MemorySafe`) and that what is
  pending exists (`PendingAllocated`), under both conditions and, if the program
  calls `process`, with the asserts compiled in: `Contract`. `Guarded` adds to
  `Queues` that whatever is listed lives, and that nothing is listed that is
  about to return: a coroutine on the call chain is listed only further down the
  chain than itself, which is where the check of line 283 meets it.

None of these conditions can be left out: without any one of them TLC finds, with
three coroutines, a lost or unordered coroutine (the first) and a use after free or a
second free (all three). `coroutine_destroy` keeps the one of them that
contradicts what the sources say.

`CoroutineRefinementProofs` proves that `Coroutine` implements
`CoroutineScheduler` (`ImplementsScheduler`) for every finite set of coroutines
of which none is handed over while it is pending. The stack of the abstract
scheduler is read off the caller links; `Line` says that a sequence of coroutines
is the call chain, `Lined` that there is one, and `Mirrors` gives the abstract
state in terms of this sequence and the lists of `Queues`. There is then one lemma
per action: `Resume`, `Enqueue` and `Create` are `Resume`, `Post` and
`Create`, a jump of `Fetch` is `Enter`, `Yield` and `Finish` are `GiveBack`
(the splice of line 291 comes later and changes nothing above), `Leave` is
`Continue`. A misdirected jump and every fault are `Halt`.

`StackTraceProofs` proves, for any number of frames, any lengths of texts and of
the executable's name, `TypeOK`, `OnlyTablesLeak`, `NameWhole` and `LinesFit`,
whichever calls fail and whatever libbfd leaves. Two statements need conditions:
nothing at all leaks (`NoLeak`) if libbfd makes no table for no symbols
(`NothingLeaks`), and nothing unset is used or freed (`FailureReturns`) if libbfd
always makes one and neither `asprintf` nor the allocation of the block of strings
fails (`FailureFreesTheSet`), which is what finding 3 leaves of it. `Held` says what
is allocated at each place of the code. `LinesFit` compares a sum that the first
loop makes with what the second one writes, in the same order: `Summed` says that
some function `total` gives the room of the frames from each one on, and that both
loops are where `total` says. Of the digits of a frame number the proof only uses
that they grow with the number.

`CoroutineInitProofs` proves, for any number of threads, coroutines and signals,
the invariant `IndInv`: what the saved values are at each step (`ThreadInv`), who
owns which struct and stack (`MemoryInv`), and, when `Serial`, that the one
creating thread owns the handler and that what its trampoline saved stays until
step 8 (`SerialInv`). `ThreadRestored` and `NoLeak` follow for all programs,
`ActionRestored` and `Ready` for serial ones.

`DescriptorsProofs` proves, for any number of threads, descriptors, files and
interruptions, `TypeOK`, `OthersKept`, `CloseDone`, `ConnectTold` and
`NotInherited`. The inductive invariant says, while nothing has been lost, that
a thread in a call has the descriptors it has called for, but for a close that was
cut by an EINTR and a dup onto a number that was free, that a first connect finds
its socket idle, and that what the last close or connect has told a thread is
still true. The lemma `OthersStep` is the
argument about interleaving: a step that leaves the files of the others alone
keeps all this for them; then there is one lemma per system call.

`CrashHandlerProofs` proves, for any number of threads, of signals the library
handles and of signals raised, `TypeOK`, `NoSecondTrace` and `SameForAll`. Both
need to know where in a stack a frame is. `CrashInv` says of a crash handler at
any depth that the frame above it is its own reset, that the signals this reset
has passed have their default action, and that nothing above it or in another
thread sets anything else. `Overlapping` says that the one call under way cuts
the signals in two parts with one disposition each. The lemmas `*Effect` say what
an action does to the stack of its thread, the others what follows for each part
of the invariant.

`FdStreamProofs` proves, for any number of readers, bytes and interrupts, any
capacity and any counts and timeouts, `TypeOK`, `Conserved`, `FdPassedOnce` and
`ShortIsEnd`, and, for a single reader, `ReadyWhenRead`. Of `WaitIsBounded`, which
is false with signals, it proves what is left: `EachSignalRestarts`, a wait of one
timeout more for each signal, and the documented bound as long as no signal
comes (`WaitsWithoutSignals`).
What they lack to be inductive: that bytes are read in the order in which they
are in the pipe (`Behind`), so that what is taken from its front goes behind all
that was received; that only the last `xcp_sock_send_shared_fd` may have begun
with a byte that is not sent (`OpeningsInv`); that a call of the writer never
goes beyond its data and that none goes on after the close (`WriterInv`); and
that what a poll has waited and may still wait is as long as its timeout was
started (`ClockInv`). The lemmas `Joined` and `Parted` say what concatenating
and cutting do to the elements and the order of a sequence; `SentKept` and
`TakenKept` apply them to the pipe.

`PureFunctionsProofs` proves the eight properties of `PureFunctions` for every
string over any alphabet, any limits of the three types, any even base and any
two widths, and four statements without the bounds that the properties enumerate:
the array search for every predicate (`FirstFound`), the rounding macros for every
X of the type (`RoundingByMask`, `RoundingByDivision`) and the division for all
integers (`DivisionRoundsUp`). The invariant is only that the input is a string;
the work is in the operators.

- Several of them are recursive functions, and the induction theorems of the
  library cannot be used, as they take an operator as a parameter. Every induction
  goes by the least counterexample instead: `LeastNumber` says that a set of
  numbers that is not empty has a least element, and `Recursion` that there is
  exactly one function for each recursion of the form used, so that the
  definitions of `Power`, `SumUpTo` and `Magnitude` can be unfolded.
- *Paths*: the last slash, and the last character before it that is not one, cut a
  path in three; the reference and the code make the same cuts.
- *Numbers in strings*: `Magnitude` is a natural number, so saturation and
  narrowing go unnoticed only if they change nothing.
- *Byte order*: digits and the sums of their weights determine each other
  (`DigitOfComposed`, `ComposedOfDigits`), and a table of shifts that takes byte k
  to byte n - 1 - k gives the sum of the reversed digits (`MovedIs`,
  `SwapReverses`).
- *Rounding*: a number is the sum of its bits (`BitsOfWord`), the mask of a
  power of two is the set of the bits below it (`MaskBits`), and setting or
  clearing those leaves the multiple above or below (`OrMask`, `AndNotMask`).

Assumptions: the named `ASSUME`s of the modules (distinct names, types of the
parameters, ordered limits, an even base), which TLC evaluates in every run, and
those that a theorem states itself: the conditions on `Uses`, `NDEBUG`, `Failing`,
`Empty` and `MaxInterrupts` named above, which are those of the runs, and
`IsFiniteSet(Coroutines)` where a queue is bounded by their number, as in any
program.

Every invariant of a passing run is a theorem. Model-checked only: the liveness
properties (`PendingIsRunAtLast`, `CreateReturns`, `TimedReadReturns`,
`ClosedReadReturns`), which rest on fairness and ENABLED and are out
of reach of the prover. The abstract scheduler promises safety alone,
so the whole refinement is proved.

## 5. Plan

Done: all modules of section 2 and the proofs of section 4.

Next, in this order:

1. `xcp_poll`, `xcp_fd_pread` and `xcp_fd_preadv` beside the calls they resemble.
2. Failing allocations in `Paths` and `Strings`.

## 6. Not modelled

Compiler and type definitions (`global.h`), Valgrind registration, what libbfd,
the dynamic linker and the kernel do beyond the calls used, and the contents of
messages. `xcp_fd_pread`, `xcp_fd_preadv` and `xcp_poll` repeat the loops of
`xcp_fd_read` and `xcp_fd_wait_for_rdata` around another system call and keep
nothing between two calls; `xcp_file_size` returns one field of `stat`; `XCP_MIN`
is the mirror image of `XCP_MAX`; the types, error codes and compiler macros of
`global.h` have no behaviour. `xcp_stacktrace` is a call of `backtrace`.
`xcp_coroutine_get_self` reads `current` and changes nothing.
