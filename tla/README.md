# TLA+ models of the Nim runtime

The Nim repository holds a compiler, a standard library and the runtime that
compiled programs link. The models in this directory are about the parts of that
runtime where the order of steps matters: threads that share memory, reference
counts with a cycle collector that may start in the middle of an assignment, the
locks between collectors and mutators, the locks of a platform that has none of the
right kind, and the line editor that a program's user types into. Paths and line numbers below are those
of the repository; `lib/` and `compiler/` are its top-level directories.

Contents: the inventory, the plan, the modules and how they correspond to the
code, the runs, the proofs, what was learnt about the code, what is left out.

## 1. Inventory

| Component | State | Operations | What is hard | What makes it correct |
|---|---|---|---|---|
| Channels (`lib/system/channels_builtin.nim`) | ring (`data`, `rd`, `wr`, `count`, `mask`), `maxItems`, `ready`, one lock, one condition variable | `open`, `close`, `send`, `trySend`, `recv`, `tryRecv`, `peek`, `ready` | threads interleave at the lock; senders and receivers sleep on one condition variable; `ready` is one flag, read without the lock; the mask is read before the lock; the ring doubles while rotated; `close` and `open` keep part of it | bounded FIFO queue; nobody sleeps for ever beside work; freed memory is left alone |
| ORC (`lib/system/orc.nim`, with `arc.nim`, `cellseqs_v2.nim`) | per cell: count, colour, `rootIdx`; per thread: `roots`, `rootsThreshold` | increments, decrements, destroy, dispose, register/unregister, `GC_runOrc`, `GC_partialCollect`, `GC_enableOrc`, `GC_disableOrc` | a decrement may start a collection, a collection runs destructors, destructors decrement | no reachable or pending cell is freed, counts exact, garbage below a candidate, `roots`/`rootIdx` inverse, no collection inside a collection |
| Trial deletion (`orc.nim` 161-376, repeated in `yrc.nim`) | counts, colours, two explicit stacks, edge and count sums | `markGray`, `scan`, `scanBlack`, `collectColor` | cycles, sharing, the short-cut that skips `scan`, slots cleared during the walk | takes exactly the garbage, restores the survivors, ends |
| YRC lock (`lib/system/seqs_v2.nim` 14-90, `rwlocks.nim`) | 64 read-write locks, thread local `lockState` | `acquireMutatorLock`, `releaseMutatorLock`, `yrcMutatorLock`, `yrcCollectorLock` | nested scopes without a count, early returns, upgrade from reader to writer, writer starvation | a collector is alone; mutations happen under a lock; no deadlock |
| YRC collector (`lib/system/yrc.nim`) | ORC's, plus per stripe queues of deferred increments and decrements | `nimAsgnYrc`, `nimSinkYrc`, merging, collection | queues filled while a collection runs, queue overflow inside an assignment | as for ORC, across threads |
| Assignment hooks (`compiler/liftdestructors.nim`, `lib/system.nim`) | none | order of count, store and destroy in `=copy`, `=sink`, `=destroy`, `reset` | a collection between two of these steps | the heap a collection sees agrees with the counts |
| Thread pool (`lib/pure/concurrency/threadpool.nim`) | workers with `ready`/`initialized`, semaphores, barriers, flow variables, pool sizes | `spawn`, `^`, `blockUntilAny`, `sync`, pool growth and shut-down | hand-over of a task to a worker, waits with a time limit, a barrier destroyed by its last user | every task runs once, waits end |
| Futures and dispatcher (`lib/pure/asyncfutures.nim`, `asyncdispatch.nim`) | callbacks, `callbacks` deque, timers, registered handles | `complete`, `fail`, `addCallback`, `callSoon`, `poll`, `withTimeout` | order of callbacks, races of timeout and answer inside one loop | each callback runs once after completion, in order |
| Allocator (`lib/system/alloc.nim`) | chunks, free lists, cross-thread free list | `alloc`, `dealloc`, foreign-thread `dealloc` | lock-free list between threads, bit arithmetic of the two-level index | a block has one owner |
| Line editor (`lib/wrappers/linenoise/linenoise.c`, used by `lib/impure/rdstdin.nim`) | the line, its cursor and its last refresh (`linenoiseState`); the history and its maximum; the terminal's mode (`rawmode`, `orig_termios`) | `linenoise`, every key, completion, hints, `linenoiseHistoryAdd`, `SetMaxLen`, `Save`, `Load`, exit | what the editor believes about the screen is never read back; the scratch entry of the history comes and goes with the line; sessions end in five ways; calls fail, processes die; a buffer, an entry and a piece of a file have limits of their own | the screen shows the line; indices in range; older entries survive reading; the terminal gets its mode back |
| Genode locks (`lib/genode_cpp/syslocks.h`) | two mutexes, a flag, a semaphore | `acquireSys`, `tryAcquireSys`, `releaseSys`, `waitSysCond`, `signalSysCond`, `broadcastSysCond` | the flag is read without the guard; the guard is held while waiting | one owner, a try that fails only while there is one, no lost signal, calls return |
| Locks, condition variables, threads (`lib/core/locks.nim`, `lib/std/typedthreads.nim`) | operating system objects | wrappers | none of their own | promise in `MonitorLock`; modelled where used |
| Genode threads and signals, C headers (`genode_cpp/threads.h`, `signals.h`, `nimbase.h`, `cycle.h`) | none that changes | constructors, macros, inline assembly | - | - |
| Shared tables and lists | one lock each | one critical section per operation | little | - |
| Older collectors (`gc.nim`, `gc_ms.nim`, `gc_regions.nim`) | heap, zero count table, stack roots | alloc, write barrier, collect | conservative stack scanning | - |
| Containers | sequential structures | many | index arithmetic | agreement with a reference structure |
| Compiler front end, back ends, move analysis | syntax trees, symbol tables, control-flow graphs | passes | size | out of reach of a model checker |

How they interact. The compiler turns every assignment of a `ref` into a call of
the runtime (assignment hooks); the runtime counts, and registers cells that lost
a reference but not the last as cycle candidates; a full candidate array starts a
collection on the same call stack; the collection runs destructors, which are
again compiled assignments. Under `--mm:yrc` the heap is shared, so the same calls
take a read lock and the collection takes every write lock. Channels, thread pool
and futures are libraries above that; they meet the collector only through the
objects they hold. On Genode their locks are those of `syslocks.h`. The line editor
stands by itself: a program calls it for each line, and what connects the calls is
the history, the file it is saved to and the mode of the terminal.

Every place where this code is hard to test is listed with its line under
`hazards` in `PROJECT.json`, with the property that watches it or the reason why
none does.

## 2. Plan

Modules, in the order in which they were and will be written:

1. `Channel`, its promise `ChannelFifo`, and their proofs. Done.
2. `TrialDeletion` (what a pass computes, as sets) and `Bacon` (how), with proofs. Done.
3. `Heap`, `GcHeap` (what a program may rely on), `Orc` (the runtime). `Orc` takes
   a whole pass as one step and uses `TrialDeletion` for its result; `Bacon` shows
   that the traversals compute that result. Done, with the proofs of `Orc`.
4. `YrcLock` with proofs. Done.
5. `LineScreen` (what is written to the terminal and what it makes of it) and
   `LineEdit` (the keys) with proofs; `History` (the operations as functions) and
   `Linenoise` (sessions, file, terminal mode) with proofs. Done.
6. `MonitorLock` (the promise of a lock with a condition variable) and `GenodeLock`,
   which implements it, with proofs. Done.

Thought through and not written: `Yrc`, the queues of deferred decrements, their
merging, and the passes interleaved with mutators that hold the lock or do not
(`move` of a heap field, `compiler/ccgexprs.nim` 2834), to implement `GcHeap` like
`Orc`; `ThreadPool`, with the hand-over to a worker, shut-down, `sync` and
`blockUntilAny`, to implement a bag of tasks of which each runs once; `Futures`, where
a callback runs once and after completion; the allocator's cross-thread free list;
typed messages in `Channel`; the proofs of `Orc` for programs that use `reset` while `GC_disableOrc` is in
effect.

## 3. Modules and code

**Channel** models `channels_builtin.nim` with `Senders` and `Receivers` as
threads. A step is what a thread does between two points at which others can look:
a call begins with its look at the mask (`CallSend`, `CallRecv`, `CallTry`), takes
the lock (`Acquire`), runs a critical section up to its release or wait
(`SendPut`, `SendWait`, `RecvTake`, `RecvWait`, ...). `llRecv` is two steps: between
its first line (`EnterLlRecv`) and the rest, `ready` is set for all to see, although a
message may be there. `Signal` and
`SpuriousWakeup` are the condition variable: a signal wakes any one waiter, sender
or receiver, and a waiter may wake by itself. The ring is modelled slot by slot
with the masks of the code; `Succ` is `(i + 1) and mask`. `result` holds what a
call returned, and the abstract `ChannelFifo` has the same variable, so that
refinement is about values that callers see and not only about the queue.
`maxItems` is a variable that `Init` takes from `Limits` and no step changes, so that
one run covers channels with a limit and without; `Triers` are the threads that use
`trySend`, `tryRecv` and `peek` as well. `Close` has a precondition of the program,
not of the code: all users are done. `Open` resets only what `initRawChannel` resets.
`memory` is the state of the ring's memory; `Touched` says when freed memory is used
again, and from there on the values mean nothing. With `ReopenUsed` the program may open
a channel again that had a ring, which is such a use (section 6); without it, only one that
never had one. One type of message is sent; an element of `data` is `<<sender, number>>`.

**TrialDeletion** gives the collector's pass as sets. `TrialCount` is what
`markGray` leaves, `Black` what `scan` and `scanBlack` rescue, `White` the rest,
`AllGarbage` the short-cut of lines 343-347 (the references that gray cells count,
`Counted`, are as many as those that gray cells hold, `GrayEdges`), `Doomed` what
`collectColor` takes.
`Reach` is the least closed set, not a recursive definition, so that it can be
proved about.

**Bacon** is the same pass as the code runs it, one turn of a loop per action:
`MarkRoot`/`MarkPop` (`markGray`), `ScanRoot`/`ScanPop` (`scan`), `ScanBlackPop`
(with `until`, the height of the shared stack), `CollectRoot`/`CollectPop`
(`collectColor`, which clears the slots it walks). Initial states are all heaps
with right counts, all root lists without repetition, and both kinds of runtime:
with `DeferredDec` a cell in the roots may have no reference left, as under YRC.
`Traced` is the set of stacks that `trace` may leave: in which order the trace hook of a
type reports its fields is left open.

**Orc** is a program on top of the runtime. A program statement (`New`, `Assign`,
`Move`, `Reset`, the `GC_` calls) puts runtime calls on `todo`, the call stack;
each runtime action takes the topmost call. `StepDec` is
`nimDecRefIsLastCyclic*` with `rememberCycle` and `registerCycle`: it lowers a
count, registers a candidate, may push a collection, or pushes the destruction of
the cell, which decrements the fields one by one (`StepField`) and ends in
`nimRawDispose`. `StepCollect` is `collectCyclesBacon` up to its freeing loop;
nothing else runs in that stretch because the heap belongs to one thread.
`StepFree` and `StepEnd` are the rest of it. `StepHook` stands for user code in a
destructor; it drops a variable. The order in which cells are freed is left open,
which includes the code's order. `SetToSeq` fixes an order of fields; destructors
visit all of them. Constants stand for the numbers of the code: 128
(`DefaultThreshold`), 16 (`MinThreshold`), `high(int)` (`HighInt`).

What a program may do: name slots and cells that its variables reach, also move a
variable into a slot that is found by way of that variable only (`FoundByWayOf`): such a
move ties the cell to itself, and `captured` remembers it. `Api` lists the
calls a program makes; `safeReset` is `reset` used only while `GC_disableOrc` is in
effect.

**GcHeap** is the promise to the program: `New`, `Assign`, `Move`, and `Reclaim`,
which may only take what is unreachable. `Orc` implements it; a slot that `reset`
is about to clear counts as empty (`Seen`).

**YrcLock** models the lock: `readers` and `writer` per stripe, the thread local
`lockState`, and the stack of scopes (`frames`) a thread is in. `EnterMutator`,
`AcquireRead`, `LeaveMutator` are `acquireMutatorLock` and `releaseMutatorLock`;
`EnterCollector`, `AcquireWrite` (one stripe a step), `BeginCollecting`,
`LeaveCollector`, `ReleaseWrite` are `yrcCollectorLock`. The read-write lock
prefers writers, as `rwlocks.nim` sets it up. `Nesters` are the threads whose mutator
bodies contain further scopes. `Copiers` are the threads that may take `ReturnEarly`, the `return`
that the self-assignment test of a lifted `=copy` puts between acquire and release.

**LineScreen** has the two sides of the editor's output. What a terminal makes of a
control sequence is a function from screen to screen (`CarriageReturn`, `Down`, `Up`,
`Right`, `Left`, `EraseRight`, and `Written` for text, with the delayed wrap at the right margin): those
that the comment at the top of `linenoise.c` lists. The cells of a screen are numbered row by row, as text
fills them; a cell that is not in `cells` is blank. The terminal is as tall as it takes, so
that it never scrolls; its first row stands for what was there before the prompt.
`refreshSingleLine` and `refreshMultiLine` compose these functions in the order in
which the functions of these names append the sequences, from the state they are given;
`ClearedUp` is what the loop of `refreshMultiLine` that erases and goes up comes to.
`Refreshed` is what `refreshMultiLine` leaves in that state.

**LineEdit** is `linenoiseEdit` with a key per action. `l` has the fields of `struct
linenoiseState` that matter, `len` being the length of `buf`. A handler computes the
next line and calls `Refresh`, as in the code; `linenoiseEditInsert` has its short-cut
(`FastPath`) too. `completeLine` is the place `"complete"`: the keys that it takes
(`TabAgain`, `CompleteEsc`), and the others, which accept the completion and are
handled a second time (`"handle"`). An escape sequence is read byte by byte
(`EscByte`); what it names is then handled like a key. Entries of the history are any lines here, and
completions any lines, too: one that does not fit the buffer leaves a `len` that is not
the text's (`Overrun`), and the model stops there. `PromptFits` is not an assumption of the
module but of what is said about the screen: the code does not look at the prompt's width.

**History** and **Linenoise** are the history and the sessions. A line is the sequence of
its characters, because lengths matter: `Cut` is what the buffer takes of an entry (715-716),
and `LoadLine` reads a file in pieces of the buffer's size, each up to its CR
(`UpToReturn`). A call of `linenoise` puts the terminal into raw mode and adds the scratch entry
(`Begun`); `Edit` is any key that changes the line; `linenoiseEditHistoryNext` writes
the line to the entry it leaves. A session ends by `Enter`, `CtrlD` or
`Cancelled` (ctrl-C and errors), or with the process: `Exit` runs the exit handler
(`AtExit`), `Kill` does not, and may fall into `linenoiseHistorySave`, which leaves the
beginning of the file, down to the middle of a line (`SaveSome`, `whole`). `Restart`
starts the next process, whose shell has put the terminal right. `EnableFails`
and `DisableRawMode` include a terminal that refuses. `before`, `draft`, `touched` and
`restoreFailed` record what properties speak about. Loading reads one piece a step.

**GenodeLock** takes one access to shared state per action: the guard, the flag and
the inner mutex of `acquireSys`, the unguarded and the guarded look of `tryAcquireSys`,
and so on; `Down` and `Up` are the semaphore, which wakes sleepers in their order.
The unguarded read is a data race on a `bool`; it reads the value before or after a
write, which is what the interleaving gives. **MonitorLock** is what
`lib/core/locks.nim` offers; `GenodeLock` implements it with the owner of `_mutex_b`, or
the thread that waits for it behind the guard while it is free, as owner.

## 4. Runs

All runs take two workers and less than three minutes.

| Run | Instance | Shows |
|---|---|---|
| `channel_fifo` | 2 senders, 2 receivers, 2 messages each, 1 or 2 places or no limit; one thread of each side uses the calls that do not block, too; closed, and opened again as long as it has no ring | results and queue are those of a bounded FIFO queue (`RefinesFifo`, which implies `WithinCapacity`), `RingIndices` through the growth from 0 to 2 and 4, `ReadyMeansReceiver`, `OneKindNotForgotten` |
| `channel_forgotten` | 2 senders, 1 receiver, 1 place | violates `NobodyForgotten`, see section 6 |
| `bacon` | all heaps of 3 cells with 2 fields, up to 2 roots, `lowMark` 0 and 1 | `FreesExactlyGarbage`, `NoCellTwice`, `SurvivorsRestored`, `MatchesTrialDeletion`, `WorkShrinks` |
| `orc_graph` | 3 cells with 2 fields, 2 variables, a collection at every second candidate | `OnlyLiveTouched`, `CountsExact`, `GarbageIsCandidate` for all programs, moves that tie a cell to itself, `GC_partialCollect`, `GC_disableOrc` and `safeReset` included |
| `orc_finalize` | 3 cells with 1 field, one of them with a destructor of its own | `GarbageIsCandidate`, `RootsIndexed`, `CollectionsDontNest`, `RefinesGcHeap`, `EveryStatementEnds` |
| `orc_reset` | 2 cells, `reset` at any time | violates `OnlyLiveTouched`, see section 6 |
| `yrc_lock` | 3 threads on 2 stripes, scopes 3 deep in two of them, early returns in one | `FrozenTopology`, `LockStateTruthful`, `IdleHoldsNothing`, `CollectionHappens` |
| `yrc_lock_unlocked` | 2 threads, scopes 2 deep | violates `AllBodiesAreLocked`, see section 6 |
| `line_edit` | lines of up to 5 of 3 characters, prompt of 2, terminals of 3 and 5 columns, both modes, with and without hints | `TypeOK` up to a completion that does not fit, `ScreenShowsLine`, `AboveUntouched`, `NothingBelowCursor` |
| `line_history` | a buffer for 2 characters; the empty line, one that fills the buffer, and one that is longer and has a CR in it; maxima 1 and 3 | `IndexInHistory`, `DraftKept`, `BrowsingOnlyCuts`, `LoadRestores`, `TerminalRestored` |
| `genode_lock` | 3 threads, 2 remembered signals | `LockedTruthful`, `TryTakesAtOnce`, `RefinesMonitor` |
| `genode_deadlock` | 3 threads, 1 remembered signal | violates `NobodyStuckAtGuard`, see section 6 |

Bounds and why they are enough. *Channel*: with two threads on each side a wakeup
can go to the wrong side, to the wrong thread of the right side, and be overtaken
by a third; one place has a send and a receive that each end the other's reason to wait;
two places distinguish "full", "one free" and "empty", and are the
smallest ring that wraps with a message in it. Four messages through an unlimited
channel make it grow twice. What a signal of the wrong kind does is excepted from
`OneKindNotForgotten` (`Mixed`: senders and receivers asleep together, which needs a limit)
and is what `channel_forgotten` shows; behaviours in which only one kind sleeps are all
those of a channel without a limit, and some of those of the others. No run opens a channel
again that had a ring (`ReopenUsed`): its first growth copies from freed memory, which has no
definite content. *Bacon*: three cells make a cycle
with an entry and an exit, two fields make sharing and self-references possible
beside it, and two roots cover a root that is reached from another, in both
orders. *Orc*: `DefaultThreshold = 1` starts a collection at every second
candidate, so that one falls into every kind of statement; `HighInt = 8` or `20`
is far enough from the other numbers that a threshold only meets it when it is set
to it. *YrcLock*: two threads share a stripe and one has its own, which covers
both relations any two threads can have; depth three has a collector inside a
mutator inside a collector; one thread nests nothing. *LineEdit*: five characters and a
prompt of two take three rows on the narrow terminal, end at the right margin of either,
and are wider than one row of both; one entry of the history and one completion
are longer than a row; one entry is longer than the buffer, and one completion as long as it,
which is too long already.
*Linenoise*: three lines of which one fills the buffer and one exceeds it are enough for
entries that differ from their neighbours or not, that are cut when they are shown, and that a
file gives back with an empty piece behind them or in pieces, and these pieces, and what a torn
file still holds, are the shorter lines that it gives back as they are; with maxima of 1 and 3
the history is empty, full, or has room when a session begins. *GenodeLock*:
three threads give an owner, a thread that waits for it behind the guard and one that
wants the guard.

Stopping. Channels stop when every message is sent or every sender has raised, a
pass of `Bacon` when it is done, `LineEdit` when the line is entered or given up,
`GenodeLock` when everybody waits (see section 6): these runs do not check for
deadlock, and `Linenoise`, which can always be killed and started again, does not
need to. All others do.

Fairness, and why the code has it. *Channel*: a thread that can take its next
step inside a call takes it (weak fairness of `InSend` and `InReceive`), and a thread that
wants the lock gets it if it is free again and again (strong fairness of `Acquire`); both are
what a scheduler and a system mutex provide. Nobody has to call anything; `Close`, `Open`
and spurious wakeups are not fair. *Orc*: the runtime runs on the thread of the program and waits for nobody,
so that its steps are weakly fair; statements are not. *YrcLock*: bodies end and
a free lock is granted (`Work`); no thread has to begin anything.
`WorkShrinks` needs no fairness: it bounds the number of steps of a pass. *GenodeLock*: a
thread goes on inside a call, and gets a mutex that is free again and again (`Inside`,
`AtMutex`); owners need not release, so that a thread that waits for an owner is promised
nothing by `NobodyStuckAtGuard`. The line editor has no liveness property: what it waits
for is a user.

## 5. Proofs

All theorems hold for every value of the constants that satisfies the named
assumptions of the modules.

**ChannelProofs.** `LockInv` (positions are known; the owner of the lock is the
only thread inside a critical section; a closed channel's lock belongs to its
closer) is inductive. A signal moves a thread to
a place outside the critical section, whichever thread it picks (`SignalFacts`);
that is all the proof needs to know about condition variables. `RingInv` adds that
`rd`, `wr` and `count` fit the mask, that `wr` is where the next message goes and
that every slot of the ring has a value; it gives `RingIndicesHold`. It is
inductive because only the lock's owner touches the ring. `WithinCapacityHolds`
follows along the same lines. `ChannelRefinesFifo` maps the ring to the sequence of
its unread slots and shows that growth is a stutter of that sequence, `RawSend`
appends to it, `RawRecv` takes its head, and every other step leaves it. Ring
and refinement are stated for programs that open a channel again only if it never had a
ring (`FreshOpenings`): any other inherits `rd`, `wr` and `count` while the ring is gone.
`RingNotMisusedHolds` says that under the same condition nothing that was freed is used.
`ReadyMeansReceiverHolds` needs no ring: only the receiver that owns the lock sets
`q.ready`, on its way into `llRecv`, and every way out clears it.

**TrialDeletionProofs.** `WhiteIsGarbage`: on a finite heap with exact counts, the
white cells of a marked subgraph are exactly those that no reference from outside
the subgraph leads to. The lemmas: what `Reach` contains and is contained in, that
a subgraph closed under references has its counts split into inside and outside
references, and that a cell has an outside reference iff its trial count is not
negative. `PassTakesWhatOnlyItHolds` is about any way in which cells may be held from
outside the heap (`holds`, a set for each cell whose size makes the counts exact), the
short-cut included: the sum of counts and the number of edges agree only when every
reference to a gray cell comes from a gray cell (`ShortCutIsSound`). What the pass takes
is what only the pass's own subgraph holds, and the counts that remain fit the heap
that remains.

**BaconProofs.** `IInv` says for every phase how far the traversals have come, in terms of
the heap at the beginning of the pass (`start`) and of the edges that are still on the
stack; it was checked on the instance of run `bacon` before it was proved.

- `MarkInv`: the counts are lowered by exactly the edges of gray cells that are no longer on
  the stack (`Marked`); these lead to gray cells; `edges` and `rcSum` are the sizes of
  `Marked` and of the references that gray cells count. At the end the gray cells are the
  whole subgraph (`Scope`), and the test of the short-cut is `AllGarbage`.
- `ScanInv`: a black cell is one that something held from outside leads to, no white cell is
  held from outside, and the part of the stack above `until` belongs to `scanBlack`, which has
  given back the counts of all edges of black cells but those. An edge from a white cell to
  a gray one is still on the stack. At the end nothing is gray, so that
  black and white are `Black` and `White`.
- `CollectInv`: the slots cleared are those of taken cells that are no longer on the stack, and
  what `collectColor` does not follow because it is flagged as a root is a root whose turn
  is yet to come. That a taken cell is black keeps it from being taken again.
- `DoneInv` is the result, which `PassTakesWhatOnlyItHolds` and `WhiteIsGarbage` turn into the
  properties: `MatchesTrialDeletionHolds`, which entitles `Orc` to take a pass as one step,
  `FreesExactlyGarbageHolds`, `SurvivorsRestoredHolds`, `NoCellTwiceHolds` and `TypeCorrect`.

The traversals end: `WorkShrinksHolds` proves that each step within a phase lowers
`WorkLeft`. What the phase may still enter and stack is counted there as two finite
sets, of entries and of edges (`EntriesLeft`, `EdgesLeft`); to enter a cell takes one
element from the first and the cell's edges from the second, and puts at most these
edges on the stack (`LessToEnter`, `LessOnceEntered`). That a stacked edge leads to a
cell (`StackTop`) is where this needs `IInv`.

All of it holds for every finite heap, all roots, every order of the fields, every
`lowMark`, and counts with or without deferred decrements.

**OrcProofs.** One inductive invariant, `IInv`, about the heap in the middle of any
nesting of decrements, destructors and collections; there is one lemma for each
runtime call and each statement that says that it keeps `IInv`. Its parts:

- `Stack`: a pending decrement is the next call, a cell's destructor runs once and ends with
  its dispose, and no cell is both in a destructor and waiting for a collection to free it.
- `NoDangling`: call a cell `Live` when it is allocated and in neither of these two
  states. A slot that counts (`Counting`: variables, fields of live cells, fields that a
  running destructor has yet to reach) holds a live cell or nil; cells waiting to be
  freed have lost their fields. This gives `NoUseAfterFree`.
- `Counts`: the count of a live cell is the number of slots that count and hold it, plus one
  while a decrement for it is pending. `CountsExact`, which speaks of moments when nothing
  is pending, is not inductive without it: every statement breaks and repairs it.
- `Registered`: `roots` and `rootIdx` are inverse, and registered cells are live.
- `NothingForgotten`: a live cell is reached from a variable, a field that a destructor has
  yet to reach, a pending decrement, the candidates, or a cell that a move has tied to
  itself. Between statements the first and the last two remain, which is `GarbageIsCandidate`.
- `Partial`: `GC_partialCollect`'s epilogue, which empties `roots`, meets empty roots.

A collection is `PassTakesWhatOnlyItHolds` with the holders outside the heap that
`Counting` names. `OrcRefinesGcHeap` then needs, of each step, what it does to the
program's view: only `New`, `Assign`, `Move` and the clearing of slots of unreachable
cells change it (`ReclaimsGarbageOnly`). The results, `InvariantHolds`,
`OrcTypeCorrect`, `NoUseAfterFree`, `CountsStayExact`, `GarbageStaysFindable`,
`RootsStayIndexed` and `OrcRefinesGcHeap`, rest on `OrcAssumption` and on
`Disciplined`: no `reset`, which breaks them (run `orc_reset`), and
`GC_partialCollect` with limit 0 where destructors do nothing to variables (section 6
says what happens otherwise). Programs that use `reset` only while collections are
disabled (`safeReset`, run `orc_graph`) are model-checked only; the programs of
`orc_finalize` are covered by the theorems.

**YrcLockProofs.** The inductive invariant `LockInv` conjoins `TypeOK`, mutual
exclusion of each stripe, `LockStateTruthful`, that a thread waiting for locks
holds none for reading, that a thread in the acquiring or releasing loop holds
exactly the stripes the loop index says, that a thread in a collector's body holds
all of them, and that only its outermost collector scope has `hadToAcquire`. The
last three are what `FrozenTopology` needs to survive nesting: an inner scope
must not give back what the outer one acquired. There is one lemma for each
action. Results: `FrozenTopologyHolds`, `LockStateTruthfulHolds`, `TypesHold`;
and `IdleHoldsNothingHolds`, for any nesting, where no
copy returns early: what a thread notes is owned by one of its scopes (`NotesOwned`).
The other threads may nest and leak as they like. That bodies run under a lock is not
among the results: it is false as soon as scopes nest (`yrc_lock_unlocked`).

**GenodeLockProofs.** The guard orders every change of the flag: a thread has
`_mutex_a` exactly between the lines that the guard spans, and `_mutex_b` exactly from
its acquire to its release (`MutexesOK`), which fixes `_locked` at each of these lines
(`FlagOK`); and while the flag is set, somebody owns `_mutex_b` or is about to
(`FlagHasReason`). Results: `TypesHold`, `LockedTruthfulHolds`, `TryTakesAtOnceHolds`,
`WaitForOwnerNeverEnds` (`Contended`, a thread waits for the owner inside the guard, is
left by no step: the reason for the violation of `NobodyStuckAtGuard`), and
`ImplementsMonitor`, the refinement of `MonitorLock`, where the mapped owner is the
one thread that holds `_mutex_b` or waits for it, behind the guard, while nobody does.

**LinenoiseProofs.** The invariant says what the history is in the middle of a session: what
`linenoiseHistoryAdd("")` made of it when the session began, with the scratch entry
last, less what the buffer did not take of an entry that was shown (`Unspoilt`), and that the
draft, or what the buffer takes of it, is on display or in that entry (`SessionOK`);
`ModeOK` relates the terminal's mode, the flag and the saved mode. Results:
`HistoryFits` (`TypeOK`, which bounds the history by its maximum), `IndexInHistoryHolds`,
`DraftKeptHolds`, `TerminalRestoredHolds`, and the action property
`ReadingOnlyCuts`. `LoadRestoresHolds` has an invariant of its own, `LoadInv`: while
a file of plain lines (shorter than the buffer, without CR) is loaded, each is read in one
piece, and the history is the latest of those read so far, equal neighbours counted once. `Collapsed` says this of the file as a whole, by position, while the
code compares each line with the last entry of the history; `OneLineMore` is the step
between the two and rests on the lines kept being numbered without a gap (`Ranked`).

**LineEditProofs.** Everything is for every prompt, width, buffer, history, hint and set of
completions that satisfy `LineEditAssumption`. `LineFits`: the line fits its buffer and the cursor
the line, until a completion that does not fit is accepted. `TypeOK` is inductive; `Greatest` (a bounded set of numbers has a greatest
one) is what the deletion of a word needs.

`ScreenShowsLineHolds`, `AboveUntouchedHolds` and `NothingBelowCursorHolds` state what the
terminal shows, for prompts with `PromptFits`. That the line is on display is not inductive: the editor never reads the
screen back, so that the next redraw is right only if what it has noted about the
last one is true. `ScreenInv` adds that (`Believed`): in one row, that the cursor is in the
row of the prompt and nothing is below that row (`InRow`); in many rows, that the
cursor is where `oldpos` says, in one of the `maxrows` rows, and nothing is below those
(`InRows`). The argument has four steps. The terminal: where each control sequence leaves the
cursor and which cells it changes (`GoMoves` to `RowsCleared`), with `RowAndColumn` for the
arithmetic of cells, rows and columns. The rows: `RowsCounted` says that the numbers
that `refreshMultiLine` computes are the rows that the terminal fills, the new row
behind a full one included. The redraw: `ClearsOld` (exactly the old rows are cleared),
`ClearedThenShown` (from there the line and its notes come out right), `RowAgain` for one
row, `InsertedShows` for the character that `linenoiseEditInsert` writes alone; together
`Redraws`. The keys: each either redraws a line that differs in `buf` and `pos` alone
(`Edits`), or has a lemma of its own (`InsertShows`, `ClearShows`, `EnterShows`,
`CandidateShows`, `CompleteShows`, `EndsShow`). A completion is shown in the place of the line but
shares its notes, which is why `Believed` is about the notes and `Displays` about the text.

Only model-checked: liveness (`OneKindNotForgotten`,
`CollectionHappens`, `EveryStatementEnds`), which is outside the reach of the prover,
`CollectionsDontNest`, and `Orc` for programs with `safeReset`.

## 6. What the models showed about the code

Shown by runs:

- `channel_forgotten`: a send signals once (`channels_builtin.nim` 364), and with a
  second sender asleep on the same condition variable the signal may wake that one, which
  finds the channel full and sleeps again; the receiver stays asleep beside a message,
  although `recv` "blocks until a message has arrived" (415). The mirror image needs a second
  receiver: a receive signals only when it brings the count to `maxItems - 1` (407), the
  signal may wake that receiver, which sleeps again, and the sender stays asleep
  beside a free place (`SenderNotForgotten`), against line 455. It cannot happen while those
  asleep are all of one kind (`OneKindNotForgotten`).
- `orc_reset`: `reset` (`lib/system.nim` 928-936) destroys a slot before it clears
  it. If that decrement starts a collection, trial deletion follows an edge that is
  no longer counted, and a cell that is still referenced is freed. The comment in
  `liftdestructors.nim` 769 asks for the opposite order.
- `yrc_lock_unlocked`: `releaseMutatorLock` does not know whether its scope was
  the one that acquired; the end of an inner scope leaves the rest of the outer
  one unlocked.
- `genode_deadlock`: `acquireSys` waits for `_mutex_b` while it has the guard
  (`syslocks.h` 30-32), and `releaseSys` begins with the guard (53). As soon as one
  thread waits for the owner, neither of them gets on (`WaitForOwnerNeverEnds`), nor does any
  other that locks or unlocks. A `tryAcquireSys` whose unguarded look (37) found the lock
  free waits for the guard behind them for ever, too; only one that finds `_locked` set at
  that look is safe. What the lock grants up to then is right (`RefinesMonitor`).

Met while modelling and described here only:

- `GC_partialCollect(limit)` with a limit above 0: the pass clears `rootIdx` of
  all roots and empties the array, and line 392 puts `lowMark` entries back that
  believe they are not registered. With limit 0, `roots.len = 0` also drops
  what destructors have registered meanwhile, which keeps its `rootIdx`. The runs
  call it with limit 0 and without user destructors.
- The assertion at the end of `GC_runOrc` (465) does not hold when a destructor of
  the pass registers a candidate. `collectCycles` itself keeps such candidates.
- `GC_disableOrc` sets the threshold to `high(int)`, and each successful explicit
  collection lowers it by a third.
- The copy of a seq under YRC returns at its self-assignment test without
  releasing the lock (`liftdestructors.nim` 1336 with 618). The action is in
  `YrcLock` (`ReturnEarly`). A thread that leaks its lock keeps collectors out until
  it releases one scope more; `CollectionHappens` and `IdleHoldsNothing` except it.
- `ready` is one flag for all receivers and is cleared by the first one served, so that it may
  say nobody when somebody waits. It is also set for a moment by a receive, or a `tryRecv`,
  that finds a message (399), so that a reader without the lock (465-469) may see it set when
  nobody waits. All it says is that some receiver is inside `llRecv` (`ReadyMeansReceiver`).
- A move of a variable into a slot that is found by way of that variable only, as in
  `x.next = move x`, closes a cycle over its own last reference. `=sink` decrements what the
  slot held and nothing else (`liftdestructors.nim` 849-853), so that the cell is not
  registered and no collection finds it. It is the only way in which garbage is forgotten
  (`GarbageIsCandidate`, `captured`).
- `reset` of a field whose destructor drops the last reference to the object that
  has the field destroys that object, the field included, a second time; the
  runs combine `reset` with destructors without effects on variables.
- `close` frees the ring (178) and leaves `data`, `rd`, `wr` and `count`; a channel that
  is opened again starts from them. Its first growth copies `count` messages from the freed
  ring and frees it a second time (312-323). `RingNotMisusedHolds` is for programs that do not
  open a channel again once it had a ring. `close` also destroys the lock while a sender
  that has read the mask may be about to take it.
- `llRecv` raises when the message is of another type; `ready` is cleared by then and
  the message stays.
- A destructor that takes a lock of the user under `--mm:yrc` runs while its thread has
  every write lock; a mutator that has the user's lock and waits for its read lock
  waits for that thread (`yrc.nim` 281).
- Genode, `broadcastSysCond` is one `up` (77), which wakes one thread, while
  `locks.nim` 76-77 says "Unblocks all threads currently blocked on the specified
  condition variable"; and signals that nobody waits for are remembered, so that later
  waits return at once. `initSysLock` does nothing (`syslocks.nim` 85), so that
  `_locked` of a lock outside static storage is what the memory held.
- Line editor, widths: with a prompt as wide as the terminal the first loop of
  `refreshSingleLine` (511) takes `pos` and `len` below zero. An empty prompt: the
  cursor goes to the second column, since `ESC[0C` moves by one (533). In multi-line
  mode, a prompt that fills its row exactly and an empty line: the cursor is expected one row
  lower than it is, and a later refresh goes above the prompt (587-607) and erases the text
  there: a character typed, taken back and typed again is enough. `PromptFits` excludes
  them. At the right margin the erase of line 530 wipes the last
  column, which `ScreenShowsLine` admits.
- Line editor, hints: without a colour an uninitialised array is appended (486-488).
  The model takes the colour for given.
- Line editor, completion: a byte above 127 is returned as a negative number and ends the
  line like an error (807-809); a completion of `buflen` bytes or more sets `len` to
  what `snprintf` would have written (395-396), beyond the buffer. Both are in the
  model, which stops at the second (`"overrun"`).
- Line editor, end of the input: `linenoiseEdit` returns `l.len` (801), so that a
  terminal that is gone yields empty lines for ever, and the scratch entry stays
  in the history, as after ctrl-C (828-831). `linenoisePrintKeyCodes` spins at the end of the input (969).
- Line editor, lengths: a line may have `buflen` characters (4095, line 639), but browsing
  takes only `buflen - 1` of an entry (715-716) and writes what it took back to the entry when it
  is passed (704-705). A draft that fills the buffer returns without its last character
  (`DraftKept`), and browsing past an entry of `buflen` characters or more, which a program may
  have added, shortens it for good (`BrowsingOnlyCuts`). `linenoiseHistoryLoad` reads at most 4095
  characters at once (1197) and cuts each piece at a CR (1200): a saved line that fills the
  buffer comes back with an empty entry behind it, a longer one in pieces.
- Line editor, history: with a maximum of 1 each session replaces the only entry by
  its scratch entry. `linenoiseHistorySave` truncates first and reports no failed write
  (1176-1183): a kill or a full disk leaves the beginning of the history, down to the middle
  of a line, and nobody is told. After a `tcsetattr` that failed in `disableRawMode`, the next
  session saves the raw mode as the one to restore (226), and the terminal's own is
  lost; `TerminalRestored` claims nothing from there on.

## 7. Not modelled

Component by component in `PROJECT.json`. In short: acyclic types
(`nimDecRefIsLast`) and the logging and statistics variants of the collectors
(`logOrc`, `nimOrcStats`, `nimStressOrc`, `useJumpStack`, `optimizedOrc`); the
deep copy of messages under the old collectors and the run-time type test of
`recv`; the seq operations around the YRC lock other than as scopes; the YRC
queues; the thread pool (where `closeBarrier` may destroy a semaphore before the last task
signals it, `nimFlowVarSignal` uses `fv.ai` after `blockUntilAny` may have returned, `sync`
waits for workers that have shut down, and spawning from tasks may wait for a full
pool), futures and the allocator, each a project of its own; the older
collectors, the containers and the compiler (no concurrency, or
state that a model checker cannot hold); the C headers and Genode's threads and
signals (nothing that changes). In the line editor: failed allocations, failing
writes that the code does not look at, characters of more than one byte or column, a terminal that
scrolls, a width that changes in the middle of a line, and callbacks that call the library again.

## 8. Running

    tlc -workers 2 -config MCOrcGraph.cfg MCOrc
    tlapm ChannelProofs.tla

`PROJECT.json` maps every definition to the lines it models, names for every
property a faulty variant of the code that the property detects (the definitions
commented "a plausible mistake"), and lists the hazards.
