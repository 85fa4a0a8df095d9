# A TLA+ model of Toroni

Toroni is a protocol suite for processes of one machine, a header-only C++
library with a Java port:

- **RMP** broadcasts messages over a ring buffer in shared memory. Writers take
  turns under a robust mutex; readers take no lock.
- **TP** is publish/subscribe by topic on top of RMP.

This directory holds TLA+ modules translated from the C++ sources (and from the
Java sources where they differ), TLC configurations that check them on small
instances, and theorems about them that TLAPS proves for every size.
C++ paths below are relative to `cpp/src/include/toroni`.

## 1. Inventory

| Part | State | Operations | What is hard |
|---|---|---|---|
| Ring buffer (`rmp/byteRingBuffer.hpp`) | `freePos`, the bytes, statistics | - | `freePos` is the only thing writers tell readers of the stream |
| Writer (`rmp/writer.hpp`) | none besides the buffer; holds `writerMtx` | `WriteEx`, with `Write` and `DetectReaderBackpressure` | padding and blanks at the end of the buffer; stale reader positions; dying between two stores |
| Reader (`rmp/reader.hpp`, `rmp/copyConfirmHandler.hpp`) | position, the copied message | `ReadEx` | copying under a writer's feet and noticing it |
| Reader with backpressure (`rmp/readerWithBackpressure.hpp`) | slot, `_readerPos` | constructor, destructor, `Activate`, `Deactivate`, `ReadEx` | activation while writers write |
| Reader info (`rmp/readerInfo.hpp`) | slots: robust mutex, `isActive`, `position`; the packed range `_readersMinMax` | `Alloc`, `Free`, `Activate`, `Deactivate`, `GetActiveRange`, `UpdateActiveRange` | a range recomputed without a lock; owners that die |
| Positions (`rmp/detail/util.hpp`) | 64-bit words | `GreaterThan`, `GreaterOrEqualThan`, `Expired` | wrap round |
| Robust mutex (`traits/posix/robustProcMutex.hpp`) | owner, consistency | `Lock`, `TryLock`, `Unlock` | recovery from a dead owner |
| Serial work queue (`traits/concurrent/serialWorkQueue.hpp`, `SerialWorkItemQueue.java`) | queue, `_stop`, `_stopPolicy`, a thread | `Enqueue`, `Stop`, `Run` | lost wake-ups, items that throw |
| MPSC queue (`traits/concurrent/mpscMessageQueue.hpp`) | queue, `_startDrainer` | `Enqueue`, `Drain` | exactly one drainer |
| Multicast notification (`traits/posix/multicastUdpNotification.hpp`) | datagrams in sockets | `Send`, `Wait` | datagrams merge and are dropped; `Send` throws |
| TP writer (`tp/asyncWriter.hpp`) | - | `CreateMessage`, `Post`, `ProcWriter` | hand-over between drainers; waking the reader it waits for |
| TP reader (`tp/reader.hpp`) | list of channel readers, an RMP reader | `CreateChannelReader`, `CloseChannelReader`, `Run` and the jobs they enqueue | jobs of two queues; copies of the list |
| Topic messages (`tp/detail/*`) | - | `SizeOf`, `Serialize`, `DeserializeAndFilter` | sizes; matching of topics |
| System tests (`cpp/system_tests/burst`: `agent.cpp` and the scripts) | reader and writer processes, statistics in shared memory | the commands of the agent; `bench-cell.sh`, `robust-reader.sh`, `robust-writer.sh` | agents that exit with a lock or are killed; scripts that wait for them |
| Whole-transfer benchmarks (`systemBench.cpp`, `notificationBench.cpp`) | counters, a condition variable, the threads of one process | a loop that posts a burst and waits until it has arrived; the shutdown | every kind of wake-up in one program |
| Start-up (`traits/posix/sharedMemory.hpp`, `tp/readerInfo.hpp`) | shared memory objects and their names, `initialized` | `CreateOrOpen`, `Unlink`, constructors | processes that start together; an initializer that dies half-way |

How they interact. `Post` puts a message on the MPSC queue and, when it is told
to, gives the executor of the host a `ProcWriter`. `ProcWriter` drains the queue
and calls `WriteEx` for each message, under `writerMtx`. `WriteEx` scans the
slots in the active range: if a reader would be overtaken, it calls the
backpressure handler, which TP wraps so that the readers are notified first, and
looks again or, if the handler returns false, writes all the same. When nothing
is left to drain `ProcWriter` notifies. A notified process calls `Run`, which
goes through the serial queue to take a copy of the list of channel readers and
then through the read queue to `ReadRmp`, which reads the stream up to its end
and gives each message to the channel readers in the copy.

What makes each part correct:

- *ring buffer*: a reader that writers respect gets every message of the stream
  once, whole and in order; the stream survives the death of any writer; a
  reader gives up only if a write was let past it; a waiting writer gets on;
- *reader info*: a reader whose `Activate` returned is seen by writers;
- *positions*: comparisons of words mean what they say across the wrap;
- *queues*: items run in order, once; a stop stops; one drainer, never none;
- *TP writer*: whatever is posted is read, with no wake-up lost;
- *TP reader*: a channel reader sees consecutive messages; the slot is active
  exactly while somebody listens;
- *messages*: what goes in comes out, for the readers it is meant for;
- *robust mutex*: it passes from a dead owner to one process, and is never lost;
- *system tests*: a script that passes has tested what it says, and it ends;
- *whole transfers*: main goes on when, and only when, a burst has arrived, and no
  shutdown discards a message;
- *start-up*: all processes share the same objects, and nobody who passed the
  test of a flag uses what is not constructed.

## 2. Modules

`A -> B` says that A extends B (or, in brackets, instantiates it).

| Module | Models | Relation |
|---|---|---|
| `RmpLayout` | arithmetic of the buffer: where a position lives, what padding a message needs, `Expired` | |
| `RmpRing` | writers, readers, activation, crashes | `-> RmpLayout` |
| `RmpStream` | the abstract specification: one log, readers that follow it | |
| `RmpRingRefines` | the refinement mapping: the log is the committed messages, in the order of their positions | `-> RmpRing` (`RmpStream`) |
| `RmpRingInv` | the inductive invariant | `-> RmpRing` |
| `MCRmpRing` | both of these, for TLC | `-> RmpRingInv, RmpRingRefines` |
| `RmpRingProofs` | lemmas about the layout, the theorems of the ring and of its refinement | `-> RmpRingInv, RmpRingRefines` |
| `RmpReaderInfo` | slots and the range, access by access | |
| `RmpPosition` | positions as words that wrap | |
| `SerialWorkQueue` | the work queue of both languages | |
| `TpAsyncWriter` | posting, draining, writing, notifying, sleeping | |
| `TpReader` | channel readers, `Run`, `ReadRmp` on one queue or two | |
| `TpMessage`, `MCTpMessage` | messages and topics | |
| `RmpStartup` | creating, constructing, attaching to and unlinking shared memory | |
| `RobustMutex` | the mutex as a record, and what each call makes of it | |
| `UdpNotification` | sockets as numbers of datagrams, and what each call makes of them | |
| `BurstAgents`, `MCBurstAgents` | the processes and scripts of the system tests | `-> RobustMutex, UdpNotification` |
| `Transfer` | both whole-transfer benchmarks, thread by thread | `-> UdpNotification` |
| `RmpBackpressureProofs` | what backpressure rests on: the range and the words | `-> RmpReaderInfo, RmpPosition` |
| `TpAsyncWriterProofs` | the hand-over of messages, and a message on its way | `-> TpAsyncWriter, TpMessage` |
| `SerialWorkQueueProofs`, `TpReaderProofs`, `RmpStartupProofs`, `BurstAgentsProofs`, `TransferProofs` | an inductive invariant each, lemmas and theorems | each `->` the module it is named after |

### RmpRing

A step is what one process does between two accesses to shared memory that
another process can observe, so a copy of a header or of the data of a message
is a step of its own, and writes fall between any two.

- `freePos` is the word of that name, unbounded here (`RmpPosition` deals with
  the wrap); `mem[c]` records *which stream position* the byte in cell `c` is
  of. That is all that tells a good copy from a torn one, so bytes have no other
  value. `frames` remembers the headers by position.
- The process that holds `writerMtx` has the control `wpc`. `BeginWrite` is the
  start of `WriteEx` and of `Write` (lock or recovery, `bytesToWrite`, the
  range); `ScanActive` and `ScanPosition` are the two loads of each turn of
  `DetectReaderBackpressure`; `BpWait`, `BpWrite` and `BpThrow` are the answers
  of the handler; `StorePadding`, `SkipToStart`, `StoreHeader`, `StoreData` and
  `Commit` are the stores of `Write`. `CrashWriter` may take the place of each.
- A reader `r` is whoever owns slot `r`, with the control `rpc[r]`: `Alloc` and
  `Free` construct and destroy it; `LoadFreePos`, `StorePosition`, `SetActive`
  and `UpdateRange` are `Activate`; `StartRead` to `Advance` are `ReadEx`, one
  action for each load of shared memory. `"dead"` is a process that crashed,
  `"aborted"` one whose assertion failed; the library is taken with its
  assertions enabled. A header of which a newer message has overwritten a part
  may show any member of `Garbage`.
- History variables: `high` is how far writers were allowed to store; `exposed`
  says whether a write was let past the unread bytes of a reader, by a handler
  or because the reader was not visible when the slots were scanned; `base` and
  `got` are what a reader has confirmed since it activated.

Two constants say which of the two languages activates: `PositionFirst` is the
order of C++ (`StorePosition`, then `SetActive`); without it `SetActive` comes
first, as in `ReaderInfo.java:158`. `BposMaxLag` is how far a reader reads before
it publishes: half the buffer in C++, the whole buffer in Java.

`UpdateActiveRange`, a retry loop, is one step here. `RmpReaderInfo` takes it
apart and shows when that is right: as long as no compare-and-swap succeeds
although another has succeeded since the value was loaded (`ListedInRange`), be it
that the value changed and changed back or that the same value was stored. When one does,
`ActivatedIsInRange` fails; this is one of the findings below, and the theorems
about `RmpRing` are to be read with that proviso.

`RmpStream` is what a user of RMP is promised: a log that only grows at its end,
readers that join it, are given the next message or decline it, and leave. The
ways to lose the log are explicit: `Missed` (writers go by while a reader is
joining) and `Override` (a handler decided to write on).

### RmpReaderInfo

`TryLock`, `Activate`, `Deactivate` and `Free` set `isActive` and continue in
`LoadRange`, `ScanSlot` (once for each slot), `Swap` or `SwapFails`. A process
may die at every step; its lock is then free and its flag stays as it was, until
`TryLock` takes the slot and clears it. A writer's `GetActiveRange` is two loads.

### RmpPosition

(Its definitions are named `PositionInit`, `PositionNext`, `PositionSpec`, and those
of `TpMessage` `MessageInit` and so on, because a proof module extends each of them
together with another module.) A writer and a reader with positions as numbers modulo
`Mod`, beside the unbounded positions they stand for. `GreaterThan` and `GreaterOrEqualThan` are
signed differences; the reader's decision to publish its position
(`pos >= bpos + bposMaxLag`, reader.hpp:122) compares raw words and is modelled
so. Sizes are what a message adds to a position: up to a buffer with its header
(writer.hpp:114), and up to one less than two buffers with the padding before it. One that
adds a buffer or more waits until the reader does not count any more (`RmpRing_big`),
which is why `WaitEnds` is about the others; `NeverOvertaken` is about all.

### SerialWorkQueue, TpAsyncWriter, TpReader

- *SerialWorkQueue*: the evaluation of the wait's predicate and the sleep are two
  steps, for `Stop` of the C++ class does not take the mutex. `stopLocks` says
  which class a behaviour is of. A throwing item ends its batch.
- *TpAsyncWriter*: the stream is a log that may run `Window` messages ahead of
  the reader. `Drain` and `Enqueue` are atomic, being under a mutex; everything
  else interleaves. The socket holds `MaxPending` datagrams.
- *TpReader*: jobs are enqueued on one queue or on two, as hosts may do, and the
  RMP reader is the one of `RmpRing` with messages for bytes. `Activate` is two
  steps, of which the first overwrites the `_readerPos` that `ReadRmp` may be
  using. `liveList` is the class of the Java port, whose jobs are given the list of
  channel readers itself; its host has one queue. `KeepHistory` is set in the
  configurations whose property looks at where the stream was when a channel
  reader was created or added. All channel readers listen to the topic that is
  posted to; `TpMessage` deals with topics.

### RmpStartup

The objects behind the two names, each with a size or still without one, and the
fields stored in it so far. `ShmOpenExcl`, `Truncate`, `TruncateFails` and
`ShmOpen` are the system calls of `CreateOrOpen`, each a step of its own; `Touch`
is an access to a mapping, which raises `SIGBUS` while the object has no size.
The process that constructs (`RunInit` of the agent) stores field after field in
the order in which `ByteRingBuffer` and `tp::ReaderInfo` *declare* them
(`RingBuffer`, `ReaderInfo`), which for the latter is not the order its
constructor writes. `ReadConfig`, `CheckInitialized`, `CheckRmpInitialized`,
`Alloc` and `CheckTpInitialized` are the constructors of `Writer`, `Reader`,
`ReaderWithBackpressure` and `tp::Reader` in the order in which they run.
`Unlink` is `RunUnlink`. No process waits for another: the code has no means to.
History variables: `early` (somebody began before construction ended) and `gone`
(a name was unlinked).

### RobustMutex, UdpNotification, BurstAgents

`RobustMutex` and `UdpNotification` have no variables: a mutex is a record of its
owner, of whether it is consistent and of whether it is lost; a socket is a number
of datagrams. Their operators say what each call returns and leaves behind, and
the modules that extend them take a call as a step of the caller. Between
`EOWNERDEAD` and `pthread_mutex_consistent` there is a step, at which the caller
may die.

`BurstAgents` composes everything across processes. A script is the sequence of
its commands (`BenchCell`, `RobustReader`, `RobustWriter`), run with `set -e`: `line`
is the command it runs next, and `Returns` moves on or ends it. The loop of
`bench-cell.sh` is its `"loop"` command, which begins the next iteration `iter` at
line 1 or goes on to what follows `done`. An agent is a triple: a reader or a writer,
its number, and the iteration that starts it. The agents are processes of `RunReader`
and `RunWriter` with one action for each access another process can observe. A
reader with `ROBUST_READER` and a writer with `ROBUST_WRITER` exit inside their
handlers, with the lock they hold; those in `Mortal` may be killed at every step
besides. Opening a socket may fail. The ring is that of `RmpRing` with messages for bytes, as in `TpReader`; a reader
publishes its position after half a buffer (`Published`) and at the end of the stream.

### Transfer

`Transfer` composes the parts inside one process. `notificationBench.cpp` (`"rmp"`)
has a main thread that writes to the ring itself and a reader thread;
`systemBench.cpp` (`"tp"`) has a main thread that posts, two serial queues with a
thread each and the thread that receives notifications. All the wake-ups of the
library meet here: datagrams, the items of the queues, the condition variable main
sleeps on and the last datagram of the shutdown. The serial queues run an item at
a time; the window in which `Stop` loses its notification (`SerialWorkQueue_stop`)
is not repeated here, nor a notification that cannot be sent (`TpAsyncWriter`).
Reading a message is up to four steps, as in the code: the handler counts it
(`ReadMessage`), tests the count (`TestCount`), wakes main (`Signal`), and only after
it has returned does the reader's position move (`Advance`). Main can thus go on, and
begin the next burst, with the reader's position one message behind.

## 3. Runs

Each run is checked by `tlc -config <run>.cfg <module>`.

| Run | Module | Shows |
|---|---|---|
| `RmpRing_one` | `MCRmpRing` | with handlers that wait, write on and throw, callbacks that decline, writer and reader crashes: `ProtectedIntact`, `StreamWellFormed`, `ExpiredJustified`, `AssertionsHold`, and that the ring implements `RmpStream` |
| `RmpRing_two` | `MCRmpRing` | two readers, with the order of activation and the lag of the Java port: the inductive invariant `IInv`, `NoUnreadByteOverwritten`, the refinement (one order for both), and `WriteCompletes` |
| `RmpReaderInfo_slots` | `RmpReaderInfo` | `ListedInRange`, `VisitsListed`, `QuietRangeExact` with crashes |
| `RmpPosition_wrap` | `RmpPosition` | `NeverOvertaken`, `WaitEnds` across the wrap |
| `SerialWorkQueue_run` | `SerialWorkQueue` | `SerialOrder`, `StopDrains`, `ItemsTakenUp`, and `LockedStopReturns` for the Java class |
| `TpAsyncWriter_post` | `TpAsyncWriter` | `OneDrainer`, `PostOrder`, `SleepsWithNothingToRead`, `PostedIsRead` |
| `TpReader_run` | `TpReader` | `NoGaps`, `ActiveIffReaders`, `CalmAssertionsHold`, `StreamIsRead`, for both languages and with one queue or two |
| `TpMessage_deliver` | `MCTpMessage` | `Delivered`: serialise, parse and filter for all pairs of topics; `SizesChecked`: the checks of `CreateMessage` and `Post` agree at all sizes but one |
| `RmpStartup_attach` | `RmpStartup` | `UsesConstructed`, `LateCheckPasses`, `SameObjects`, `OrderlyStart` for processes that start in any order, fail and die |
| `BurstAgents_scripts` | `MCBurstAgents` | six system tests whose agents exit with a lock, fail and are killed: `OneInside`, `PassMeansAllReceived`, `RobustReaderTests`, `OwnBurst`, `ScriptEnds` |
| `Transfer_bench` | `Transfer` | both benchmarks, with bursts that overflow the ring: `OutcomeTrue`, `ForcedPastAwake`, `BenchEnds` |
| `RmpRing_torn` | `RmpRing` | a violation: see Findings |

Bounds, and why they are enough:

- `RmpRing_one`: a buffer of 8 bytes, headers of 2, messages of 1 and 2 and
  positions up to 16, two turns of the buffer. Every remainder occurs: an exact
  fit, padding, padding of length 0, a blank shorter than a header. One reader
  suffices for everything that happens between a reader and the writer.
- `RmpRing_two`: headers of 1 byte, messages of 2, positions up to 12: the fourth
  message wraps (it is padded) and meets both readers where they stand.
  `BposMaxLag` is 8, the buffer (in `RmpRing_one` it is 4, half of it).
- `GarbageLens`: a torn header shows a plausible length or one that does not fit.
- `RmpReaderInfo_slots`: three slots, of which the middle one belongs to a reader
  that stays (`Resident`), and two processes that come and go. The range then
  grows and shrinks at either end, and two processes suffice to invalidate each
  other's scan.
- `RmpPosition_wrap`: 64 words, a buffer of 8: positions go round and round, the
  state space is closed under the wrap. Sizes of 2 and 3, one less than a buffer, and
  15, the largest there can be.
- `SerialWorkQueue_run`: 4 items, so that items arrive before, in and after a
  batch; `TpAsyncWriter_post`: 5 messages with a window of 2 and a socket of one
  datagram, so that backpressure and dropped datagrams occur together;
  `TpReader_run`: 3 messages with a window of 2 and two channel readers.
- `TpMessage_deliver`: seven topics in a hierarchy, with a prefix that is no
  parent; sizes at, below and above the limit; words of 6 bits, with sizes of data that
  do not fit them and sizes that only the header and topic make too large.
- `RmpStartup_attach`: one process of each role, of which the initializer and the
  reader may die; there are as many objects as calls of `CreateOrOpen`, so that
  none is cut short. Construction happens once, as the agent does it.
- `BurstAgents_scripts`: `bench-cell.sh` with one and two readers and writers, one
  and two messages, one and two iterations (`MaxIterations`), as far as two processes
  of a kind do (`MaxAgents`); `robust-reader.sh`; `robust-writer.sh`. The ring holds one message
  (`Window`), so that the second of a burst meets backpressure: that is the case
  in which the writer of `robust-writer.sh` dies. Sockets of two datagrams fill
  up. A writer and a second reader may be killed. `LongSleep` says that the
  `sleep 1` of `robust-reader.sh` is long enough. `ScriptEnds` excuses a script that
  is in `waitreaders` and cannot leave it: so many readers of the iteration failed or
  died before they were counted that with those still starting there are too few, and
  nobody else is missing (`WaitsForDeadReader`).
- `Transfer_bench`: bursts of three with a window of two and a socket of one
  datagram, so that a burst needs backpressure and a datagram is dropped; two
  iterations, so that the second starts from what the first leaves.

Deadlock is not checked: every instance stops when its bounded inputs are used
up, and a stopped queue or an aborted process is meant to stop. A script that
failed leaves readers behind that wait for ever, as it does in the system.

Each module with a state states a type invariant, and each is proved: as a theorem of
its own, or as a conjunct of the inductive invariant (`RmpPosition`, `TpMessage`).

Fairness. No application is made to write, post, create or close anything.
`RmpRing`: a process that holds `writerMtx` keeps running, an activation once
begun goes on, an active reader reads (it is notified by every write and by
every backpressure). No reader is made to deactivate or leave.
`SerialWorkQueue`: the thread and a caller inside `Stop` are scheduled; spurious
wake-ups are possible and never assumed. `TpAsyncWriter`: the executor runs what
it is given, a call of `Post` returns, a reader with a datagram reads.
`TpReader`: notifications that were sent arrive; the threads of the queues run.
`BurstAgents`: the script and every living process are scheduled; nothing makes
anybody die. `Transfer`: every thread is scheduled.

## 4. Proofs

The modules named `...Proofs` are checked by `tlapm`.

| Module | Theorem | Statement |
|---|---|---|
| `RmpRingProofs` | `Typing` | `Spec => []TypeOK` |
| | `Invariance` | `Spec => []IInv` |
| | `DeliveryIsIntact` | `Spec => []ProtectedIntact` |
| | `ExpiryIsJustified` | `Spec => []ExpiredJustified` |
| | `NoAssertionFails` | `Spec => []AssertionsHold` |
| | `StreamIsWellFormed` | `Spec => []StreamWellFormed` |
| | `UnreadBytesStay` | `Spec => NoUnreadByteOverwritten` |
| | `RingIsStream` | `Spec => ImplementsStream` |
| `RmpBackpressureProofs` | `Invariance` | `Spec => []InfoInv` |
| | `Typing` | `Spec => []TypeOK` |
| | `ListedStayInRange` | `Spec => []ListedInRange` |
| | `WritersVisitListed` | `Spec => []VisitsListed` |
| | `RangeIsExactAtRest` | `Spec => []QuietRangeExact` |
| | `PositionInvariance` | `PositionSpec => []PositionInv` |
| | `ComparisonsAgree` | `PositionSpec => []WordsAgree` |
| | `BackpressureHolds` | `PositionSpec => []NeverOvertaken` |
| `SerialWorkQueueProofs` | `Invariance` | `Spec => []QueueInv` |
| | `Typing` | `Spec => []TypeOK` |
| | `ItemsKeepOrder` | `Spec => []SerialOrder` |
| | `StopLeavesNothing` | `Spec => []StopDrains` |
| `TpAsyncWriterProofs` | `Invariance` | `Spec => []WriterInv` |
| | `Typing` | `Spec => []TypeOK` |
| | `AtMostOneDrainer` | `Spec => []OneDrainer` |
| | `MessagesKeepOrder` | `Spec => []PostOrder` |
| | `NoLostWakeup` | `Spec => []SleepsWithNothingToRead` |
| | `MessageInvariance` | `MessageSpec => []MessageInv` |
| | `DeliveredToWhomItIsFor` | `MessageSpec => []Delivered` |
| | `SizesAreChecked` | `MessageSpec => []SizesChecked` |
| `TpReaderProofs` | `Invariance` | `Spec => []ReaderInv` |
| | `Typing` | `Spec => []TypeOK` |
| | `SlotFollowsList` | `Spec => []ActiveIffReaders` |
| | `HandlersMissNothing` | `Spec => []NoGaps` |
| | `AssertionsOfReadRmp` | `Spec => []CalmAssertionsHold` |
| `RmpStartupProofs` | `Invariance` | `Spec => []StartupInv` |
| | `Typing` | `Spec => []TypeOK` |
| | `AttachedFindConstructed` | `Spec => []UsesConstructed` |
| | `SlotMeansAttached` | `Spec => []LateCheckPasses` |
| | `RacersShare` | `Spec => []SameObjects` |
| | `OrderlyStartWorks` | `Spec => []OrderlyStart` |
| `BurstAgentsProofs` | `BurstInvariance` | `Spec => []BurstInv` |
| | `BurstTypes` | `Spec => []TypeOK` |
| | `OnlyOneInside` | `Spec => []OneInside` |
| | `ReceivedIfPassed` | `Spec => []PassMeansAllReceived` |
| | `ReaderRecovered` | `Spec => []RobustReaderTests` |
| | `ReadsItsOwnBurst` | `Spec => []OwnBurst` |
| `TransferProofs` | `Invariance` | `Spec => []TransferInv` |
| | `Typing` | `Spec => []TypeOK` |
| | `MainIsToldTheTruth` | `Spec => []OutcomeTrue` |
| | `OvertakenIsAwake` | `Spec => []ForcedPastAwake` |

### The ring buffer

The theorems hold for all buffer, header and message sizes, any number of
readers, any set of handler answers and of processes that may crash, both orders
of activation, any lag of publication, and any `GarbageLens` and `MaxPos`. They
assume `LayoutAssumption` and `RingAssumption` only: sizes are natural numbers, a
header fits the buffer, messages are at most `GetMaxMessageSize`.

The argument. `ProtectedIntact` says nothing of why a copy succeeds, so it is not
inductive. Three facts are needed:

1. *A cell holds a position of its own* (`MemInv`), so two positions that share
   a cell are a multiple of `BufSize` apart (the first lemmas of `RmpRingProofs`).
2. *A write stores below* `high` *and above* `freePos` (`WriterInv`), so the bytes
   of the stream from `high - BufSize` on are all in memory, in every state and
   after every crash (`CellsInv`), in whole frames (`FramesInv`).
3. *A protected reader stands less than a buffer behind* `high`
   (`ReadersInv`): it is in the range, no allowed write ends a buffer's length
   past the position it publishes, and the write now being scanned either will
   still examine its slot or already respects it. The position it publishes is
   never ahead of the one it reads.

From 2 and 3 every byte of the frame a protected reader stands at is in memory
whenever the reader looks, however late; so the header it loads is the frame's,
the expiration checks pass, the assertions hold and the copy is whole. That
`UpdateRange` marks a reader as exposed when writers have already passed it or
will not examine it in their current scan (`JoiningInv`) is what makes 3 hold
from the first step. `RmpRingProofs` proves the invariant by the actions of the
writer, the actions of the reader that takes the step, and the readers that do
not, each with its own lemmas.

That both orders of activation do is visible in the invariant: a slot counts from
`SetActive` on, and its position from `StorePosition` on, but neither is relied on
before `UpdateRange` has put the slot into the range.

The refinement. The log of `RmpStream` is no variable of the ring, and `RmpRing` has
no history of it: it is *the committed messages in ascending order of position*
(`RmpRingRefines`), where the message at place `i` is the one with `i - 1` others
below it. `PlaceOf` shows that every message has exactly one place, for every finite
set of positions, so no induction is needed; `AscendingGrows` that a set which grows
above all its members only grows the list at its end. That is what `Commit` does,
and every other step leaves the messages alone: padding, blanks and frames without
`freePos` behind them are none. Where a reader is in the log is the number of
messages below its position (`BehindIs`), or one more between `Confirm` and
`Advance`. A frame ends where the next begins or before it (`ApartInv`), so moving
over one frame moves over one message, and over a blank or padding over none
(`FrameIsOne`, `BlankIsEmpty`): the message confirmed is the one at place
`next + 1`. Then each action of the reader is one of `RmpStream` (`ReaderRefines`):
`LoadFreePos` joins, `Confirm` delivers, `UpdateRange` lets it in or, when writers
have passed, misses it, a copy that the callback has no use for declines, and a
deactivation, a crash and a failed assertion leave; the others show nothing.
`Commit` publishes, `BpWrite` is `Override`, and the other steps of the writer
show nothing either (`WriterRefines`).

### The other modules

- *Range of active slots* (`InfoInv`; any number of slots and processes, any set
  of residents; `ReaderInfoAssumption`). A slot belongs to one process while that
  process holds its lock (`SlotsInv`), and its flag is cleared by nobody else
  (`FlagsInv`). So a scan that has gone past a listed slot has it in its range,
  and a slot that becomes listed during a scan gets there by a successful swap,
  which makes the other scan's swap fail, as long as no word comes back
  (`ScanInv`). From that the swap publishes every listed slot, and a writer that
  loads the ends of two versions of the range visits all that were listed
  throughout (`VisitInv`). That the range is not too wide either needs the other
  direction: as long as nobody dies, an active slot is held by a process that is
  not giving it up (`OwnedInv`); what a scan has computed that nobody has
  overtaken is wrong only about slots whose owner has set or cleared the flag and
  is still recomputing the range (`ScansExact`), and so is what was published last
  (`RangeExact`). When nobody recomputes it, nothing is wrong.
- *Words* (`PositionInv`; any `Mod` of at least four buffers, any
  `BposMaxLag` up to a buffer, any sizes of less than two buffers, which is all that
  writer.hpp accepts with padding; `PositionAssumption`). The words are the published
  position plus distances of which the sum is less than a buffer. Signed
  differences of words less than half the range apart are differences of
  positions, so all comparisons but one are right; the raw one only delays the
  publication, which the invariant does not depend on.
- *Serial queue* (`QueueInv`; any number of items, both classes). What has run,
  the batch and the queue, end to end, are an increasing sequence; an exception
  cuts the rest of the batch out of it. The thread leaves under `IF_EMPTY` only
  when both are empty, after it has read the policy its caller stored.
- *Asynchronous writer* (`WriterInv`; any finite sets of posters and workers, any
  number of messages, any window and socket). Counting workers that may still
  drain, scheduled jobs and posters on their way to schedule one: the sum is at
  most 1, is 0 when `_startDrainer` is true and 1 when it is false, unless an
  exception ended a drainer (`DrainInv`). So one worker at most has a batch
  (`BatchInv`), and the stream, its batch and the queue are one increasing sequence
  of what was posted and not discarded (`OrderInv`). A reader that waits with
  something to read and no datagram pending has somebody who will still notify:
  who appends to the stream notifies after it, and only a reader that has seen the
  end of the stream starts to wait (`WakeInv`).
- *Messages* (`MessageInv`; any characters but NUL, any set of topics, any lengths,
  any maximum and word size; `MessageAssumption`). At every stage the bytes are those
  of `Serialize` for what was asked for, as far as the memory of `SizeOf` bytes goes. If
  the size of the whole message (header, topic with its NUL, data) fits a word, that is
  all of them. A topic has no NUL, so the first NUL is where the topic ends, whatever
  the data look like (`ParsesBack`), and what `DeserializeAndFilter` hands on is what
  was posted. Both properties are about messages whose whole size fits a word.
  Above, `Serialize` writes past the memory or the data are cut (stages "undefined",
  "readAborted", and what is left of the bytes). Of that nothing is claimed but that no
  other message leads there (`SizesChecked`); `TooBigThrows` shows that it happens.
- *TP reader* (`ReaderInv`; any number of channel readers and messages, both
  classes, one queue or two). Jobs of the serial queue run one at a time; the slot
  is being activated only for a list that has somebody in it (`ListInv`). A channel
  reader that is not yet added is in no list and was not called (`FreshInv`). Of
  those still listed, a later copy of the list leaves out nobody that an earlier
  one holds, nor anybody who was called (`CopiesInv`); so whoever was called last
  was called with the message before `rpos` (`LastInv`), and no call skips one.
  `CalmInv` is what makes `rpos` move by reading alone: the slot is active and not
  being activated while `ReadRmp` runs. The hosts with two queues are covered up to
  the first time activation and `ReadRmp` run side by side, which is what `Calm`
  says (`TpReader_assert` shows what happens then).
- *Start-up* (`StartupInv`; any finite set of processes, any of which may die, with
  any number of slots; `StartupAssumption`). A process opens a name once, so
  objects never run out (`CountInv`); an object serves one name only (`KindInv`),
  although a name may be bound to several in turn. Only the initializer stores, in
  its two objects, a prefix of the fields of the class (`StoreInv`): so a flag that
  is stored last stands for all fields before it, and one that is not, `initialized`
  of `tp::ReaderInfo`, is tested after one that is (`AttachInv`, `HeldInv`). That
  racers share an object holds because `O_EXCL` binds a name once and what is being
  truncated is still what the name is bound to (`SameInv`). An orderly start keeps
  everybody but the initializer from beginning before both objects have their size
  (`OrderInv`); that a reader is then refused only for lack of slots counts the
  live owners among all readers.
- *System tests* (`BurstInv`; any set of tests, any number of agents, iterations, slots
  and messages, any window, any `Mortal`, sockets that fail or not, a second that is
  long enough or not; `BurstAssumption` and, for the type of sockets, `SocketAssumption`). Whoever is inside a
  critical section owns its mutex, whatever happened to those who had it before, and
  has made it consistent, so no mutex is ever lost (`LockInv`): this is `OneInside`.
  The line of the script says which agents have been started, and, because `set -e`
  ends it at a `wait` that fails, which have ended with success (`BenchScript`,
  `RobustScript`); `Control` says what an agent that ended so has done. No writer of an
  iteration is started before all its readers have loaded the end of the stream
  (`BarrierInv`): `readersReady`, which all iterations share, is reset when the last
  reader of an iteration has ended, so it counts those of the next from 0. The stream is the
  bursts of the iterations before and the messages of this one, one for each pair of a
  writer and a number it has no longer to write (`StreamInv`); a reader that was not
  killed stands as many messages past the last burst as it has received (`OwnInv`).
  So a reader that has ended has received the burst, `msgCount` is the sum of what
  those have added (`CountInv`), and the script, which has waited for all of them,
  passes with the count that `PassMeansAllReceived` states. For robust-reader.sh, the
  first reader ends with the only slot in its name, so the second gets it by taking it
  over (`RecoveredInv`). The sums are cardinalities of sets of pairs, so that no
  induction is needed.
- *Whole transfers* (`TransferInv`; bursts, iterations, rings and sockets of any
  size; `TransferAssumption` and `SocketAssumption`). Every message of the bursts
  begun is still to be posted, queued, in the batch or in the stream, and what main
  counts is what was confirmed since the burst began: the position, or one more while the
  handler runs (`Confirmed`, `CountInv`). So a count of `Burst`
  leaves nothing anywhere, the next burst starts from that, and a reader that has
  read a burst to its end cannot be overtaken before another is written: neither
  reason for which main goes on is taken back (`MainInv`). A reader that joined late
  never reaches the count of the first burst, so main does not begin a second one.
  `WritingInv` says who will drain what is queued, `JobsInv` that the reader is
  activated once and by the first job. For `ForcedPastAwake`, a writer that is held
  back has left a datagram, a job or a reader at work behind (`AwakeInv`): the reader
  ends its work only with its position published at the end of the stream, or
  overtaken, and then it is in nobody's way.

Only model-checked: everything under fairness (`WriteCompletes`, `WaitEnds`,
`ItemsTakenUp`, `LockedStopReturns`, `PostedIsRead`, `StreamIsRead`, `ScriptEnds`,
`BenchEnds`), which is out of this prover's reach. Every safety property and every
action property that a passing run checks is proved.

## 5. Findings

Checked by a run of its own:

- `RmpRing_torn`: "reliable, meaning a reader can detect if it has missed a
  message". The last expiration check of `ReadEx` is called pessimistic, but
  compares with a `freePos` that writers move *after* the bytes. With a handler
  that writes on past slow readers, a reader confirms a torn message. With
  handlers that wait it cannot (`DeliveryIsIntact`).

Met while modelling, each reproduced by the configuration named, which violates
the property named (stated in the last section of its module; a `_docs`
configuration lists several, and `tlc -continue` shows them all):

| Configuration | Property | What the code does |
|---|---|---|
| `RmpReaderInfo_aba` | `ActivatedIsInRange` | `Activate` makes a slot be "taken into consideration for creating backpressure on writers"; `UpdateActiveRange` can swap in a range computed before the activation, when the word has returned to the value it had loaded, and the activated slot is outside (readerInfo.hpp:212) |
| `SerialWorkQueue_stop` | `StopReturns` | `Stop` "blocks until the thread finishes", and for ever when its notification falls between predicate and sleep (serialWorkQueue.hpp:80). The Java class takes the monitor and has no such window (`LockedStopReturns`) |
| `RmpRing_padding` | `ExpiredWasOverwritten` | a padding header of length 0 is not `Valid` (msgHeader.hpp:19): an up-to-date reader reports `EXPIRED_POSITION` |
| `RmpRing_late` | `ActivatedNeverOvertaken` | writers pass a reader between its load of `freePos` and its appearance in the range (readerWithBackpressure.hpp:85) |
| `RmpRing_big` | `WriteCompletes` | a message that with its padding is longer than the buffer waits for ever for readers that have read everything (writer.hpp:79) |
| `RmpRing_dead_reader` | `WriteCompletes` | a dead reader holds writers back until its slot is allocated again (writer.hpp:192-213) |
| `TpAsyncWriter_wedged` | `QueueHasDrainer` | after an exception out of `ProcWriter` no `Post` starts another (mpscMessageQueue.hpp:58) |
| `TpReader_docs` | `OnlyNewMessages` | "readers receive only messages created after the reader was created": one added to others shares their position, and the generation that would tell old messages apart is never incremented (tp/reader.hpp:200) |
| `TpReader_docs` | `NothingMissed` | messages read with an older copy of the list pass a new channel reader by (tp/reader.hpp:140) |
| `TpReader_assert` | `AssertionsHold` | with two queues the slot is deactivated between the test and the assertion of `IsActive` (tp/reader.hpp:161) |
| `TpReader_live` | `ListNotEmpty` | in the Java port the list a read job was given can lose its last channel reader before the job runs, which fails `assert (!channelReaders.isEmpty())` where assertions are enabled (`tp/Reader.java:156`, 223) |
| `TpMessage_docs` | `OnlyDescendants` | "/a and below" reaches readers of "/ab" (topicMsgBinaryDeserializer.hpp:92) |
| `TpMessage_docs` | `TooBigThrows` | sizes are truncated to 32 bits before they are tested (topicMsgBinarySerializer.hpp:38) |
| `TpMessage_docs` | `CreatedCanBePosted` | a message of exactly the maximal size fails the assertion of `Post` (asyncWriter.hpp:138) |
| `RmpStartup_docs` | `FlagMeansComplete` | `initialized` of `tp::ReaderInfo` is set before its slots are constructed (tp/readerInfo.hpp:28, 53) |
| `RmpStartup_docs` | `AttachedMaskRight` | writers and readers compute the index mask before they test the flag, and keep a wrong one when construction ends in between (writer.hpp:54) |
| `RmpStartup_docs` | `NoBusError` | "atomically creates or opens": an object opened between `shm_open` and `ftruncate` has no size yet (sharedMemory.hpp:56) |
| `RmpStartup_docs` | `CreatesOrOpens` | a name unlinked between the failed creation and the open makes `CreateOrOpen` throw (sharedMemory.hpp:191) |
| `BurstAgents_single` | `PassMeansAllCounted` | a reader of a `FIRST_LAST_DURATION` burst of one message returns before it adds up what it received (agent.cpp:264) |
| `BurstAgents_race` | `RobustWriterTests` | `robust-writer.sh` does not wait for its reader: a writer that is faster meets no backpressure, nobody dies with the lock, and the test passes without testing it (robust-writer.sh:23) |
| `BurstAgents_sleep` | `ScriptEnds` | if a second is too short for the reader of `robust-reader.sh` to start, it misses messages and the script waits for ever (robust-reader.sh:34) |
| `Transfer_expired` | `ExpiryEnds` | the event handler sets `readerExpired` and notifies nobody: main sleeps on (systemBench.cpp:57) |
| `Transfer_late` | `LateEnds` | the first burst can be written before the job that activates the reader has run: main waits for messages nobody reads (systemBench.cpp:67) |

## 6. Not modelled

- **Of the Java port**: a work item that throws an `Error`, which ends the thread of
  the queue (`SerialWorkItemQueue.java` catches `Exception` only; C++ catches all); the event that a removal without effect raises again
  (`tp/Reader.java:211-217`; a channel reader would have to be closed twice), and
  the native memory and the foreign calls behind the mutex and the shared memory.
- **Of start-up**: permissions, `mmap` that fails, `Remove`, and an initializer
  that is run again over structures in use.
- **Of the system tests**: a signal that takes effect some time after `kill`; the
  process dies at once.
- **Memory ordering**: shared accesses are sequentially consistent. The atomics
  of the library are; the bytes of the buffer are ordinary memory ordered by
  accesses to `freePos`.
- **Statistics** that are only printed, logging, socket options, error codes other
  than those that decide the control flow, `Wait`'s stop flag, `GetSd`. `Peek` has
  an operator, but no caller in the modules.
- **Unit tests** (they exercise single calls and are read as a statement of what
  the code is for), **benchmarks of single calls** (`rmpBench.cpp`, `tpBench.cpp`:
  loops on one thread), the printing commands of the agent (`stat`, `result`,
  `layout`), `bench-table.sh` and `stress-no-expire.sh` (they call `bench-cell.sh`
  with other numbers), build files, CI, generated documentation and the white
  papers.
- In `RmpPosition`: processes more than half the word range apart, which the code
  excludes by the size of the buffer only.

## 7. State

Done: every component of the library, its composition across processes and inside
one, and a theorem for each type invariant and each safety property the runs check.
What a reader might add are the modules of what section 6 leaves out.
