------------------------------ MODULE Transfer ------------------------------
(***************************************************************************)
(* A whole transfer inside one process, as the two benchmarks do it: main  *)
(* hands over bursts of messages, a reader thread waits for notifications, *)
(* and main sleeps on a condition variable until a burst has arrived.      *)
(*                                                                         *)
(*   "rmp"  notificationBench.cpp: main writes to the ring buffer itself,  *)
(*          the reader thread reads it;                                    *)
(*   "tp"   systemBench.cpp: main posts to an AsyncWriter, which writes on *)
(*          a serial queue; the reader thread calls tp::Reader::Run, which *)
(*          works on another serial queue.                                 *)
(*                                                                         *)
(* The parts are those of RmpRing (with messages for bytes), TpAsyncWriter,*)
(* TpReader and SerialWorkQueue with their inner steps taken together: one *)
(* drainer at a time, one reader, a queue that runs an item at a time and, *)
(* once stopped, ends after any item.  All messages of a burst are the     *)
(* same message.  A notification that cannot be sent, which throws, is in  *)
(* TpAsyncWriter.                                                          *)
(***************************************************************************)
EXTENDS UdpNotification, Sequences

CONSTANTS
    Benches,    \* the benchmarks there may be
    Burst,      \* msgCount
    Iterations, \* how often the benchmark repeats its loop
    Window      \* messages the ring buffer holds

ASSUME TransferAssumption ==
    /\ Benches \subseteq {"rmp", "tp"}
    /\ Burst \in Nat \ {0} /\ Iterations \in Nat \ {0} /\ Window \in Nat \ {0}

VARIABLES
    bench,      \* the benchmark of this behaviour, one of Benches
    main,       \* control of the main thread
    iter,       \* iterations begun
    left,       \* messages of the burst still to be posted
    held,       \* whether main has mtx
    rcvCount,   \* messages received since the iteration began
    stopReader, readerExpired,
    queued,     \* messages in the MPSC queue
    busy,       \* whether a ProcWriter is under way, so that Enqueue starts none
    work,       \* ProcWriters on the writer's serial queue
    wpc,        \* control of the thread that writes
    batch,      \* messages it has still to write
    end,        \* messages in the stream
    active,     \* isActive of the reader's slot
    bpos,       \* its position
    rpos,       \* _readerPos
    joined,     \* end when the reader was activated (history)
    sock,       \* the one socket
    thread,     \* control of the reader thread
    jobs,       \* the reader's serial queue
    rpc         \* control of the thread that reads

loopVars == <<bench, iter, left, rcvCount>>
flags == <<stopReader, readerExpired>>
mainVars == <<loopVars, main, held, flags>>
queueVars == <<queued, busy, work>>
ioVars == <<queueVars, wpc, batch, end, sock>>
slotVars == <<active, bpos, rpos, joined>>
readVars == <<slotVars, thread, jobs, rpc>>
vars == <<mainVars, ioVars, readVars>>

(* The benchmarks construct everything in memory of their own; "rmp"       *)
(* activates its reader, "tp" enqueues the work that will.                 *)
Init ==
    /\ bench \in Benches
    /\ main = "begin" /\ iter = 0 /\ left = 0 /\ held = FALSE /\ rcvCount = 0
    /\ stopReader = FALSE /\ readerExpired = FALSE
    /\ queued = 0 /\ busy = FALSE /\ work = 0 /\ wpc = "idle" /\ batch = 0
    /\ end = 0
    /\ active = (bench = "rmp") /\ bpos = 0 /\ joined = 0
    /\ rpos = 0
    /\ sock = [s \in {"un"} |-> Constructed(FALSE)]
    /\ thread = "top" /\ rpc = "idle"
    /\ jobs = IF bench = "tp" THEN <<"add">> ELSE <<>>

Overtaken(pos, e) == e - pos > Window

------------------------------------------------------------------------------
(* The main thread: the loop over state.                                   *)

(* Mutant: the count goes on from the last burst.                          *)
BeginCountsOn ==
    /\ main = "begin" /\ iter < Iterations
    /\ iter' = iter + 1
    /\ IF bench = "tp"
       THEN main' = "post" /\ left' = Burst /\ UNCHANGED <<wpc, batch>>
       ELSE main' = "writing" /\ wpc' = "write" /\ batch' = Burst /\ UNCHANGED left
    /\ UNCHANGED <<flags, queueVars, readVars, bench, rcvCount, held, end, sock>>

(* rcvCount = 0; "rmp" then writes the burst, "tp" posts it.               *)
Begin ==
    /\ main = "begin" /\ iter < Iterations
    /\ iter' = iter + 1
    /\ rcvCount' = 0
    /\ IF bench = "tp"
       THEN main' = "post" /\ left' = Burst /\ UNCHANGED <<wpc, batch>>
       ELSE main' = "writing" /\ wpc' = "write" /\ batch' = Burst /\ UNCHANGED left
    /\ UNCHANGED <<flags, queueVars, readVars, bench, held, end, sock>>

(* Post starts a ProcWriter unless one is under way.                       *)
Post ==
    /\ main = "post" /\ left > 0
    /\ left' = left - 1
    /\ queued' = queued + 1
    /\ busy' = TRUE
    /\ work' = IF busy THEN work ELSE work + 1
    /\ UNCHANGED <<flags, readVars, bench, iter, rcvCount, main, held, wpc, batch, end, sock>>

(* unique_lock lck(mtx), once the burst is posted or written ...           *)
LockMtx ==
    /\ \/ main = "post" /\ left = 0
       \/ main = "writing" /\ wpc = "idle"
       \/ main = "woken"
    /\ held' = TRUE
    /\ main' = "check"
    /\ UNCHANGED <<loopVars, flags, ioVars, readVars>>

(* ... and cv.wait: it tests its predicate with mtx, and sleeps without.   *)
Arrived == rcvCount = Burst \/ readerExpired

CheckPredicate ==
    /\ main = "check"
    /\ IF Arrived THEN main' = "got" /\ UNCHANGED held
       ELSE main' = "asleep" /\ held' = FALSE
    /\ UNCHANGED <<loopVars, flags, ioVars, readVars>>

(* The iteration ends, and lck with it; an expired reader ends the loop.   *)
EndIteration ==
    /\ main = "got"
    /\ held' = FALSE
    /\ main' = IF readerExpired \/ iter = Iterations THEN "stop" ELSE "begin"
    /\ UNCHANGED <<loopVars, flags, ioVars, readVars>>

(* stopReader = true, and a notification for the reader thread ...         *)
StopReader ==
    /\ main = "stop"
    /\ stopReader' = TRUE
    /\ main' = "send"
    /\ UNCHANGED <<loopVars, ioVars, readVars, held, readerExpired>>

SendLast ==
    /\ main = "send"
    /\ sock' = Sent(sock)
    /\ main' = "join"
    /\ UNCHANGED <<loopVars, flags, queueVars, readVars, held, wpc, batch, end>>

(* ... which is joined; "tp" then stops both queues, one after the other,  *)
(* each with ALWAYS and a join of its thread (the lost notification of     *)
(* Stop is in SerialWorkQueue).                                            *)
Join ==
    /\ \/ main = "join" /\ thread = "done" /\ main' = (IF bench = "tp" THEN "joinWriter" ELSE "done")
       \/ main = "joinWriter" /\ wpc = "gone" /\ main' = "joinReader"
       \/ main = "joinReader" /\ rpc = "gone" /\ main' = "done"
    /\ UNCHANGED <<loopVars, flags, ioVars, readVars, held>>

MainStep ==
    \/ Begin \/ Post \/ LockMtx \/ CheckPredicate \/ EndIteration \/ StopReader \/ SendLast \/ Join

------------------------------------------------------------------------------
(* Writing: main itself in "rmp", the writer's serial queue in "tp".       *)

(* The next ProcWriter, and what it drains; with nothing left another may  *)
(* be started.                                                             *)
ProcWriter ==
    /\ wpc = "idle" /\ work > 0
    /\ work' = work - 1
    /\ wpc' = "drain"
    /\ UNCHANGED <<mainVars, readVars, queued, busy, batch, end, sock>>

Drain ==
    /\ wpc = "drain"
    /\ batch' = queued /\ queued' = 0
    /\ busy' = (queued > 0)
    /\ wpc' = IF queued > 0 THEN "write" ELSE "notify"
    /\ UNCHANGED <<mainVars, readVars, work, end, sock>>

InTheWay == active /\ ~Overtaken(bpos, end) /\ Overtaken(bpos, end + 1)

(* WriteEx: a message without backpressure, or after the handler of        *)
(* backpressure has slept and returned false.                              *)
Write ==
    /\ \/ wpc = "write" /\ batch > 0 /\ ~InTheWay
       \/ wpc = "force"
    /\ end' = end + 1
    /\ batch' = batch - 1
    /\ wpc' = "write"
    /\ UNCHANGED <<mainVars, queueVars, readVars, sock>>

(* Mutant: the handler sleeps and nobody is notified.                      *)
BackpressureSilent ==
    /\ wpc = "write" /\ batch > 0 /\ InTheWay
    /\ wpc' = "force"
    /\ UNCHANGED <<mainVars, queueVars, readVars, batch, end, sock>>

(* Backpressure: a notification first, then the handler.                   *)
Backpressure ==
    /\ wpc = "write" /\ batch > 0 /\ InTheWay
    /\ sock' = Sent(sock)
    /\ wpc' = "force"
    /\ UNCHANGED <<mainVars, queueVars, readVars, batch, end>>

(* After its batch a ProcWriter drains again.                              *)
BatchWritten ==
    /\ wpc = "write" /\ batch = 0
    /\ wpc' = IF bench = "tp" THEN "drain" ELSE "notify"
    /\ UNCHANGED <<mainVars, queueVars, readVars, batch, end, sock>>

NotifyAtEnd ==
    /\ wpc = "notify"
    /\ sock' = Sent(sock)
    /\ wpc' = "idle"
    /\ UNCHANGED <<mainVars, queueVars, readVars, batch, end>>

(* The thread of the writer's queue sees that it is stopped.               *)
WriterQueueEnds ==
    /\ main = "joinWriter" /\ wpc = "idle"
    /\ wpc' = "gone"
    /\ UNCHANGED <<mainVars, queueVars, readVars, batch, end, sock>>

WriteStep ==
    \/ ProcWriter \/ Drain \/ Write \/ Backpressure \/ BatchWritten \/ NotifyAtEnd
    \/ WriterQueueEnds

------------------------------------------------------------------------------
(* The reader thread: while (!stopReader) { Wait; read or Run }.           *)

ThreadTop ==
    /\ thread = "top"
    /\ thread' = IF stopReader THEN "done" ELSE "wait"
    /\ UNCHANGED <<mainVars, ioVars, slotVars, jobs, rpc>>

Wait ==
    /\ thread = "wait" /\ CanReceive(sock["un"])
    /\ sock' = [sock EXCEPT !["un"] = Received(@)]
    /\ IF bench = "tp"
       THEN thread' = "top" /\ jobs' = Append(jobs, "run") /\ UNCHANGED rpc
       ELSE thread' = "reading" /\ rpc' = "read" /\ UNCHANGED jobs
    /\ UNCHANGED <<mainVars, queueVars, slotVars, wpc, batch, end>>

(* "rmp": ReadEx has returned; the loop is left if the reader expired.     *)
ThreadRead ==
    /\ thread = "reading" /\ rpc = "idle"
    /\ thread' = IF readerExpired THEN "done" ELSE "top"
    /\ UNCHANGED <<mainVars, ioVars, slotVars, jobs, rpc>>

(* The reader's queue: AddChannelReader activates the reader, Run enqueues *)
(* ReadRmp on the same queue.                                              *)
RunJob ==
    /\ rpc = "idle" /\ jobs # <<>>
    /\ CASE Head(jobs) = "add"  -> /\ active' = TRUE /\ bpos' = end /\ rpos' = end /\ joined' = end
                                   /\ jobs' = Tail(jobs) /\ UNCHANGED rpc
         [] Head(jobs) = "run"  -> jobs' = Append(Tail(jobs), "read") /\ UNCHANGED <<slotVars, rpc>>
         [] Head(jobs) = "read" -> jobs' = Tail(jobs) /\ rpc' = "read" /\ UNCHANGED <<slotVars>>
    /\ UNCHANGED <<mainVars, ioVars, thread>>

(* ReadEx at the end of the stream publishes the position.                 *)
ReadDone ==
    /\ rpc = "read" /\ rpos = end
    /\ bpos' = rpos
    /\ rpc' = "idle"
    /\ UNCHANGED <<mainVars, ioVars, active, rpos, joined, thread, jobs>>

(* One message, copied and not overtaken meanwhile: Confirm calls the      *)
(* handler, which counts it, with no lock, ...                             *)
ReadMessage ==
    /\ rpc = "read" /\ rpos # end /\ ~Overtaken(rpos, end)
    /\ rcvCount' = rcvCount + 1
    /\ rpc' = "test"
    /\ UNCHANGED <<flags, ioVars, slotVars, bench, iter, left, main, held, thread, jobs>>

(* ... and tests the count it then finds: main may have seen it before,    *)
(* and begun again.                                                        *)
TestCount ==
    /\ rpc = "test"
    /\ rpc' = IF rcvCount = Burst THEN "signal" ELSE "advance"
    /\ UNCHANGED <<mainVars, ioVars, slotVars, thread, jobs>>

(* cv.notify_one                                                           *)
Awakened(m) == IF m = "asleep" THEN "woken" ELSE m

(* The last message of the burst: notify with mtx.                         *)
Signal ==
    /\ rpc = "signal" /\ ~held
    /\ main' = Awakened(main)
    /\ rpc' = "advance"
    /\ UNCHANGED <<loopVars, flags, ioVars, slotVars, held, thread, jobs>>

(* Confirm has returned: the reader's position moves past the message, and *)
(* is published sparingly.                                                 *)
Advance ==
    /\ rpc = "advance"
    /\ rpos' = rpos + 1
    /\ bpos' = IF 2 * (rpos + 1 - bpos) >= Window THEN rpos + 1 ELSE bpos
    /\ rpc' = "read"
    /\ UNCHANGED <<mainVars, ioVars, active, joined, thread, jobs>>

(* ReadEx finds the reader overtaken.                                      *)
Expire ==
    /\ rpc = "read" /\ Overtaken(rpos, end)
    /\ rpc' = IF bench = "rmp" THEN "expired" ELSE "idle"
    /\ readerExpired' = (readerExpired \/ bench = "tp")
    /\ UNCHANGED <<loopVars, ioVars, slotVars, main, held, stopReader, thread, jobs>>

(* Mutant: the flag is set after mtx was given back.                       *)
SignalExpiredLate ==
    /\ \/ rpc = "expired" /\ ~held /\ main' = Awakened(main) /\ rpc' = "flag"
          /\ UNCHANGED readerExpired
       \/ rpc = "flag" /\ readerExpired' = TRUE /\ rpc' = "idle" /\ UNCHANGED main
    /\ UNCHANGED <<loopVars, ioVars, slotVars, held, stopReader, thread, jobs>>

(* "rmp": notify and set the flag, both with mtx.  "tp" only sets it.      *)
SignalExpired ==
    /\ rpc = "expired" /\ ~held
    /\ main' = Awakened(main)
    /\ readerExpired' = TRUE
    /\ rpc' = "idle"
    /\ UNCHANGED <<loopVars, ioVars, slotVars, held, stopReader, thread, jobs>>

ReaderQueueEnds ==
    /\ main = "joinReader" /\ rpc = "idle"
    /\ rpc' = "gone"
    /\ UNCHANGED <<mainVars, ioVars, slotVars, thread, jobs>>

ThreadStep == ThreadTop \/ Wait \/ ThreadRead
ReadStep ==
    \/ RunJob \/ ReadDone \/ ReadMessage \/ TestCount \/ Signal \/ Advance \/ Expire
    \/ SignalExpired \/ ReaderQueueEnds

Next == MainStep \/ WriteStep \/ ThreadStep \/ ReadStep

Fairness ==
    WF_vars(MainStep) /\ WF_vars(WriteStep) /\ WF_vars(ThreadStep) /\ WF_vars(ReadStep)

Spec == Init /\ [][Next]_vars /\ Fairness

------------------------------------------------------------------------------
(* The variables keep their types: a burst is written once.                *)
TypeOK ==
    /\ bench \in Benches
    /\ main \in {"begin", "post", "writing", "check", "asleep", "woken", "got", "stop", "send",
                 "join", "joinWriter", "joinReader", "done"}
    /\ iter \in 0 .. Iterations /\ left \in 0 .. Burst /\ rcvCount \in 0 .. Burst
    /\ {held, stopReader, readerExpired, busy, active} \subseteq BOOLEAN
    /\ queued \in 0 .. Burst /\ batch \in 0 .. Burst /\ work \in 0 .. 1
    /\ wpc \in {"idle", "drain", "write", "force", "notify", "gone"}
    /\ end \in 0 .. Burst * Iterations
    /\ bpos \in 0 .. end /\ rpos \in bpos .. end /\ joined \in 0 .. end
    /\ sock \in [{"un"} -> Sockets]
    /\ thread \in {"top", "wait", "reading", "done"}
    /\ jobs \in Seq({"add", "run", "read"})
    /\ rpc \in {"idle", "read", "test", "signal", "advance", "expired", "gone"}

(* The message at the reader's position has been handed to the handler,    *)
(* and the position has not moved on yet.                                  *)
Handling == rpc \in {"test", "signal", "advance"}
Confirmed == IF Handling THEN rpos + 1 ELSE rpos

(* When main goes on after a burst, either all of it, and nothing else,    *)
(* has been written and received, and nothing that Stop(ALWAYS) would      *)
(* discard is on its way (systemBench.cpp:93-106, notificationBench.cpp:   *)
(* 89-100), or the reader it gives up was overtaken.  The reader may still *)
(* be in the handler of the last message, its position one behind.         *)
OutcomeTrue ==
    main \notin {"begin", "post", "writing", "check", "asleep", "woken"} =>
        IF readerExpired THEN Overtaken(rpos, end)
        ELSE /\ rcvCount = Burst /\ joined = 0
             /\ Confirmed = end /\ end = iter * Burst
             /\ left = 0 /\ queued = 0 /\ batch = 0

(* A writer that goes past a reader it is held back by has woken it first: *)
(* the reader does not sleep while its messages are written over           *)
(* (asyncWriter.hpp:155, notificationBench.cpp:69).                        *)
ReaderSleeps ==
    /\ thread = "wait" /\ ~CanReceive(sock["un"])
    /\ jobs = <<>> /\ rpc = "idle"

ForcedPastAwake == wpc = "force" /\ InTheWay => ~ReaderSleeps

(* The benchmark ends: no notification of the socket, of the condition     *)
(* variable or of the shutdown is lost.  "rmp" ends when its reader        *)
(* expires, too.  "tp" may not, nor if the first burst overtakes the work  *)
(* item that activates its reader.                                         *)
BenchEnds == <>(main = "done" \/ (bench = "tp" /\ (readerExpired \/ joined > 0)))

(* systemBench.cpp:93-97: an expired reader ends the benchmark too; but    *)
(* nobody notifies main (unlisted, Transfer_expired).                      *)
ExpiryEnds == readerExpired ~> main = "done"

(* ... whatever else (unlisted, Transfer_late).                            *)
LateEnds == <>(main = "done" \/ readerExpired)
==============================================================================
