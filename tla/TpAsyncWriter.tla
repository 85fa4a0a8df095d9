---------------------------- MODULE TpAsyncWriter ----------------------------
(***************************************************************************)
(* AsyncWriter: threads of a process post messages; one drainer at a time  *)
(* (ProcWriter, run by an executor of the host) takes them from the        *)
(* MPSCMessageQueue, writes them to the stream and notifies the readers,   *)
(* who sleep until a notification comes.                                   *)
(*                                                                         *)
(* The stream is the one of RmpRing seen from afar: a log that may run at  *)
(* most Window messages ahead of the reader unless the backpressure        *)
(* handler lets a write overtake it.  The reader stands for the readers of *)
(* the group: a loop over Wait, Reader::Run and ReadEx.                    *)
(***************************************************************************)
EXTENDS Naturals, Sequences, FiniteSets, SequencesExt

CONSTANTS
    Posters,        \* the threads that post
    Workers,        \* the threads that run ProcWriter
    Window,         \* how far the stream may run ahead of the reader
    BpAnswers,      \* what the backpressure handler may do
    SendFails,      \* whether Send may fail, and throw
    MaxPosts,       \* bound: messages posted
    MaxPending      \* datagrams the socket holds; more are dropped

ASSUME AsyncWriterAssumption ==
    /\ IsFiniteSet(Posters) /\ IsFiniteSet(Workers)
    /\ Window \in Nat \ {0}
    /\ BpAnswers \subseteq {"wait", "write", "throw"}
    /\ SendFails \in BOOLEAN
    /\ MaxPosts \in Nat
    /\ MaxPending \in Nat \ {0}

VARIABLES
    queue,          \* MPSCMessageQueue::_queue; the n-th message posted is n
    startDrainer,   \* MPSCMessageQueue::_startDrainer
    ppc,            \* control of each posting thread
    jobs,           \* ProcWriter calls the executor has not begun
    wpc,            \* control of each worker
    batch,          \* its queueCopy, what is left of it to write
    log,            \* the stream
    posted,         \* messages posted so far (history)
    lost,           \* messages that went with an exception (history)
    threw,          \* whether ProcWriter ended in an exception (history)
    pending,        \* datagrams in the reader's socket
    rpc,            \* control of the reader
    rpos            \* messages it has read

queueVars  == <<queue, startDrainer>>
writerVars == <<wpc, batch, jobs>>
readerVars == <<pending, rpc, rpos>>
postVars   == <<posted, lost, threw>>
vars == <<queueVars, ppc, writerVars, log, postVars, readerVars>>

Init ==
    /\ queue = <<>> /\ startDrainer = TRUE
    /\ ppc = [t \in Posters |-> "idle"]
    /\ jobs = 0
    /\ wpc = [w \in Workers |-> "idle"]
    /\ batch = [w \in Workers |-> <<>>]
    /\ log = <<>> /\ posted = 0 /\ lost = {} /\ threw = FALSE
    /\ pending = 0 /\ rpc = "wait" /\ rpos = 0

------------------------------------------------------------------------------
(* Post.                                                                   *)

(* Enqueue, under the mutex of the queue, and what it returns.             *)
Enqueue(t) ==
    /\ ppc[t] = "idle"
    /\ posted < MaxPosts
    /\ posted' = posted + 1
    /\ queue' = Append(queue, posted + 1)
    /\ startDrainer' = FALSE
    /\ ppc' = [ppc EXCEPT ![t] = IF startDrainer THEN "start" ELSE "idle"]
    /\ UNCHANGED <<writerVars, log, lost, threw, readerVars>>

(* _enqueueWorkFn                                                          *)
EnqueueWork(t) ==
    /\ ppc[t] = "start"
    /\ ppc' = [ppc EXCEPT ![t] = "idle"]
    /\ jobs' = jobs + 1
    /\ UNCHANGED <<queueVars, wpc, batch, log, postVars, readerVars>>

------------------------------------------------------------------------------
(* ProcWriter.                                                             *)

Go(w, k) == wpc' = [wpc EXCEPT ![w] = k]

BeginProcWriter(w) ==
    /\ wpc[w] = "idle" /\ jobs > 0
    /\ jobs' = jobs - 1
    /\ Go(w, "drain")
    /\ UNCHANGED <<queueVars, ppc, batch, log, postVars, readerVars>>

(* Mutant: the next Enqueue starts a drainer whatever was drained.         *)
DrainRestarts(w) ==
    /\ wpc[w] = "drain"
    /\ batch' = [batch EXCEPT ![w] = queue]
    /\ queue' = <<>>
    /\ startDrainer' = TRUE
    /\ Go(w, IF queue = <<>> THEN "notify" ELSE "write")
    /\ UNCHANGED <<ppc, jobs, log, postVars, readerVars>>

(* Mutant: the queue is not emptied.                                       *)
DrainCopies(w) ==
    /\ wpc[w] = "drain"
    /\ batch' = [batch EXCEPT ![w] = queue]
    /\ startDrainer' = (queue = <<>>)
    /\ Go(w, IF queue = <<>> THEN "notify" ELSE "write")
    /\ UNCHANGED <<queue, ppc, jobs, log, postVars, readerVars>>

Drain(w) ==
    /\ wpc[w] = "drain"
    /\ batch' = [batch EXCEPT ![w] = queue]
    /\ queue' = <<>>
    /\ startDrainer' = (queue = <<>>)
    /\ Go(w, IF queue = <<>> THEN "notify" ELSE "write")
    /\ UNCHANGED <<ppc, jobs, log, postVars, readerVars>>

BatchWritten(w) ==
    /\ wpc[w] = "write" /\ batch[w] = <<>>
    /\ Go(w, "drain")
    /\ UNCHANGED <<queueVars, ppc, batch, jobs, log, postVars, readerVars>>

(* The reader has not expired and the write would overtake it.             *)
InTheWay == Len(log) - rpos = Window

Append1(w) ==
    /\ log' = Append(log, Head(batch[w]))
    /\ batch' = [batch EXCEPT ![w] = Tail(@)]
    /\ Go(w, "write")

(* WriteEx of the next message, ...                                        *)
Write(w) ==
    /\ wpc[w] = "write" /\ batch[w] # <<>>
    /\ ~InTheWay
    /\ Append1(w)
    /\ UNCHANGED <<queueVars, ppc, jobs, postVars, readerVars>>

(* ... which finds the reader in the way: bpWrapper notifies, ...          *)
DetectBackpressure(w) ==
    /\ wpc[w] = "write" /\ batch[w] # <<>>
    /\ InTheWay
    /\ Go(w, "bpNotify")
    /\ UNCHANGED <<queueVars, ppc, batch, jobs, log, postVars, readerVars>>

(* Send: one more datagram, unless the socket of the reader is full.       *)
Notified == IF pending < MaxPending THEN pending + 1 ELSE pending

(* Mutant: readers are notified only once the queue is empty.              *)
NotifyOnBackpressureForgotten(w) ==
    /\ wpc[w] = "bpNotify"
    /\ Go(w, "bp")
    /\ UNCHANGED <<queueVars, ppc, batch, jobs, log, postVars, readerVars>>

NotifyOnBackpressure(w) ==
    /\ wpc[w] = "bpNotify"
    /\ pending' = Notified
    /\ Go(w, "bp")
    /\ UNCHANGED <<queueVars, ppc, batch, jobs, log, postVars, rpc, rpos>>

(* ... and the handler decides: detect again, ...                          *)
BpWait(w) ==
    /\ wpc[w] = "bp" /\ "wait" \in BpAnswers
    /\ Go(w, "write")
    /\ UNCHANGED <<queueVars, ppc, batch, jobs, log, postVars, readerVars>>

(* ... or write all the same.                                              *)
BpWrite(w) ==
    /\ wpc[w] = "bp" /\ "write" \in BpAnswers
    /\ Append1(w)
    /\ UNCHANGED <<queueVars, ppc, jobs, postVars, readerVars>>

(* The handler or Send throws out of ProcWriter: the batch is gone, and    *)
(* _startDrainer stays as the last Drain left it.                          *)
Throws(w) ==
    /\ \/ wpc[w] = "bp" /\ "throw" \in BpAnswers
       \/ wpc[w] \in {"bpNotify", "notify"} /\ SendFails
    /\ batch' = [batch EXCEPT ![w] = <<>>]
    /\ lost' = lost \cup ToSet(batch[w])
    /\ threw' = TRUE
    /\ Go(w, "idle")
    /\ UNCHANGED <<queueVars, ppc, jobs, log, posted, readerVars>>

(* Mutant: ProcWriter does not notify when it ends.                        *)
NotifyAtEndForgotten(w) ==
    /\ wpc[w] = "notify"
    /\ Go(w, "idle")
    /\ UNCHANGED <<queueVars, ppc, batch, jobs, log, postVars, readerVars>>

(* The last drain found nothing: notify and leave.                         *)
NotifyAtEnd(w) ==
    /\ wpc[w] = "notify"
    /\ pending' = Notified
    /\ Go(w, "idle")
    /\ UNCHANGED <<queueVars, ppc, batch, jobs, log, postVars, rpc, rpos>>

------------------------------------------------------------------------------
(* The reader: Wait, then Run reads until the stream end.                  *)

Wait ==
    /\ rpc = "wait" /\ pending > 0
    /\ pending' = pending - 1
    /\ rpc' = "read"
    /\ UNCHANGED <<queueVars, ppc, writerVars, log, postVars, rpos>>

ReadNext ==
    /\ rpc = "read"
    /\ IF Len(log) - rpos > Window THEN rpc' = "expired" /\ UNCHANGED rpos
       ELSE IF rpos < Len(log) THEN rpos' = rpos + 1 /\ UNCHANGED rpc
       ELSE rpc' = "wait" /\ UNCHANGED rpos
    /\ UNCHANGED <<queueVars, ppc, writerVars, log, postVars, pending>>

WorkerStep(w) ==
    \/ BeginProcWriter(w) \/ Drain(w) \/ BatchWritten(w) \/ Write(w)
    \/ DetectBackpressure(w) \/ NotifyOnBackpressure(w) \/ BpWait(w) \/ BpWrite(w)
    \/ Throws(w) \/ NotifyAtEnd(w)

ReaderStep == Wait \/ ReadNext

Next ==
    \/ \E t \in Posters : Enqueue(t) \/ EnqueueWork(t)
    \/ \E w \in Workers : WorkerStep(w)
    \/ ReaderStep

Spec == Init /\ [][Next]_vars

(* A thread in Post returns, the executor runs what it was given, and a    *)
(* notified reader reads.  Nothing makes a thread post.                    *)
Fairness ==
    /\ \A t \in Posters : WF_vars(EnqueueWork(t))
    /\ \A w \in Workers : WF_vars(WorkerStep(w))
    /\ WF_vars(ReaderStep)

FairSpec == Spec /\ Fairness

------------------------------------------------------------------------------
(* Every variable keeps its type.                                          *)
TypeOK ==
    /\ queue \in Seq(1 .. MaxPosts) /\ startDrainer \in BOOLEAN
    /\ ppc \in [Posters -> {"idle", "start"}]
    /\ jobs \in Nat
    /\ wpc \in [Workers -> {"idle", "drain", "write", "bpNotify", "bp", "notify"}]
    /\ batch \in [Workers -> Seq(1 .. MaxPosts)]
    /\ log \in Seq(1 .. MaxPosts) /\ posted \in 0 .. MaxPosts /\ lost \subseteq 1 .. MaxPosts
    /\ threw \in BOOLEAN
    /\ pending \in 0 .. MaxPending
    /\ rpc \in {"wait", "read", "expired"} /\ rpos \in 0 .. Len(log)

Running == {w \in Workers : wpc[w] # "idle"}
Starting == {t \in Posters : ppc[t] = "start"}

(* The drainers there are or will be.                                      *)
Drainers == Cardinality(Running) + jobs + Cardinality(Starting)

(* "At most one ProcWriter is running": a second is not even scheduled     *)
(* before the first has drained nothing, when all that is left for it to   *)
(* do is to notify.  And unless ProcWriter ended in an exception, nothing  *)
(* is in the queue without one to drain it.                                *)
OneDrainer ==
    /\ Drainers - Cardinality({w \in Workers : wpc[w] = "notify"}) <= 1
    /\ startDrainer => Drainers = Cardinality({w \in Workers : wpc[w] = "notify"})
    /\ queue # <<>> /\ ~threw => Drainers > 0

(* The workers with something of a batch left, what they have left, and    *)
(* log, batch and queue end to end.                                        *)
Writing == {w \in Workers : batch[w] # <<>>}
InHand == IF Writing = {} THEN <<>> ELSE batch[CHOOSE w \in Writing : TRUE]
Messages == log \o InHand \o queue

(* Messages go to the stream in the order they were posted, each once: one *)
(* worker writes, and the messages written, in its hand and in the queue   *)
(* are those posted, in this order, less those lost with an exception.     *)
PostOrder ==
    /\ Cardinality(Writing) <= 1
    /\ \A i, j \in 1 .. Len(Messages) : i < j => Messages[i] < Messages[j]
    /\ ToSet(Messages) = (1 .. posted) \ lost

(* The wakeup is never lost: when nobody is left to notify and the reader  *)
(* sleeps on an empty socket, it has read all that was posted, dropped     *)
(* datagrams or not, unless a ProcWriter ended in an exception.            *)
SleepsWithNothingToRead ==
    ~threw /\ Drainers = 0 /\ pending = 0 /\ rpc = "wait" => rpos = posted

(* Every message posted is read, or the reader learns that it expired, or  *)
(* a ProcWriter ended in an exception: the notification on backpressure    *)
(* wakes the reader the writer waits for.                                  *)
PostedIsRead ==
    \A i \in 1 .. MaxPosts : posted = i ~> (rpos >= i \/ rpc = "expired" \/ threw)

------------------------------------------------------------------------------
(* What the documentation says and the code does not do.                   *)

(* Post "invokes enqueueWorkFn with ProcWriter if none is running": no     *)
(* message would be in the queue with no drainer running or on its way.    *)
QueueHasDrainer == queue # <<>> => Drainers > 0
==============================================================================
