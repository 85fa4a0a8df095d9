---------------------------- MODULE TransferProofs ----------------------------
(***************************************************************************)
(* Main goes on when a burst has arrived, and a writer wakes the reader it *)
(* goes past, for bursts of any length, any number of iterations, any ring *)
(* buffer and any socket.                                                  *)
(***************************************************************************)
EXTENDS Transfer, TLAPS

Jobs == {"add", "run", "read"}

(* The types of the variables, but for what is a matter of counting.       *)
Kinds ==
    /\ bench \in Benches
    /\ main \in {"begin", "post", "writing", "check", "asleep", "woken", "got", "stop", "send",
                 "join", "joinWriter", "joinReader", "done"}
    /\ iter \in 0 .. Iterations
    /\ left \in Nat /\ rcvCount \in Nat /\ queued \in Nat /\ batch \in Nat /\ work \in Nat
    /\ end \in Nat /\ bpos \in Nat /\ rpos \in Nat /\ joined \in Nat
    /\ held \in BOOLEAN /\ stopReader \in BOOLEAN /\ readerExpired \in BOOLEAN
    /\ busy \in BOOLEAN /\ active \in BOOLEAN
    /\ wpc \in {"idle", "drain", "write", "force", "notify", "gone"}
    /\ sock \in [{"un"} -> 0 .. SockBuf]
    /\ thread \in {"top", "wait", "reading", "done"}
    /\ jobs \in Seq(Jobs)
    /\ rpc \in {"idle", "read", "test", "signal", "advance", "expired", "gone"}

(* Every message of the bursts begun is still to be posted, queued, in the *)
(* batch or in the stream, and those received since the iteration began    *)
(* are the last that were read, with the one in the handler's hands.       *)
CountInv ==
    /\ left + queued + batch + end = iter * Burst
    /\ bpos <= rpos /\ Confirmed <= end
    /\ IF iter = 0 THEN rcvCount = 0 /\ joined = 0
       ELSE rcvCount + iter * Burst + joined = Confirmed + Burst
    /\ iter > 1 => joined = 0

Draining == wpc \in {"drain", "write", "force"}

(* Who writes, and what for.                                               *)
WritingInv ==
    /\ left > 0 => main = "post"
    /\ batch > 0 => wpc \in {"write", "force"}
    /\ wpc = "force" => batch > 0
    /\ IF bench = "rmp"
       THEN /\ queued = 0 /\ work = 0
            /\ main \notin {"post", "joinWriter", "joinReader"}
            /\ wpc # "idle" => main = "writing"
       ELSE /\ main # "writing"
            /\ busy <=> work > 0 \/ Draining
            /\ work <= 1 /\ (work > 0 => ~Draining)

(* The job that activates the reader comes first, and there is no other;   *)
(* "rmp" reads on its reader thread.                                       *)
JobsInv ==
    /\ \A i \in 2 .. Len(jobs) : jobs[i] # "add"
    /\ active => \A i \in 1 .. Len(jobs) : jobs[i] # "add"
    /\ ~active => /\ jobs # <<>> /\ jobs[1] = "add"
                  /\ rpos = 0 /\ joined = 0 /\ rcvCount = 0 /\ iter <= 1
                  /\ rpc = "idle" /\ ~readerExpired
    /\ bench = "rmp" => /\ active /\ jobs = <<>>
                        /\ thread # "reading" => rpc = "idle"

(* Main has gone on, ...                                                   *)
Past == {"got", "stop", "send", "join", "joinWriter", "joinReader", "done"}

(* ... for one of two reasons; an expired reader stays where it is.        *)
MainInv ==
    /\ readerExpired \/ rpc = "expired" => Overtaken(rpos, end) /\ ~Handling
    /\ main \in Past => readerExpired \/ rcvCount = Burst
    /\ main = "begin" /\ iter > 0 => ~readerExpired /\ rcvCount = Burst

(* A reader that is being overtaken has something to do.                   *)
AwakeInv ==
    wpc = "force" /\ InTheWay => CanReceive(sock["un"]) \/ jobs # <<>> \/ rpc # "idle"

TransferInv == Kinds /\ CountInv /\ WritingInv /\ JobsInv /\ MainInv /\ AwakeInv

------------------------------------------------------------------------------
(* What the iterations begun are meant to write.                           *)
LEMMA DueGrows ==
    ASSUME NEW i \in Nat
    PROVE  /\ i * Burst \in Nat
           /\ (i + 1) * Burst = i * Burst + Burst
           /\ i = 0 => i * Burst = 0
           /\ i = 1 => i * Burst = Burst
BY TransferAssumption

(* Head, Tail and Append of a queue of jobs.                               *)
LEMMA TailAndAppend ==
    ASSUME NEW s \in Seq(Jobs), NEW x \in Jobs
    PROVE  /\ Append(s, x) \in Seq(Jobs) /\ Append(s, x) # <<>>
           /\ Len(Append(s, x)) = Len(s) + 1 /\ Append(s, x)[Len(s) + 1] = x
           /\ \A i \in 1 .. Len(s) : Append(s, x)[i] = s[i]
           /\ s # <<>> => /\ Head(s) = s[1] /\ Head(s) \in Jobs
                          /\ Tail(s) \in Seq(Jobs) /\ Len(Tail(s)) = Len(s) - 1
                          /\ \A i \in 1 .. Len(Tail(s)) : Tail(s)[i] = s[i + 1]
OBVIOUS

(* A job of the reader's queue: the one that activates the reader, before  *)
(* it does anything, or one that makes it read.                            *)
LEMMA JobRuns ==
    ASSUME Kinds, JobsInv, RunJob
    PROVE  /\ rpc = "idle" /\ UNCHANGED <<mainVars, ioVars, thread>>
           /\ jobs' \in Seq(Jobs) /\ bench # "rmp"
           /\ \A i \in 1 .. Len(jobs') : jobs'[i] # "add"
           /\ \/ /\ ~active /\ active' /\ bpos' = end /\ rpos' = end /\ joined' = end
                 /\ rpc' = rpc
              \/ /\ active /\ UNCHANGED slotVars
                 /\ rpc' = "read" \/ (rpc' = rpc /\ jobs' # <<>>)
<1>1. jobs \in Seq(Jobs) /\ jobs # <<>> /\ rpc = "idle" /\ UNCHANGED <<mainVars, ioVars, thread>>
  BY DEF RunJob, Kinds, Jobs
<1>2. /\ Head(jobs) = jobs[1] /\ Head(jobs) \in Jobs /\ Len(jobs) >= 1
      /\ Tail(jobs) \in Seq(Jobs) /\ Len(Tail(jobs)) = Len(jobs) - 1
      /\ \A i \in 1 .. Len(Tail(jobs)) : Tail(jobs)[i] = jobs[i + 1]
  BY <1>1, TailAndAppend DEF Jobs
<1>3. \A i \in 1 .. Len(Tail(jobs)) : Tail(jobs)[i] # "add"
  BY <1>1, <1>2 DEF JobsInv
<1>4. bench # "rmp" /\ (Head(jobs) = "add" <=> ~active)
  BY <1>1, <1>2 DEF JobsInv
<1>5. CASE Head(jobs) = "add"
  <2>1. active' = TRUE /\ bpos' = end /\ rpos' = end /\ joined' = end /\ jobs' = Tail(jobs) /\ rpc' = rpc
    BY <1>5 DEF RunJob
  <2> QED
    BY <1>1, <1>2, <1>3, <1>4, <1>5, <2>1
<1>6. CASE Head(jobs) = "run"
  <2>1. jobs' = Append(Tail(jobs), "read") /\ UNCHANGED <<slotVars, rpc>>
    BY <1>6 DEF RunJob
  <2>2. /\ jobs' \in Seq(Jobs) /\ jobs' # <<>>
        /\ Len(jobs') = Len(Tail(jobs)) + 1 /\ jobs'[Len(Tail(jobs)) + 1] = "read"
        /\ \A i \in 1 .. Len(Tail(jobs)) : jobs'[i] = Tail(jobs)[i]
    BY <1>2, <2>1, TailAndAppend DEF Jobs
  <2>3. Len(Tail(jobs)) \in Nat
    BY <1>2
  <2>4. \A i \in 1 .. Len(jobs') : jobs'[i] # "add"
    BY <1>3, <2>2, <2>3
  <2> QED
    BY <1>1, <1>4, <1>6, <2>1, <2>2, <2>4
<1>7. CASE Head(jobs) = "read"
  <2>1. jobs' = Tail(jobs) /\ rpc' = "read" /\ UNCHANGED slotVars
    BY <1>7 DEF RunJob
  <2> QED
    BY <1>1, <1>2, <1>3, <1>4, <1>7, <2>1
<1> QED
  BY <1>2, <1>5, <1>6, <1>7 DEF Jobs

------------------------------------------------------------------------------
(* Every step keeps the types.                                             *)
LEMMA KindsStep ==
    ASSUME Kinds, WritingInv, JobsInv, [Next]_vars
    PROVE  Kinds'
<1> USE TransferAssumption, SocketAssumption
<1>1. CASE Begin
  BY <1>1 DEF Begin, Kinds, flags, queueVars, readVars, slotVars
<1>2. CASE Post
  BY <1>2 DEF Post, Kinds, flags, readVars, slotVars
<1>3. CASE LockMtx
  BY <1>3 DEF LockMtx, Kinds, loopVars, flags, ioVars, queueVars, readVars, slotVars
<1>4. CASE CheckPredicate
  <2>1. main' \in {"got", "asleep"} /\ held' \in BOOLEAN
    BY <1>4 DEF CheckPredicate, Kinds
  <2>2. UNCHANGED <<loopVars, flags, ioVars, readVars>>
    BY <1>4 DEF CheckPredicate
  <2> QED
    BY <2>1, <2>2 DEF Kinds, loopVars, flags, queueVars, ioVars, slotVars, readVars
<1>5. CASE EndIteration
  <2>1. main' \in {"stop", "begin"} /\ held' \in BOOLEAN
    BY <1>5 DEF EndIteration
  <2>2. UNCHANGED <<loopVars, flags, ioVars, readVars>>
    BY <1>5 DEF EndIteration
  <2> QED
    BY <2>1, <2>2 DEF Kinds, loopVars, flags, queueVars, ioVars, slotVars, readVars
<1>6. CASE StopReader
  BY <1>6 DEF StopReader, Kinds, loopVars, ioVars, queueVars, readVars, slotVars
<1>7. CASE SendLast
  BY <1>7 DEF SendLast, Kinds, Sent, loopVars, flags, queueVars, readVars, slotVars
<1>8. CASE Join
  BY <1>8 DEF Join, Kinds, loopVars, flags, ioVars, queueVars, readVars, slotVars
<1>9. CASE ProcWriter
  BY <1>9 DEF ProcWriter, Kinds, mainVars, loopVars, flags, readVars, slotVars
<1>10. CASE Drain
  BY <1>10 DEF Drain, Kinds, mainVars, loopVars, flags, readVars, slotVars
<1>11. CASE Write
  <2>1. batch > 0
    BY <1>11 DEF Write, WritingInv
  <2> QED
    BY <1>11, <2>1 DEF Write, Kinds, mainVars, loopVars, flags, queueVars, slotVars, readVars
<1>12. CASE Backpressure
  BY <1>12 DEF Backpressure, Kinds, Sent, mainVars, loopVars, flags, queueVars, readVars, slotVars
<1>13. CASE BatchWritten
  BY <1>13 DEF BatchWritten, Kinds, mainVars, loopVars, flags, queueVars, readVars, slotVars
<1>14. CASE NotifyAtEnd
  BY <1>14 DEF NotifyAtEnd, Kinds, Sent, mainVars, loopVars, flags, queueVars, readVars, slotVars
<1>15. CASE WriterQueueEnds
  BY <1>15 DEF WriterQueueEnds, Kinds, mainVars, loopVars, flags, queueVars, readVars, slotVars
<1>16. CASE ThreadTop
  BY <1>16 DEF ThreadTop, Kinds, mainVars, loopVars, flags, ioVars, queueVars, slotVars
<1>17. CASE Wait
  <2>1. sock' \in [{"un"} -> 0 .. SockBuf]
    BY <1>17 DEF Wait, Kinds, CanReceive, Received
  <2>2. jobs' \in Seq(Jobs)
    <3>1. jobs \in Seq(Jobs) /\ jobs' \in {jobs, Append(jobs, "run")} /\ "run" \in Jobs
      BY <1>17 DEF Wait, Kinds, Jobs
    <3> QED
      BY <3>1, TailAndAppend
  <2>3. /\ thread' \in {"top", "reading"} /\ rpc' \in {rpc, "read"}
        /\ UNCHANGED <<mainVars, queueVars, slotVars, wpc, batch, end>>
    BY <1>17 DEF Wait
  <2> QED
    BY <2>1, <2>2, <2>3 DEF Kinds, mainVars, loopVars, flags, queueVars, slotVars
<1>18. CASE ThreadRead
  BY <1>18 DEF ThreadRead, Kinds, mainVars, loopVars, flags, ioVars, queueVars, slotVars
<1>19. CASE RunJob
  <2>1. /\ rpc = "idle" /\ UNCHANGED <<mainVars, ioVars, thread>>
        /\ jobs' \in Seq(Jobs) /\ bench # "rmp" /\ \A i \in 1 .. Len(jobs') : jobs'[i] # "add"
    BY <1>19, JobRuns
  <2>2. CASE ~active /\ active' = TRUE /\ bpos' = end /\ rpos' = end /\ joined' = end /\ rpc' = rpc
    BY <2>1, <2>2 DEF Kinds, Jobs, mainVars, loopVars, flags, queueVars, ioVars
  <2>3. CASE active /\ UNCHANGED slotVars /\ (rpc' = "read" \/ (rpc' = rpc /\ jobs' # <<>>))
    BY <2>1, <2>3 DEF Kinds, Jobs, mainVars, loopVars, flags, queueVars, ioVars, slotVars
  <2> QED
    BY <1>19, <2>2, <2>3, JobRuns
<1>20. CASE ReadDone
  BY <1>20 DEF ReadDone, Kinds, mainVars, loopVars, flags, ioVars, queueVars
<1>21. CASE ReadMessage
  BY <1>21 DEF ReadMessage, Kinds, flags, ioVars, queueVars, slotVars
<1>22. CASE TestCount
  BY <1>22 DEF TestCount, Kinds, mainVars, loopVars, flags, ioVars, queueVars, slotVars
<1>23. CASE Signal
  BY <1>23 DEF Signal, Kinds, Awakened, loopVars, flags, ioVars, queueVars, slotVars
<1>24. CASE Expire
  BY <1>24 DEF Expire, Kinds, loopVars, ioVars, queueVars, slotVars
<1>25. CASE SignalExpired
  BY <1>25 DEF SignalExpired, Kinds, Awakened, loopVars, ioVars, queueVars, slotVars
<1>26. CASE ReaderQueueEnds
  BY <1>26 DEF ReaderQueueEnds, Kinds, mainVars, loopVars, flags, ioVars, queueVars, slotVars
<1>27. CASE Advance
  BY <1>27 DEF Advance, Kinds, mainVars, loopVars, flags, ioVars, queueVars
<1>28. CASE UNCHANGED vars
  BY <1>28 DEF Kinds, vars, mainVars, loopVars, flags, ioVars, queueVars, readVars, slotVars
<1> QED
  BY <1>1, <1>2, <1>3, <1>4, <1>5, <1>6, <1>7, <1>8, <1>9, <1>10, <1>11, <1>12, <1>13, <1>14,
     <1>15, <1>16, <1>17, <1>18, <1>19, <1>20, <1>21, <1>22, <1>23, <1>24, <1>25, <1>26, <1>27,
     <1>28
  DEF Next, MainStep, WriteStep, ThreadStep, ReadStep

(* No message is lost or written twice between Post and the stream, and    *)
(* the count that main tests is that of the messages read: main begins a   *)
(* burst only when the last has been read to the end.                      *)
LEMMA CountStep ==
    ASSUME Kinds, CountInv, WritingInv, JobsInv, MainInv, [Next]_vars
    PROVE  CountInv'
<1> USE TransferAssumption, SocketAssumption
<1>0. Confirmed \in Nat
  BY DEF Kinds, Confirmed
<1>1. CASE Begin
  <2>1. UNCHANGED Confirmed
    BY <1>1 DEF Begin, Confirmed, Handling, readVars, slotVars
  <2> QED
    BY <1>0, <1>1, <2>1 DEF Begin, Kinds, CountInv, MainInv, queueVars, readVars, slotVars
<1>2. CASE Post
  <2>1. UNCHANGED Confirmed
    BY <1>2 DEF Post, Confirmed, Handling, readVars, slotVars
  <2> QED
    BY <1>0, <1>2, <2>1 DEF Post, Kinds, CountInv, readVars, slotVars
<1>3. CASE Drain
  <2>1. UNCHANGED Confirmed
    BY <1>3 DEF Drain, Confirmed, Handling, readVars, slotVars
  <2> QED
    BY <1>3, <2>1 DEF Drain, Kinds, CountInv, WritingInv, mainVars, loopVars, readVars, slotVars
<1>4. CASE Write
  <2>1. UNCHANGED Confirmed
    BY <1>4 DEF Write, Confirmed, Handling, readVars, slotVars
  <2> QED
    BY <1>0, <1>4, <2>1 DEF Write, Kinds, CountInv, mainVars, loopVars, queueVars, readVars, slotVars
<1>5. CASE RunJob
  <2>1. /\ rpc = "idle" /\ UNCHANGED <<mainVars, ioVars, thread>>
        /\ jobs' \in Seq(Jobs) /\ bench # "rmp" /\ \A i \in 1 .. Len(jobs') : jobs'[i] # "add"
    BY <1>5, JobRuns
  <2>2. CASE ~active /\ active' = TRUE /\ bpos' = end /\ rpos' = end /\ joined' = end /\ rpc' = rpc
    BY <2>1, <2>2 DEF Kinds, CountInv, JobsInv, Confirmed, Handling, mainVars, loopVars, queueVars, ioVars
  <2>3. CASE active /\ UNCHANGED slotVars /\ (rpc' = "read" \/ (rpc' = rpc /\ jobs' # <<>>))
    BY <2>1, <2>3 DEF CountInv, Confirmed, Handling, mainVars, loopVars, queueVars, ioVars, slotVars
  <2> QED
    BY <1>5, <2>2, <2>3, JobRuns
<1>6. CASE ReadDone
  BY <1>6 DEF ReadDone, Kinds, CountInv, Confirmed, Handling, mainVars, loopVars, ioVars, queueVars
<1>7. CASE ReadMessage
  <2>1. Confirmed = rpos /\ Confirmed' = rpos + 1
    BY <1>7 DEF ReadMessage, Confirmed, Handling, slotVars
  <2> QED
    BY <1>7, <2>1 DEF ReadMessage, Kinds, CountInv, JobsInv, ioVars, queueVars, slotVars
<1>8. CASE TestCount \/ Signal \/ Advance
  <2>1. UNCHANGED Confirmed
    BY <1>8 DEF TestCount, Signal, Advance, Confirmed, Handling, slotVars
  <2>2. bpos' <= rpos' /\ UNCHANGED <<iter, left, rcvCount, queued, batch, end, joined>>
    BY <1>8 DEF TestCount, Signal, Advance, Kinds, CountInv, mainVars, loopVars, ioVars, queueVars, slotVars
  <2> QED
    BY <2>1, <2>2 DEF CountInv
<1>9. CASE LockMtx \/ CheckPredicate \/ EndIteration \/ StopReader \/ SendLast \/ Join \/ ProcWriter \/
            Backpressure \/ BatchWritten \/ NotifyAtEnd \/ WriterQueueEnds \/ ThreadTop \/ Wait \/
            ThreadRead \/ Expire \/ SignalExpired \/ ReaderQueueEnds \/ UNCHANGED vars
  <2>1. UNCHANGED <<iter, left, rcvCount, queued, batch, end, bpos, rpos, joined>>
    BY <1>9 DEF LockMtx, CheckPredicate, EndIteration, StopReader, SendLast, Join, ProcWriter, Backpressure,
           BatchWritten, NotifyAtEnd, WriterQueueEnds, ThreadTop, Wait, ThreadRead,
           Expire, SignalExpired, ReaderQueueEnds, loopVars, flags, ioVars, queueVars,
           readVars, slotVars, mainVars, vars
  <2>2. rpc' = rpc \/ (~Handling /\ ~Handling')
    <3>1. CASE Wait
      <4>1. rpc' = rpc \/ (bench # "tp" /\ thread = "wait" /\ rpc' = "read")
        BY <3>1 DEF Wait
      <4>2. bench # "tp" => bench = "rmp"
        BY DEF Kinds
      <4> QED
        BY <4>1, <4>2 DEF JobsInv, Handling
    <3>2. CASE Expire \/ SignalExpired \/ ReaderQueueEnds
      BY <3>2 DEF Expire, SignalExpired, ReaderQueueEnds, Handling
    <3>3. CASE ~Wait /\ ~(Expire \/ SignalExpired \/ ReaderQueueEnds)
      BY <1>9, <3>3 DEF LockMtx, CheckPredicate, EndIteration, StopReader, SendLast, Join, ProcWriter,
           Backpressure, BatchWritten, NotifyAtEnd, WriterQueueEnds, ThreadTop, ThreadRead, readVars, vars
    <3> QED
      BY <3>1, <3>2, <3>3
  <2>3. UNCHANGED Confirmed
    BY <2>1, <2>2 DEF Confirmed, Handling
  <2> QED
    BY <2>1, <2>3 DEF CountInv
<1> QED
  BY <1>1, <1>2, <1>3, <1>4, <1>5, <1>6, <1>7, <1>8, <1>9
  DEF Next, MainStep, WriteStep, ThreadStep, ReadStep

(* Between its posts and its burst, busy says that somebody will drain.    *)
LEMMA WritingStep ==
    ASSUME Kinds, CountInv, WritingInv, MainInv, [Next]_vars
    PROVE  WritingInv'
<1> USE TransferAssumption, SocketAssumption
<1>1. CASE Begin
  BY <1>1 DEF Begin, Kinds, WritingInv, Draining, queueVars
<1>2. CASE Post
  BY <1>2 DEF Post, Kinds, WritingInv, Draining
<1>3. CASE LockMtx
  BY <1>3 DEF LockMtx, WritingInv, Draining, loopVars, ioVars, queueVars
<1>4. CASE CheckPredicate
  BY <1>4 DEF CheckPredicate, WritingInv, Draining, loopVars, ioVars, queueVars
<1>5. CASE EndIteration
  BY <1>5 DEF EndIteration, WritingInv, Draining, loopVars, ioVars, queueVars
<1>6. CASE StopReader
  BY <1>6 DEF StopReader, WritingInv, Draining, loopVars, ioVars, queueVars
<1>7. CASE SendLast
  BY <1>7 DEF SendLast, WritingInv, Draining, loopVars, queueVars
<1>8. CASE Join
  BY <1>8 DEF Join, WritingInv, Draining, loopVars, ioVars, queueVars
<1>9. CASE ProcWriter
  BY <1>9 DEF ProcWriter, Kinds, WritingInv, Draining, mainVars, loopVars
<1>10. CASE Drain
  BY <1>10 DEF Drain, WritingInv, Draining, mainVars, loopVars
<1>11. CASE Write
  BY <1>11 DEF Write, WritingInv, Draining, mainVars, loopVars, queueVars
<1>12. CASE Backpressure
  BY <1>12 DEF Backpressure, WritingInv, Draining, mainVars, loopVars, queueVars
<1>13. CASE BatchWritten
  BY <1>13 DEF BatchWritten, Kinds, WritingInv, Draining, mainVars, loopVars, queueVars
<1>14. CASE NotifyAtEnd
  BY <1>14 DEF NotifyAtEnd, WritingInv, Draining, mainVars, loopVars, queueVars
<1>15. CASE WriterQueueEnds
  BY <1>15 DEF WriterQueueEnds, WritingInv, Draining, mainVars, loopVars, queueVars
<1>16. CASE Signal
  BY <1>16 DEF Signal, WritingInv, Draining, Awakened, loopVars, ioVars, queueVars
<1>17. CASE SignalExpired
  BY <1>17 DEF SignalExpired, WritingInv, Draining, Awakened, loopVars, ioVars, queueVars
<1>18. CASE ThreadTop \/ Wait \/ ThreadRead \/ RunJob \/ ReadDone \/ ReadMessage \/ TestCount \/ Advance \/
            Expire \/ ReaderQueueEnds \/ UNCHANGED vars
  <2>1. UNCHANGED <<bench, left, main, queued, busy, work, wpc, batch>>
    BY <1>18 DEF ThreadTop, Wait, ThreadRead, RunJob, ReadDone, ReadMessage, TestCount, Advance, Expire,
           ReaderQueueEnds, mainVars, loopVars, flags, ioVars, queueVars, slotVars, vars, readVars
  <2> QED
    BY <2>1 DEF WritingInv, Draining
<1> QED
  BY <1>1, <1>2, <1>3, <1>4, <1>5, <1>6, <1>7, <1>8, <1>9, <1>10, <1>11, <1>12, <1>13, <1>14,
     <1>15, <1>16, <1>17, <1>18
  DEF Next, MainStep, WriteStep, ThreadStep, ReadStep

(* When the count is that of a burst there is nothing more to read, and    *)
(* the reader cannot be overtaken.                                         *)
LEMMA NoneLeft ==
    ASSUME Kinds, CountInv, iter > 0, rcvCount = Burst
    PROVE  Confirmed = end /\ ~Overtaken(rpos, end)
<1>1. iter * Burst \in Nat /\ iter # 0
  BY DueGrows DEF Kinds
<1>2. /\ Confirmed \in Nat /\ rpos \in Nat /\ end \in Nat /\ Confirmed <= rpos + 1
      /\ left \in Nat /\ queued \in Nat /\ batch \in Nat /\ joined \in Nat
  BY DEF Kinds, Confirmed
<1>3. Confirmed = iter * Burst + joined
  BY <1>1, <1>2, TransferAssumption DEF CountInv
<1>4. end <= iter * Burst /\ Confirmed <= end
  BY <1>1, <1>2 DEF CountInv
<1>5. Confirmed = end
  BY <1>1, <1>2, <1>3, <1>4
<1> QED
  BY <1>2, <1>5, TransferAssumption DEF Overtaken

(* Main goes on for one of two reasons, and neither is taken back: what is *)
(* left to read of a burst that has arrived is nothing, and a reader that  *)
(* was overtaken reads no more.                                            *)
LEMMA MainInvStep ==
    ASSUME Kinds, CountInv, WritingInv, JobsInv, MainInv, [Next]_vars
    PROVE  MainInv'
<1> USE TransferAssumption, SocketAssumption
<1>1. CASE Begin
  BY <1>1 DEF Begin, MainInv, Handling, Past, flags, readVars, slotVars
<1>2. CASE LockMtx
  BY <1>2 DEF LockMtx, MainInv, Handling, Past, flags, ioVars, readVars, slotVars
<1>3. CASE CheckPredicate
  BY <1>3 DEF CheckPredicate, MainInv, Handling, Past, Arrived, loopVars, flags, ioVars, readVars, slotVars
<1>4. CASE EndIteration
  BY <1>4 DEF EndIteration, MainInv, Handling, Past, loopVars, flags, ioVars, readVars, slotVars
<1>5. CASE StopReader
  BY <1>5 DEF StopReader, MainInv, Handling, Past, loopVars, ioVars, readVars, slotVars
<1>6. CASE SendLast
  BY <1>6 DEF SendLast, MainInv, Handling, Past, loopVars, flags, readVars, slotVars
<1>7. CASE Join
  BY <1>7 DEF Join, MainInv, Handling, Past, loopVars, flags, ioVars, readVars, slotVars
<1>8. CASE Write
  BY <1>8 DEF Write, Kinds, MainInv, Handling, Overtaken, mainVars, loopVars, flags, readVars, slotVars
<1>9. CASE Wait
  <2>1. rpc' \in {rpc, "read"} /\ UNCHANGED <<mainVars, rpos, end>>
    BY <1>9 DEF Wait, slotVars
  <2> QED
    BY <1>9, <2>1 DEF Wait, MainInv, Handling, mainVars, loopVars, flags
<1>10. CASE RunJob
  <2>1. /\ rpc = "idle" /\ UNCHANGED <<mainVars, ioVars, thread>>
        /\ jobs' \in Seq(Jobs) /\ bench # "rmp" /\ \A i \in 1 .. Len(jobs') : jobs'[i] # "add"
    BY <1>10, JobRuns
  <2>2. CASE ~active /\ active' = TRUE /\ bpos' = end /\ rpos' = end /\ joined' = end /\ rpc' = rpc
    BY <2>1, <2>2 DEF MainInv, Handling, JobsInv, mainVars, loopVars, flags
  <2>3. CASE active /\ UNCHANGED slotVars /\ (rpc' = "read" \/ (rpc' = rpc /\ jobs' # <<>>))
    BY <2>1, <2>3 DEF MainInv, Handling, mainVars, loopVars, flags, ioVars, slotVars
  <2> QED
    BY <1>10, <2>2, <2>3, JobRuns
<1>11. CASE ReadDone
  BY <1>11 DEF ReadDone, MainInv, Handling, mainVars, loopVars, flags, ioVars
<1>12. CASE ReadMessage
  <2>1. readerExpired => Overtaken(rpos, end)
    BY DEF MainInv
  <2>2. ~readerExpired /\ Confirmed = rpos /\ rpos # end /\ rpos <= end
    BY <1>12, <2>1 DEF ReadMessage, Confirmed, Handling, CountInv
  <2>3. rcvCount # Burst
    <3>1. iter > 0 => rcvCount # Burst
      BY <2>2, NoneLeft
    <3> QED
      BY <3>1 DEF Kinds, CountInv
  <2>4. main \notin Past /\ ~(main = "begin" /\ iter > 0)
    BY <2>2, <2>3 DEF MainInv
  <2> QED
    BY <1>12, <2>2, <2>4 DEF ReadMessage, MainInv, flags
<1>13. CASE TestCount
  BY <1>13 DEF TestCount, MainInv, Handling, mainVars, loopVars, flags, ioVars, slotVars
<1>14. CASE Signal
  BY <1>14 DEF Signal, MainInv, Handling, Past, Awakened, loopVars, flags, ioVars, slotVars
<1>15. CASE Expire
  <2>1. Overtaken(rpos, end) /\ ~(main = "begin" /\ iter > 0)
    BY <1>15, NoneLeft DEF Expire, MainInv
  <2>2. ~Handling' /\ UNCHANGED <<main, iter, rcvCount, rpos, end>>
    BY <1>15 DEF Expire, Handling, loopVars, ioVars, slotVars
  <2>3. Overtaken(rpos, end)'
    BY <2>1, <2>2 DEF Overtaken
  <2>4. main \in Past => readerExpired' \/ rcvCount = Burst
    BY <1>15 DEF Expire, MainInv
  <2> QED
    BY <2>1, <2>2, <2>3, <2>4 DEF MainInv
<1>16. CASE SignalExpired
  <2>1. Overtaken(rpos, end) /\ ~(main = "begin" /\ iter > 0)
    BY <1>16, NoneLeft DEF SignalExpired, MainInv
  <2>2. /\ ~Handling' /\ readerExpired' /\ UNCHANGED <<iter, rcvCount, rpos, end>>
        /\ main' = "begin" => main = "begin"
    BY <1>16 DEF SignalExpired, Awakened, Handling, loopVars, ioVars, slotVars
  <2>3. Overtaken(rpos, end)'
    BY <2>1, <2>2 DEF Overtaken
  <2> QED
    BY <2>1, <2>2, <2>3 DEF MainInv
<1>17. CASE ReaderQueueEnds
  BY <1>17 DEF ReaderQueueEnds, MainInv, Handling, mainVars, loopVars, flags, ioVars, slotVars
<1>18. CASE Post \/ ProcWriter \/ Drain \/ Backpressure \/ BatchWritten \/ NotifyAtEnd \/
            WriterQueueEnds \/ ThreadTop \/ ThreadRead \/ UNCHANGED vars
  <2>1. UNCHANGED <<iter, rcvCount, main, readerExpired, end, rpos, rpc>>
    BY <1>18 DEF Post, ProcWriter, Drain, Backpressure, BatchWritten, NotifyAtEnd, WriterQueueEnds, ThreadTop,
           ThreadRead, flags, readVars, slotVars, mainVars, loopVars, queueVars, ioVars, vars
  <2> QED
    BY <2>1 DEF MainInv, Handling
<1>19. CASE Advance
  BY <1>19 DEF Advance, MainInv, Handling, mainVars, loopVars, flags, ioVars
<1> QED
  BY <1>1, <1>2, <1>3, <1>4, <1>5, <1>6, <1>7, <1>8, <1>9, <1>10, <1>11, <1>12, <1>13, <1>14,
     <1>15, <1>16, <1>17, <1>18, <1>19
  DEF Next, MainStep, WriteStep, ThreadStep, ReadStep

(* The reader is activated once, by the first job.                         *)
LEMMA JobsStep ==
    ASSUME Kinds, CountInv, WritingInv, JobsInv, MainInv, [Next]_vars
    PROVE  JobsInv'
<1> USE TransferAssumption, SocketAssumption
<1>1. CASE Begin
  BY <1>1 DEF Begin, Kinds, JobsInv, MainInv, flags, readVars, slotVars
<1>2. CASE Wait
  <2>1. UNCHANGED jobs \/ (bench = "tp" /\ jobs' = Append(jobs, "run"))
    BY <1>2 DEF Wait
  <2>2. UNCHANGED <<mainVars, slotVars>> /\ (rpc' = rpc \/ (bench # "tp" /\ rpc' = "read"))
    BY <1>2 DEF Wait
  <2>3. jobs \in Seq(Jobs) /\ Len(jobs) \in Nat
    BY DEF Kinds
  <2>4. CASE UNCHANGED jobs
    <3>1. bench # "tp" => thread' = "reading"
      BY <1>2 DEF Wait
    <3> QED
      BY <2>2, <2>4, <3>1, TransferAssumption DEF Kinds, JobsInv, mainVars, loopVars, flags, slotVars
  <2>5. CASE jobs' = Append(jobs, "run")
    <3>1. /\ jobs' # <<>> /\ Len(jobs') = Len(jobs) + 1 /\ jobs'[Len(jobs) + 1] = "run"
          /\ \A i \in 1 .. Len(jobs) : jobs'[i] = jobs[i]
      BY <2>3, <2>5, TailAndAppend DEF Jobs
    <3> QED
    BY <2>1, <2>2, <2>3, <3>1 DEF JobsInv, vars, mainVars, loopVars, flags, ioVars, slotVars
  <2> QED
    BY <2>1, <2>4, <2>5
<1>3. CASE RunJob
  <2>1. /\ rpc = "idle" /\ UNCHANGED <<mainVars, ioVars, thread>>
        /\ jobs' \in Seq(Jobs) /\ bench # "rmp" /\ \A i \in 1 .. Len(jobs') : jobs'[i] # "add"
    BY <1>3, JobRuns
  <2>2. CASE ~active /\ active' = TRUE /\ bpos' = end /\ rpos' = end /\ joined' = end /\ rpc' = rpc
    BY <2>1, <2>2 DEF JobsInv, mainVars, loopVars
  <2>3. CASE active /\ UNCHANGED slotVars /\ (rpc' = "read" \/ (rpc' = rpc /\ jobs' # <<>>))
    BY <2>1, <2>3 DEF JobsInv, mainVars, loopVars, slotVars
  <2> QED
    BY <1>3, <2>2, <2>3, JobRuns
<1>4. CASE ReadDone
  BY <1>4 DEF ReadDone, JobsInv, mainVars, loopVars
<1>5. CASE ReadMessage
  BY <1>5 DEF ReadMessage, JobsInv, slotVars
<1>6. CASE TestCount
  BY <1>6 DEF TestCount, JobsInv, mainVars, loopVars, slotVars
<1>7. CASE Signal
  BY <1>7 DEF Signal, JobsInv, loopVars, slotVars
<1>8. CASE Expire
  BY <1>8 DEF Expire, JobsInv, loopVars, slotVars
<1>9. CASE SignalExpired
  BY <1>9 DEF SignalExpired, JobsInv, loopVars, slotVars
<1>10. CASE ReaderQueueEnds
  BY <1>10 DEF ReaderQueueEnds, WritingInv, JobsInv, MainInv, Past, mainVars, loopVars, slotVars
<1>11. CASE Post \/ LockMtx \/ CheckPredicate \/ EndIteration \/ StopReader \/ SendLast \/ Join \/
            ProcWriter \/ Drain \/ Write \/ Backpressure \/ BatchWritten \/ NotifyAtEnd \/
            WriterQueueEnds \/ UNCHANGED vars
  <2>1. UNCHANGED <<bench, iter, rcvCount, readerExpired, active, rpos, joined, jobs, rpc, thread>>
    BY <1>11 DEF Post, LockMtx, CheckPredicate, EndIteration, StopReader, SendLast, Join, ProcWriter, Drain,
           Write, Backpressure, BatchWritten, NotifyAtEnd, WriterQueueEnds,
           flags, readVars, slotVars, loopVars, ioVars, queueVars, mainVars, vars
  <2> QED
    BY <2>1 DEF JobsInv
<1>12. CASE Advance
  BY <1>12 DEF Advance, JobsInv, mainVars, loopVars
<1>13. CASE ThreadTop \/ ThreadRead
  BY <1>13 DEF ThreadTop, ThreadRead, JobsInv, mainVars, loopVars, flags, slotVars
<1> QED
  BY <1>1, <1>2, <1>3, <1>4, <1>5, <1>6, <1>7, <1>8, <1>9, <1>10, <1>11, <1>12,
     <1>13
  DEF Next, MainStep, WriteStep, ThreadStep, ReadStep

(* A reader is woken before it is overtaken, and it sleeps again only when *)
(* it has read all there is.                                               *)
LEMMA AwakeStep ==
    ASSUME Kinds, CountInv, JobsInv, MainInv, AwakeInv, [Next]_vars
    PROVE  AwakeInv'
<1> USE TransferAssumption, SocketAssumption
<1>1. CASE Begin
  BY <1>1 DEF Begin, AwakeInv, InTheWay, readVars, slotVars
<1>2. CASE SendLast
  BY <1>2 DEF SendLast, Kinds, AwakeInv, CanReceive, Sent, Closed
<1>3. CASE ProcWriter
  BY <1>3 DEF ProcWriter, AwakeInv
<1>4. CASE Drain
  BY <1>4 DEF Drain, AwakeInv
<1>5. CASE Write
  BY <1>5 DEF Write, AwakeInv
<1>6. CASE Backpressure
  BY <1>6 DEF Backpressure, Kinds, AwakeInv, CanReceive, Sent, Closed
<1>7. CASE BatchWritten
  BY <1>7 DEF BatchWritten, AwakeInv
<1>8. CASE NotifyAtEnd
  BY <1>8 DEF NotifyAtEnd, AwakeInv
<1>9. CASE WriterQueueEnds
  BY <1>9 DEF WriterQueueEnds, AwakeInv
<1>10. CASE Wait
  BY <1>10 DEF Wait, AwakeInv
<1>11. CASE RunJob
  <2>1. /\ rpc = "idle" /\ UNCHANGED <<mainVars, ioVars, thread>>
        /\ jobs' \in Seq(Jobs) /\ bench # "rmp" /\ \A i \in 1 .. Len(jobs') : jobs'[i] # "add"
    BY <1>11, JobRuns
  <2>2. CASE ~active /\ active' = TRUE /\ bpos' = end /\ rpos' = end /\ joined' = end /\ rpc' = rpc
    BY <2>1, <2>2 DEF Kinds, AwakeInv, InTheWay, Overtaken, ioVars
  <2>3. CASE active /\ UNCHANGED slotVars /\ (rpc' = "read" \/ (rpc' = rpc /\ jobs' # <<>>))
    BY <2>1, <2>3 DEF AwakeInv
  <2> QED
    BY <1>11, <2>2, <2>3, JobRuns
<1>12. CASE ReadDone
  BY <1>12 DEF ReadDone, Kinds, AwakeInv, InTheWay, Overtaken, ioVars
<1>13. CASE ReadMessage
  BY <1>13 DEF ReadMessage, AwakeInv
<1>14. CASE TestCount
  BY <1>14 DEF TestCount, AwakeInv
<1>15. CASE Signal
  BY <1>15 DEF Signal, AwakeInv
<1>16. CASE Expire
  BY <1>16 DEF Expire, Kinds, CountInv, AwakeInv, InTheWay, Overtaken, ioVars, slotVars
<1>17. CASE SignalExpired
  BY <1>17 DEF SignalExpired, Kinds, CountInv, MainInv, AwakeInv, InTheWay, Overtaken, ioVars, slotVars
<1>18. CASE ReaderQueueEnds
  BY <1>18 DEF ReaderQueueEnds, AwakeInv
<1>19. CASE Post \/ LockMtx \/ CheckPredicate \/ EndIteration \/ StopReader \/ Join \/ ThreadTop \/
            ThreadRead \/ UNCHANGED vars
  <2>1. UNCHANGED <<wpc, end, sock, active, bpos, jobs, rpc>>
    BY <1>19 DEF Post, LockMtx, CheckPredicate, EndIteration, StopReader, Join, ThreadTop, ThreadRead, flags,
           readVars, slotVars, loopVars, ioVars, queueVars, mainVars, vars
  <2> QED
    BY <2>1 DEF AwakeInv, InTheWay
<1>20. CASE Advance
  BY <1>20 DEF Advance, AwakeInv
<1> QED
  BY <1>1, <1>2, <1>3, <1>4, <1>5, <1>6, <1>7, <1>8, <1>9, <1>10, <1>11, <1>12, <1>13, <1>14,
     <1>15, <1>16, <1>17, <1>18, <1>19, <1>20
  DEF Next, MainStep, WriteStep, ThreadStep, ReadStep

------------------------------------------------------------------------------
(* The benchmarks begin with nothing written and nothing read.             *)
LEMMA Begins == Init => TransferInv
<1> SUFFICES ASSUME Init PROVE TransferInv
  OBVIOUS
<1> USE TransferAssumption, SocketAssumption
<1>0. /\ bench \in {"rmp", "tp"}
      /\ jobs = (IF bench = "tp" THEN <<"add">> ELSE <<>>)
  BY DEF Init
<1>1. Kinds
  <2>1. jobs \in Seq(Jobs)
    BY <1>0 DEF Jobs
  <2>2. sock \in [{"un"} -> 0 .. SockBuf]
    BY DEF Init, Constructed
  <2>3. active \in BOOLEAN /\ iter \in 0 .. Iterations
    BY DEF Init
  <2> QED
    BY <2>1, <2>2, <2>3 DEF Init, Kinds
<1>2. CountInv
  BY DueGrows DEF Init, CountInv, Confirmed, Handling
<1>3. WritingInv
  BY DEF Init, WritingInv, Draining
<1>4. JobsInv
  <2>1. CASE bench = "tp"
    <3>1. jobs # <<>> /\ Len(jobs) = 1 /\ jobs[1] = "add"
      BY <1>0, <2>1
    <3>2. /\ active = FALSE /\ rpos = 0 /\ joined = 0 /\ rcvCount = 0 /\ iter = 0
          /\ rpc = "idle" /\ readerExpired = FALSE
      BY <2>1 DEF Init
    <3> QED
      BY <2>1, <3>1, <3>2 DEF JobsInv
  <2>2. CASE bench # "tp"
    <3>1. jobs = <<>> /\ Len(jobs) = 0
      BY <1>0, <2>2
    <3>2. active = TRUE
      BY <1>0, <2>2 DEF Init
    <3> QED
      BY <2>2, <3>1, <3>2, <1>0 DEF Init, JobsInv
  <2> QED
    BY <2>1, <2>2
<1>5. MainInv
  BY DEF Init, MainInv, Past, Handling
<1>6. AwakeInv
  BY DEF Init, AwakeInv
<1> QED
  BY <1>1, <1>2, <1>3, <1>4, <1>5, <1>6 DEF TransferInv

(* TransferInv is an invariant.                                            *)
THEOREM Invariance == Spec => []TransferInv
<1>1. Init => TransferInv
  BY Begins
<1>2. TransferInv /\ [Next]_vars => TransferInv'
  BY KindsStep, CountStep, WritingStep, JobsStep, MainInvStep, AwakeStep DEF TransferInv
<1> QED
  BY <1>1, <1>2, PTL DEF Spec

(* The variables keep their types: no burst is written twice and none is   *)
(* begun while a message of another is under way.                          *)
THEOREM Typing == Spec => []TypeOK
<1>1. TransferInv => TypeOK
  <2> SUFFICES ASSUME TransferInv PROVE TypeOK
    OBVIOUS
  <2> USE TransferAssumption, SocketAssumption DEF TransferInv
  <2> DEFINE due == iter * Burst
             all == Burst * Iterations
  <2>1. due \in Nat /\ all \in Nat /\ due <= all
    BY DEF Kinds
  <2>2. IF iter = 0 THEN due = 0 ELSE due >= Burst
    BY DEF Kinds
  <2>3. iter = 1 => due = Burst
    BY DueGrows
  <2>4. left + queued + batch + end = due
    BY DEF CountInv
  <2>5. IF iter = 0 THEN rcvCount = 0 /\ joined = 0 ELSE rcvCount + due + joined = Confirmed + Burst
    BY DEF CountInv
  <2>6. iter > 1 => joined = 0
    BY DEF CountInv
  <2>7. /\ left \in Nat /\ rcvCount \in Nat /\ queued \in Nat /\ batch \in Nat /\ end \in Nat
        /\ rpos \in Nat /\ joined \in Nat /\ bpos \in Nat /\ iter \in Nat
        /\ bpos <= rpos /\ rpos <= Confirmed /\ Confirmed <= end /\ Confirmed \in Nat
    BY DEF Kinds, CountInv, Confirmed
  <2> HIDE DEF due, all
  <2>8. left <= Burst /\ rcvCount <= Burst /\ queued <= Burst /\ batch <= Burst
    BY <2>2, <2>4, <2>5, <2>7
  <2>9. end <= all /\ joined <= end
    BY <2>1, <2>2, <2>3, <2>4, <2>5, <2>6, <2>7
  <2>10. work \in 0 .. 1
    BY DEF Kinds, WritingInv
  <2>11. sock \in [{"un"} -> Sockets]
    BY DEF Kinds, Sockets
  <2> QED
    BY <2>7, <2>8, <2>9, <2>10, <2>11 DEF Kinds, Jobs, TypeOK, all
<1> QED
  BY <1>1, Invariance, PTL

(* When main goes on, the whole burst and nothing else has been written    *)
(* and received, or the reader it gives up was overtaken: the count kept   *)
(* without a lock, a flag set late and a reader that joins late tell main  *)
(* nothing that is not so.                                                 *)
THEOREM MainIsToldTheTruth == Spec => []OutcomeTrue
<1>1. TransferInv => OutcomeTrue
  <2> SUFFICES ASSUME TransferInv PROVE OutcomeTrue
    OBVIOUS
  <2> USE TransferAssumption
  <2> SUFFICES ASSUME main \in Past
               PROVE  IF readerExpired THEN Overtaken(rpos, end)
                      ELSE /\ rcvCount = Burst /\ joined = 0
                           /\ Confirmed = end /\ end = iter * Burst
                           /\ left = 0 /\ queued = 0 /\ batch = 0
    BY DEF TransferInv, Kinds, Past, OutcomeTrue
  <2>1. CASE readerExpired
    BY <2>1 DEF TransferInv, MainInv
  <2>2. CASE ~readerExpired
    <3>1. rcvCount = Burst
      BY <2>2 DEF TransferInv, MainInv
    <3>2. iter * Burst \in Nat
      BY DueGrows DEF TransferInv, Kinds
    <3>4. Confirmed \in Nat
      BY DEF TransferInv, Kinds, Confirmed
    <3>3. iter * Burst + joined = Confirmed /\ left + queued + batch + end = iter * Burst /\ Confirmed <= end
      BY <3>1, <3>2, <3>4 DEF TransferInv, Kinds, CountInv
    <3> QED
      BY <2>2, <3>1, <3>2, <3>3, <3>4 DEF TransferInv, Kinds
  <2> QED
    BY <2>1, <2>2
<1> QED
  BY <1>1, Invariance, PTL

(* A writer that goes past a reader it is held back by has woken it.       *)
THEOREM OvertakenIsAwake == Spec => []ForcedPastAwake
<1>1. TransferInv => ForcedPastAwake
  BY DEF TransferInv, AwakeInv, ForcedPastAwake, ReaderSleeps
<1> QED
  BY <1>1, Invariance, PTL
==============================================================================
