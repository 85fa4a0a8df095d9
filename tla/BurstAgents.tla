----------------------------- MODULE BurstAgents -----------------------------
(***************************************************************************)
(* The burst system tests: a script starts reader and writer processes of  *)
(* burst/agent.cpp over one ring buffer, one ReaderInfo and one block of   *)
(* statistics in shared memory, waits for them, and compares what they     *)
(* counted.  Each agent is single-threaded: it runs the work it enqueues   *)
(* itself.                                                                 *)
(*                                                                         *)
(* The ring is the one of RmpRing with messages for bytes: a position is a *)
(* number of messages, and a reader is overtaken once the stream is more   *)
(* than Window messages ahead.  Activate and Free are one step each (their *)
(* interleavings are in RmpReaderInfo), and so is a scan for backpressure. *)
(* The statistics that are only printed are left out.                      *)
(***************************************************************************)
EXTENDS RobustMutex, UdpNotification, Sequences, SequencesExt, FiniteSets

CONSTANTS
    Tests,          \* the tests there may be: a script and its environment
    MaxAgents,      \* readers, and writers, that a script starts at most
    MaxIterations,  \* TORONI_AGENT_ITERATIONS at most
    MaxSlots,       \* slots of ReaderInfo at most
    Window,         \* messages the ring buffer holds
    LongSleep,      \* whether a second is enough for a reader to start
    MayFail,        \* whether opening a socket may fail
    Mortal          \* the agents that may be killed from outside

(* What a script sets itself is as in the script; robust-reader.sh needs   *)
(* one slot, robust-writer.sh two.                                         *)
ASSUME BurstAssumption ==
    /\ Window \in Nat \ {0} /\ MaxSlots \in Nat
    /\ MaxAgents \in Nat \ {0, 1} /\ MaxIterations \in Nat
    /\ LongSleep \in BOOLEAN /\ MayFail \in BOOLEAN
    /\ \A t \in Tests :
        /\ t.messages \in Nat \ {0} /\ t.slots \in 1 .. MaxSlots
        /\ t.readers \in 1 .. MaxAgents /\ t.writers \in 1 .. MaxAgents
        /\ t.iterations \in 1 .. MaxIterations
        /\ t.script \in {"bench-cell", "robust-reader", "robust-writer"}
        /\ t.script = "bench-cell" => t.flavor \in {"FIRST_LAST_DURATION", "LATENCY"}
        /\ t.script # "bench-cell" =>
            t.readers = 1 /\ t.writers = 1 /\ t.iterations = 1
        /\ t.script = "robust-reader" => t.slots = 1

VARIABLES
    test,       \* the test of this behaviour, one of Tests
    iter,       \* the iteration of bench-cell.sh
    line,       \* the command that the script runs next
    exit,       \* exit code of the script, Running before
    named,      \* whether the shared memory has its names
    end,        \* messages in the stream
    writerMtx,  \* ByteRingBuffer::writerMtx
    info,       \* ReaderInfo: lock, isActive and position of each slot
    stats,      \* AgentStats and ReaderInfo::stats
    sock,       \* the socket of each agent
    ag,         \* the agents: control, locals and exit code
    recovered   \* the locks taken over from a dead owner (history)

vars == <<test, iter, line, exit, named, end, writerMtx, info, stats, sock, ag, recovered>>
shmVars == <<end, writerMtx, info, stats, recovered>>
scriptVars == <<test, iter, line, exit, named>>

(* TORONI_AGENT_*: the environment of a test, exported by its script.      *)
Flavors == {"FIRST_LAST_DURATION", "LATENCY", "ROBUST_WRITER", "ROBUST_READER"}

(* An agent: of its kind, the n-th that an iteration starts.               *)
Agents == {"reader", "writer"} \X (1 .. MaxAgents) \X (1 .. MaxIterations)
Slots == 1 .. test.slots
Running == -1
Abort == 134
Killed == 137
EC_SUCCESS == 0
EC_READER_EXPIRED == 2

(* _msgAllWriterCount                                                      *)
All == test.messages * test.writers

------------------------------------------------------------------------------
(* The scripts.                                                            *)

Start(p, f) == [do |-> "start", p |-> p, flavor |-> f]
Wait(p) == [do |-> "wait", p |-> p]
Kill(p) == [do |-> "kill", p |-> p]
Cmp(n) == [do |-> "cmprcved", n |-> n]
Agent(cmd) == [do |-> cmd]

(* From the top of the loop of bench-cell.sh on; "loop" ends its body.     *)
BenchCell(t, i) ==
    LET starts(kind, n) == [a \in 1 .. n |-> Start(<<kind, a, i>>, t.flavor)]
        waits(kind, n) == [a \in 1 .. n |-> Wait(<<kind, a, i>>)]
    IN  starts("reader", t.readers) \o <<Agent("waitreaders")>>
        \o starts("writer", t.writers)
        \o waits("writer", t.writers) \o waits("reader", t.readers)
        \o <<Agent("resetiter"), Agent("loop"), Agent("expired"), Agent("unlink")>>

(* What robust-reader.sh and robust-writer.sh end with: the second reader  *)
(* receives what writer w writes.                                          *)
AfterCrash(t, w) ==
    <<Cmp(0), Start(<<"reader", 2, 1>>, "LATENCY"), Agent("sleep"),
      Start(w, "LATENCY"), Wait(w), Wait(<<"reader", 2, 1>>),
      Cmp(t.messages), Agent("unlink")>>

RobustReader(t) ==
    <<Start(<<"reader", 1, 1>>, "ROBUST_READER"), Wait(<<"reader", 1, 1>>)>>
        \o AfterCrash(t, <<"writer", 1, 1>>)

RobustWriter(t) ==
    <<Start(<<"reader", 1, 1>>, "ROBUST_WRITER"), Start(<<"writer", 1, 1>>, "ROBUST_WRITER"),
      Wait(<<"writer", 1, 1>>), Kill(<<"reader", 1, 1>>)>>
        \o AfterCrash(t, <<"writer", 2, 1>>)

Script(t, i) ==
    CASE t.script = "bench-cell"    -> BenchCell(t, i)
      [] t.script = "robust-reader" -> RobustReader(t)
      [] t.script = "robust-writer" -> RobustWriter(t)

------------------------------------------------------------------------------
(* The state after the script's init: RunInit constructs everything.       *)
Init ==
    /\ test \in Tests
    /\ iter = 1 /\ line = 1 /\ exit = Running /\ named = TRUE
    /\ end = 0
    /\ writerMtx = NewMutex
    /\ info = [s \in 1 .. MaxSlots |-> [lock |-> NewMutex, isActive |-> FALSE, position |-> 0]]
    /\ stats = [msgCount |-> 0, readersReady |-> 0, expiredReaders |-> 0]
    /\ sock = [p \in Agents |-> Closed]
    /\ ag = [p \in Agents |-> [pc |-> "none", flavor |-> "none", id |-> 1, pos |-> 0,
                               rcved |-> 0, todo |-> test.messages, code |-> 0]]
    /\ recovered = {}

At(p, label) == ag[p].pc = label
Gone(p) == At(p, "exited")
Alive(p) == ~At(p, "none") /\ ~Gone(p)
Dead == {p \in Agents : Gone(p)}

To(p, label) == ag' = [ag EXCEPT ![p].pc = label]

(* A process ends: its socket is closed, what it locked stays locked.      *)
Exits(p, code) ==
    /\ ag' = [ag EXCEPT ![p].pc = "exited", ![p].code = code]
    /\ sock' = [sock EXCEPT ![p] = Closed]

Overtaken(pos, e) == e - pos > Window

------------------------------------------------------------------------------
(* An agent, from main to the loops of RunReader and RunWriter.            *)

(* UdpNotification() comes first: a writer then posts its messages, todo   *)
(* of them, which leaves one ProcWriter to run, and a reader constructs    *)
(* its tp::Reader.                                                         *)
OpenSocket(p) ==
    /\ At(p, "open")
    /\ \E fails \in {FALSE, MayFail} :
        IF fails
        THEN Exits(p, Abort)
        ELSE /\ sock' = [sock EXCEPT ![p] = Constructed(fails)]
             /\ To(p, IF p[1] = "reader" THEN "alloc" ELSE "lock")
    /\ UNCHANGED <<scriptVars, shmVars>>

(* ReaderInfo::Alloc: TryLock, slot by slot; Reader throws without one.    *)
(* The slot is then deactivated, which it is unless its owner died.        *)
Alloc(p) ==
    /\ At(p, "alloc")
    /\ LET s == ag[p].id
           code == LockCode(info[s].lock, Dead)
       IN  IF code = "EBUSY"
           THEN /\ IF s < test.slots
                   THEN ag' = [ag EXCEPT ![p].id = s + 1] /\ UNCHANGED sock
                   ELSE Exits(p, Abort)
                /\ UNCHANGED <<info, recovered>>
           ELSE /\ info' = [info EXCEPT ![s].lock = Taken(@, p, code)]
                /\ recovered' = IF code = "EOWNERDEAD" THEN recovered \cup {"info"}
                                ELSE recovered
                /\ To(p, AfterLock(code, "load"))
                /\ UNCHANGED sock
    /\ UNCHANGED <<scriptVars, end, writerMtx, stats>>

(* SetConsistent, for the lock p was given; a slot is then deactivated.    *)
MakeConsistent(p) ==
    /\ At(p, "consist")
    /\ IF p[1] = "reader"
       THEN /\ info' = [info EXCEPT ![ag[p].id].lock = MadeConsistent(@),
                                    ![ag[p].id].isActive = FALSE]
            /\ To(p, "load") /\ UNCHANGED writerMtx
       ELSE /\ writerMtx' = MadeConsistent(writerMtx)
            /\ To(p, "scan") /\ UNCHANGED info
    /\ UNCHANGED <<scriptVars, end, stats, sock, recovered>>

(* CreateChannelReader: the first channel reader activates the slot at the *)
(* end of the stream it has loaded.                                        *)
LoadFreePos(p) ==
    /\ At(p, "load")
    /\ ag' = [ag EXCEPT ![p].pc = "activate", ![p].pos = end]
    /\ UNCHANGED <<scriptVars, shmVars, sock>>

Activate(p) ==
    /\ At(p, "activate")
    /\ info' = [info EXCEPT ![ag[p].id].position = ag[p].pos, ![ag[p].id].isActive = TRUE]
    /\ To(p, "ready")
    /\ UNCHANGED <<scriptVars, end, writerMtx, stats, sock, recovered>>

CountReady(p) ==
    /\ At(p, "ready")
    /\ stats' = [stats EXCEPT !.readersReady = @ + 1]
    /\ To(p, "top")
    /\ UNCHANGED <<scriptVars, end, writerMtx, info, sock, recovered>>

(* Mutant: RobustReaderTest::ReadMore returns false instead of exiting.    *)
ReadMoreReturns(p) ==
    /\ At(p, "top")
    /\ To(p, IF ag[p].flavor # "ROBUST_READER" /\ ag[p].rcved < All THEN "wait" ELSE "leave")
    /\ UNCHANGED <<scriptVars, shmVars, sock>>

(* ReadMore: a ROBUST_READER exits instead, with its slot.                 *)
ReadMore(p) ==
    /\ At(p, "top")
    /\ IF ag[p].flavor = "ROBUST_READER"
       THEN Exits(p, EC_SUCCESS)
       ELSE /\ To(p, IF ag[p].rcved < All THEN "wait" ELSE "leave")
            /\ UNCHANGED sock
    /\ UNCHANGED <<scriptVars, shmVars>>

WaitNotification(p) ==
    /\ At(p, "wait") /\ CanReceive(sock[p])
    /\ sock' = [sock EXCEPT ![p] = Received(@)]
    /\ To(p, "run")
    /\ UNCHANGED <<scriptVars, shmVars>>

(* Reader::Run at the end of the stream: ReadEx publishes its position.    *)
RunEnds(p) ==
    /\ At(p, "run") /\ ag[p].pos = end
    /\ info' = [info EXCEPT ![ag[p].id].position = end]
    /\ To(p, "top")
    /\ UNCHANGED <<scriptVars, end, writerMtx, stats, sock, recovered>>

(* ReadEx finds the reader overtaken, and the event handler exits.         *)
Expire(p) ==
    /\ At(p, "run") /\ Overtaken(ag[p].pos, end)
    /\ stats' = [stats EXCEPT !.expiredReaders = @ + 1]
    /\ Exits(p, EC_READER_EXPIRED)
    /\ UNCHANGED <<scriptVars, end, writerMtx, info, recovered>>

(* What OnChannelRead adds to msgCount: a THROUGHPUT test adds all at the  *)
(* last message, in the branch for messages that are not the first.        *)
Counted(p, rcved) ==
    IF ag[p].flavor = "FIRST_LAST_DURATION" /\ rcved # 1 /\ rcved = All THEN rcved ELSE 0

(* The position a reader publishes: a new one when half a buffer was read. *)
Published(pos, last) == IF 2 * (pos - last) >= Window THEN pos ELSE last

(* One message: OnChannelRead, which never returns in a ROBUST_WRITER test, *)
(* and then the position (two steps in RmpRing and Transfer): nobody but    *)
(* this process sees what lies between, and who is killed there is not      *)
(* asked how far it got.                                                    *)
ReadMessage(p) ==
    /\ At(p, "run") /\ ag[p].pos # end /\ ~Overtaken(ag[p].pos, end)
    /\ IF ag[p].flavor = "ROBUST_WRITER"
       THEN To(p, "blocked") /\ UNCHANGED <<info, stats>>
       ELSE LET pos == ag[p].pos + 1
                s == ag[p].id
                rcved == ag[p].rcved + 1
            IN  /\ ag' = [ag EXCEPT ![p].pos = pos, ![p].rcved = rcved]
                /\ info' = [info EXCEPT ![s].position = Published(pos, @)]
                /\ stats' = [stats EXCEPT !.msgCount = @ + Counted(p, rcved)]
    /\ UNCHANGED <<scriptVars, end, writerMtx, sock, recovered>>

(* RunReader returns: ~Reader frees the slot ...                           *)
Free(p) ==
    /\ At(p, "leave")
    /\ info' = [info EXCEPT ![ag[p].id].isActive = FALSE, ![ag[p].id].lock = Unlocked(@)]
    /\ To(p, "main")
    /\ UNCHANGED <<scriptVars, end, writerMtx, stats, sock, recovered>>

(* ... and main: ~LatencyTest adds what the test received, nothing in a    *)
(* writer.                                                                 *)
Main(p) ==
    /\ At(p, "main")
    /\ stats' = [stats EXCEPT !.msgCount =
                    IF ag[p].flavor = "LATENCY" THEN @ + ag[p].rcved ELSE @]
    /\ Exits(p, EC_SUCCESS)
    /\ UNCHANGED <<scriptVars, end, writerMtx, info, recovered>>

------------------------------------------------------------------------------
(* ProcWriter: every message with WriteEx, then a notification.            *)

(* WriteEx locks writerMtx; Lock waits while somebody alive has it.        *)
Lock(p) ==
    /\ At(p, "lock")
    /\ LET code == LockCode(writerMtx, Dead)
       IN  /\ code # "EBUSY"
           /\ writerMtx' = Taken(writerMtx, p, code)
           /\ recovered' = IF code = "EOWNERDEAD" THEN recovered \cup {"writerMtx"}
                           ELSE recovered
           /\ To(p, AfterLock(code, "scan"))
    /\ UNCHANGED <<scriptVars, end, info, stats, sock>>

(* DetectReaderBackpressure: an active reader the message would overtake.  *)
InTheWay(i) == i.isActive /\ ~Overtaken(i.position, end) /\ Overtaken(i.position, end + 1)

Scan(p) ==
    /\ At(p, "scan")
    /\ To(p, IF \E s \in Slots : InTheWay(info[s]) THEN "backpressure" ELSE "write")
    /\ UNCHANGED <<scriptVars, shmVars, sock>>

(* Backpressure: readers are notified before OnBackpressure is called ...  *)
NotifyBackpressure(p) ==
    /\ At(p, "backpressure")
    /\ sock' = Sent(sock)
    /\ To(p, "handler")
    /\ UNCHANGED <<scriptVars, shmVars>>

(* ... which sleeps and has the message written all the same; a            *)
(* ROBUST_WRITER exits, with the lock.                                     *)
OnBackpressure(p) ==
    /\ At(p, "handler")
    /\ IF ag[p].flavor = "ROBUST_WRITER" THEN Exits(p, EC_SUCCESS)
       ELSE To(p, "write") /\ UNCHANGED sock
    /\ UNCHANGED <<scriptVars, shmVars>>

Write(p) ==
    /\ At(p, "write")
    /\ end' = end + 1
    /\ ag' = [ag EXCEPT ![p].pc = "unlock", ![p].todo = @ - 1]
    /\ UNCHANGED <<scriptVars, writerMtx, info, stats, sock, recovered>>

Unlock(p) ==
    /\ At(p, "unlock")
    /\ writerMtx' = Unlocked(writerMtx)
    /\ To(p, IF ag[p].todo > 0 THEN "lock" ELSE "notify")
    /\ UNCHANGED <<scriptVars, end, info, stats, sock, recovered>>

(* Mutant: readers are notified on backpressure only.                      *)
NotifyNever(p) ==
    /\ At(p, "notify")
    /\ To(p, "main")
    /\ UNCHANGED <<scriptVars, shmVars, sock>>

NotifyAtEnd(p) ==
    /\ At(p, "notify")
    /\ sock' = Sent(sock)
    /\ To(p, "main")
    /\ UNCHANGED <<scriptVars, shmVars>>

(* An agent is killed from outside, wherever it is.                        *)
Die(p) ==
    /\ p \in Mortal /\ Alive(p)
    /\ Exits(p, Killed)
    /\ UNCHANGED <<scriptVars, shmVars>>

------------------------------------------------------------------------------
(* The script; set -e ends it at the first command that fails.             *)

Command == Script(test, iter)[line]

Next1(do) == exit = Running /\ line <= Len(Script(test, iter)) /\ Command.do = do

(* The command returned code.                                              *)
Returns(code) ==
    /\ IF code = EC_SUCCESS THEN line' = line + 1 /\ UNCHANGED exit
       ELSE exit' = code /\ UNCHANGED line
    /\ UNCHANGED iter

StartAgent ==
    /\ Next1("start")
    /\ ag' = [ag EXCEPT ![Command.p].pc = "open", ![Command.p].flavor = Command.flavor]
    /\ Returns(EC_SUCCESS)
    /\ UNCHANGED <<test, named, shmVars, sock>>

(* Mutant: the script goes on after a process that failed.                 *)
WaitForAny ==
    /\ Next1("wait") /\ Gone(Command.p)
    /\ Returns(EC_SUCCESS)
    /\ UNCHANGED <<test, named, shmVars, sock, ag>>

WaitAgent ==
    /\ Next1("wait") /\ Gone(Command.p)
    /\ Returns(ag[Command.p].code)
    /\ UNCHANGED <<test, named, shmVars, sock, ag>>

(* kill fails if the process has ended already.  It dies at once here, not *)
(* some time after the signal: the script's next commands do not tell.     *)
KillAgent ==
    /\ Next1("kill")
    /\ IF Gone(Command.p)
       THEN Returns(1) /\ UNCHANGED <<ag, sock>>
       ELSE Returns(EC_SUCCESS) /\ Exits(Command.p, Killed)
    /\ UNCHANGED <<test, named, shmVars>>

(* Mutant: one reader fewer is waited for.                                 *)
RunWaitOneFewer ==
    /\ Next1("waitreaders") /\ stats.readersReady >= test.readers - 1
    /\ Returns(EC_SUCCESS)
    /\ UNCHANGED <<test, named, shmVars, sock, ag>>

RunWaitReadersReady ==
    /\ Next1("waitreaders") /\ stats.readersReady >= test.readers
    /\ Returns(EC_SUCCESS)
    /\ UNCHANGED <<test, named, shmVars, sock, ag>>

RunResetIter ==
    /\ Next1("resetiter")
    /\ stats' = [stats EXCEPT !.readersReady = 0]
    /\ Returns(EC_SUCCESS)
    /\ UNCHANGED <<test, named, end, writerMtx, info, recovered, sock, ag>>

(* for (( i=1; i<=$TORONI_AGENT_ITERATIONS; i++ ))                         *)
Loop ==
    /\ Next1("loop")
    /\ IF iter < test.iterations
       THEN iter' = iter + 1 /\ line' = 1 /\ UNCHANGED exit
       ELSE Returns(EC_SUCCESS)
    /\ UNCHANGED <<test, named, shmVars, sock, ag>>

RunCmpReceivedMessages ==
    /\ Next1("cmprcved")
    /\ Returns(IF stats.msgCount = Command.n THEN EC_SUCCESS ELSE 1)
    /\ UNCHANGED <<test, named, shmVars, sock, ag>>

(* sleep 1s: the reader that was started has got to its loop by then.      *)
Sleep ==
    /\ Next1("sleep")
    /\ LongSleep => ~\E p \in Agents :
                        ag[p].pc \in {"open", "alloc", "consist", "load", "activate", "ready"}
    /\ Returns(EC_SUCCESS)
    /\ UNCHANGED <<test, named, shmVars, sock, ag>>

(* An exit code has 8 bits.                                                *)
RunExpired ==
    /\ Next1("expired")
    /\ Returns(stats.expiredReaders % 256)
    /\ UNCHANGED <<test, named, shmVars, sock, ag>>

RunUnlink ==
    /\ Next1("unlink")
    /\ named' = FALSE
    /\ Returns(EC_SUCCESS)
    /\ UNCHANGED <<test, shmVars, sock, ag>>

ScriptDone ==
    /\ exit = Running /\ line > Len(Script(test, iter))
    /\ exit' = EC_SUCCESS
    /\ UNCHANGED <<test, iter, line, named, shmVars, sock, ag>>

ScriptStep ==
    \/ StartAgent \/ WaitAgent \/ KillAgent \/ RunWaitReadersReady \/ RunResetIter
    \/ Loop \/ RunCmpReceivedMessages \/ Sleep \/ RunExpired \/ RunUnlink \/ ScriptDone

ReaderStep(p) ==
    \/ Alloc(p) \/ LoadFreePos(p) \/ Activate(p) \/ CountReady(p) \/ ReadMore(p)
    \/ WaitNotification(p) \/ RunEnds(p) \/ Expire(p) \/ ReadMessage(p) \/ Free(p)

WriterStep(p) ==
    \/ Lock(p) \/ Scan(p) \/ NotifyBackpressure(p) \/ OnBackpressure(p) \/ Write(p)
    \/ Unlock(p) \/ NotifyAtEnd(p)

AgentStep(p) ==
    OpenSocket(p) \/ MakeConsistent(p) \/ ReaderStep(p) \/ WriterStep(p) \/ Main(p)

Next == ScriptStep \/ \E p \in Agents : AgentStep(p) \/ Die(p)

(* The scheduler runs every process; nothing kills one for certain.        *)
Fairness == WF_vars(ScriptStep) /\ \A p \in Agents : WF_vars(AgentStep(p))

Spec == Init /\ [][Next]_vars /\ Fairness

------------------------------------------------------------------------------
(* The control labels of an agent.                                         *)
Labels == {"none", "open", "alloc", "consist", "load", "activate", "ready", "top", "wait",
           "run", "blocked", "leave", "main", "lock", "scan", "backpressure", "handler",
           "write", "unlock", "notify", "aborted", "exited"}

(* The variables keep their types.                                         *)
TypeOK ==
    /\ test \in Tests /\ iter \in 1 .. test.iterations
    /\ line \in 1 .. Len(Script(test, iter)) + 1
    /\ exit \in Int /\ named \in BOOLEAN /\ end \in Nat
    /\ writerMtx \in Mutexes(Agents)
    /\ info \in [1 .. MaxSlots -> [lock : Mutexes(Agents), isActive : BOOLEAN, position : Nat]]
    /\ stats \in [msgCount : Nat, readersReady : Nat, expiredReaders : Nat]
    /\ sock \in [Agents -> Sockets]
    /\ ag \in [Agents -> [pc : Labels, flavor : Flavors \cup {"none"}, id : Slots, pos : Nat,
                          rcved : Nat, todo : Nat,
                          code : {EC_SUCCESS, EC_READER_EXPIRED, Abort, Killed}]]
    /\ recovered \subseteq {"writerMtx", "info"}

(* Whoever dies where, one live writer at most is between Lock and Unlock, *)
(* one live reader at most has a slot, and each of them owns the lock      *)
(* (robustProcMutex.hpp:45-82).                                            *)
Inside(p) ==
    IF p[1] = "writer"
    THEN ag[p].pc \in {"consist", "scan", "backpressure", "handler", "write", "unlock"}
    ELSE ag[p].pc \in {"consist", "load", "activate", "ready", "top", "wait", "run",
                       "blocked", "leave"}

OneInside ==
    /\ \A p \in Agents : Inside(p) =>
        p = (IF p[1] = "writer" THEN writerMtx ELSE info[ag[p].id].lock).owner
    /\ \A p \in Agents : ~At(p, "aborted")

(* A test that passes (exit code 0) has had every reader receive every     *)
(* message, and none expired (bench-cell.sh:63, robust-reader.sh:41); a    *)
(* THROUGHPUT burst of one message is the exception of agent.cpp:264.      *)
PassMeansAllReceived ==
    exit = EC_SUCCESS =>
        /\ stats.expiredReaders = 0
        /\ IF test.script = "bench-cell"
           THEN (All > 1 \/ test.flavor = "LATENCY") =>
                    stats.msgCount = test.readers * All * test.iterations
           ELSE stats.msgCount = test.messages /\ ag[<<"reader", 2, 1>>].rcved = test.messages

(* robust-reader.sh:5-7: if it passes, a slot was taken over from a reader *)
(* that died with it.                                                      *)
RobustReaderTests ==
    exit = EC_SUCCESS /\ test.script = "robust-reader" => "info" \in recovered

(* robust-writer.sh:6-8 says as much of the writer's lock, but its reader  *)
(* may not have started when the writer writes (unlisted, BurstAgents_race).     *)
RobustWriterTests ==
    exit = EC_SUCCESS /\ test.script = "robust-writer" => "writerMtx" \in recovered

(* The count of a THROUGHPUT burst of one message too (BurstAgents_single).      *)
PassMeansAllCounted ==
    exit = EC_SUCCESS /\ test.script = "bench-cell" =>
        stats.msgCount = test.readers * All * test.iterations

(* The readers of bench-cell.sh receive the burst of their own iteration   *)
(* and of no other, from its first message (waitreaders and resetiter).    *)
OwnBurst ==
    test.script = "bench-cell" =>
        \A p \in Agents :
            p[1] = "reader" /\ ag[p].pc \notin {"none", "open", "alloc", "consist", "load"}
                /\ ag[p].code \notin {Abort, Killed} =>
                ag[p].pos - ag[p].rcved = All * (p[3] - 1)

------------------------------------------------------------------------------
(* So many readers of this iteration failed or died before they were       *)
(* counted that those that may still get ready are too few, and no other   *)
(* is missing: waitreaders waits for them for ever (agent.cpp:361).        *)
Readers(S) == Cardinality({p \in Agents : p[1] = "reader" /\ p[3] = iter /\ p \in S})
Starting == {p \in Agents : ag[p].pc \in {"open", "alloc", "consist", "load", "activate", "ready"}}
Casualties == {p \in Agents : ag[p].code \in {Abort, Killed}}

WaitsForDeadReader ==
    /\ Next1("waitreaders")
    /\ stats.readersReady + Readers(Starting) < test.readers
    /\ stats.readersReady + Readers(Starting \cup Casualties) >= test.readers

(* Every script ends, whatever its agents do and whoever is killed: it     *)
(* waits for no agent that hangs, but for a reader that never gets ready.  *)
ScriptEnds == <>(exit # Running \/ WaitsForDeadReader)

==============================================================================
