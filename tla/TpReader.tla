------------------------------- MODULE TpReader -------------------------------
(***************************************************************************)
(* tp::Reader: the channel readers of a process share one RMP reader.      *)
(* Opening and closing a channel reader, and Run, enqueue jobs on the      *)
(* serial queue (enqueueSerialReader); Run then enqueues ReadRmp, with a   *)
(* copy of the list of channel readers, on the read queue (enqueueRmpRead).*)
(* A host may give both functions one SerialWorkItemQueue, as the system   *)
(* benchmark does, or two of them, each with its own thread.  The Java     *)
(* port gives ReadRmp the list itself: its host has one queue, or two      *)
(* threads would use an ArrayList without a lock.                          *)
(*                                                                         *)
(* The RMP reader is the one of RmpRing with messages for bytes: it reads  *)
(* message rpos + 1 next and is overtaken once the stream is more than     *)
(* Window messages ahead.  All channel readers are of the topic that is    *)
(* posted to, and the reader generation, which no code increments, is 0.   *)
(***************************************************************************)
EXTENDS Integers, Sequences

CONSTANTS
    ChannelReaders, \* the channel readers the application creates
    OneQueue,       \* whether both queue functions enqueue on one queue: the
                    \* hosts there may be
    LiveList,       \* whether ReadRmp is given the list itself, as in the Java
                    \* port, and not a copy: the classes there may be
    MayClose,       \* whether channel readers are closed
    MayOverride,    \* whether a backpressure handler may write all the same
    KeepHistory,    \* whether born and joined are recorded, which only
                    \* OnlyNewMessages and NothingMissed look at
    Window,         \* how far writers may run ahead of a protected reader
    MaxPosts        \* bound: messages in the stream

ASSUME ReaderAssumption ==
    /\ OneQueue \subseteq BOOLEAN /\ LiveList \subseteq BOOLEAN
    /\ MayClose \in BOOLEAN /\ MayOverride \in BOOLEAN /\ KeepHistory \in BOOLEAN
    /\ Window \in Nat \ {0}
    /\ MaxPosts \in Nat

VARIABLES
    oneQueue,   \* the host of this behaviour, one of OneQueue
    liveList,   \* the class of this behaviour, one of LiveList
    end,        \* messages in the stream
    rung,       \* whether a notification waits to be turned into a Run
    serial,     \* the jobs of the serial queue
    reads,      \* the jobs of the read queue: the copies they were given
    spc,        \* control of AddChannelReader
    rpc,        \* control of ReadRmp
    crs,        \* _channelReaders
    copy,       \* the copy the running ReadRmp was given
    active,     \* isActive of the slot
    rpos,       \* _readerPos
    bpos,       \* position of the slot
    cstate,     \* what the application did with each channel reader
    born,       \* messages in the stream when it was created (history)
    joined,     \* messages in the stream when it was added (history)
    got,        \* the messages its handler was called with (history)
    event       \* the last of FIRST_... and LAST_... raised (history)

appVars  == <<cstate, born>>
jobVars  == <<oneQueue, liveList, serial, reads>>
slotVars == <<active, rpos, bpos>>
readVars == <<rpc, copy>>
histVars == <<joined, got, event>>
vars == <<end, rung, jobVars, spc, readVars, crs, slotVars, appVars, histVars>>

Init ==
    /\ oneQueue \in OneQueue /\ liveList \in LiveList
    /\ liveList => oneQueue
    /\ end = 0 /\ rung = FALSE
    /\ serial = <<>> /\ reads = <<>>
    /\ spc = "idle" /\ rpc = "idle"
    /\ crs = {} /\ copy = {}
    /\ active = FALSE /\ rpos = 0 /\ bpos = 0
    /\ cstate = [c \in ChannelReaders |-> "none"]
    /\ born = [c \in ChannelReaders |-> 0]
    /\ joined = [c \in ChannelReaders |-> 0]
    /\ got = [c \in ChannelReaders |-> <<>>]
    /\ event = "LAST"

------------------------------------------------------------------------------
(* The application and the writers.                                        *)

Alive == rpc # "aborted"

(* The history h of where the stream ended for the channel readers of s.   *)
Recorded(h, s) == [c \in ChannelReaders |-> IF KeepHistory /\ c \in s THEN end ELSE h[c]]

CreateChannelReader(c) ==
    /\ Alive /\ cstate[c] = "none"
    /\ cstate' = [cstate EXCEPT ![c] = "open"]
    /\ born' = Recorded(born, {c})
    /\ serial' = Append(serial, [op |-> "add", c |-> {c}])
    /\ UNCHANGED <<oneQueue, liveList, end, rung, reads, spc, readVars, crs, slotVars, histVars>>

CloseChannelReader(c) ==
    /\ MayClose
    /\ Alive /\ cstate[c] = "open"
    /\ cstate' = [cstate EXCEPT ![c] = "closed"]
    /\ serial' = Append(serial, [op |-> "remove", c |-> {c}])
    /\ UNCHANGED <<oneQueue, liveList, end, rung, reads, spc, readVars, crs, slotVars, born, histVars>>

Overtaken(p, e) == e - p > Window

(* A writer posts and notifies; backpressure holds it back.                *)
Post ==
    /\ end < MaxPosts
    /\ \/ MayOverride
       \/ ~active
       \/ Overtaken(bpos, end)
       \/ ~Overtaken(bpos, end + 1)
    /\ end' = end + 1
    /\ rung' = TRUE
    /\ UNCHANGED <<jobVars, spc, readVars, crs, slotVars, appVars, histVars>>

(* The notification arrives, and the application calls Run.                *)
Run ==
    /\ Alive /\ rung
    /\ rung' = FALSE
    /\ serial' = Append(serial, [op |-> "run", c |-> {}])
    /\ UNCHANGED <<oneQueue, liveList, end, reads, spc, readVars, crs, slotVars, appVars, histVars>>

------------------------------------------------------------------------------
(* The thread of the serial queue.                                         *)

(* One thread runs both queues if they are one.                            *)
SerialIdle == Alive /\ spc = "idle" /\ (oneQueue => rpc = "idle")

NextJob(op) == SerialIdle /\ serial # <<>> /\ Head(serial).op = op

(* Mutant: the RMP reader is activated anew for every channel reader.      *)
AddActivatesAlways ==
    /\ NextJob("add")
    /\ serial' = Tail(serial)
    /\ crs' = crs \cup Head(serial).c
    /\ joined' = Recorded(joined, Head(serial).c)
    /\ spc' = "activate" /\ rpos' = end /\ event' = "FIRST"
    /\ UNCHANGED <<oneQueue, liveList, end, rung, reads, readVars, active, bpos, appVars, got>>

(* AddChannelReader: the first one activates the RMP reader, which begins  *)
(* with _readerPos = freePos ...                                           *)
AddChannelReader ==
    /\ NextJob("add")
    /\ serial' = Tail(serial)
    /\ crs' = crs \cup Head(serial).c
    /\ joined' = Recorded(joined, Head(serial).c)
    /\ IF crs = {}
       THEN spc' = "activate" /\ rpos' = end /\ event' = "FIRST"
       ELSE UNCHANGED <<spc, rpos, event>>
    /\ UNCHANGED <<oneQueue, liveList, end, rung, reads, readVars, active, bpos, appVars, got>>

(* ... and goes on with ReaderInfo::Activate.                              *)
ActivateSlot ==
    /\ Alive /\ spc = "activate"
    /\ spc' = "idle"
    /\ bpos' = rpos
    /\ active' = TRUE
    /\ UNCHANGED <<end, rung, jobVars, readVars, crs, rpos, appVars, histVars>>

(* Mutant: closing any channel reader deactivates the RMP reader.          *)
RemoveDeactivatesAlways ==
    /\ NextJob("remove")
    /\ serial' = Tail(serial)
    /\ crs' = crs \ Head(serial).c
    /\ active' = FALSE /\ event' = "LAST"
    /\ UNCHANGED <<oneQueue, liveList, end, rung, reads, spc, readVars, rpos, bpos, appVars, joined, got>>

RemoveChannelReader ==
    /\ NextJob("remove")
    /\ serial' = Tail(serial)
    /\ crs' = crs \ Head(serial).c
    /\ IF crs # {} /\ crs' = {}
       THEN active' = FALSE /\ event' = "LAST"
       ELSE UNCHANGED <<active, event>>
    /\ UNCHANGED <<oneQueue, liveList, end, rung, reads, spc, readVars, rpos, bpos, appVars, joined, got>>

(* The job of Run enqueues ReadRmp unless there is nobody to read for.     *)
RunJob ==
    /\ NextJob("run")
    /\ IF crs = {}
       THEN serial' = Tail(serial) /\ UNCHANGED reads
       ELSE IF oneQueue
       THEN serial' = Append(Tail(serial), [op |-> "read", c |-> IF liveList THEN {} ELSE crs]) /\ UNCHANGED reads
       ELSE serial' = Tail(serial) /\ reads' = Append(reads, crs)
    /\ UNCHANGED <<oneQueue, liveList, end, rung, spc, readVars, crs, slotVars, appVars, histVars>>

------------------------------------------------------------------------------
(* ReadRmp.                                                                *)

Reads(k) == rpc' = k /\ UNCHANGED <<oneQueue, liveList, end, rung, spc, crs, appVars, joined, event>>

(* Mutant: IsActive() is not tested.                                       *)
BeginReadRmpUnchecked ==
    /\ rpc = "idle"
    /\ IF oneQueue
       THEN NextJob("read") /\ copy' = Head(serial).c /\ serial' = Tail(serial) /\ UNCHANGED reads
       ELSE reads # <<>> /\ copy' = Head(reads) /\ reads' = Tail(reads) /\ UNCHANGED serial
    /\ Reads("enter")
    /\ UNCHANGED <<slotVars, got>>

(* assert(!channelReaders.isEmpty()), which the list itself may fail, and  *)
(* IsActive() are tested on the way in.                                    *)
BeginReadRmp ==
    /\ rpc = "idle"
    /\ IF oneQueue
       THEN /\ NextJob("read")
            /\ copy' = IF active THEN Head(serial).c ELSE {}
            /\ serial' = Tail(serial) /\ UNCHANGED reads
       ELSE /\ reads # <<>>
            /\ copy' = IF active THEN Head(reads) ELSE {}
            /\ reads' = Tail(reads) /\ UNCHANGED serial
    /\ Reads(IF liveList /\ crs = {} THEN "aborted" ELSE IF active THEN "enter" ELSE "idle")
    /\ UNCHANGED <<slotVars, got>>

(* ReaderWithBackpressure::ReadEx asserts IsActive(), then that the reader *)
(* is not past the stream end; an assertion that fails aborts the process. *)
EnterReadEx ==
    /\ rpc = "enter"
    /\ Reads(IF active /\ rpos <= end THEN "loop" ELSE "aborted")
    /\ UNCHANGED <<jobVars, copy, slotVars, got>>

(* The stream end is reached: publish the position and return.             *)
ReadDone ==
    /\ rpc = "loop" /\ rpos = end
    /\ Reads("idle")
    /\ bpos' = rpos /\ copy' = {}
    /\ UNCHANGED <<jobVars, active, rpos, got>>

(* The message at rpos is copied.  Past the end there is none: old bytes   *)
(* pass for one, or for a header that is not valid.                        *)
CopyMessage ==
    /\ rpc = "loop" /\ rpos # end /\ ~Overtaken(rpos, end)
    /\ rpos <= MaxPosts
    /\ Reads("confirm")
    /\ UNCHANGED <<jobVars, copy, slotVars, got>>

(* EXPIRED_POSITION: ALL_CHANNEL_READERS_EXPIRED is raised.                *)
Expire ==
    /\ \/ rpc \in {"loop", "confirm"} /\ rpos # end /\ Overtaken(rpos, end)
       \/ rpc = "confirm" /\ rpos > end
    /\ Reads("idle")
    /\ copy' = {}
    /\ UNCHANGED <<jobVars, slotVars, got>>

(* The channel readers ReadRmp sees.                                       *)
Given == IF liveList THEN crs ELSE copy

(* Confirm: the handler of each of them is called.                         *)
Confirm ==
    /\ rpc = "confirm" /\ ~Overtaken(rpos, end)
    /\ Reads("advance")
    /\ LET msg == IF rpos < end THEN rpos + 1 ELSE -1
       IN  got' = [c \in ChannelReaders |-> IF c \in Given THEN Append(got[c], msg) ELSE got[c]]
    /\ UNCHANGED <<jobVars, copy, slotVars>>

(* Mutant: ReadEx returns after one message.                               *)
AdvanceOnce ==
    /\ rpc = "advance"
    /\ Reads("idle")
    /\ rpos' = rpos + 1
    /\ bpos' = rpos'
    /\ copy' = {}
    /\ UNCHANGED <<jobVars, active, got>>

Advance ==
    /\ rpc = "advance"
    /\ Reads("loop")
    /\ rpos' = rpos + 1
    /\ bpos' = rpos'
    /\ UNCHANGED <<jobVars, copy, active, got>>

SerialStep == AddChannelReader \/ ActivateSlot \/ RemoveChannelReader \/ RunJob
ReadStep == BeginReadRmp \/ EnterReadEx \/ ReadDone \/ CopyMessage \/ Expire \/ Confirm \/ Advance

Next ==
    \/ \E c \in ChannelReaders : CreateChannelReader(c) \/ CloseChannelReader(c)
    \/ Post
    \/ Run
    \/ SerialStep
    \/ ReadStep

Spec == Init /\ [][Next]_vars

(* Notifications arrive, and the threads of the queues run.                *)
Fairness ==
    /\ WF_vars(Run)
    /\ WF_vars(SerialStep)
    /\ WF_vars(ReadStep)

FairSpec == Spec /\ Fairness

------------------------------------------------------------------------------
ReaderLists == (SUBSET ChannelReaders) \ {{}}

Jobs ==
    [op : {"add", "remove"}, c : {{c} : c \in ChannelReaders}]
        \cup [op : {"run"}, c : {{}}]
        \cup [op : {"read"}, c : IF liveList THEN {{}} ELSE ReaderLists]

(* Every variable keeps its type; no list that ReadRmp is given is empty   *)
(* (assert(!channelReaders.empty())).                                      *)
TypeOK ==
    /\ oneQueue \in BOOLEAN /\ liveList \in BOOLEAN
    /\ end \in 0 .. MaxPosts /\ rung \in BOOLEAN
    /\ serial \in Seq(Jobs) /\ reads \in Seq(ReaderLists)
    /\ spc \in {"idle", "activate"}
    /\ rpc \in {"idle", "enter", "loop", "confirm", "advance", "aborted"}
    /\ crs \subseteq ChannelReaders /\ copy \subseteq ChannelReaders
    /\ active \in BOOLEAN /\ rpos \in Nat /\ bpos \in Nat
    /\ cstate \in [ChannelReaders -> {"none", "open", "closed"}]
    /\ born \in [ChannelReaders -> 0 .. MaxPosts]
    /\ joined \in [ChannelReaders -> 0 .. MaxPosts]
    /\ got \in [ChannelReaders -> Seq(-1 .. MaxPosts)]
    /\ event \in {"FIRST", "LAST"}

(* Activation and ReadRmp never run side by side: the host gave both       *)
(* functions one queue, or no channel reader was closed yet, so that the   *)
(* RMP reader was activated once.                                          *)
Calm == oneQueue \/ \A c \in ChannelReaders : cstate[c] # "closed"

(* The messages the handler of a channel reader of the list was called     *)
(* with follow one another in the stream: the jobs that add, copy and read *)
(* never make it skip or repeat one, or see bytes that are no message      *)
(* (ReadRmp).  One that left the list may be called from an old copy of    *)
(* it, even after the RMP reader was deactivated and activated again.      *)
NoGaps ==
    Calm => \A c \in crs : \A i \in DOMAIN got[c] :
        got[c][i] > 0 /\ (i > 1 => got[c][i] = got[c][i - 1] + 1)

(* The RMP reader is active exactly while there are channel readers, and   *)
(* the events tell the application so (AddChannelReader,                   *)
(* RemoveChannelReader): creations and closings never leave a slot that    *)
(* blocks writers for nobody.                                              *)
ActiveIffReaders ==
    spc = "idle" =>
        /\ active <=> crs # {}
        /\ event = "FIRST" <=> crs # {}

(* assert(IsActive()) and assert(result != INVALID_POSITION) hold in       *)
(* ReaderWithBackpressure::ReadEx as long as the reader is calm; and while *)
(* no channel reader was closed, so does that of readRmp of the Java port. *)
CalmAssertionsHold ==
    Calm /\ (liveList => \A c \in ChannelReaders : cstate[c] # "closed") => rpc # "aborted"

(* Every message posted is read by an active reader that was not           *)
(* overtaken, though notifications merge and find ReadRmp running.         *)
StreamIsRead ==
    \A k \in 1 .. MaxPosts :
        end = k ~> (rpos >= k \/ ~active \/ Overtaken(rpos, end) \/ ~Calm)

------------------------------------------------------------------------------
(* What the documentation says and the code does not do.                   *)

(* assert(IsActive()): in every host, whatever it closes.                  *)
AssertionsHold == rpc # "aborted"

(* assert(!channelReaders.isEmpty()) of readRmp of the Java port, whose    *)
(* getChannelReaders returns the list itself: "called ... with the current *)
(* set of channel readers".                                                *)
ListNotEmpty == liveList => rpc # "aborted"

(* "readers receive only messages created after the reader was created".   *)
OnlyNewMessages ==
    \A c \in ChannelReaders : \A i \in DOMAIN got[c] : got[c][i] > born[c]

(* "reliable, meaning a reader can detect if it has missed a message": a   *)
(* channel reader, once added, would be given what is posted from then on. *)
NothingMissed ==
    \A c \in crs : got[c] # <<>> => got[c][1] <= joined[c] + 1
==============================================================================
