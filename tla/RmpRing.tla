------------------------------- MODULE RmpRing -------------------------------
(***************************************************************************)
(* The Reliable Message Protocol: writers that append messages to a stream *)
(* held in a shared ring buffer, and readers that copy them out without    *)
(* taking a lock.                                                          *)
(*                                                                         *)
(* One writer at a time holds the robust mutex writerMtx; it is the writer *)
(* of this module (Writer::WriteEx).  A reader r owns the slot r of        *)
(* ReaderInfo, which publishes to writers a lower bound bpos[r] of the     *)
(* position it still has to read (ReaderWithBackpressure, Reader::ReadEx). *)
(* A step is what one process does between two accesses to shared memory   *)
(* that another process can observe.  A cell of the buffer records the     *)
(* stream position of the byte stored in it, which is all that tells a     *)
(* correct copy of a message from a torn one.                              *)
(*                                                                         *)
(* UpdateActiveRange, a retry loop in the code, is atomic here; the module *)
(* RmpReaderInfo opens it up.                                              *)
(***************************************************************************)
EXTENDS RmpLayout, Integers, Sequences

CONSTANTS
    MaxReaders,     \* configMaxReaders
    MsgLens,        \* the sizes of the messages applications write
    BpAnswers,      \* what the backpressure handler may do:
                    \* "wait" returns true, "write" returns false, "throw"
    CopyAnswers,    \* what the Copy callback may return
    MayCrash,       \* which processes may die: "writer", "reader"
    BposMaxLag,     \* how far a reader reads before it publishes its position:
                    \* half a buffer, or in the Java port a whole one
    PositionFirst,  \* whether Activate stores the position before isActive,
                    \* as the C++ library does, or after it, as the Java port
    GarbageLens,    \* bound: lengths a torn header may show
    MaxPos          \* bound: no write ends after this stream position

ASSUME RingAssumption ==
    /\ MaxReaders \in Nat
    /\ MsgLens \subseteq 0 .. MaxMessageSize    \* assert of Writer::Write
    /\ BpAnswers \subseteq {"wait", "write", "throw"}
    /\ CopyAnswers \subseteq BOOLEAN
    /\ BposMaxLag \in Nat
    /\ PositionFirst \in BOOLEAN
    /\ GarbageLens \subseteq Nat
    /\ MaxPos \in Nat

Readers == 0 .. MaxReaders - 1

VARIABLES
    freePos,    \* end of the stream: position of the next free byte
    mem,        \* mem[c]: stream position of the byte in cell c, or -1
    frames,     \* headers by the position they were stored at (history)
    high,       \* end of the furthest write allowed to store (history)
    wpc,        \* control of the process that holds writerMtx
    wlen,       \* its dataSize
    wEnd,       \* freePos + bytesToWrite
    wTodo,      \* slots it has still to examine for backpressure
    active,     \* Info::isActive of each slot
    bpos,       \* Info::position of each slot
    range,      \* slots in the published interval _readersMinMax
    rpc,        \* control of the process that owns each slot
    pos,        \* its _readerPos
    hdr,        \* its hdrCopy
    ok,         \* whether the data it copied is that of the message (history)
    exposed,    \* whether a write was let past its unread bytes (history)
    base,       \* where its current activation began (history)
    got         \* messages confirmed in this activation (history)

bufVars    == <<freePos, mem, frames, high>>
writerVars == <<wpc, wlen, wEnd, wTodo>>
slotVars   == <<active, bpos, range>>
localVars  == <<rpc, pos, hdr, ok>>
histVars   == <<exposed, base, got>>
vars == <<bufVars, writerVars, slotVars, localVars, histVars>>

------------------------------------------------------------------------------
(* Headers and cells.                                                      *)

Types == {"MSG", "PADDING"}

Valid(h) == h.type \in Types /\ h.len # 0

NoHeader == [type |-> "junk", len |-> 0]

(* Whatever a reader may find where a newer message overlaps a header: an  *)
(* invalid header, or one that passes for a header.                        *)
Garbage == {NoHeader} \cup [type : Types, len : GarbageLens]

(* The cells of the n bytes from p on hold those bytes.                    *)
Intact(p, n) == \A k \in 0 .. n - 1 : mem[Idx(p) + k] = p + k

(* The buffer after storing n bytes of the stream from p on.               *)
Stored(p, n) ==
    [c \in Cells |-> IF c \in Idx(p) .. Idx(p) + n - 1 THEN p + (c - Idx(p))
                                                       ELSE mem[c]]

WithFrame(p, h) == [q \in DOMAIN frames \cup {p} |-> IF q = p THEN h ELSE frames[q]]

(* The headers a load at p may return: the one whose bytes are there, or   *)
(* anything when the bytes are those of several stores.                    *)
HeaderAt(p) ==
    LET q == mem[Idx(p)]
    IN  IF /\ q \in DOMAIN frames
           /\ \A k \in 0 .. HdrSize - 1 : mem[Idx(p) + k] = q + k
        THEN {frames[q]}
        ELSE Garbage

FrameEnd(p) == p + HdrSize + frames[p].len

------------------------------------------------------------------------------
(* Reader slots.                                                           *)

(* The interval of slots UpdateActiveRange publishes for the active ones.  *)
Hull(act) == {i \in Readers : \E a, b \in Readers : act[a] /\ act[b] /\ a <= i /\ i <= b}

(* Controls of a process whose activation has reached _readersMinMax.      *)
Reading == {"top", "hdr", "check", "copy", "confirm", "advance"}
Listed  == Reading \cup {"ready", "expired"}

(* The writer has finished its scan: it stores, or is about to.            *)
Storing == {"blank", "pad", "padCommit", "hdr", "data", "commit"}
Scanning == {"scan", "scanPos"}

Least(i, S) == i \in S /\ \A j \in S : i <= j

------------------------------------------------------------------------------
Init ==
    /\ freePos = 0
    /\ mem = [c \in Cells |-> -1]
    /\ frames = [p \in {} |-> NoHeader]
    /\ high = 0
    /\ wpc = "idle" /\ wlen = 0 /\ wEnd = 0 /\ wTodo = {}
    /\ active = [r \in Readers |-> FALSE]
    /\ bpos = [r \in Readers |-> 0]
    /\ range = {}
    /\ rpc = [r \in Readers |-> "free"]
    /\ pos = [r \in Readers |-> 0]
    /\ hdr = [r \in Readers |-> NoHeader]
    /\ ok = [r \in Readers |-> FALSE]
    /\ exposed = [r \in Readers |-> FALSE]
    /\ base = [r \in Readers |-> 0]
    /\ got = [r \in Readers |-> <<>>]

------------------------------------------------------------------------------
(* The writer: WriteEx, with Write and DetectReaderBackpressure inlined.   *)

(* Mutant: a write that does not look for backpressure.                    *)
BeginWriteNoScan ==
    /\ wpc \in {"idle", "dead"}
    /\ \E len \in MsgLens :
        /\ freePos + BytesToWrite(freePos, len) <= MaxPos
        /\ wlen' = len
        /\ wEnd' = freePos + BytesToWrite(freePos, len)
    /\ wTodo' = {}
    /\ wpc' = "scan"
    /\ UNCHANGED <<bufVars, slotVars, localVars, histVars>>

(* Takes writerMtx, recovering it from a holder that died, computes        *)
(* bytesToWrite and reads the range of active slots.                       *)
BeginWrite ==
    /\ wpc \in {"idle", "dead"}
    /\ \E len \in MsgLens :
        /\ freePos + BytesToWrite(freePos, len) <= MaxPos
        /\ wlen' = len
        /\ wEnd' = freePos + BytesToWrite(freePos, len)
    /\ wTodo' = range
    /\ wpc' = "scan"
    /\ UNCHANGED <<bufVars, slotVars, localVars, histVars>>

(* Loads isActive of the next slot.                                        *)
ScanActive ==
    /\ wpc = "scan"
    /\ \E i \in wTodo :
        /\ Least(i, wTodo)
        /\ IF active[i] THEN wpc' = "scanPos" /\ UNCHANGED wTodo
                        ELSE wTodo' = wTodo \ {i} /\ UNCHANGED wpc
    /\ UNCHANGED <<bufVars, wlen, wEnd, slotVars, localVars, histVars>>

(* Writing up to end would overtake a reader at p that has not expired.    *)
Overtakes(p, end) == ~Expired(p, freePos) /\ Expired(p, end)

(* Loads position of that slot and compares.                               *)
ScanPosition ==
    /\ wpc = "scanPos"
    /\ \E i \in wTodo :
        /\ Least(i, wTodo)
        /\ IF Overtakes(bpos[i], wEnd)
           THEN wpc' = "bp" /\ UNCHANGED wTodo
           ELSE wpc' = "scan" /\ wTodo' = wTodo \ {i}
    /\ UNCHANGED <<bufVars, wlen, wEnd, slotVars, localVars, histVars>>

(* Where the stores of a write begin.                                      *)
FirstStore ==
    IF NoRoomForHeader(freePos) THEN "blank"
    ELSE IF Splits(freePos, wlen) THEN "pad"
    ELSE "hdr"

RaiseHigh == high' = IF wEnd > high THEN wEnd ELSE high

(* Every slot was examined and none stands in the way.                     *)
ScanDone ==
    /\ wpc = "scan" /\ wTodo = {}
    /\ wpc' = FirstStore
    /\ RaiseHigh
    /\ UNCHANGED <<freePos, mem, frames, wlen, wEnd, wTodo, slotVars, localVars, histVars>>

(* Mutant: the answer of the handler is not looked at.                     *)
BpWaitIgnored ==
    /\ wpc = "bp" /\ "wait" \in BpAnswers
    /\ wpc' = FirstStore
    /\ RaiseHigh
    /\ UNCHANGED <<freePos, mem, frames, wlen, wEnd, wTodo, slotVars, localVars, histVars>>

(* The handler returned true: try again.                                   *)
BpWait ==
    /\ wpc = "bp" /\ "wait" \in BpAnswers
    /\ wpc' = "scan"
    /\ wTodo' = range
    /\ UNCHANGED <<bufVars, wlen, wEnd, slotVars, localVars, histVars>>

(* The handler returned false: write over the readers in the way.          *)
BpWrite ==
    /\ wpc = "bp" /\ "write" \in BpAnswers
    /\ wpc' = FirstStore
    /\ RaiseHigh
    /\ exposed' = [r \in Readers |-> exposed[r] \/ Expired(bpos[r], wEnd)]
    /\ UNCHANGED <<freePos, mem, frames, wlen, wEnd, wTodo, slotVars, localVars, base, got>>

(* The locals of Write end with it.                                        *)
WriterLeaves(pc) == wpc' = pc /\ wlen' = 0 /\ wEnd' = 0 /\ wTodo' = {}

(* The handler threw: ExclusiveLock unlocks and nothing is written.        *)
BpThrow ==
    /\ wpc = "bp" /\ "throw" \in BpAnswers
    /\ WriterLeaves("idle")
    /\ UNCHANGED <<bufVars, slotVars, localVars, histVars>>

(* Mutant: the padding length counts the header.                           *)
StorePaddingWhole ==
    /\ wpc = "pad"
    /\ mem' = Stored(freePos, HdrSize)
    /\ frames' = WithFrame(freePos, [type |-> "PADDING", len |-> ToEnd(freePos)])
    /\ wpc' = "padCommit"
    /\ UNCHANGED <<freePos, high, wlen, wEnd, wTodo, slotVars, localVars, histVars>>

(* Stores the header of a padding message.                                 *)
StorePadding ==
    /\ wpc = "pad"
    /\ mem' = Stored(freePos, HdrSize)
    /\ frames' = WithFrame(freePos, [type |-> "PADDING", len |-> ToEnd(freePos) - HdrSize])
    /\ wpc' = "padCommit"
    /\ UNCHANGED <<freePos, high, wlen, wEnd, wTodo, slotVars, localVars, histVars>>

(* freePos += lengthToBufEnd, after a padding header or over a blank.      *)
SkipToStart ==
    /\ wpc \in {"padCommit", "blank"}
    /\ freePos' = freePos + ToEnd(freePos)
    /\ wpc' = "hdr"
    /\ UNCHANGED <<mem, frames, high, wlen, wEnd, wTodo, slotVars, localVars, histVars>>

(* Mutant: the message length counts the header.                           *)
StoreHeaderWhole ==
    /\ wpc = "hdr"
    /\ mem' = Stored(freePos, HdrSize)
    /\ frames' = WithFrame(freePos, [type |-> "MSG", len |-> HdrSize + wlen])
    /\ wpc' = "data"
    /\ UNCHANGED <<freePos, high, wlen, wEnd, wTodo, slotVars, localVars, histVars>>

StoreHeader ==
    /\ wpc = "hdr"
    /\ mem' = Stored(freePos, HdrSize)
    /\ frames' = WithFrame(freePos, [type |-> "MSG", len |-> wlen])
    /\ wpc' = "data"
    /\ UNCHANGED <<freePos, high, wlen, wEnd, wTodo, slotVars, localVars, histVars>>

(* memcpy of the payload.                                                  *)
StoreData ==
    /\ wpc = "data"
    /\ mem' = Stored(freePos + HdrSize, wlen)
    /\ wpc' = "commit"
    /\ UNCHANGED <<freePos, frames, high, wlen, wEnd, wTodo, slotVars, localVars, histVars>>

(* freePos += sizeof(MsgHeader) + dataSize, and the mutex is released.     *)
Commit ==
    /\ wpc = "commit"
    /\ freePos' = freePos + HdrSize + wlen
    /\ WriterLeaves("idle")
    /\ UNCHANGED <<mem, frames, high, slotVars, localVars, histVars>>

(* The process that holds writerMtx dies; the next lock recovers it.       *)
CrashWriter ==
    /\ "writer" \in MayCrash
    /\ wpc \notin {"idle", "dead"}
    /\ WriterLeaves("dead")
    /\ UNCHANGED <<bufVars, slotVars, localVars, histVars>>

WriterStep ==
    \/ BeginWrite \/ ScanActive \/ ScanPosition \/ ScanDone
    \/ BpWait \/ BpWrite \/ BpThrow
    \/ StorePadding \/ SkipToStart \/ StoreHeader \/ StoreData \/ Commit

------------------------------------------------------------------------------
(* A reader: construction, activation, ReadEx, deactivation, destruction.  *)

Go(r, pc) == rpc' = [rpc EXCEPT ![r] = pc]

(* The locals of an iteration of ReadEx end with it.                       *)
IterationEnds(r) ==
    /\ hdr' = [hdr EXCEPT ![r] = NoHeader]
    /\ ok' = [ok EXCEPT ![r] = FALSE]

(* An activation ends, and with it what the model remembers of it.         *)
ActivationEnds(r) ==
    /\ base' = [base EXCEPT ![r] = 0]
    /\ got' = [got EXCEPT ![r] = <<>>]

(* The reader object is gone.                                              *)
Vanishes(r) ==
    /\ pos' = [pos EXCEPT ![r] = 0]
    /\ IterationEnds(r)
    /\ ActivationEnds(r)

(* Slots whose lock can be taken: nobody holds it, or a process that died  *)
(* or that a failed assertion aborted.                                     *)
Vacant == {"free", "dead", "aborted"}

(* ReaderInfo::Alloc takes the first of them.                              *)
Alloc(r) ==
    /\ rpc[r] \in Vacant
    /\ \A s \in Readers : s < r => rpc[s] \notin Vacant
    /\ Go(r, "idle")
    /\ active' = [active EXCEPT ![r] = FALSE]
    /\ range' = Hull(active')
    /\ UNCHANGED <<bufVars, writerVars, bpos, pos, hdr, ok, histVars>>

(* ~ReaderWithBackpressure: ReaderInfo::Free.                              *)
Free(r) ==
    /\ rpc[r] \in {"idle", "ready", "expired"}
    /\ Go(r, "free")
    /\ active' = [active EXCEPT ![r] = FALSE]
    /\ range' = Hull(active')
    /\ Vanishes(r)
    /\ UNCHANGED <<bufVars, writerVars, bpos, exposed>>

(* ReaderWithBackpressure::Activate: the stream end is loaded ...          *)
LoadFreePos(r) ==
    /\ rpc[r] = "idle"
    /\ Go(r, "loaded")
    /\ pos' = [pos EXCEPT ![r] = freePos]
    /\ exposed' = [exposed EXCEPT ![r] = FALSE]
    /\ base' = [base EXCEPT ![r] = freePos]
    /\ got' = [got EXCEPT ![r] = <<>>]
    /\ UNCHANGED <<bufVars, writerVars, slotVars, hdr, ok>>

(* ... stored in the slot ...                                              *)
StorePosition(r) ==
    /\ rpc[r] = IF PositionFirst THEN "loaded" ELSE "half"
    /\ Go(r, IF PositionFirst THEN "half" ELSE "active")
    /\ bpos' = [bpos EXCEPT ![r] = pos[r]]
    /\ UNCHANGED <<bufVars, writerVars, active, range, pos, hdr, ok, histVars>>

(* ... and the slot marked active, before the Java port stores in it: a    *)
(* writer may find the position of an earlier activation ...               *)
SetActive(r) ==
    /\ rpc[r] = IF PositionFirst THEN "half" ELSE "loaded"
    /\ Go(r, IF PositionFirst THEN "active" ELSE "half")
    /\ active' = [active EXCEPT ![r] = TRUE]
    /\ UNCHANGED <<bufVars, writerVars, bpos, range, pos, hdr, ok, histVars>>

(* ... and the range of active slots updated.  A write that has already    *)
(* been allowed past pos[r] + BufSize, or whose scan will not visit the    *)
(* slot, leaves the new reader unprotected.                                *)
MissedByScan(r) == wpc \in Scanning /\ r \notin wTodo /\ Expired(pos[r], wEnd)

(* Mutant: Activate does not update the range.                             *)
UpdateRangeForgotten(r) ==
    /\ rpc[r] = "active"
    /\ Go(r, "ready")
    /\ exposed' = [exposed EXCEPT ![r] = Expired(pos[r], high) \/ MissedByScan(r)]
    /\ UNCHANGED <<bufVars, writerVars, range, active, bpos, pos, hdr, ok, base, got>>

UpdateRange(r) ==
    /\ rpc[r] = "active"
    /\ Go(r, "ready")
    /\ range' = Hull(active)
    /\ exposed' = [exposed EXCEPT ![r] = Expired(pos[r], high) \/ MissedByScan(r)]
    /\ UNCHANGED <<bufVars, writerVars, active, bpos, pos, hdr, ok, base, got>>

(* ReadEx begins.  INVALID_POSITION fails an assertion in                  *)
(* ReaderWithBackpressure::ReadEx, and the process aborts.                 *)
StartRead(r) ==
    /\ rpc[r] = "ready"
    /\ Go(r, IF pos[r] > freePos THEN "aborted" ELSE "top")
    /\ UNCHANGED <<bufVars, writerVars, slotVars, pos, hdr, ok, histVars>>

(* Mutant: ReadEx returns without a last update of bpos.                   *)
ReadDoneSilent(r) ==
    /\ rpc[r] = "top" /\ pos[r] = freePos
    /\ Go(r, "ready")
    /\ UNCHANGED <<bufVars, writerVars, slotVars, pos, hdr, ok, histVars>>

(* The head of the loop: the stream end is reached, ...                    *)
ReadDone(r) ==
    /\ rpc[r] = "top" /\ pos[r] = freePos
    /\ Go(r, "ready")
    /\ bpos' = [bpos EXCEPT ![r] = pos[r]]
    /\ UNCHANGED <<bufVars, writerVars, active, range, pos, hdr, ok, histVars>>

(* ... no header fits before the end of the buffer, ...                    *)
SkipBlank(r) ==
    /\ rpc[r] = "top" /\ pos[r] # freePos /\ pos[r] <= MaxPos
    /\ NoRoomForHeader(pos[r])
    /\ pos' = [pos EXCEPT ![r] = @ + ToEnd(@)]
    /\ UNCHANGED <<bufVars, writerVars, slotVars, rpc, hdr, ok, histVars>>

(* ... or the early expiration check lets the header be copied, or not.    *)
(* freePos is loaded twice in the code, here once: it has only grown, and  *)
(* a check that would have failed fails after the header is copied.        *)
CheckEarly(r) ==
    /\ rpc[r] = "top" /\ pos[r] # freePos /\ pos[r] <= MaxPos
    /\ ~NoRoomForHeader(pos[r])
    /\ Go(r, IF Expired(pos[r], freePos) THEN "expired" ELSE "hdr")
    /\ UNCHANGED <<bufVars, writerVars, slotVars, pos, hdr, ok, histVars>>

CopyHeader(r) ==
    /\ rpc[r] = "hdr"
    /\ \E h \in HeaderAt(pos[r]) : hdr' = [hdr EXCEPT ![r] = h]
    /\ Go(r, "check")
    /\ UNCHANGED <<bufVars, writerVars, slotVars, pos, ok, histVars>>

(* Mutant: padding messages are delivered.                                 *)
CheckHeaderAnyType(r) ==
    /\ rpc[r] = "check"
    /\ IF ~Valid(hdr[r]) \/ Expired(pos[r], freePos)
       THEN Go(r, "expired") /\ IterationEnds(r)
       ELSE /\ Go(r, IF Splits(pos[r], hdr[r].len) THEN "aborted" ELSE "copy")
            /\ UNCHANGED <<hdr, ok>>
    /\ UNCHANGED <<bufVars, writerVars, slotVars, pos, histVars>>

(* A message that runs past the buffer fails an assertion.                 *)
CheckHeader(r) ==
    /\ rpc[r] = "check"
    /\ IF ~Valid(hdr[r]) \/ Expired(pos[r], freePos)
       THEN Go(r, "expired") /\ IterationEnds(r)
       ELSE /\ Go(r, IF Splits(pos[r], hdr[r].len) THEN "aborted"
                     ELSE IF hdr[r].type = "MSG" THEN "copy"
                     ELSE "advance")
            /\ UNCHANGED <<hdr, ok>>
    /\ UNCHANGED <<bufVars, writerVars, slotVars, pos, histVars>>

(* The Copy callback copies the payload, or declines the message.          *)
CopyData(r) ==
    /\ rpc[r] = "copy"
    /\ \E yes \in CopyAnswers :
        /\ Go(r, IF yes THEN "confirm" ELSE "advance")
        /\ ok' = [ok EXCEPT ![r] = /\ pos[r] \in DOMAIN frames
                                   /\ hdr[r] = frames[pos[r]]
                                   /\ Intact(pos[r] + HdrSize, hdr[r].len)]
    /\ UNCHANGED <<bufVars, writerVars, slotVars, pos, hdr, histVars>>

(* The last expiration check, then the Confirm callback.                   *)
Confirm(r) ==
    /\ rpc[r] = "confirm"
    /\ IF Expired(pos[r], freePos)
       THEN Go(r, "expired") /\ IterationEnds(r) /\ UNCHANGED got
       ELSE /\ Go(r, "advance")
            /\ got' = [got EXCEPT ![r] = Append(@, [at |-> pos[r], intact |-> ok[r]])]
            /\ UNCHANGED <<hdr, ok>>
    /\ UNCHANGED <<bufVars, writerVars, slotVars, pos, exposed, base>>

(* Mutant: the published position runs ahead of the reader.                *)
AdvanceAhead(r) ==
    /\ rpc[r] = "advance"
    /\ Go(r, "top")
    /\ LET next == pos[r] + HdrSize + hdr[r].len
       IN  /\ pos' = [pos EXCEPT ![r] = next]
           /\ bpos' = [bpos EXCEPT ![r] = next + HdrSize]
    /\ IterationEnds(r)
    /\ UNCHANGED <<bufVars, writerVars, active, range, histVars>>

(* pos moves past the message; bpos follows once it lags by bposMaxLag.    *)
Advance(r) ==
    /\ rpc[r] = "advance"
    /\ Go(r, "top")
    /\ LET next == pos[r] + HdrSize + hdr[r].len
       IN  /\ pos' = [pos EXCEPT ![r] = next]
           /\ bpos' = [bpos EXCEPT ![r] = IF next >= @ + BposMaxLag THEN next ELSE @]
    /\ IterationEnds(r)
    /\ UNCHANGED <<bufVars, writerVars, active, range, histVars>>

Deactivate(r) ==
    /\ rpc[r] \in {"ready", "expired"}
    /\ Go(r, "idle")
    /\ active' = [active EXCEPT ![r] = FALSE]
    /\ range' = Hull(active')
    /\ ActivationEnds(r)
    /\ UNCHANGED <<bufVars, writerVars, bpos, pos, hdr, ok, exposed>>

(* The process dies; its slot keeps its contents until it is allocated.    *)
CrashReader(r) ==
    /\ "reader" \in MayCrash
    /\ rpc[r] \notin Vacant
    /\ Go(r, "dead")
    /\ Vanishes(r)
    /\ UNCHANGED <<bufVars, writerVars, slotVars, exposed>>

Activation(r) == LoadFreePos(r) \/ StorePosition(r) \/ SetActive(r) \/ UpdateRange(r)

ReadStep(r) ==
    \/ StartRead(r) \/ ReadDone(r) \/ SkipBlank(r) \/ CheckEarly(r)
    \/ CopyHeader(r) \/ CheckHeader(r) \/ CopyData(r) \/ Confirm(r) \/ Advance(r)

ReaderStep(r) ==
    \/ Alloc(r) \/ Free(r) \/ Activation(r) \/ ReadStep(r) \/ Deactivate(r) \/ CrashReader(r)

Next ==
    \/ WriterStep
    \/ CrashWriter
    \/ \E r \in Readers : ReaderStep(r)

Spec == Init /\ [][Next]_vars

------------------------------------------------------------------------------
(* Types.                                                                  *)

WriterPcs == {"idle", "dead", "bp"} \cup Scanning \cup Storing
ReaderPcs == Vacant \cup {"idle", "loaded", "half", "active"} \cup Listed

Header == [type : Types \cup {"junk"}, len : Nat]

(* Every variable keeps its type; in particular bpos, pos and the writer's *)
(* positions are natural numbers whatever a reader made of garbage.        *)
TypeOK ==
    /\ freePos \in Nat /\ high \in Nat
    /\ mem \in [Cells -> Int]
    /\ DOMAIN frames \subseteq Nat /\ frames \in [DOMAIN frames -> Header]
    /\ wpc \in WriterPcs /\ wlen \in Nat /\ wEnd \in Nat
    /\ wTodo \subseteq Readers /\ range \subseteq Readers
    /\ active \in [Readers -> BOOLEAN] /\ bpos \in [Readers -> Nat]
    /\ rpc \in [Readers -> ReaderPcs] /\ pos \in [Readers -> Nat]
    /\ hdr \in [Readers -> Header] /\ ok \in [Readers -> BOOLEAN]
    /\ exposed \in [Readers -> BOOLEAN] /\ base \in [Readers -> Nat]
    /\ got \in [Readers -> Seq([at : Nat, intact : BOOLEAN])]

------------------------------------------------------------------------------
(* Safety.                                                                 *)

(* A reader that is listed, and past whose published position no write was *)
(* let, is protected: this is what backpressure is for.                    *)
Protected(r) == rpc[r] \in Listed /\ ~exposed[r]

Committed == {p \in DOMAIN frames : p < freePos}

(* Every message a protected reader confirms is, byte for byte, the one    *)
(* that was written at its position (Reader::ReadEx, WriteEx): no          *)
(* interleaving of loads and stores hands a torn message to Confirm.       *)
ProtectedIntact ==
    \A r \in Readers : Protected(r) => \A i \in DOMAIN got[r] : got[r][i].intact

(* A reader gives up with EXPIRED_POSITION only if a write was let past    *)
(* its unread bytes, or it stands at a header whose length is 0, which     *)
(* MsgHeader::Valid rejects.                                               *)
ExpiredJustified ==
    \A r \in Readers : rpc[r] = "expired" /\ ~exposed[r] =>
        pos[r] \in Committed /\ frames[pos[r]].len = 0

(* Neither the INVALID_POSITION assertion of ReadEx nor the one that the   *)
(* message fits the buffer fails in a reader no write was let past.        *)
AssertionsHold == \A r \in Readers : rpc[r] = "aborted" => exposed[r]

(* A stream position at which a reader may stand: the end of the stream, a *)
(* committed header, or a blank before one of these.                       *)
Boundary(p) ==
    \/ p = freePos
    \/ p \in Committed
    \/ NoRoomForHeader(p) /\ (p + ToEnd(p) = freePos \/ p + ToEnd(p) \in Committed)

(* Wherever writers died, the committed stream is a chain of whole frames  *)
(* from 0 to its end, no frame is split by the end of the buffer, and what *)
(* no write has been let over is still in memory (WriteEx, RobustProcMutex *)
(* recovery: "termination safe").                                          *)
StreamWellFormed ==
    /\ Boundary(0)
    /\ \A p \in Committed :
        LET inMem == IF frames[p].type = "MSG" THEN HdrSize + frames[p].len ELSE HdrSize
        IN  /\ Boundary(FrameEnd(p))
            /\ Idx(p) + HdrSize + frames[p].len <= BufSize
            /\ \A k \in 0 .. inMem - 1 : p + k + BufSize >= high => mem[Idx(p) + k] = p + k

(* No step stores over a byte of the stream that a protected reader has    *)
(* still to read.                                                          *)
NoUnreadByteOverwritten ==
    [][\A r \in Readers : Protected(r) =>
        \A c \in Cells : mem[c] \in pos[r] .. freePos - 1 => mem'[c] = mem[c]]_vars

------------------------------------------------------------------------------
(* Liveness.                                                               *)

(* A process that holds writerMtx keeps running (nothing makes one begin a *)
(* write), a reader that began to activate goes on, and an active reader   *)
(* reads: the backpressure handler notifies it, as every write does.       *)
Holding == wpc \notin {"idle", "dead"} /\ WriterStep
Joining(r) == rpc[r] # "idle" /\ Activation(r)

Fairness ==
    /\ WF_vars(Holding)
    /\ \A r \in Readers : WF_vars(Joining(r)) /\ WF_vars(ReadStep(r))

FairSpec == Spec /\ Fairness

(* Every write that is begun is finished: its handler keeps waiting, and   *)
(* the readers in its way go on reading and publish where they stand.      *)
WriteCompletes == wpc = "scan" ~> wpc \in {"idle", "dead"}

------------------------------------------------------------------------------
(* What the documentation says and the code does not do.                   *)

(* "reliable, meaning a reader can detect if it has missed a message";     *)
(* the last expiration check of ReadEx is called reliable and pessimistic. *)
(* A message it lets through would be the one that was written.            *)
ConfirmedIntact ==
    \A r \in Readers : \A i \in DOMAIN got[r] : got[r][i].intact

(* "EXPIRED_POSITION if the ring buffer has been overwritten at stream     *)
(* position pos".                                                          *)
ExpiredWasOverwritten ==
    \A r \in Readers : rpc[r] = "expired" =>
        Expired(pos[r], freePos) \/ ~Intact(pos[r], HdrSize)

(* Activate: "so its stream position is taken into consideration for       *)
(* creating backpressure on writers".  If every handler waits, no reader   *)
(* that has activated would be overtaken.                                  *)
ActivatedNeverOvertaken ==
    \A r \in Readers : rpc[r] \in Listed => ~Expired(pos[r], freePos)
==============================================================================
