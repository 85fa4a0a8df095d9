------------------------- MODULE RmpBackpressureProofs -------------------------
(***************************************************************************)
(* What DetectReaderBackpressure relies on: the published range of active  *)
(* slots has every slot that is listed, for any number of slots, processes *)
(* and crashes; and words that wrap compare as the positions of the stream *)
(* they stand for, for every number of words that is at least four         *)
(* buffers, as 2^64 is.                                                    *)
(***************************************************************************)
EXTENDS RmpReaderInfo, RmpPosition, TLAPS, WellFoundedInduction

(* A slot is one process's while the process holds its lock, and what the  *)
(* control of a process says of its locals.                                *)
SlotsInv ==
    /\ \A p, q \in Procs : slot[p] = slot[q] /\ slot[p] # NoSlot => p = q
    /\ \A p \in Procs :
        /\ slot[p] # NoSlot => slot[p] \in Slots \ Resident
        /\ slot[p] = NoSlot <=> pc[p] \in {"out", "try"}
        /\ pc[p] \in Updating => then[p] # "out"
        /\ pc[p] \notin {"try", "scan", "swap"} => upd[p].i = 0
        /\ pc[p] \in {"try", "scan"} => upd[p].i < MaxReaders
        /\ pc[p] = "swap" => upd[p].i = MaxReaders
        /\ pc[p] \in {"scan", "swap"} => upd[p].max < MaxReaders

(* Processes that are listed or will be when their update is done. *)
Marked(p) == pc[p] = "listed" \/ (pc[p] \in Updating /\ then[p] = "listed")

(* isActive of a slot is its owner's alone to clear. *)
FlagsInv ==
    /\ \A s \in Resident : active[s]
    /\ \A p \in Procs : Marked(p) => active[slot[p]]

(* The range a process is computing has s, if it has looked at s. *)
Seen(p, s) == s < upd[p].i => upd[p].min <= s /\ s <= upd[p].max

(* It has the process's own slot; and unless somebody has swapped since it *)
(* loaded the word it will compare with, it has every slot that is listed. *)
ScanInv ==
    \A p \in Procs : pc[p] \in {"scan", "swap"} =>
        /\ then[p] = "listed" => Seen(p, slot[p])
        /\ ~stale[p] => \A s \in Listed : Seen(p, s)

(* Half a look at the range is half right. *)
VisitInv ==
    /\ wpc = "idle" => due = {}
    /\ due \subseteq Listed
    /\ ~aba /\ wpc = "loadMin" => \A s \in due : s < wRange.max

(* Processes that are about to give their slot back. *)
Leaving(p) == pc[p] = "unlock" \/ (pc[p] \in Updating /\ then[p] = "unlock")

(* Nobody has died: an active slot is held, and not by one who gives it up. *)
OwnedInv ==
    ~crashed =>
        /\ \A s \in Slots : active[s] => ~LockFree(s)
        /\ \A p \in Procs : Leaving(p) => ~active[slot[p]]

(* A process of P has set the flag of s and not published that yet. *)
Changing(s, P) == \E p \in P : pc[p] \in Updating /\ slot[p] = s

Ends(lo, hi, P) == (active[lo] \/ Changing(lo, P)) /\ (active[hi] \/ Changing(hi, P))

(* What q has computed of the slots it has looked at, when no swap came in *)
(* between, is wrong only about flags that others have yet to publish.     *)
ScanExact(q) ==
    LET u == upd[q]
        Others == Procs \ {q}
    IN  /\ \A s \in Slots : active[s] => Seen(q, s) \/ Changing(s, Others)
        /\ u.min <= u.max => u.max < u.i /\ Ends(u.min, u.max, Others)
        /\ u.min > u.max => u.min = MaxReaders /\ u.max = 0

ScansExact ==
    ~crashed => \A q \in Procs : pc[q] \in {"scan", "swap"} /\ ~stale[q] => ScanExact(q)

(* And so is the published range. *)
RangeExact ==
    ~crashed /\ ~aba =>
        /\ \A s \in Slots : active[s] => InRange(s, minMax) \/ Changing(s, Procs)
        /\ minMax.min < minMax.max => Ends(minMax.min, minMax.max - 1, Procs)

InfoInv ==
    /\ TypeOK /\ SlotsInv /\ FlagsInv /\ ScanInv /\ ListedInRange /\ VisitInv /\ VisitsListed
    /\ OwnedInv /\ ScansExact /\ RangeExact

------------------------------------------------------------------------------
(* What the constants are. *)
LEMMA Bounds == MaxReaders \in Nat /\ MaxReaders > 0 /\ Resident \subseteq Slots /\ NoSlot = MaxReaders
BY ReaderInfoAssumption DEF Slots, NoSlot

(* The locals of UpdateActiveRange, and what the scan of a slot makes of them. *)
UpdType == [old : RangeType, i : 0 .. MaxReaders, min : 0 .. MaxReaders, max : 0 .. MaxReaders]

Scanned(u) ==
    [u EXCEPT !.i = u.i + 1,
              !.min = IF active[u.i] /\ u.i < u.min THEN u.i ELSE u.min,
              !.max = IF active[u.i] /\ u.i > u.max THEN u.i ELSE u.max]

(* The scan keeps the types of the locals, ... *)
LEMMA ScannedType ==
    ASSUME NEW u \in UpdType, u.i < MaxReaders
    PROVE  Scanned(u) \in UpdType
<1>1. u.i + 1 \in 0 .. MaxReaders /\ u.i \in 0 .. MaxReaders
  BY Bounds DEF UpdType
<1>2. (IF active[u.i] /\ u.i < u.min THEN u.i ELSE u.min) \in 0 .. MaxReaders
  BY <1>1 DEF UpdType
<1>3. (IF active[u.i] /\ u.i > u.max THEN u.i ELSE u.max) \in 0 .. MaxReaders
  BY <1>1 DEF UpdType
<1> QED
  BY <1>1, <1>2, <1>3 DEF UpdType, Scanned

(* ... and the locals are of that type. *)
LEMMA UpdTyped ==
    ASSUME TypeOK
    PROVE  /\ upd \in [Procs -> UpdType]
           /\ \A p \in Procs, u \in UpdType : [upd EXCEPT ![p] = u] \in [Procs -> UpdType]
BY DEF TypeOK, UpdType

(* Alloc takes a free lock, goes on to the next slot, or gives up. *)
LEMMA TryLockTakes ==
    ASSUME NEW p \in Procs, TryLock(p), LockFree(upd[p].i)
    PROVE  /\ slot' = [slot EXCEPT ![p] = upd[p].i]
           /\ upd' = [upd EXCEPT ![p] = NoUpdate]
           /\ active' = [active EXCEPT ![upd[p].i] = FALSE]
           /\ pc' = [pc EXCEPT ![p] = "load"]
           /\ then' = [then EXCEPT ![p] = "idle"]
           /\ UNCHANGED <<minMax, histVars, writerVars, due>>
BY DEF TryLock, Mark

(* The slot is somebody else's. *)
LEMMA TryLockMoves ==
    ASSUME NEW p \in Procs, TryLock(p), ~LockFree(upd[p].i)
    PROVE  /\ UNCHANGED <<active, slot, then, minMax, histVars, writerVars, due>>
           /\ \/ /\ upd[p].i + 1 < MaxReaders
                 /\ upd' = [upd EXCEPT ![p].i = upd[p].i + 1]
                 /\ UNCHANGED pc
              \/ /\ upd' = [upd EXCEPT ![p] = NoUpdate]
                 /\ pc' = [pc EXCEPT ![p] = "out"]
BY DEF TryLock

(* One step keeps the types, ... *)
LEMMA TypeStep ==
    ASSUME TypeOK, SlotsInv, [Next]_vars
    PROVE  TypeOK'
<1> USE Bounds DEF histVars, writerVars, procVars
<1>1. CASE WriterStep
  <2>1. Listed \subseteq Slots
    BY DEF Listed, SlotsInv, Slots
  <2> QED
    BY <1>1, <2>1 DEF WriterStep, LoadMax, LoadMin, Visited, TypeOK, RangeType
<1>2. ASSUME NEW p \in Procs, ProcStep(p)
      PROVE  TypeOK'
  <2> USE DEF TypeOK, Updating, RangeType, NoUpdate
  <2>1. CASE BeginAlloc(p)
    BY <2>1 DEF BeginAlloc
  <2>2. CASE TryLock(p)
    <3>1. upd[p].i \in Nat /\ upd[p].i < MaxReaders
      BY <2>2 DEF TryLock, SlotsInv
    <3>2. NoUpdate \in UpdType
      BY DEF UpdType
    <3>3. CASE LockFree(upd[p].i)
      <4>1. upd' \in [Procs -> UpdType]
        BY <2>2, <3>2, <3>3, TryLockTakes, UpdTyped
      <4>2. upd[p].i \in 0 .. MaxReaders
        BY <3>1
      <4>3. slot' = [slot EXCEPT ![p] = upd[p].i] /\ active' = [active EXCEPT ![upd[p].i] = FALSE]
        BY <2>2, <3>3, TryLockTakes
      <4>4. active' \in [Slots -> BOOLEAN] /\ slot' \in [Procs -> 0 .. MaxReaders]
        BY <4>2, <4>3
      <4> QED
        BY <2>2, <3>3, <4>1, <4>4, TryLockTakes DEF UpdType
    <3>4. CASE ~LockFree(upd[p].i)
      <4>1. upd[p].i + 1 < MaxReaders => [upd[p] EXCEPT !.i = upd[p].i + 1] \in UpdType
        BY <3>1 DEF UpdType
      <4>2. upd' \in [Procs -> UpdType]
        BY <2>2, <3>2, <3>4, <4>1, TryLockMoves, UpdTyped
      <4> QED
        BY <2>2, <3>4, <4>2, TryLockMoves DEF UpdType
    <3> QED
      BY <3>3, <3>4
  <2>3. CASE Activate(p)
    BY <2>3 DEF Activate, Mark
  <2>4. CASE Deactivate(p)
    BY <2>4 DEF Deactivate, Mark
  <2>5. CASE Free(p)
    BY <2>5 DEF Free, Mark
  <2>6. CASE Unlock(p)
    BY <2>6 DEF Unlock
  <2>7. CASE Crash(p)
    BY <2>7 DEF Crash
  <2>8. CASE LoadRange(p)
    BY <2>8 DEF LoadRange
  <2>9. CASE ScanSlot(p)
    <3>1. upd[p].i < MaxReaders /\ upd[p] \in UpdType
      BY <2>9, UpdTyped DEF ScanSlot, SlotsInv
    <3>2. Scanned(upd[p]) \in UpdType
      BY <3>1, ScannedType
    <3>3. upd' = [upd EXCEPT ![p] = Scanned(upd[p])]
      BY <2>9 DEF ScanSlot, Scanned
    <3>4. upd' \in [Procs -> UpdType]
      BY <3>2, <3>3, UpdTyped
    <3> QED
      BY <2>9, <3>4 DEF ScanSlot, UpdType
  <2>10. CASE Swap(p)
    BY <2>10 DEF Swap, Packed, SlotsInv
  <2>11. CASE SwapFails(p)
    BY <2>11 DEF SwapFails
  <2> QED
    BY <1>2, <2>1, <2>2, <2>3, <2>4, <2>5, <2>6, <2>7, <2>8, <2>9, <2>10, <2>11 DEF ProcStep
<1>3. CASE UNCHANGED vars
  BY <1>3 DEF vars, TypeOK
<1> QED
  BY <1>1, <1>2, <1>3 DEF Next

(* ... the owners of the slots, ... *)
LEMMA SlotsStep ==
    ASSUME TypeOK, SlotsInv, [Next]_vars
    PROVE  SlotsInv'
<1> USE Bounds DEF histVars, writerVars, procVars
<1>1. CASE WriterStep
  BY <1>1 DEF WriterStep, LoadMax, LoadMin, Visited, SlotsInv
<1>2. ASSUME NEW p \in Procs, ProcStep(p)
      PROVE  SlotsInv'
  <2> USE DEF TypeOK, SlotsInv, Updating, NoUpdate
  <2>1. CASE BeginAlloc(p)
    BY <2>1 DEF BeginAlloc
  <2>2. CASE TryLock(p)
    <3>1. pc[p] = "try" /\ upd[p].i \in Slots /\ slot[p] = NoSlot
      BY <2>2 DEF TryLock, Slots
    <3>2. CASE LockFree(upd[p].i)
      <4>1. upd[p].i \in Slots \ Resident /\ upd[p].i # NoSlot /\ \A q \in Procs : slot[q] # upd[p].i
        BY <3>1, <3>2 DEF LockFree, Slots
      <4>2. slot'[p] = upd[p].i /\ upd'[p].i = 0 /\ pc'[p] = "load" /\ then'[p] = "idle"
        BY <2>2, <3>2, TryLockTakes
      <4>3. \A q \in Procs : q # p => slot'[q] = slot[q] /\ upd'[q] = upd[q]
                                      /\ pc'[q] = pc[q] /\ then'[q] = then[q]
        BY <2>2, <3>2, TryLockTakes
      <4> QED
        BY <4>1, <4>2, <4>3
    <3>3. CASE ~LockFree(upd[p].i)
      <4>1. UNCHANGED <<slot, then>>
        BY <2>2, <3>3, TryLockMoves
      <4>2. \A q \in Procs : q # p => upd'[q] = upd[q] /\ pc'[q] = pc[q]
        BY <2>2, <3>3, TryLockMoves
      <4>3. \/ upd'[p].i = upd[p].i + 1 /\ upd[p].i + 1 < MaxReaders /\ pc'[p] = "try"
            \/ upd'[p].i = 0 /\ pc'[p] = "out"
        BY <2>2, <3>1, <3>3, TryLockMoves
      <4> QED
        BY <3>1, <4>1, <4>2, <4>3
    <3> QED
      BY <3>2, <3>3
  <2>3. CASE Activate(p)
    BY <2>3 DEF Activate, Mark
  <2>4. CASE Deactivate(p)
    BY <2>4 DEF Deactivate, Mark
  <2>5. CASE Free(p)
    BY <2>5 DEF Free, Mark
  <2>6. CASE Unlock(p)
    BY <2>6 DEF Unlock
  <2>7. CASE Crash(p)
    BY <2>7 DEF Crash
  <2>8. CASE LoadRange(p)
    BY <2>8 DEF LoadRange
  <2>9. CASE ScanSlot(p)
    BY <2>9 DEF ScanSlot
  <2>10. CASE Swap(p)
    BY <2>10 DEF Swap
  <2>11. CASE SwapFails(p)
    BY <2>11 DEF SwapFails
  <2> QED
    BY <1>2, <2>1, <2>2, <2>3, <2>4, <2>5, <2>6, <2>7, <2>8, <2>9, <2>10, <2>11 DEF ProcStep
<1>3. CASE UNCHANGED vars
  BY <1>3 DEF vars, SlotsInv
<1> QED
  BY <1>1, <1>2, <1>3 DEF Next

(* ... and the flags of the readers that are active. *)
LEMMA FlagsStep ==
    ASSUME TypeOK, SlotsInv, FlagsInv, [Next]_vars
    PROVE  FlagsInv'
<1> USE Bounds DEF histVars, writerVars, procVars
<1>1. CASE WriterStep
  BY <1>1 DEF WriterStep, LoadMax, LoadMin, Visited, FlagsInv, Marked
<1>2. ASSUME NEW p \in Procs, ProcStep(p)
      PROVE  FlagsInv'
  <2> USE DEF TypeOK, SlotsInv, FlagsInv, Marked, Updating
  <2>1. CASE BeginAlloc(p)
    BY <2>1 DEF BeginAlloc
  <2>2. CASE TryLock(p)
    <3>1. CASE LockFree(upd[p].i)
      <4>1. upd[p].i \notin Resident /\ \A q \in Procs : slot[q] # upd[p].i
        BY <3>1 DEF LockFree
      <4>2. \A s \in Slots : s # upd[p].i => active'[s] = active[s]
        BY <2>2, <3>1, TryLockTakes
      <4>3. \A q \in Procs : q # p => slot'[q] = slot[q] /\ pc'[q] = pc[q] /\ then'[q] = then[q]
        BY <2>2, <3>1, TryLockTakes
      <4>4. pc'[p] = "load" /\ then'[p] = "idle"
        BY <2>2, <3>1, TryLockTakes
      <4>5. \A q \in Procs : Marked(q) => slot[q] \in Slots
        OBVIOUS
      <4>6. ASSUME NEW s \in Resident PROVE active'[s]
        <5>1. s \in Slots /\ s # upd[p].i
          BY <4>1
        <5> QED
          BY <4>2, <5>1
      <4>7. ASSUME NEW q \in Procs, Marked(q)' PROVE active'[slot'[q]]
        <5>1. q # p
          BY <4>4, <4>7
        <5>2. Marked(q) /\ slot'[q] = slot[q]
          BY <4>3, <4>7, <5>1
        <5>3. slot[q] \in Slots /\ slot[q] # upd[p].i
          BY <4>1, <4>5, <5>2
        <5> QED
          BY <4>2, <5>2, <5>3
      <4> QED
        BY <4>6, <4>7
    <3>2. CASE ~LockFree(upd[p].i)
      <4>1. UNCHANGED <<active, slot, then>>
        BY <2>2, <3>2, TryLockMoves
      <4>2. \A q \in Procs : pc'[q] = pc[q] \/ pc'[q] = "out"
        BY <2>2, <3>2, TryLockMoves
      <4> QED
        BY <4>1, <4>2
    <3> QED
      BY <3>1, <3>2
  <2>3. CASE Activate(p)
    BY <2>3 DEF Activate, Mark
  <2>4. CASE Deactivate(p)
    BY <2>4 DEF Deactivate, Mark
  <2>5. CASE Free(p)
    BY <2>5 DEF Free, Mark
  <2>6. CASE Unlock(p)
    BY <2>6 DEF Unlock
  <2>7. CASE Crash(p)
    BY <2>7 DEF Crash
  <2>8. CASE LoadRange(p) \/ ScanSlot(p) \/ SwapFails(p)
    BY <2>8 DEF LoadRange, ScanSlot, SwapFails
  <2>9. CASE Swap(p)
    BY <2>9 DEF Swap
  <2> QED
    BY <1>2, <2>1, <2>2, <2>3, <2>4, <2>5, <2>6, <2>7, <2>8, <2>9 DEF ProcStep
<1>3. CASE UNCHANGED vars
  BY <1>3 DEF vars, FlagsInv, Marked
<1> QED
  BY <1>1, <1>2, <1>3 DEF Next

------------------------------------------------------------------------------
(* A step of a process leaves the other processes as they were, but for  *)
(* the scans a swap makes stale.                                         *)
LEMMA OthersKeep ==
    ASSUME TypeOK, NEW p \in Procs, ProcStep(p), NEW q \in Procs, q # p
    PROVE  /\ pc'[q] = pc[q] /\ upd'[q] = upd[q] /\ then'[q] = then[q] /\ slot'[q] = slot[q]
           /\ stale'[q] = stale[q] \/ Swap(p)
<1> USE DEF TypeOK, histVars
<1>1. CASE TryLock(p)
  BY <1>1, TryLockTakes, TryLockMoves
<1>2. CASE BeginAlloc(p) \/ Activate(p) \/ Deactivate(p) \/ Free(p)
  BY <1>2 DEF BeginAlloc, Activate, Deactivate, Free, Mark
<1>3. CASE Unlock(p) \/ Crash(p)
  BY <1>3 DEF Unlock, Crash
<1>4. CASE LoadRange(p) \/ SwapFails(p) \/ ScanSlot(p)
  BY <1>4 DEF LoadRange, SwapFails, ScanSlot
<1>5. CASE Swap(p)
  BY <1>5 DEF Swap
<1> QED
  BY <1>1, <1>2, <1>3, <1>4, <1>5 DEF ProcStep

(* A step that ends in a scan loads the word or looks at a slot. *)
LEMMA ScanBegins ==
    ASSUME TypeOK, SlotsInv, NEW p \in Procs, ProcStep(p), pc'[p] \in {"scan", "swap"}
    PROVE  LoadRange(p) \/ ScanSlot(p)
<1> USE DEF TypeOK
<1>1. CASE TryLock(p)
  BY <1>1, TryLockTakes, TryLockMoves DEF TryLock
<1>2. CASE BeginAlloc(p) \/ Activate(p) \/ Deactivate(p) \/ Free(p)
  BY <1>2 DEF BeginAlloc, Activate, Deactivate, Free, Mark
<1>3. CASE Unlock(p) \/ Crash(p) \/ SwapFails(p)
  BY <1>3 DEF Unlock, Crash, SwapFails
<1>4. CASE Swap(p)
  BY <1>4 DEF Swap
<1> QED
  BY <1>1, <1>2, <1>3, <1>4 DEF ProcStep

(* Only a swap makes a reader listed. *)
LEMMA ListedShrinks ==
    ASSUME TypeOK, NEW p \in Procs, ProcStep(p), ~Swap(p)
    PROVE  Listed' \subseteq Listed
<1> USE DEF TypeOK, Listed
<1>1. CASE BeginAlloc(p)
  BY <1>1 DEF BeginAlloc
<1>2. CASE TryLock(p)
  <2>1. pc[p] = "try"
    BY <1>2 DEF TryLock
  <2>2. \A q \in Procs : pc'[q] = "listed" => pc[q] = "listed" /\ slot'[q] = slot[q]
    BY <1>2, <2>1, TryLockTakes, TryLockMoves
  <2> QED
    BY <2>2
<1>3. CASE Activate(p) \/ Deactivate(p) \/ Free(p)
  BY <1>3 DEF Activate, Deactivate, Free, Mark
<1>4. CASE Unlock(p) \/ Crash(p)
  <2>1. \A q \in Procs : pc'[q] = "listed" => pc[q] = "listed" /\ slot'[q] = slot[q]
    BY <1>4 DEF Unlock, Crash
  <2> QED
    BY <2>1
<1>5. CASE LoadRange(p) \/ SwapFails(p)
  BY <1>5 DEF LoadRange, SwapFails
<1>6. CASE ScanSlot(p)
  BY <1>6 DEF ScanSlot
<1> QED
  BY <1>1, <1>2, <1>3, <1>4, <1>5, <1>6 DEF ProcStep

(* And it makes one of them listed, the one that swapped. *)
LEMMA ListedGrows ==
    ASSUME TypeOK, SlotsInv, NEW p \in Procs, Swap(p)
    PROVE  \A s \in Listed' : s \in Listed \/ (then[p] = "listed" /\ s = slot[p])
BY DEF TypeOK, Listed, Swap

(* What is listed is active, and a slot of the table. *)
LEMMA ListedActive ==
    ASSUME SlotsInv, FlagsInv
    PROVE  \A s \in Listed : s \in Slots /\ active[s]
BY Bounds DEF Listed, SlotsInv, FlagsInv, Marked

(* Looking at a slot that is active puts it in the range, and leaves in it *)
(* what was there.                                                         *)
LEMMA ScanSees ==
    ASSUME NEW u \in UpdType, NEW s \in Slots, active[s],
           s < u.i => u.min <= s /\ s <= u.max
    PROVE  s < Scanned(u).i => Scanned(u).min <= s /\ s <= Scanned(u).max
<1>1. /\ Scanned(u).i = u.i + 1
      /\ Scanned(u).min = IF active[u.i] /\ u.i < u.min THEN u.i ELSE u.min
      /\ Scanned(u).max = IF active[u.i] /\ u.i > u.max THEN u.i ELSE u.max
  BY DEF Scanned, UpdType
<1>2. u.i \in Nat /\ u.min \in Nat /\ u.max \in Nat /\ s \in Nat
  BY Bounds DEF UpdType, Slots
<1>3. CASE s < u.i
  BY <1>1, <1>2, <1>3
<1>4. CASE s = u.i
  BY <1>1, <1>2, <1>4
<1> QED
  BY <1>1, <1>2, <1>3, <1>4

(* A scan has what it must have; of those that somebody's swap made stale *)
(* only the own slot is asked.                                             *)
LEMMA ScanStep ==
    ASSUME TypeOK, SlotsInv, FlagsInv, ScanInv, [Next]_vars
    PROVE  ScanInv'
<1> USE DEF histVars, writerVars, procVars
<1>1. CASE WriterStep \/ UNCHANGED vars
  BY <1>1 DEF WriterStep, LoadMax, LoadMin, Visited, ScanInv, Seen, Listed, vars
<1>2. ASSUME NEW p \in Procs, ProcStep(p)
      PROVE  ScanInv'
  <2> SUFFICES ASSUME NEW q \in Procs, pc'[q] \in {"scan", "swap"}
               PROVE  /\ then'[q] = "listed" => Seen(q, slot[q])'
                      /\ ~stale'[q] => \A s \in Listed' : Seen(q, s)'
    BY DEF ScanInv
  <2>1. CASE Swap(p)
    <3>1. q # p /\ pc'[q] = pc[q] /\ upd'[q] = upd[q] /\ stale'[q] /\ UNCHANGED <<then, slot>>
      BY <2>1 DEF Swap, TypeOK, SlotsInv
    <3> QED
      BY <3>1 DEF ScanInv, Seen
  <2>2. CASE ~Swap(p) /\ q # p
    <3>1. /\ pc'[q] = pc[q] /\ upd'[q] = upd[q] /\ stale'[q] = stale[q]
          /\ then'[q] = then[q] /\ slot'[q] = slot[q]
      BY <1>2, <2>2, OthersKeep
    <3>2. Listed' \subseteq Listed
      BY <1>2, <2>2, ListedShrinks
    <3> QED
      BY <3>1, <3>2 DEF ScanInv, Seen
  <2>3. CASE LoadRange(p) /\ q = p
    <3>1. upd'[q].i = 0 /\ UNCHANGED slot
      BY <2>3 DEF LoadRange, TypeOK
    <3>2. Listed' \subseteq Listed
      BY <1>2, <2>3, ListedShrinks DEF LoadRange, Swap
    <3>3. \A s \in Listed' : s \in Nat
      BY <3>2, ListedActive, Bounds DEF Slots
    <3>4. slot[q] \in Nat
      BY Bounds DEF TypeOK
    <3> QED
      BY <3>1, <3>3, <3>4 DEF Seen
  <2>4. CASE ScanSlot(p) /\ q = p
    <3>1. upd[q] \in UpdType /\ pc[q] = "scan"
      BY <2>4, UpdTyped DEF ScanSlot
    <3>2. upd'[q] = Scanned(upd[q])
      BY <2>4 DEF ScanSlot, Scanned, TypeOK
    <3>3. UNCHANGED <<active, slot, then, stale>>
      BY <2>4 DEF ScanSlot
    <3>4. Listed' \subseteq Listed
      BY <1>2, <2>4, ListedShrinks DEF ScanSlot, Swap
    <3>5. ASSUME NEW s \in Slots, active[s], Seen(q, s)
          PROVE  Seen(q, s)'
      BY <3>1, <3>2, <3>5, ScanSees DEF Seen
    <3>6. then[q] = "listed" => slot[q] \in Slots /\ active[slot[q]]
      BY <3>1 DEF FlagsInv, Marked, SlotsInv, Updating
    <3>7. then'[q] = "listed" => Seen(q, slot[q])'
      BY <3>1, <3>3, <3>5, <3>6 DEF ScanInv, Seen
    <3>8. ~stale'[q] => \A s \in Listed' : Seen(q, s)'
      BY <3>1, <3>3, <3>4, <3>5, ListedActive DEF ScanInv
    <3> QED
      BY <3>7, <3>8
  <2>5. CASE q = p /\ ~Swap(p) /\ ~LoadRange(p) /\ ~ScanSlot(p)
    BY <1>2, <2>5, ScanBegins
  <2> QED
    BY <2>1, <2>2, <2>3, <2>4, <2>5
<1> QED
  BY <1>1, <1>2 DEF Next

(* Which range a successful swap publishes. *)
LEMMA SwapPublishes ==
    ASSUME TypeOK, SlotsInv, FlagsInv, ScanInv, NEW p \in Procs, Swap(p), ~stale[p]
    PROVE  \A s \in Listed' : InRange(s, minMax')
<1>1. pc[p] = "swap" /\ upd[p].i = MaxReaders /\ upd[p] \in UpdType
  BY UpdTyped DEF Swap, SlotsInv
<1>2. minMax'.min = upd[p].min /\ minMax'.max = upd[p].max + 1
  BY DEF Swap, Packed
<1>3. ASSUME NEW s \in Listed'
      PROVE  s \in Slots /\ Seen(p, s)
  <2>1. CASE s \in Listed
    BY <1>1, <2>1, ListedActive DEF ScanInv
  <2>2. CASE then[p] = "listed" /\ s = slot[p]
    BY <1>1, <2>2 DEF ScanInv, SlotsInv
  <2> QED
    BY <2>1, <2>2, ListedGrows
<1>4. ASSUME NEW s \in Listed'
      PROVE  InRange(s, minMax')
  <2>1. s \in Nat /\ s < MaxReaders
    BY <1>3, Bounds DEF Slots
  <2>2. upd[p].min <= s /\ s <= upd[p].max
    BY <1>1, <1>3, <2>1 DEF Seen
  <2>3. upd[p].max \in Nat
    BY <1>1 DEF UpdType
  <2> QED
    BY <1>2, <2>1, <2>2, <2>3 DEF InRange
<1> QED
  BY <1>4

(* What is published has every listed slot, ... *)
LEMMA RangeStep ==
    ASSUME TypeOK, SlotsInv, FlagsInv, ScanInv, ListedInRange, [Next]_vars
    PROVE  ListedInRange'
<1> USE DEF histVars, writerVars, procVars
<1>1. CASE WriterStep \/ UNCHANGED vars
  BY <1>1 DEF WriterStep, LoadMax, LoadMin, Visited, ListedInRange, Listed, InRange, vars
<1>2. ASSUME NEW p \in Procs, ProcStep(p), ~Swap(p)
      PROVE  ListedInRange'
  <2>1. UNCHANGED <<minMax, aba>>
    BY <1>2 DEF ProcStep, BeginAlloc, TryLock, Activate, Deactivate, Free, Unlock, Crash,
                LoadRange, ScanSlot, SwapFails
  <2> QED
    BY <1>2, <2>1, ListedShrinks DEF ListedInRange, InRange
<1>3. ASSUME NEW p \in Procs, Swap(p)
      PROVE  ListedInRange'
  <2>1. ~aba' => ~stale[p]
    BY <1>3 DEF Swap
  <2> QED
    BY <1>3, <2>1, SwapPublishes DEF ListedInRange
<1> QED
  BY <1>1, <1>2, <1>3 DEF Next

(* ... and so has what a writer read of it in two loads. *)
LEMMA VisitStep ==
    ASSUME TypeOK, SlotsInv, FlagsInv, ListedInRange, VisitInv, VisitsListed, [Next]_vars
    PROVE  VisitInv' /\ VisitsListed'
<1> USE DEF histVars, writerVars, procVars
<1>1. CASE LoadMax
  <2>1. wpc' = "loadMin" /\ due' = Listed /\ Listed' = Listed /\ wRange'.max = minMax.max /\ aba' = aba
    BY <1>1 DEF LoadMax, Listed
  <2> QED
    BY <2>1 DEF VisitInv, VisitsListed, ListedInRange, InRange
<1>2. CASE LoadMin
  <2>1. /\ wpc = "loadMin" /\ wpc' = "visit" /\ due' = due /\ Listed' = Listed /\ aba' = aba
        /\ wRange'.max = wRange.max /\ wRange'.min = minMax.min
    BY <1>2 DEF LoadMin, Listed, TypeOK, RangeType
  <2> QED
    BY <2>1 DEF VisitInv, VisitsListed, ListedInRange, InRange
<1>3. CASE Visited
  BY <1>3 DEF Visited, VisitInv, VisitsListed
<1>4. CASE UNCHANGED vars
  BY <1>4 DEF vars, VisitInv, VisitsListed, Listed, InRange
<1>5. ASSUME NEW p \in Procs, ProcStep(p)
      PROVE  VisitInv' /\ VisitsListed'
  <2>1. UNCHANGED writerVars
    BY <1>5 DEF ProcStep, BeginAlloc, TryLock, Activate, Deactivate, Free, Unlock, Crash,
                LoadRange, ScanSlot, Swap, SwapFails
  <2>2. aba => aba'
    BY <1>5 DEF ProcStep, BeginAlloc, TryLock, Activate, Deactivate, Free, Unlock, Crash,
                LoadRange, ScanSlot, Swap, SwapFails
  <2>3. due' \subseteq due
    BY <1>5 DEF ProcStep, BeginAlloc, TryLock, Activate, Deactivate, Free, Unlock, Crash,
                LoadRange, ScanSlot, Swap, SwapFails
  <2>4. due' \subseteq Listed'
    <3> USE DEF TypeOK, VisitInv, Listed
    <3>1. CASE TryLock(p)
      <4>1. pc[p] = "try" /\ due' = due
        BY <3>1 DEF TryLock
      <4>2. \A q \in Procs : pc[q] = "listed" => pc'[q] = "listed" /\ slot'[q] = slot[q]
        BY <3>1, <4>1, TryLockTakes, TryLockMoves
      <4> QED
        BY <4>1, <4>2
    <3>2. CASE Deactivate(p) \/ Free(p) \/ Crash(p)
      <4>1. slot[p] \notin due' /\ due' \subseteq due
        BY <3>2 DEF Deactivate, Free, Crash
      <4>2. \A q \in Procs : q # p /\ pc[q] = "listed" => pc'[q] = "listed" /\ slot'[q] = slot[q]
        BY <3>2 DEF Deactivate, Free, Crash, Mark
      <4>3. ASSUME NEW s \in due', s \notin Resident
            PROVE  \E q \in Procs : q # p /\ pc[q] = "listed" /\ s = slot[q]
        BY <4>1, <4>3
      <4> QED
        BY <4>2, <4>3
    <3>3. CASE BeginAlloc(p) \/ Activate(p) \/ Unlock(p) \/ LoadRange(p) \/ ScanSlot(p)
               \/ Swap(p) \/ SwapFails(p)
      <4>1. due' = due /\ pc[p] # "listed"
        BY <3>3 DEF BeginAlloc, Activate, Unlock, LoadRange, ScanSlot, Swap, SwapFails
      <4>2. \A q \in Procs : pc[q] = "listed" => pc'[q] = "listed" /\ slot'[q] = slot[q]
        BY <3>3, <4>1 DEF BeginAlloc, Activate, Unlock, LoadRange, ScanSlot, Swap, SwapFails, Mark
      <4> QED
        BY <4>1, <4>2
    <3> QED
      BY <1>5, <3>1, <3>2, <3>3 DEF ProcStep
  <2> QED
    BY <2>1, <2>2, <2>3, <2>4 DEF VisitInv, VisitsListed, InRange
<1> QED
  BY <1>1, <1>2, <1>3, <1>4, <1>5 DEF Next, WriterStep

------------------------------------------------------------------------------
(* Until somebody dies, an active slot has an owner. *)
LEMMA OwnedStep ==
    ASSUME TypeOK, SlotsInv, OwnedInv, [Next]_vars
    PROVE  OwnedInv'
<1> USE Bounds DEF histVars, writerVars, procVars
<1>1. CASE WriterStep \/ UNCHANGED vars
  BY <1>1 DEF WriterStep, LoadMax, LoadMin, Visited, OwnedInv, LockFree, Leaving, vars
<1>2. ASSUME NEW p \in Procs, ProcStep(p)
      PROVE  OwnedInv'
  <2> USE DEF TypeOK, SlotsInv, OwnedInv, LockFree, Leaving, Updating
  <2>1. CASE BeginAlloc(p)
    BY <2>1 DEF BeginAlloc
  <2>2. CASE TryLock(p)
    <3>1. pc[p] = "try" /\ slot[p] = NoSlot /\ crashed' = crashed /\ upd[p].i \in Slots
      BY <2>2 DEF TryLock, Slots
    <3>2. CASE LockFree(upd[p].i)
      <4>1. \A q \in Procs : slot[q] # upd[p].i
        BY <3>2
      <4>2. /\ active'[upd[p].i] = FALSE
            /\ \A s \in Slots : s # upd[p].i => active'[s] = active[s]
        BY <2>2, <3>1, <3>2, TryLockTakes
      <4>3. slot'[p] = upd[p].i /\ pc'[p] = "load" /\ then'[p] = "idle"
        BY <2>2, <3>2, TryLockTakes
      <4>4. \A q \in Procs : q # p => slot'[q] = slot[q] /\ pc'[q] = pc[q] /\ then'[q] = then[q]
        BY <2>2, <3>2, TryLockTakes
      <4>5. ASSUME ~crashed', NEW s \in Slots, active'[s]
            PROVE  ~LockFree(s)'
        <5>1. s # upd[p].i /\ active[s]
          BY <4>2, <4>5
        <5>2. s \in Resident \/ \E q \in Procs : slot[q] = s
          BY <3>1, <4>5, <5>1
        <5>3. s # slot[p]
          BY <3>1 DEF Slots, NoSlot
        <5> QED
          BY <4>4, <5>2, <5>3
      <4>6. ASSUME ~crashed', NEW q \in Procs, Leaving(q)'
            PROVE  ~active'[slot'[q]]
        <5>1. q # p
          BY <4>3, <4>6
        <5>2. Leaving(q) /\ slot'[q] = slot[q]
          BY <4>4, <4>6, <5>1
        <5>3. slot[q] \in Slots /\ slot[q] # upd[p].i
          BY <4>1, <5>2
        <5> QED
          BY <3>1, <4>2, <4>6, <5>2, <5>3
      <4> QED
        BY <4>5, <4>6
    <3>3. CASE ~LockFree(upd[p].i)
      <4>1. UNCHANGED <<active, slot, then, crashed>>
        BY <2>2, <3>3, TryLockMoves
      <4>2. \A q \in Procs : pc'[q] = pc[q] \/ pc'[q] = "out"
        BY <2>2, <3>3, TryLockMoves
      <4> QED
        BY <4>1, <4>2
    <3> QED
      BY <3>2, <3>3
  <2>3. CASE Activate(p)
    BY <2>3 DEF Activate, Mark
  <2>4. CASE Deactivate(p)
    BY <2>4 DEF Deactivate, Mark
  <2>5. CASE Free(p)
    BY <2>5 DEF Free, Mark
  <2>6. CASE Unlock(p)
    <3>1. Leaving(p) /\ slot[p] \in Slots /\ UNCHANGED <<active, crashed>>
      BY <2>6 DEF Unlock
    <3>2. \A q \in Procs : q # p => slot'[q] = slot[q] /\ pc'[q] = pc[q] /\ then'[q] = then[q]
      BY <2>6 DEF Unlock
    <3>3. ~Leaving(p)'
      BY <2>6 DEF Unlock
    <3>4. ASSUME ~crashed', NEW s \in Slots, active'[s]
          PROVE  ~LockFree(s)'
      <4>1. active[s] /\ s # slot[p]
        BY <3>1, <3>4
      <4>2. s \in Resident \/ \E q \in Procs : slot[q] = s
        BY <3>1, <3>4, <4>1
      <4> QED
        BY <3>2, <4>1, <4>2
    <3>5. ASSUME ~crashed', NEW q \in Procs, Leaving(q)'
          PROVE  ~active'[slot'[q]]
      BY <3>1, <3>2, <3>3, <3>5
    <3> QED
      BY <3>4, <3>5
  <2>7. CASE Crash(p)
    BY <2>7 DEF Crash
  <2>8. CASE LoadRange(p) \/ ScanSlot(p) \/ SwapFails(p)
    BY <2>8 DEF LoadRange, ScanSlot, SwapFails
  <2>9. CASE Swap(p)
    BY <2>9 DEF Swap
  <2> QED
    BY <1>2, <2>1, <2>2, <2>3, <2>4, <2>5, <2>6, <2>7, <2>8, <2>9 DEF ProcStep
<1> QED
  BY <1>1, <1>2 DEF Next

(* A process that sets a flag is then in UpdateActiveRange with that slot, ... *)
LEMMA FlagMoves ==
    ASSUME TypeOK, SlotsInv, NEW p \in Procs, ProcStep(p), NEW s \in Slots
    PROVE  active'[s] = active[s] \/ (pc'[p] \in Updating /\ slot'[p] = s)
<1> USE DEF TypeOK, Updating, histVars, writerVars
<1>1. CASE TryLock(p)
  <2>1. upd[p].i \in Slots
    BY <1>1, Bounds DEF TryLock, Slots, SlotsInv
  <2> QED
    BY <1>1, <2>1, TryLockTakes, TryLockMoves
<1>2. CASE Activate(p) \/ Deactivate(p) \/ Free(p)
  BY <1>2 DEF Activate, Deactivate, Free, Mark
<1>3. CASE UNCHANGED active
  BY <1>3
<1> QED
  BY <1>1, <1>2, <1>3 DEF ProcStep, BeginAlloc, Unlock, Crash, LoadRange, ScanSlot, Swap, SwapFails

(* ... and leaves it by a swap only, unless it dies. *)
LEMMA UpdatingStays ==
    ASSUME TypeOK, SlotsInv, NEW p \in Procs, ProcStep(p), ~Swap(p), ~crashed', pc[p] \in Updating
    PROVE  pc'[p] \in Updating /\ slot'[p] = slot[p]
<1> USE DEF TypeOK, Updating
<1>1. CASE LoadRange(p) \/ SwapFails(p) \/ ScanSlot(p)
  BY <1>1 DEF LoadRange, SwapFails, ScanSlot
<1>2. CASE Crash(p)
  BY <1>2 DEF Crash
<1> QED
  BY <1>1, <1>2 DEF ProcStep, BeginAlloc, TryLock, Activate, Deactivate, Free, Unlock

(* So what others have yet to publish stays so, ... *)
LEMMA ChangingStays ==
    ASSUME TypeOK, SlotsInv, NEW p \in Procs, ProcStep(p), NEW P \in SUBSET Procs, NEW s,
           Changing(s, P), (~Swap(p) /\ ~crashed') \/ p \notin P
    PROVE  Changing(s, P)'
<1>1. PICK q \in P : pc[q] \in Updating /\ slot[q] = s
  BY DEF Changing
<1>2. pc'[q] \in Updating /\ slot'[q] = s
  BY <1>1, OthersKeep, UpdatingStays
<1> QED
  BY <1>2 DEF Changing

(* ... and a flag that is set is one they have yet to publish. *)
LEMMA FlagOrChanging ==
    ASSUME TypeOK, SlotsInv, NEW p \in Procs, ProcStep(p), NEW P \in SUBSET Procs, NEW s \in Slots,
           p \in P, ~Swap(p), ~crashed'
    PROVE  /\ active[s] \/ Changing(s, P) => active'[s] \/ Changing(s, P)'
           /\ active'[s] => active[s] \/ Changing(s, P)'
<1>1. Changing(s, P) => Changing(s, P)'
  BY ChangingStays
<1>2. active'[s] = active[s] \/ (pc'[p] \in Updating /\ slot'[p] = s)
  BY FlagMoves
<1>3. pc'[p] \in Updating /\ slot'[p] = s => Changing(s, P)'
  BY DEF Changing
<1> QED
  BY <1>1, <1>2, <1>3

(* Looking at one more slot keeps what has been computed exact. *)
LEMMA ScannedExact ==
    ASSUME NEW u \in UpdType, u.i < MaxReaders,
           u.min <= u.max => u.max < u.i,
           u.min > u.max => u.min = MaxReaders /\ u.max = 0
    PROVE  LET v == Scanned(u)
           IN  /\ v.min <= v.max =>
                     /\ v.max < v.i
                     /\ (v.min = u.min /\ u.min <= u.max) \/ (v.min = u.i /\ active[u.i])
                     /\ (v.max = u.max /\ u.min <= u.max) \/ (v.max = u.i /\ active[u.i])
               /\ v.min > v.max => v.min = MaxReaders /\ v.max = 0
               /\ active[u.i] => v.min <= u.i /\ u.i <= v.max
<1>1. /\ Scanned(u).i = u.i + 1
      /\ Scanned(u).min = IF active[u.i] /\ u.i < u.min THEN u.i ELSE u.min
      /\ Scanned(u).max = IF active[u.i] /\ u.i > u.max THEN u.i ELSE u.max
  BY DEF Scanned, UpdType
<1>2. u.i \in Nat /\ u.min \in Nat /\ u.max \in Nat /\ MaxReaders \in Nat
  BY Bounds DEF UpdType
<1>3. CASE ~active[u.i]
  BY <1>1, <1>2, <1>3
<1>4. CASE active[u.i] /\ u.min <= u.max
  BY <1>1, <1>2, <1>4
<1>5. CASE active[u.i] /\ u.min > u.max
  BY <1>1, <1>2, <1>5
<1> QED
  BY <1>2, <1>3, <1>4, <1>5

(* What the scans have computed stays exact; a swap makes them stale. *)
LEMMA ExactStep ==
    ASSUME TypeOK, SlotsInv, ScansExact, [Next]_vars
    PROVE  ScansExact'
<1> USE DEF histVars, writerVars, procVars
<1>1. CASE WriterStep \/ UNCHANGED vars
  BY <1>1 DEF WriterStep, LoadMax, LoadMin, Visited, ScansExact, ScanExact, Seen, Changing, Ends, vars
<1>2. ASSUME NEW p \in Procs, ProcStep(p)
      PROVE  ScansExact'
  <2> SUFFICES ASSUME ~crashed', NEW q \in Procs, pc'[q] \in {"scan", "swap"}, ~stale'[q]
               PROVE  ScanExact(q)'
    BY DEF ScansExact
  <2> DEFINE Others == Procs \ {q}
  <2>1. ~crashed
    BY <1>2 DEF ProcStep, BeginAlloc, TryLock, Activate, Deactivate, Free, Unlock, Crash,
                LoadRange, ScanSlot, Swap, SwapFails
  <2>2. ~Swap(p)
    <3>1. SUFFICES ASSUME Swap(p) PROVE FALSE
      OBVIOUS
    <3>2. q # p
      BY <3>1 DEF Swap, TypeOK, SlotsInv
    <3>3. pc'[q] = pc[q]
      BY <1>2, <3>2, OthersKeep
    <3> QED
      BY <3>1, <3>2, <3>3 DEF Swap
  <2>3. \A s : Changing(s, Others) => Changing(s, Others)'
    BY <1>2, <2>2, ChangingStays
  <2>4. CASE q # p
    <3>1. /\ pc'[q] = pc[q] /\ upd'[q] = upd[q] /\ stale'[q] = stale[q]
      BY <1>2, <2>2, <2>4, OthersKeep
    <3>2. ScanExact(q)
      BY <2>1, <3>1 DEF ScansExact
    <3>3. ASSUME NEW s \in Slots
          PROVE  /\ active[s] \/ Changing(s, Others) => active'[s] \/ Changing(s, Others)'
                 /\ active'[s] => active[s] \/ Changing(s, Others)'
      BY <1>2, <2>2, <2>4, FlagOrChanging
    <3>4. upd[q].max < MaxReaders /\ upd[q] \in UpdType
      BY <3>1, UpdTyped DEF SlotsInv
    <3>5. \A s : Seen(q, s)' = Seen(q, s)
      BY <3>1 DEF Seen
    <3>6. upd[q].min <= upd[q].max => upd[q].min \in Slots /\ upd[q].max \in Slots
      BY <3>4, Bounds DEF UpdType, Slots
    <3> HIDE DEF Others
    <3>7. ASSUME NEW s \in Slots, active'[s]
          PROVE  Seen(q, s)' \/ Changing(s, Others)'
      BY <2>3, <3>2, <3>3, <3>5, <3>7 DEF ScanExact, Others
    <3>8. ASSUME upd[q].min <= upd[q].max
          PROVE  upd[q].max < upd[q].i /\ Ends(upd[q].min, upd[q].max, Others)'
      <4>1. upd[q].max < upd[q].i /\ Ends(upd[q].min, upd[q].max, Others)
        BY <3>2, <3>8 DEF ScanExact, Others
      <4> QED
        BY <3>1, <3>3, <3>6, <3>8, <4>1 DEF Ends
    <3>9. upd[q].min > upd[q].max => upd[q].min = MaxReaders /\ upd[q].max = 0
      BY <3>2 DEF ScanExact
    <3> QED
      BY <3>1, <3>7, <3>8, <3>9 DEF ScanExact, Others
  <2>5. CASE LoadRange(p) /\ q = p
    <3>1. upd'[q].i = 0 /\ upd'[q].min = MaxReaders /\ upd'[q].max = 0
      BY <2>5 DEF LoadRange, TypeOK
    <3>2. ~(MaxReaders <= 0) /\ \A s \in Slots : ~(s < 0)
      BY Bounds DEF Slots
    <3> QED
      BY <3>1, <3>2 DEF ScanExact, Seen
  <2>6. CASE ScanSlot(p) /\ q = p
    <3>1. pc[q] = "scan" /\ upd[q] \in UpdType /\ upd[q].i < MaxReaders
      BY <2>6, UpdTyped DEF ScanSlot, SlotsInv
    <3>2. upd'[q] = Scanned(upd[q])
      BY <2>6 DEF ScanSlot, Scanned, TypeOK
    <3>3. UNCHANGED <<active, stale>>
      BY <2>6 DEF ScanSlot
    <3>4. ScanExact(q)
      BY <2>1, <3>1, <3>3 DEF ScansExact
    <3> DEFINE w == upd[q]
               v == Scanned(w)
    <3>5. /\ w.min <= w.max => w.max < w.i /\ Ends(w.min, w.max, Others)
          /\ w.min > w.max => w.min = MaxReaders /\ w.max = 0
      BY <3>4 DEF ScanExact
    <3>6. /\ v.min <= v.max =>
                /\ v.max < v.i
                /\ (v.min = w.min /\ w.min <= w.max) \/ (v.min = w.i /\ active[w.i])
                /\ (v.max = w.max /\ w.min <= w.max) \/ (v.max = w.i /\ active[w.i])
          /\ v.min > v.max => v.min = MaxReaders /\ v.max = 0
          /\ active[w.i] => v.min <= w.i /\ w.i <= v.max
      BY <3>1, <3>5, ScannedExact
    <3>7. ASSUME NEW s \in Slots, active[s]
          PROVE  Seen(q, s)' \/ Changing(s, Others)'
      <4>1. CASE Changing(s, Others)
        BY <2>3, <4>1
      <4>2. CASE Seen(q, s)
        BY <3>1, <3>2, <3>7, <4>2, ScanSees DEF Seen
      <4> QED
        BY <3>4, <3>7, <4>1, <4>2 DEF ScanExact
    <3> HIDE DEF Others
    <3>8. upd'[q] = v
      BY <3>2
    <3>9. ASSUME v.min <= v.max
          PROVE  v.max < v.i /\ Ends(upd[q].min, upd[q].max, Others)'
      <4>1. active[v.min] \/ Changing(v.min, Others)
        BY <3>5, <3>6, <3>9 DEF Ends
      <4>2. active[v.max] \/ Changing(v.max, Others)
        BY <3>5, <3>6, <3>9 DEF Ends
      <4> HIDE DEF v
      <4> QED
        BY <2>3, <3>3, <3>6, <3>8, <3>9, <4>1, <4>2 DEF Ends
    <3>10. v.min > v.max => v.min = MaxReaders /\ v.max = 0
      BY <3>6
    <3> HIDE DEF v
    <3> QED
      BY <3>3, <3>7, <3>8, <3>9, <3>10 DEF ScanExact, Others
  <2> QED
    BY <1>2, <2>4, <2>5, <2>6, ScanBegins
<1> QED
  BY <1>1, <1>2 DEF Next

(* A swap publishes an exact range. *)
LEMMA SwapExact ==
    ASSUME TypeOK, SlotsInv, NEW p \in Procs, Swap(p), ScanExact(p), ~crashed'
    PROVE  /\ \A s \in Slots : active'[s] => InRange(s, minMax') \/ Changing(s, Procs)'
           /\ minMax'.min < minMax'.max => Ends(minMax.min, minMax.max - 1, Procs)'
<1> DEFINE u == upd[p]
           Others == Procs \ {p}
<1>1. pc[p] = "swap" /\ u.i = MaxReaders /\ u \in UpdType /\ active' = active
  BY UpdTyped DEF Swap, SlotsInv
<1>2. minMax'.min = u.min /\ minMax'.max = u.max + 1
  BY DEF Swap, Packed
<1>3. ASSUME NEW s, Changing(s, Others)
      PROVE  Changing(s, Procs)'
  <2>1. Changing(s, Others)'
    BY <1>3, ChangingStays DEF ProcStep
  <2> QED
    BY <2>1 DEF Changing
<1>4. u.min \in Nat /\ u.max \in Nat /\ MaxReaders \in Nat
  BY <1>1, Bounds DEF UpdType
<1> HIDE DEF Others
<1>5. ASSUME NEW s \in Slots, active'[s]
      PROVE  InRange(s, minMax') \/ Changing(s, Procs)'
  <2>1. s \in Nat /\ s < MaxReaders
    BY Bounds DEF Slots
  <2>2. Seen(p, s) \/ Changing(s, Others)
    BY <1>1, <1>5 DEF ScanExact, Others
  <2>3. CASE Seen(p, s)
    BY <1>1, <1>2, <1>4, <2>1, <2>3 DEF Seen, InRange
  <2> QED
    BY <1>3, <2>2, <2>3
<1>6. ASSUME minMax'.min < minMax'.max
      PROVE  Ends(minMax.min, minMax.max - 1, Procs)'
  <2>1. u.min <= u.max /\ minMax'.max - 1 = u.max
    BY <1>2, <1>4, <1>6
  <2>2. Ends(u.min, u.max, Others)
    BY <2>1 DEF ScanExact, Others
  <2> QED
    BY <1>1, <1>2, <1>3, <2>1, <2>2 DEF Ends
<1> QED
  BY <1>5, <1>6

(* And what is published is exact but for flags that have yet to be. *)
LEMMA RangeExactStep ==
    ASSUME TypeOK, SlotsInv, ScansExact, RangeExact, [Next]_vars
    PROVE  RangeExact'
<1> USE DEF histVars, writerVars, procVars
<1>1. CASE WriterStep \/ UNCHANGED vars
  BY <1>1 DEF WriterStep, LoadMax, LoadMin, Visited, RangeExact, Changing, Ends, InRange, vars
<1>2. ASSUME NEW p \in Procs, Swap(p), ~crashed', ~aba'
      PROVE  RangeExact'
  <2>1. ~crashed /\ ~stale[p] /\ pc[p] = "swap"
    BY <1>2 DEF Swap
  <2> QED
    BY <1>2, <2>1, SwapExact DEF ScansExact, RangeExact
<1>3. ASSUME NEW p \in Procs, ProcStep(p), ~Swap(p), ~crashed', ~aba'
      PROVE  RangeExact'
  <2> USE <1>3
  <2>1. UNCHANGED <<minMax, aba, crashed>>
    BY DEF ProcStep, BeginAlloc, TryLock, Activate, Deactivate, Free, Unlock, Crash,
           LoadRange, ScanSlot, SwapFails
  <2>2. ASSUME NEW s \in Slots
        PROVE  /\ active[s] \/ Changing(s, Procs) => active'[s] \/ Changing(s, Procs)'
               /\ active'[s] => active[s] \/ Changing(s, Procs)'
    BY <1>3, FlagOrChanging
  <2>3. ASSUME NEW s \in Slots, active'[s]
        PROVE  InRange(s, minMax') \/ Changing(s, Procs)'
    <3>1. CASE Changing(s, Procs)
      BY <1>3, <3>1, ChangingStays
    <3>2. active[s] => InRange(s, minMax) \/ Changing(s, Procs)
      BY <1>3, <2>1 DEF RangeExact
    <3>3. minMax' = minMax
      BY <2>1
    <3> QED
      BY <2>2, <2>3, <3>1, <3>2, <3>3
  <2>4. ASSUME minMax'.min < minMax'.max
        PROVE  Ends(minMax.min, minMax.max - 1, Procs)'
    <3>1. minMax.min \in Slots /\ minMax.max - 1 \in Slots
      BY <2>1, <2>4, Bounds DEF TypeOK, RangeType, Slots
    <3>2. Ends(minMax.min, minMax.max - 1, Procs)
      BY <1>3, <2>1, <2>4 DEF RangeExact
    <3> QED
      BY <2>1, <2>2, <3>1, <3>2 DEF Ends
  <2> QED
    BY <2>3, <2>4 DEF RangeExact
<1>4. CASE crashed' \/ aba'
  BY <1>4 DEF RangeExact
<1> QED
  BY <1>1, <1>2, <1>3, <1>4 DEF Next

------------------------------------------------------------------------------
(* A set of natural numbers has a least element, and a greatest one when   *)
(* it is bounded.                                                          *)
LEMMA LeastExists ==
    ASSUME NEW S, S \subseteq Nat, S # {}
    PROVE  \E s \in S : \A t \in S : s <= t
<1> DEFINE R == {ss \in Nat \X Nat : ss[1] < ss[2]}
<1>1. IsWellFoundedOn(R, Nat)
  BY NatLessThanWellFounded DEF OpToRel
<1>2. \E x \in S : \A y \in S : <<y, x>> \notin R
  <2> HIDE DEF R
  <2> QED
    BY <1>1, WFMin
<1>3. PICK x \in S : \A y \in S : <<y, x>> \notin R
  BY <1>2
<1>4. ASSUME NEW y \in S
      PROVE  x <= y
  <2>1. x \in Nat /\ y \in Nat /\ <<y, x>> \notin R
    BY <1>3
  <2>2. ~(y < x)
    BY <2>1
  <2> QED
    BY <2>1, <2>2
<1> QED
  BY <1>4

(* Its least upper bound is one of its members. *)
LEMMA GreatestExists ==
    ASSUME NEW N \in Nat, NEW S, S \subseteq 0 .. N, S # {}
    PROVE  \E s \in S : \A t \in S : t <= s
<1> DEFINE B == {b \in Nat : \A t \in S : t <= b}
<1>1. N \in B
  OBVIOUS
<1>2. PICK b \in B : \A c \in B : b <= c
  BY <1>1, LeastExists
<1>3. b \in S
  <2> SUFFICES ASSUME b \notin S PROVE FALSE
    OBVIOUS
  <2>1. PICK t \in S : TRUE
    OBVIOUS
  <2>2. \A u \in S : u \in Nat /\ u < b
    OBVIOUS
  <2>3. b - 1 \in B
    BY <2>1, <2>2
  <2> QED
    BY <1>2, <2>3
<1> QED
  BY <1>2, <1>3

(* The range of the residents covers them, and begins and ends with one. *)
LEMMA AroundCovers ==
    ASSUME NEW S, S \subseteq Slots
    PROVE  /\ Around(S) \in RangeType /\ \A s \in S : InRange(s, Around(S))
           /\ Around(S).min < Around(S).max => Around(S).min \in S /\ Around(S).max - 1 \in S
<1>1. CASE S = {}
  BY <1>1, Bounds DEF Around, RangeType
<1>2. CASE S # {}
  <2> DEFINE lo == CHOOSE s \in S : \A t \in S : s <= t
             hi == CHOOSE s \in S : \A t \in S : t <= s
  <2>1. S \subseteq Nat /\ S \subseteq 0 .. MaxReaders
    BY Bounds DEF Slots
  <2>2. lo \in S /\ \A t \in S : lo <= t
    BY <1>2, <2>1, LeastExists
  <2>3. hi \in S /\ \A t \in S : t <= hi
    BY <1>2, <2>1, Bounds, GreatestExists
  <2>4. Around(S) = [min |-> lo, max |-> 1 + hi]
    BY <1>2 DEF Around
  <2> HIDE DEF lo, hi
  <2>5. lo \in 0 .. MaxReaders /\ 1 + hi \in 0 .. MaxReaders
    BY <2>2, <2>3, Bounds DEF Slots
  <2>6. ASSUME NEW s \in S
        PROVE  lo <= s /\ s < 1 + hi
    BY <2>1, <2>2, <2>3
  <2>7. (1 + hi) - 1 = hi
    BY <2>1, <2>3
  <2> QED
    BY <2>2, <2>3, <2>4, <2>5, <2>6, <2>7 DEF RangeType, InRange
<1> QED
  BY <1>1, <1>2

(* The table as the first process finds it. *)
LEMMA InvInit == Init => InfoInv
<1> SUFFICES ASSUME Init PROVE InfoInv
  OBVIOUS
<1>1. /\ minMax \in RangeType /\ \A s \in Resident : InRange(s, minMax)
      /\ minMax.min < minMax.max => minMax.min \in Resident /\ minMax.max - 1 \in Resident
  BY Bounds, AroundCovers DEF Init
<1>2. TypeOK
  <2>1. [min |-> 0, max |-> 0] \in RangeType /\ 0 \in 0 .. MaxReaders /\ NoSlot \in 0 .. MaxReaders
    BY Bounds DEF RangeType
  <2>2. NoUpdate \in UpdType
    BY <2>1 DEF NoUpdate, UpdType
  <2>3. upd \in [Procs -> UpdType]
    BY <2>2 DEF Init
  <2>4. active \in [Slots -> BOOLEAN]
    <3>1. \A s \in Slots : (s \in Resident) \in BOOLEAN
      OBVIOUS
    <3> QED
      BY <3>1, Zenon DEF Init
  <2>5. pc \in [Procs -> {"out"}] /\ then \in [Procs -> {"out"}] /\ slot \in [Procs -> 0 .. MaxReaders]
    BY <2>1 DEF Init
  <2>6. stale \in [Procs -> BOOLEAN] /\ aba \in BOOLEAN /\ crashed \in BOOLEAN
    BY Zenon DEF Init
  <2>7. wRange \in RangeType /\ wpc \in {"idle"} /\ due \subseteq Slots
    BY <2>1 DEF Init
  <2>8. upd \in [Procs -> [old : RangeType, i : 0 .. MaxReaders,
                           min : 0 .. MaxReaders, max : 0 .. MaxReaders]]
    BY <2>3 DEF UpdType
  <2> QED
    BY <1>1, <2>4, <2>5, <2>6, <2>7, <2>8 DEF TypeOK
<1>3. SlotsInv
  BY Bounds DEF Init, SlotsInv, Updating, NoUpdate
<1>4. FlagsInv
  BY Bounds DEF Init, FlagsInv, Marked, Updating
<1>5. Listed = Resident
  BY DEF Init, Listed
<1>6. OwnedInv /\ ScansExact
  BY DEF Init, OwnedInv, LockFree, Leaving, Updating, ScansExact
<1>7. RangeExact
  BY <1>1, Bounds DEF Init, RangeExact, Ends
<1> QED
  BY <1>1, <1>2, <1>3, <1>4, <1>5, <1>6, <1>7
     DEF Init, InfoInv, ScanInv, ListedInRange, VisitInv, VisitsListed

(* The invariant holds in every state ReaderInfo reaches. *)
THEOREM Invariance == Spec => []InfoInv
<1>1. InfoInv /\ [Next]_vars => InfoInv'
  <2> SUFFICES ASSUME InfoInv, [Next]_vars PROVE InfoInv'
    OBVIOUS
  <2>1. /\ TypeOK /\ SlotsInv /\ FlagsInv /\ ScanInv /\ ListedInRange /\ VisitInv /\ VisitsListed
        /\ OwnedInv /\ ScansExact /\ RangeExact
    BY DEF InfoInv
  <2>2. TypeOK' /\ SlotsInv' /\ FlagsInv' /\ ScanInv' /\ OwnedInv'
    BY <2>1, TypeStep, SlotsStep, FlagsStep, ScanStep, OwnedStep
  <2>3. ListedInRange' /\ VisitInv' /\ VisitsListed'
    BY <2>1, RangeStep, VisitStep
  <2>4. ScansExact' /\ RangeExact'
    BY <2>1, ExactStep, RangeExactStep
  <2> QED
    BY <2>2, <2>3, <2>4 DEF InfoInv
<1> QED
  BY InvInit, <1>1, PTL DEF Spec

(* The range, the slots and the locals of UpdateActiveRange keep their     *)
(* types, for any number of slots and processes.                           *)
THEOREM Typing == Spec => []TypeOK
<1>1. InfoInv => TypeOK
  BY DEF InfoInv
<1> QED
  BY <1>1, Invariance, PTL

(* A reader whose Activate has returned is in the published range, for any *)
(* table, any processes and any deaths, as long as no compare-and-swap     *)
(* succeeded although another had since the load (UpdateActiveRange).      *)
THEOREM ListedStayInRange == Spec => []ListedInRange
<1>1. InfoInv => ListedInRange
  BY DEF InfoInv
<1> QED
  BY Invariance, <1>1, PTL

(* Then a writer's two loads of the word miss no reader that was listed    *)
(* throughout (GetActiveRange).                                            *)
THEOREM WritersVisitListed == Spec => []VisitsListed
<1>1. InfoInv => VisitsListed
  BY DEF InfoInv
<1> QED
  BY Invariance, <1>1, PTL

(* As long as nobody has died and no compare-and-swap succeeded although   *)
(* another had since the load, the range begins and ends with an active    *)
(* slot when nobody is recomputing it, and a slot nobody holds is inactive:*)
(* whoever wins the last swap has seen what the losers did                 *)
(* (UpdateActiveRange).                                                    *)
THEOREM RangeIsExactAtRest == Spec => []QuietRangeExact
<1>1. ASSUME InfoInv, ~crashed, ~aba, \A p \in Procs : pc[p] \notin Updating
      PROVE  /\ \A s \in Slots : active[s] => InRange(s, minMax) /\ ~LockFree(s)
             /\ minMax.min < minMax.max => active[minMax.min] /\ active[minMax.max - 1]
  <2>1. \A s : ~Changing(s, Procs)
    BY <1>1 DEF Changing
  <2>2. /\ \A s \in Slots : active[s] => InRange(s, minMax)
        /\ minMax.min < minMax.max => active[minMax.min] /\ active[minMax.max - 1]
    BY <1>1, <2>1 DEF InfoInv, RangeExact, Ends
  <2>3. \A s \in Slots : active[s] => ~LockFree(s)
    BY <1>1 DEF InfoInv, OwnedInv
  <2> QED
    BY <2>2, <2>3
<1>2. InfoInv => QuietRangeExact
  BY <1>1 DEF QuietRangeExact
<1> QED
  BY Invariance, <1>2, PTL

------------------------------------------------------------------------------
(* Positions, as words that wrap.                                          *)

(* Every variable keeps its type. *)
PositionType ==
    /\ freePos \in Words /\ pos \in Words /\ bpos \in Words
    /\ want \in Sizes \cup {0}
    /\ msgs \in Seq(Sizes)
    /\ unread \in Nat /\ lag \in Nat

(* u is the sum of the numbers in m: f[i] is that of the first i of them. *)
SumsTo(m, u) ==
    \E f \in [0 .. Len(m) -> Nat] :
        /\ f[0] = 0 /\ f[Len(m)] = u
        /\ \A i \in 1 .. Len(m) : f[i] = f[i - 1] + m[i]
        /\ \A i, j \in 0 .. Len(m) : i <= j => f[i] <= f[j]

(* The words are where the distances say they are, from the position the   *)
(* reader published on, and the distances are less than a buffer.          *)
PositionInv ==
    /\ PositionType
    /\ SumsTo(msgs, unread)
    /\ unread + lag < BufSize
    /\ pos = Plus(bpos, lag)
    /\ freePos = Plus(bpos, lag + unread)

------------------------------------------------------------------------------
(* Arithmetic of words.                                                    *)

(* What the constants are. *)
LEMMA Constants ==
    /\ Mod \in Nat /\ BufSize \in Nat /\ BufSize > 0 /\ Mod >= 4 * BufSize
    /\ \A n \in Sizes : n \in Nat /\ n > 0 /\ n < 2 * BufSize
BY PositionAssumption

(* A remainder, which the provers know only for constants. *)
LEMMA Remainder ==
    ASSUME NEW n \in Int, 0 - Mod <= n, n < 2 * Mod
    PROVE  n % Mod = IF n < 0 THEN n + Mod ELSE IF n < Mod THEN n ELSE n - Mod
<1>1. Mod \in Nat /\ Mod > 0
  BY Constants
<1>2. n = Mod * (n \div Mod) + (n % Mod) /\ n \div Mod \in Int /\ n % Mod \in 0 .. Mod - 1
  BY <1>1, SMT
<1> DEFINE q == n \div Mod
           r == n % Mod
<1>3. n = Mod * q + r /\ q \in Int /\ r \in 0 .. Mod - 1
  BY <1>2
<1> HIDE DEF q, r
<1>4. q \in {-1, 0, 1}
  BY <1>1, <1>3, SMT
<1> QED
  BY <1>1, <1>3, <1>4, SMT DEF r

(* Adding to a word wraps at most once, ... *)
LEMMA PlusIs ==
    ASSUME NEW a \in Words, NEW n \in Nat, n < Mod
    PROVE  /\ Plus(a, n) \in Words
           /\ Plus(a, n) = IF a + n < Mod THEN a + n ELSE a + n - Mod
<1> DEFINE x == a + n
<1>1. x = a + n /\ x \in Int /\ 0 <= x /\ x < 2 * Mod
  BY Constants DEF Words
<1>2. Plus(a, n) = x % Mod
  BY DEF Plus
<1> HIDE DEF x
<1>3. 0 - Mod <= x
  BY <1>1, Constants
<1>4. x % Mod = IF x < Mod THEN x ELSE x - Mod
  BY <1>1, <1>3, Remainder
<1>5. Plus(a, n) = IF a + n < Mod THEN a + n ELSE a + n - Mod
  BY <1>1, <1>2, <1>4, Constants DEF Words
<1> QED
  BY <1>1, <1>5, Constants DEF Words

(* ... and one can add in two parts. *)
LEMMA PlusPlus ==
    ASSUME NEW a \in Words, NEW m \in Nat, NEW n \in Nat, m + n < Mod
    PROVE  Plus(Plus(a, m), n) = Plus(a, m + n)
<1> DEFINE x == Plus(a, m)
<1>1. x \in Words /\ x = IF a + m < Mod THEN a + m ELSE a + m - Mod
  BY PlusIs, Constants
<1> HIDE DEF x
<1>2. Plus(x, n) = IF x + n < Mod THEN x + n ELSE x + n - Mod
  BY <1>1, PlusIs, Constants
<1>3. m + n \in Nat /\ Plus(a, m + n) = IF a + (m + n) < Mod THEN a + (m + n) ELSE a + (m + n) - Mod
  BY PlusIs
<1>4. a \in 0 .. Mod - 1 /\ Mod \in Nat
  BY Constants DEF Words
<1>5. Plus(x, n) = Plus(a, m + n)
  BY <1>1, <1>2, <1>3, <1>4
<1> QED
  BY <1>5 DEF x

(* The signed difference of two words is that of their distances from a    *)
(* third, when they are less than half the words apart.                    *)
LEMMA DifferenceIs ==
    ASSUME NEW a \in Words, NEW m \in Nat, NEW n \in Nat, m <= 3 * BufSize, n <= 3 * BufSize,
           n - m < 2 * BufSize, m - n <= 2 * BufSize
    PROVE  Difference(Plus(a, n), Plus(a, m)) = n - m
<1> DEFINE x == Plus(a, n)
           y == Plus(a, m)
           d == (x - y) % Mod
<1>1. /\ x \in Words /\ x = IF a + n < Mod THEN a + n ELSE a + n - Mod
      /\ y \in Words /\ y = IF a + m < Mod THEN a + m ELSE a + m - Mod
  BY PlusIs, Constants
<1> HIDE DEF x, y
<1>2. d = IF x - y < 0 THEN x - y + Mod ELSE IF x - y < Mod THEN x - y ELSE x - y - Mod
  <2>1. x - y \in Int /\ 0 - Mod <= x - y /\ x - y < 2 * Mod
    BY <1>1, Constants DEF Words
  <2> QED
    BY <2>1, Remainder
<1> HIDE DEF d
<1>3. d = IF n >= m THEN n - m ELSE n - m + Mod
  BY <1>1, <1>2, Constants DEF Words
<1>4. Signed(d) = n - m
  BY <1>3, Constants DEF Signed
<1> QED
  BY <1>4 DEF Difference, d, x, y

(* Expired, of words: the end of the stream is a buffer past the position. *)
LEMMA ExpiredIs ==
    ASSUME NEW a \in Words, NEW n \in Nat, n < 3 * BufSize
    PROVE  ExpiredWord(a, Plus(a, n)) <=> n >= BufSize
<1>1. Difference(Plus(a, BufSize), Plus(a, n)) = BufSize - n
  BY DifferenceIs, Constants
<1> QED
  BY <1>1, Constants DEF ExpiredWord, GreaterOrEqualThan

------------------------------------------------------------------------------
(* Sums.                                                                   *)

(* A sum grows by the message appended, ... *)
LEMMA SumAppend ==
    ASSUME NEW m \in Seq(Nat), NEW u \in Nat, NEW n \in Nat, SumsTo(m, u)
    PROVE  SumsTo(Append(m, n), u + n)
<1> DEFINE L == Len(m)
           k == Append(m, n)
<1>1. PICK f \in [0 .. L -> Nat] :
        /\ f[0] = 0 /\ f[L] = u
        /\ \A i \in 1 .. L : f[i] = f[i - 1] + m[i]
        /\ \A i, j \in 0 .. L : i <= j => f[i] <= f[j]
  BY DEF SumsTo
<1>2. L \in Nat /\ Len(k) = L + 1 /\ k[L + 1] = n /\ \A i \in 1 .. L : k[i] = m[i]
  OBVIOUS
<1> DEFINE g == [i \in 0 .. L + 1 |-> IF i <= L THEN f[i] ELSE u + n]
<1> HIDE DEF L, k
<1>3. g \in [0 .. L + 1 -> Nat] /\ g[0] = 0 /\ g[L + 1] = u + n
  BY <1>1, <1>2
<1>4. \A i \in 1 .. L + 1 : g[i] = g[i - 1] + k[i]
  <2> SUFFICES ASSUME NEW i \in 1 .. L + 1 PROVE g[i] = g[i - 1] + k[i]
    OBVIOUS
  <2>1. CASE i <= L
    BY <1>1, <1>2, <2>1
  <2>2. CASE i = L + 1
    BY <1>1, <1>2, <2>2
  <2> QED
    BY <1>2, <2>1, <2>2
<1>5. \A i, j \in 0 .. L + 1 : i <= j => g[i] <= g[j]
  <2> SUFFICES ASSUME NEW i \in 0 .. L + 1, NEW j \in 0 .. L + 1, i <= j PROVE g[i] <= g[j]
    OBVIOUS
  <2>1. CASE j <= L
    BY <1>1, <1>2, <2>1
  <2>2. CASE j = L + 1 /\ i <= L
    <3>1. f[i] <= f[L]
      BY <1>1, <1>2, <2>2
    <3> QED
      BY <1>1, <1>2, <2>2, <3>1
  <2>3. CASE j = L + 1 /\ i = L + 1
    BY <1>2, <1>3, <2>3
  <2> QED
    BY <1>2, <2>1, <2>2, <2>3
<1> HIDE DEF g
<1>6. \E h \in [0 .. Len(k) -> Nat] :
        /\ h[0] = 0 /\ h[Len(k)] = u + n
        /\ \A i \in 1 .. Len(k) : h[i] = h[i - 1] + k[i]
        /\ \A i, j \in 0 .. Len(k) : i <= j => h[i] <= h[j]
  BY <1>2, <1>3, <1>4, <1>5
<1> QED
  BY <1>6 DEF SumsTo, k

(* ... and loses the one read. *)
LEMMA SumTail ==
    ASSUME NEW m \in Seq(Nat), NEW u \in Nat, SumsTo(m, u), m # <<>>
    PROVE  Head(m) <= u /\ SumsTo(Tail(m), u - Head(m))
<1> DEFINE L == Len(m)
           k == Tail(m)
           n == Head(m)
<1>1. PICK f \in [0 .. L -> Nat] :
        /\ f[0] = 0 /\ f[L] = u
        /\ \A i \in 1 .. L : f[i] = f[i - 1] + m[i]
        /\ \A i, j \in 0 .. L : i <= j => f[i] <= f[j]
  BY DEF SumsTo
<1>2. /\ L \in Nat /\ L >= 1 /\ Len(k) = L - 1 /\ n = m[1] /\ n \in Nat
      /\ \A i \in 1 .. L - 1 : k[i] = m[i + 1]
      /\ \A i \in 1 .. L : m[i] \in Nat
  OBVIOUS
<1> DEFINE g == [i \in 0 .. L - 1 |-> f[i + 1] - n]
<1> HIDE DEF L, k, n
<1>3. f[1] = n /\ \A i \in 0 .. L - 1 : i + 1 \in 0 .. L /\ f[i + 1] \in Nat /\ f[i + 1] >= n
  <2>1. f[1] = n
    BY <1>1, <1>2
  <2> QED
    BY <1>1, <1>2, <2>1
<1>4. g \in [0 .. L - 1 -> Nat] /\ g[0] = 0 /\ g[L - 1] = u - n /\ n <= u
  BY <1>1, <1>2, <1>3
<1>5. \A i \in 1 .. L - 1 : g[i] = g[i - 1] + k[i]
  <2> SUFFICES ASSUME NEW i \in 1 .. L - 1 PROVE g[i] = g[i - 1] + k[i]
    OBVIOUS
  <2>1. i + 1 \in 1 .. L /\ i - 1 \in 0 .. L - 1 /\ (i + 1) - 1 = i /\ (i - 1) + 1 = i
    BY <1>2
  <2>2. f[i + 1] = f[i] + m[i + 1]
    BY <1>1, <2>1
  <2> QED
    <3>1. g[i] = f[i + 1] - n /\ g[i - 1] = f[i] - n /\ k[i] = m[i + 1]
      BY <1>2, <2>1
    <3>2. f[i] \in Nat /\ f[i + 1] \in Nat
      <4>1. i \in 0 .. L /\ i + 1 \in 0 .. L
        BY <1>2
      <4> QED
        BY <1>1, <4>1
    <3>3. m[i + 1] \in Nat
      BY <1>2, <2>1
    <3>4. f[i + 1] - n = (f[i] - n) + m[i + 1]
      <4> DEFINE x == f[i + 1]
                 y == f[i]
                 z == m[i + 1]
      <4>1. x \in Nat /\ y \in Nat /\ z \in Nat /\ n \in Nat /\ x = y + z
        BY <1>2, <2>2, <3>2, <3>3
      <4> HIDE DEF x, y, z
      <4>2. x - n = (y - n) + z
        BY <4>1
      <4> QED
        BY <4>2 DEF x, y, z
    <3> HIDE DEF g
    <3> QED
      BY <3>1, <3>4
<1>6. \A i, j \in 0 .. L - 1 : i <= j => g[i] <= g[j]
  <2> SUFFICES ASSUME NEW i \in 0 .. L - 1, NEW j \in 0 .. L - 1, i <= j PROVE g[i] <= g[j]
    OBVIOUS
  <2>1. g[i] = f[i + 1] - n /\ g[j] = f[j + 1] - n
    OBVIOUS
  <2>2. i + 1 \in 0 .. L /\ j + 1 \in 0 .. L /\ i + 1 <= j + 1
    BY <1>2
  <2>3. f[i + 1] <= f[j + 1] /\ f[i + 1] \in Nat /\ f[j + 1] \in Nat
    BY <1>1, <2>2
  <2> QED
    BY <1>2, <2>1, <2>3
<1> HIDE DEF g
<1>7. \E h \in [0 .. Len(k) -> Nat] :
        /\ h[0] = 0 /\ h[Len(k)] = u - n
        /\ \A i \in 1 .. Len(k) : h[i] = h[i - 1] + k[i]
        /\ \A i, j \in 0 .. Len(k) : i <= j => h[i] <= h[j]
  BY <1>2, <1>4, <1>5, <1>6
<1> QED
  BY <1>4, <1>7 DEF SumsTo, k, n

------------------------------------------------------------------------------
(* The stream begins with one word everywhere. *)
LEMMA PositionInvInit == PositionInit => PositionInv
<1> SUFFICES ASSUME PositionInit PROVE PositionInv
  OBVIOUS
<1>1. PositionType
  BY Constants DEF PositionInit, PositionType, Words
<1>2. 0 \in Words /\ Plus(0, 0) = 0 /\ unread + lag < BufSize
  BY PlusIs, Constants DEF PositionInit, Words
<1>3. SumsTo(msgs, unread)
  <2> DEFINE f == [i \in 0 .. 0 |-> 0]
  <2>1. Len(msgs) = 0 /\ unread = 0
    BY DEF PositionInit
  <2>2. f \in [0 .. 0 -> Nat] /\ f[0] = 0
    OBVIOUS
  <2>3. \A i \in 1 .. 0 : f[i] = f[i - 1] + msgs[i]
    OBVIOUS
  <2>4. \A i, j \in 0 .. 0 : i <= j => f[i] <= f[j]
    OBVIOUS
  <2> HIDE DEF f
  <2>5. \E h \in [0 .. 0 -> Nat] :
          /\ h[0] = 0 /\ h[0] = unread
          /\ \A i \in 1 .. 0 : h[i] = h[i - 1] + msgs[i]
          /\ \A i, j \in 0 .. 0 : i <= j => h[i] <= h[j]
    BY <2>1, <2>2, <2>3, <2>4
  <2> QED
    BY <2>1, <2>5 DEF SumsTo
<1> QED
  BY <1>1, <1>2, <1>3 DEF PositionInit, PositionInv

(* What the comparisons of words say, in a state of PositionInv. *)
LEMMA Comparisons ==
    ASSUME PositionInv
    PROVE  /\ ~GreaterThan(pos, freePos)
           /\ pos = freePos <=> unread = 0
           /\ ExpiredWord(pos, freePos) <=> unread >= BufSize
           /\ ExpiredWord(bpos, freePos) <=> unread + lag >= BufSize
           /\ \A n \in Sizes : /\ Plus(freePos, n) = Plus(bpos, lag + unread + n)
                               /\ ExpiredWord(bpos, Plus(freePos, n)) <=> unread + lag + n >= BufSize
<1> USE Constants
<1>1. bpos \in Words /\ pos \in Words /\ freePos \in Words /\ lag \in Nat /\ unread \in Nat /\ lag + unread < BufSize
  BY DEF PositionInv, PositionType
<1>2. pos = Plus(bpos, lag) /\ freePos = Plus(bpos, lag + unread)
  BY DEF PositionInv
<1>3. freePos = Plus(pos, unread)
  BY <1>1, <1>2, PlusPlus
<1>4. Difference(freePos, pos) = unread
  <2>1. Difference(Plus(bpos, lag + unread), Plus(bpos, lag)) = (lag + unread) - lag
    BY <1>1, DifferenceIs
  <2> QED
    BY <1>1, <1>2, <2>1
<1>5. pos = freePos <=> unread = 0
  <2>1. freePos = IF pos + unread < Mod THEN pos + unread ELSE pos + unread - Mod
    BY <1>1, <1>3, PlusIs
  <2>2. unread < BufSize /\ pos \in 0 .. Mod - 1
    BY <1>1 DEF Words
  <2> QED
    BY <1>1, <2>1, <2>2
<1>6. ExpiredWord(pos, freePos) <=> unread >= BufSize
  BY <1>1, <1>3, ExpiredIs
<1>7. ExpiredWord(bpos, freePos) <=> unread + lag >= BufSize
  BY <1>1, <1>2, ExpiredIs
<1>8. ASSUME NEW n \in Sizes
      PROVE  /\ Plus(freePos, n) = Plus(bpos, lag + unread + n)
             /\ ExpiredWord(bpos, Plus(freePos, n)) <=> unread + lag + n >= BufSize
  <2>1. Plus(freePos, n) = Plus(bpos, lag + unread + n)
    BY <1>1, <1>2, PlusPlus
  <2>2. lag + unread + n \in Nat /\ lag + unread + n < 3 * BufSize
    BY <1>1
  <2> QED
    BY <1>1, <2>1, <2>2, ExpiredIs
<1> QED
  BY <1>1, <1>4, <1>5, <1>6, <1>7, <1>8 DEF GreaterThan

(* Every write, read and publication keeps words and distances together. *)
LEMMA PositionInvStep == PositionInv /\ [PositionNext]_positionVars => PositionInv'
<1> SUFFICES ASSUME PositionInv, [PositionNext]_positionVars PROVE PositionInv'
  OBVIOUS
<1> USE Constants
<1>t. PositionType /\ msgs \in Seq(Nat) /\ unread + lag < BufSize
  BY DEF PositionInv, PositionType
<1>1. CASE BeginWrite
  BY <1>1 DEF BeginWrite, PositionInv, PositionType
<1>2. CASE Write
  <2>1. want \in Sizes /\ want \in Nat
    BY <1>2 DEF Write, PositionInv, PositionType
  <2>2. unread + lag + want < BufSize /\ freePos' = Plus(bpos, lag + unread + want)
    BY <1>2, <1>t, <2>1, Comparisons DEF Write, InTheWay, PositionType
  <2>3. PositionType'
    <3>1. freePos' \in Words
      BY <1>t, <2>1, <2>2, PlusIs DEF PositionType
    <3> QED
      BY <1>2, <1>t, <2>1, <3>1 DEF Write, PositionType
  <2>4. SumsTo(msgs', unread')
    BY <1>2, <1>t, <2>1, SumAppend DEF Write, PositionInv, PositionType
  <2> QED
    BY <1>2, <1>t, <2>1, <2>2, <2>3, <2>4 DEF Write, PositionInv, PositionType
<1>3. CASE ReadDone
  <2>1. unread = 0 /\ pos \in Words /\ Plus(pos, 0) = pos
    BY <1>3, <1>t, Comparisons, PlusIs DEF ReadDone, PositionType, Words
  <2> QED
    BY <1>3, <1>t, <2>1 DEF ReadDone, PositionInv, PositionType
<1>4. CASE ReadMessage
  <2> DEFINE n == Head(msgs)
  <2>1. n \in Sizes /\ n \in Nat /\ n <= unread /\ SumsTo(Tail(msgs), unread - n) /\ Tail(msgs) \in Seq(Sizes)
    BY <1>4, <1>t, SumTail DEF ReadMessage, PositionInv, PositionType
  <2>2. pos' = Plus(pos, n) /\ unread' = unread - n /\ msgs' = Tail(msgs) /\ freePos' = freePos /\ want' = want
    BY <1>4 DEF ReadMessage
  <2>3. \/ bpos' = pos' /\ lag' = 0
        \/ bpos' = bpos /\ lag' = lag + n
    BY <1>4 DEF ReadMessage
  <2> HIDE DEF n
  <2>4. pos' = Plus(bpos, lag + n) /\ pos' \in Words
    BY <1>t, <2>1, <2>2, PlusPlus, PlusIs DEF PositionInv, PositionType
  <2>5. PositionType' /\ unread' + lag' < BufSize
    BY <1>t, <2>1, <2>2, <2>3, <2>4 DEF PositionType
  <2>6. CASE bpos' = pos' /\ lag' = 0
    <3>1. Plus(pos', 0) = pos'
      BY <2>4, PlusIs DEF Words
    <3>2. Plus(pos', unread') = Plus(bpos, (lag + n) + (unread - n))
      BY <1>t, <2>1, <2>2, <2>4, PlusPlus DEF PositionType
    <3>3. (lag + n) + (unread - n) = lag + unread
      BY <1>t, <2>1 DEF PositionType
    <3>4. freePos = Plus(bpos, lag + unread)
      BY DEF PositionInv
    <3> QED
      BY <1>t, <2>1, <2>2, <2>5, <2>6, <3>1, <3>2, <3>3, <3>4 DEF PositionInv, PositionType
  <2>7. CASE bpos' = bpos /\ lag' = lag + n
    <3>1. lag' + unread' = lag + unread
      BY <1>t, <2>1, <2>2, <2>7 DEF PositionType
    <3> QED
      BY <1>t, <2>1, <2>2, <2>4, <2>5, <2>7, <3>1 DEF PositionInv
  <2> QED
    BY <2>3, <2>6, <2>7
<1>5. CASE UNCHANGED positionVars
  BY <1>5 DEF positionVars, PositionInv, PositionType
<1> QED
  BY <1>1, <1>2, <1>3, <1>4, <1>5 DEF PositionNext, ReaderStep

(* The invariant: words and distances never part.                          *)
THEOREM PositionInvariance == PositionSpec => []PositionInv
BY PositionInvInit, PositionInvStep, PTL DEF PositionSpec

(* Every comparison the writer and the reader make of words says what the  *)
(* positions say, across every wrap (GreaterThan, GreaterOrEqualThan,      *)
(* Expired), for messages as large as the code accepts.                    *)
THEOREM ComparisonsAgree == PositionSpec => []WordsAgree
<1>1. PositionInv => WordsAgree
  BY Comparisons DEF WordsAgree
<1> QED
  BY <1>1, PositionInvariance, PTL

(* A writer that looks for backpressure never gets a buffer past the       *)
(* position the reader has published, whatever the wrap does to the raw    *)
(* comparison by which the reader publishes it.                            *)
THEOREM BackpressureHolds == PositionSpec => []NeverOvertaken
<1>1. PositionInv => NeverOvertaken
  BY DEF PositionInv, PositionType, NeverOvertaken
<1> QED
  BY <1>1, PositionInvariance, PTL
==============================================================================
