---------------------------- MODULE RmpReaderInfo ----------------------------
(***************************************************************************)
(* ReaderInfo: the table of reader slots that readers and writers share.   *)
(*                                                                         *)
(* A process takes a slot by locking the robust mutex in it, which the     *)
(* kernel gives up for a process that dies.  The range of active slots is  *)
(* one packed word that every process recomputes without a lock: load it,  *)
(* scan the isActive flags one by one, and compare-and-swap the result in. *)
(* A step here is one access to shared memory.  RmpRing takes the loop for *)
(* one step; this module says when that is right.                          *)
(***************************************************************************)
EXTENDS Naturals

CONSTANTS
    MaxReaders,     \* configMaxReaders
    Procs,          \* the processes that construct readers
    Resident,       \* slots of readers that were active before and stay so
    MayCrash        \* whether they may die

ASSUME ReaderInfoAssumption ==
    /\ MaxReaders \in Nat \ {0}
    /\ Resident \subseteq 0 .. MaxReaders - 1
    /\ MayCrash \in BOOLEAN

Slots == 0 .. MaxReaders - 1
NoSlot == MaxReaders

VARIABLES
    active,     \* Info::isActive of each slot
    minMax,     \* _readersMinMax
    pc,         \* control of each process
    slot,       \* the slot whose lock it holds, or NoSlot
    upd,        \* its locals in UpdateActiveRange, i also in Alloc
    then,       \* where it goes on after UpdateActiveRange
    stale,      \* whether a swap succeeded since it loaded old (history)
    aba,        \* whether a swap succeeded that was stale (history)
    crashed,    \* whether a process has died (history)
    wpc,        \* control of a writer that reads the range
    wRange,     \* its bpReaderMin and bpReaderMax
    due         \* slots listed since it began to read the range (history)

procVars   == <<pc, slot, upd, then>>
histVars   == <<stale, aba, crashed>>
writerVars == <<wpc, wRange>>
vars == <<active, minMax, procVars, histVars, writerVars, due>>

InRange(s, rng) == rng.min <= s /\ s < rng.max

NoUpdate == [old |-> [min |-> 0, max |-> 0], i |-> 0, min |-> 0, max |-> 0]

(* The range of the slots of S; an info that was never used has 0 and 0.   *)
Around(S) ==
    IF S = {} THEN [min |-> 0, max |-> 0]
    ELSE [min |-> CHOOSE s \in S : \A t \in S : s <= t,
          max |-> 1 + CHOOSE s \in S : \A t \in S : t <= s]

Init ==
    /\ active = [s \in Slots |-> s \in Resident]
    /\ minMax = Around(Resident)
    /\ pc = [p \in Procs |-> "out"]
    /\ slot = [p \in Procs |-> NoSlot]
    /\ upd = [p \in Procs |-> NoUpdate]
    /\ then = [p \in Procs |-> "out"]
    /\ stale = [p \in Procs |-> FALSE]
    /\ aba = FALSE /\ crashed = FALSE
    /\ wpc = "idle"
    /\ wRange = [min |-> 0, max |-> 0]
    /\ due = {}

------------------------------------------------------------------------------
(* Slots.                                                                  *)

(* trylock succeeds on a mutex that nobody holds or whose owner has died.  *)
LockFree(s) == s \notin Resident /\ \A q \in Procs : slot[q] # s

(* isActive = val, then UpdateActiveRange, then on to pc k.                *)
Mark(p, s, val, k) ==
    /\ active' = [active EXCEPT ![s] = val]
    /\ pc' = [pc EXCEPT ![p] = "load"]
    /\ then' = [then EXCEPT ![p] = k]

BeginAlloc(p) ==
    /\ pc[p] = "out"
    /\ pc' = [pc EXCEPT ![p] = "try"]
    /\ UNCHANGED <<active, minMax, slot, upd, then, histVars, writerVars, due>>

(* Alloc: the first slot that can be locked, with the flag a dead owner    *)
(* left behind cleared.                                                    *)
TryLock(p) ==
    /\ pc[p] = "try"
    /\ LET i == upd[p].i
       IN  IF LockFree(i)
           THEN /\ slot' = [slot EXCEPT ![p] = i]
                /\ upd' = [upd EXCEPT ![p] = NoUpdate]
                /\ Mark(p, i, FALSE, "idle")
           ELSE /\ IF i + 1 < MaxReaders
                   THEN upd' = [upd EXCEPT ![p].i = i + 1] /\ UNCHANGED pc
                   ELSE /\ upd' = [upd EXCEPT ![p] = NoUpdate]
                        /\ pc' = [pc EXCEPT ![p] = "out"]
                /\ UNCHANGED <<active, slot, then>>
    /\ UNCHANGED <<minMax, histVars, writerVars, due>>

Activate(p) ==
    /\ pc[p] = "idle"
    /\ Mark(p, slot[p], TRUE, "listed")
    /\ UNCHANGED <<minMax, slot, upd, histVars, writerVars, due>>

Deactivate(p) ==
    /\ pc[p] = "listed"
    /\ Mark(p, slot[p], FALSE, "idle")
    /\ due' = due \ {slot[p]}
    /\ UNCHANGED <<minMax, slot, upd, histVars, writerVars>>

(* Mutant: Free leaves the slot active.                                    *)
FreeActive(p) ==
    /\ pc[p] \in {"idle", "listed"}
    /\ Mark(p, slot[p], active[slot[p]], "unlock")
    /\ due' = due \ {slot[p]}
    /\ UNCHANGED <<minMax, slot, upd, histVars, writerVars>>

(* Free deactivates first, then unlocks.                                   *)
Free(p) ==
    /\ pc[p] \in {"idle", "listed"}
    /\ Mark(p, slot[p], FALSE, "unlock")
    /\ due' = due \ {slot[p]}
    /\ UNCHANGED <<minMax, slot, upd, histVars, writerVars>>

Unlock(p) ==
    /\ pc[p] = "unlock"
    /\ pc' = [pc EXCEPT ![p] = "out"]
    /\ slot' = [slot EXCEPT ![p] = NoSlot]
    /\ then' = [then EXCEPT ![p] = "out"]
    /\ UNCHANGED <<active, minMax, upd, histVars, writerVars, due>>

(* The process dies; a new one takes its place among Procs.                *)
Crash(p) ==
    /\ MayCrash
    /\ pc[p] # "out"
    /\ pc' = [pc EXCEPT ![p] = "out"]
    /\ slot' = [slot EXCEPT ![p] = NoSlot]
    /\ upd' = [upd EXCEPT ![p] = NoUpdate]
    /\ then' = [then EXCEPT ![p] = "out"]
    /\ stale' = [stale EXCEPT ![p] = FALSE]
    /\ due' = due \ {slot[p]}
    /\ crashed' = TRUE
    /\ UNCHANGED <<active, minMax, aba, writerVars>>

------------------------------------------------------------------------------
(* UpdateActiveRange.                                                      *)

LoadRange(p) ==
    /\ pc[p] = "load"
    /\ pc' = [pc EXCEPT ![p] = "scan"]
    /\ upd' = [upd EXCEPT ![p] = [old |-> minMax, i |-> 0, min |-> MaxReaders, max |-> 0]]
    /\ stale' = [stale EXCEPT ![p] = FALSE]
    /\ UNCHANGED <<active, minMax, slot, then, aba, crashed, writerVars, due>>

(* Loads isActive of slot i.                                               *)
ScanSlot(p) ==
    /\ pc[p] = "scan"
    /\ LET u == upd[p]
           i == u.i
       IN  /\ upd' = [upd EXCEPT ![p] =
                        [u EXCEPT !.i = i + 1,
                                  !.min = IF active[i] /\ i < u.min THEN i ELSE u.min,
                                  !.max = IF active[i] /\ i > u.max THEN i ELSE u.max]]
           /\ pc' = [pc EXCEPT ![p] = IF i + 1 = MaxReaders THEN "swap" ELSE "scan"]
    /\ UNCHANGED <<active, minMax, slot, then, histVars, writerVars, due>>

(* Mutant: the last active slot is left out of the packed range.           *)
PackedShort(u) == [min |-> u.min, max |-> u.max]

(* min << 16 | (max + 1)                                                   *)
Packed(u) == [min |-> u.min, max |-> u.max + 1]

(* Mutant: an unconditional store.                                         *)
SwapBlind(p) ==
    /\ pc[p] = "swap"
    /\ minMax' = Packed(upd[p])
    /\ aba' = aba
    /\ stale' = [q \in Procs |-> q # p /\ pc[q] \in {"scan", "swap"}]
    /\ pc' = [pc EXCEPT ![p] = then[p]]
    /\ upd' = [upd EXCEPT ![p] = NoUpdate]
    /\ UNCHANGED <<active, slot, then, crashed, writerVars, due>>

(* The compare-and-swap finds the value it loaded, whether or not other    *)
(* swaps have succeeded since.                                             *)
Swap(p) ==
    /\ pc[p] = "swap"
    /\ minMax = upd[p].old
    /\ minMax' = Packed(upd[p])
    /\ aba' = (aba \/ stale[p])
    /\ stale' = [q \in Procs |-> q # p /\ pc[q] \in {"scan", "swap"}]
    /\ pc' = [pc EXCEPT ![p] = then[p]]
    /\ upd' = [upd EXCEPT ![p] = NoUpdate]
    /\ UNCHANGED <<active, slot, then, crashed, writerVars, due>>

(* It finds another value, or fails spuriously as the weak form may.       *)
SwapFails(p) ==
    /\ pc[p] = "swap"
    /\ pc' = [pc EXCEPT ![p] = "load"]
    /\ upd' = [upd EXCEPT ![p] = NoUpdate]
    /\ stale' = [stale EXCEPT ![p] = FALSE]
    /\ UNCHANGED <<active, minMax, slot, then, aba, crashed, writerVars, due>>

------------------------------------------------------------------------------
(* The slots of the readers whose Activate has returned.                   *)
Listed == Resident \cup {slot[p] : p \in {q \in Procs : pc[q] = "listed"}}

(* A writer reads the range: GetActiveRange loads the word once for max    *)
(* and once more for min.                                                  *)

LoadMax ==
    /\ wpc = "idle"
    /\ wpc' = "loadMin"
    /\ wRange' = [min |-> 0, max |-> minMax.max]
    /\ due' = Listed
    /\ UNCHANGED <<active, minMax, procVars, histVars>>

LoadMin ==
    /\ wpc = "loadMin"
    /\ wpc' = "visit"
    /\ wRange' = [wRange EXCEPT !.min = minMax.min]
    /\ UNCHANGED <<active, minMax, procVars, histVars, due>>

(* Its scan for backpressure is over.                                      *)
Visited ==
    /\ wpc = "visit"
    /\ wpc' = "idle"
    /\ wRange' = [min |-> 0, max |-> 0]
    /\ due' = {}
    /\ UNCHANGED <<active, minMax, procVars, histVars>>

WriterStep == LoadMax \/ LoadMin \/ Visited

ProcStep(p) ==
    \/ BeginAlloc(p) \/ TryLock(p) \/ Activate(p) \/ Deactivate(p)
    \/ Free(p) \/ Unlock(p) \/ Crash(p)
    \/ LoadRange(p) \/ ScanSlot(p) \/ Swap(p) \/ SwapFails(p)

Next == WriterStep \/ \E p \in Procs : ProcStep(p)

Spec == Init /\ [][Next]_vars

------------------------------------------------------------------------------
Updating == {"load", "scan", "swap"}
RangeType == [min : 0 .. MaxReaders, max : 0 .. MaxReaders]

(* Every variable keeps its type: no index, slot or packed bound of        *)
(* ReaderInfo leaves 0 .. configMaxReaders.                                *)
TypeOK ==
    /\ active \in [Slots -> BOOLEAN]
    /\ minMax \in RangeType /\ wRange \in RangeType
    /\ pc \in [Procs -> {"out", "try", "idle", "listed", "unlock"} \cup Updating]
    /\ slot \in [Procs -> 0 .. MaxReaders]
    /\ upd \in [Procs -> [old : RangeType, i : 0 .. MaxReaders,
                          min : 0 .. MaxReaders, max : 0 .. MaxReaders]]
    /\ then \in [Procs -> {"out", "idle", "listed", "unlock"}]
    /\ stale \in [Procs -> BOOLEAN] /\ aba \in BOOLEAN /\ crashed \in BOOLEAN
    /\ wpc \in {"idle", "loadMin", "visit"}
    /\ due \subseteq Slots

(* As long as no swap succeeded although another had since the load, be it *)
(* that the word changed and changed back or that the same value was       *)
(* stored, a reader whose Activate has returned is in the published range: *)
(* the processes that scanned its flag too early lose their swap.          *)
ListedInRange ==
    ~aba => \A s \in Listed : InRange(s, minMax)

(* A writer that reads max and min from two versions of the word still     *)
(* visits every slot that was listed all along (GetActiveRange).           *)
VisitsListed ==
    ~aba /\ wpc = "visit" => \A s \in due : InRange(s, wRange)

(* Once every process is out of UpdateActiveRange, the range begins and    *)
(* ends with an active slot, whoever won which swap last, unless a stale   *)
(* swap succeeded or a process died on the way; a slot nobody holds is     *)
(* inactive.                                                               *)
QuietRangeExact ==
    ~crashed /\ ~aba /\ (\A p \in Procs : pc[p] \notin Updating) =>
        /\ \A s \in Slots : active[s] => InRange(s, minMax) /\ ~LockFree(s)
        /\ minMax.min < minMax.max => active[minMax.min] /\ active[minMax.max - 1]

(* Activate: "so its stream position is taken into consideration for       *)
(* creating backpressure on writers".  A reader whose Activate returned    *)
(* would be in the range writers scan.                                     *)
ActivatedIsInRange ==
    \A s \in Listed : InRange(s, minMax)
==============================================================================
