------------------------------ MODULE RmpStartup ------------------------------
(***************************************************************************)
(* How processes come to share memory.  SharedMemory::CreateOrOpen makes   *)
(* or opens an object and maps it; one process constructs a ByteRingBuffer *)
(* and a tp::ReaderInfo in the objects (RunInit of the agent); writers and *)
(* readers attach to them, testing the flags named initialized; a last one *)
(* unlinks the names (RunUnlink).  The code orders none of them.           *)
(*                                                                         *)
(* An object is new and of size 0 after shm_open, has its size and reads   *)
(* as zeroes after ftruncate, and lives on in its mappings when its name   *)
(* is unlinked.  To touch a mapping of an object of size 0 raises SIGBUS.  *)
(* A constructor stores its fields one after the other, in the order in    *)
(* which the class declares them.                                          *)
(***************************************************************************)
EXTENDS Integers, FiniteSets, SequencesExt

CONSTANTS
    Initializer,    \* the process that constructs: `agent init` is run once
    Writers,        \* processes that create an AsyncWriter
    Readers,        \* processes that create a tp::Reader
    Unlinkers,      \* processes that unlink both names
    MaxReaders,     \* slots of the reader info
    TruncateMayFail,\* whether ftruncate may fail
    Mortal          \* processes that may die

Proc == {Initializer} \cup Writers \cup Readers \cup Unlinkers

ASSUME StartupAssumption ==
    /\ IsFiniteSet(Proc)
    /\ Initializer \notin Writers \cup Readers \cup Unlinkers
    /\ Writers \cap Readers = {} /\ (Writers \cup Readers) \cap Unlinkers = {}
    /\ MaxReaders \in Nat \ {0}
    /\ TruncateMayFail \in BOOLEAN /\ Mortal \subseteq Proc

Shms == {"rb", "ri"}    \* toroni-burst-rb and toroni-burst-ri

Objects == 1 .. 2 * Cardinality(Proc)   \* every CreateOrOpen may make one

VARIABLES
    bound,      \* the object each name is bound to, or 0
    made,       \* objects made so far
    sized,      \* whether each object has its size
    stored,     \* the fields constructed in each object
    held,       \* owners of the slots in each object
    pc,         \* control of each process
    shm,        \* the name it opens, or "none"
    fd,         \* the object it has made and not mapped yet, or 0
    mapped,     \* the object it has mapped for each name, or 0
    mask,       \* whether _indexMask is that of the ring buffer
    early,      \* whether a process began before construction ended (history)
    gone        \* whether shm_unlink was called (history)

objectVars == <<bound, made, sized>>
dataVars   == <<stored, held>>
procVars   == <<shm, fd, mapped, mask>>
histVars   == <<early, gone>>
vars == <<objectVars, dataVars, pc, procVars, histVars>>

Init ==
    /\ bound = [s \in Shms |-> 0]
    /\ made = 0
    /\ sized = [o \in Objects |-> FALSE]
    /\ stored = [o \in Objects |-> {}]
    /\ held = [o \in Objects |-> {}]
    /\ pc = [p \in Proc |-> "idle"]
    /\ shm = [p \in Proc |-> "none"]
    /\ fd = [p \in Proc |-> 0]
    /\ mapped = [p \in Proc |-> [s \in Shms |-> 0]]
    /\ mask = [p \in Proc |-> FALSE]
    /\ early = FALSE /\ gone = FALSE

Go(p, k) == pc' = [pc EXCEPT ![p] = k]

Over == {"done", "attached", "running", "threw", "bus", "dead"}

------------------------------------------------------------------------------
(* CreateOrOpen.                                                           *)

(* Mutant: O_EXCL is not passed and a new object made in every case.       *)
ShmOpenAnew(p, s) ==
    /\ pc[p] = "idle" /\ mapped[p][s] = 0
    /\ p \in {Initializer} \cup Unlinkers => (s = "rb" \/ mapped[p]["rb"] # 0)
    /\ shm' = [shm EXCEPT ![p] = s]
    /\ early' = (early \/ (p # Initializer /\ pc[Initializer] # "done"))
    /\ made' = made + 1
    /\ bound' = [bound EXCEPT ![s] = made + 1]
    /\ fd' = [fd EXCEPT ![p] = made + 1]
    /\ Go(p, "truncate")
    /\ UNCHANGED <<sized, dataVars, mapped, mask, gone>>

(* shm_open with O_CREAT | O_EXCL: a new object, or EEXIST.  A writer and  *)
(* a reader open both names as the arguments of one call, in any order.    *)
ShmOpenExcl(p, s) ==
    /\ pc[p] = "idle" /\ mapped[p][s] = 0
    /\ p \in {Initializer} \cup Unlinkers => (s = "rb" \/ mapped[p]["rb"] # 0)
    /\ shm' = [shm EXCEPT ![p] = s]
    /\ early' = (early \/ (p # Initializer /\ pc[Initializer] # "done"))
    /\ IF bound[s] = 0
       THEN /\ made' = made + 1
            /\ bound' = [bound EXCEPT ![s] = made + 1]
            /\ fd' = [fd EXCEPT ![p] = made + 1]
            /\ Go(p, "truncate")
       ELSE Go(p, "open") /\ UNCHANGED <<made, bound, fd>>
    /\ UNCHANGED <<sized, dataVars, mapped, mask, gone>>

(* mmap and close of object o, and what the caller does next.              *)
Map(p, o) ==
    /\ mapped' = [mapped EXCEPT ![p][shm[p]] = o]
    /\ fd' = [fd EXCEPT ![p] = 0]
    /\ shm' = [shm EXCEPT ![p] = "none"]
    /\ Go(p, IF p = Initializer THEN "construct"
             ELSE IF p \in Unlinkers THEN "unlink"
             ELSE IF \A s \in Shms \ {shm[p]} : mapped[p][s] # 0 THEN "config"
             ELSE "idle")

Truncate(p) ==
    /\ pc[p] = "truncate"
    /\ sized' = [sized EXCEPT ![fd[p]] = TRUE]
    /\ Map(p, fd[p])
    /\ UNCHANGED <<bound, made, dataVars, mask, histVars>>

(* ftruncate fails: the name, whatever it is bound to by now, is unlinked. *)
TruncateFails(p) ==
    /\ TruncateMayFail /\ pc[p] = "truncate"
    /\ bound' = [bound EXCEPT ![shm[p]] = 0]
    /\ gone' = TRUE
    /\ Go(p, "threw")
    /\ UNCHANGED <<made, sized, dataVars, procVars, early>>

(* EEXIST: shm_open of the name, which may be unbound again.               *)
ShmOpen(p) ==
    /\ pc[p] = "open"
    /\ IF bound[shm[p]] # 0
       THEN Map(p, bound[shm[p]])
       ELSE Go(p, "threw") /\ UNCHANGED <<shm, fd, mapped>>
    /\ UNCHANGED <<objectVars, dataVars, mask, histVars>>

(* The object that is constructed, or unlinked: the last that was mapped.  *)
Target(p) == IF mapped[p]["ri"] = 0 THEN "rb" ELSE "ri"

(* Unlink of the name just opened; it throws if the name is gone.          *)
Unlink(p) ==
    /\ pc[p] = "unlink"
    /\ IF bound[Target(p)] # 0
       THEN /\ bound' = [bound EXCEPT ![Target(p)] = 0]
            /\ gone' = TRUE
            /\ Go(p, IF Target(p) = "rb" THEN "idle" ELSE "done")
       ELSE Go(p, "threw") /\ UNCHANGED <<bound, gone>>
    /\ UNCHANGED <<made, sized, dataVars, procVars, early>>

------------------------------------------------------------------------------
(* Construction.                                                           *)

(* Mutant: the flag is declared before the other fields.                   *)
RingBufferFlagFirst == <<"initialized", "configBufSizeBytes", "writerMtx", "freePos">>

RingBuffer == <<"configBufSizeBytes", "writerMtx", "freePos", "initialized">>

(* Mutant: members are constructed as the initialiser list writes them.    *)
ReaderInfoAsListed == <<"_readersMinMax", "infos", "rmp.initialized", "initialized">>

(* tp::ReaderInfo declares its flag before rmpReaderInfo, which sets its   *)
(* own when its slots are constructed.                                     *)
ReaderInfo == <<"initialized", "_readersMinMax", "infos", "rmp.initialized">>

Fields(s) == IF s = "rb" THEN RingBuffer ELSE ReaderInfo

(* Mutant: the slots are left as they are.                                 *)
ConstructNoInfos(p) ==
    /\ pc[p] = "construct"
    /\ LET o == mapped[p][Target(p)]
           f == Fields(Target(p))[Cardinality(stored[o]) + 1]
       IN  stored' = [stored EXCEPT ![o] = @ \cup {f}]
    /\ Go(p, IF Target(p) = "rb" THEN "idle" ELSE "done")
    /\ UNCHANGED <<objectVars, held, procVars, histVars>>

(* The next store of the placement new.                                    *)
Construct(p) ==
    /\ pc[p] = "construct"
    /\ LET o == mapped[p][Target(p)]
           n == Cardinality(stored[o])
           last == n + 1 = Len(Fields(Target(p)))
       IN  IF sized[o]
           THEN /\ stored' = [stored EXCEPT ![o] = @ \cup {Fields(Target(p))[n + 1]}]
                /\ Go(p, IF ~last THEN "construct" ELSE IF Target(p) = "rb" THEN "idle" ELSE "done")
           ELSE Go(p, "bus") /\ UNCHANGED stored
    /\ UNCHANGED <<objectVars, held, procVars, histVars>>

------------------------------------------------------------------------------
(* Attaching.                                                              *)

(* A touch of the object mapped for name s: SIGBUS, or on to k.            *)
Touch(p, s, k) == Go(p, IF sized[mapped[p][s]] THEN k ELSE "bus")

(* What is stored in the object p has mapped for name s.                   *)
In(p, s) == stored[mapped[p][s]]

(* Writer and Reader compute _indexMask from configBufSizeBytes in their   *)
(* initialiser lists, ...                                                  *)
ReadConfig(p) ==
    /\ pc[p] = "config"
    /\ mask' = [mask EXCEPT ![p] = "configBufSizeBytes" \in In(p, "rb")]
    /\ Touch(p, "rb", "flag")
    /\ UNCHANGED <<objectVars, dataVars, shm, fd, mapped, histVars>>

(* ... and test the flag of the ring buffer in their bodies.               *)
CheckInitialized(p) ==
    /\ pc[p] = "flag"
    /\ Go(p, IF "initialized" \notin In(p, "rb") THEN "threw"
             ELSE IF p \in Readers THEN "rmp" ELSE "attached")
    /\ UNCHANGED <<objectVars, dataVars, procVars, histVars>>

(* ReaderWithBackpressure tests the flag of the rmp reader info, ...       *)
CheckRmpInitialized(p) ==
    /\ pc[p] = "rmp"
    /\ Touch(p, "ri", IF "rmp.initialized" \in In(p, "ri") THEN "alloc" ELSE "threw")
    /\ UNCHANGED <<objectVars, dataVars, procVars, histVars>>

(* A slot of an owner that died is free (robust mutex).                    *)
Live(S) == {p \in S : pc[p] \notin {"bus", "dead"}}

(* ... takes a slot, ...                                                   *)
Alloc(p) ==
    /\ pc[p] = "alloc"
    /\ LET owners == Live(held[mapped[p]["ri"]])
       IN  IF Cardinality(owners) < MaxReaders
           THEN /\ held' = [held EXCEPT ![mapped[p]["ri"]] = owners \cup {p}]
                /\ Go(p, "tp")
           ELSE Go(p, "threw") /\ UNCHANGED held
    /\ UNCHANGED <<objectVars, stored, procVars, histVars>>

(* ... and tp::Reader tests the flag of tp::ReaderInfo; if it throws, its  *)
(* member frees the slot.                                                  *)
CheckTpInitialized(p) ==
    /\ pc[p] = "tp"
    /\ IF "initialized" \in In(p, "ri")
       THEN Go(p, "attached") /\ UNCHANGED held
       ELSE Go(p, "threw") /\ held' = [held EXCEPT ![mapped[p]["ri"]] = @ \ {p}]
    /\ UNCHANGED <<objectVars, stored, procVars, histVars>>

(* The first write: no constructor of a writer looked at the reader info.  *)
FirstWrite(p) ==
    /\ p \in Writers /\ pc[p] = "attached"
    /\ Touch(p, "ri", "running")
    /\ UNCHANGED <<objectVars, dataVars, procVars, histVars>>

Crash(p) ==
    /\ p \in Mortal
    /\ pc[p] \notin {"done", "threw", "bus", "dead"}
    /\ Go(p, "dead")
    /\ UNCHANGED <<objectVars, dataVars, procVars, histVars>>

CreateOrOpen(p) ==
    (\E s \in Shms : ShmOpenExcl(p, s)) \/ Truncate(p) \/ TruncateFails(p) \/ ShmOpen(p)

Attach(p) ==
    \/ ReadConfig(p) \/ CheckInitialized(p)
    \/ CheckRmpInitialized(p) \/ Alloc(p) \/ CheckTpInitialized(p)
    \/ FirstWrite(p)

Next == \E p \in Proc : CreateOrOpen(p) \/ Construct(p) \/ Attach(p) \/ Unlink(p) \/ Crash(p)

Spec == Init /\ [][Next]_vars

------------------------------------------------------------------------------
(* Every variable keeps its type.                                          *)
TypeOK ==
    /\ bound \in [Shms -> {0} \cup Objects]
    /\ made \in {0} \cup Objects
    /\ sized \in [Objects -> BOOLEAN]
    /\ stored \in [Objects -> SUBSET (ToSet(RingBuffer) \cup ToSet(ReaderInfo))]
    /\ held \in [Objects -> SUBSET Readers]
    /\ pc \in [Proc -> Over \cup {"idle", "truncate", "open", "construct", "unlink",
                                  "config", "flag", "rmp", "alloc", "tp"}]
    /\ shm \in [Proc -> Shms \cup {"none"}]
    /\ fd \in [Proc -> {0} \cup Objects]
    /\ mapped \in [Proc -> [Shms -> {0} \cup Objects]]
    /\ mask \in [Proc -> BOOLEAN]
    /\ early \in BOOLEAN /\ gone \in BOOLEAN

(* Whoever got past the test of a flag finds everything constructed that   *)
(* this flag stands for in the object it has mapped, whatever became of    *)
(* the constructing process and of the names meanwhile: the mutex and      *)
(* freePos of the ring buffer for all, the range and the mutexes of the    *)
(* slots for readers ("Whether this structure is completely initialized"). *)
(* A writer scans the slots having tested the flag of the ring only.       *)
UsesConstructed ==
    \A p \in Proc :
        /\ pc[p] \in {"rmp", "alloc", "tp", "attached", "running"} =>
               ToSet(RingBuffer) \subseteq In(p, "rb")
        /\ pc[p] \in {"alloc", "tp"} \/ (p \in Readers /\ pc[p] = "attached") =>
               {"_readersMinMax", "infos"} \subseteq In(p, "ri")

(* A reader that was given a slot is never refused by the test that comes  *)
(* last: the order in which tp::ReaderInfo declares its members, not the   *)
(* one its constructor writes, keeps a constructor from taking a slot and  *)
(* throwing.                                                               *)
LateCheckPasses ==
    \A o \in Objects : \A p \in held[o] : pc[p] # "threw" /\ "initialized" \in stored[o]

(* As long as no name is unlinked, processes that race to create or open   *)
(* an object end up with the same one (O_EXCL).                            *)
SameObjects ==
    ~gone => \A p, q \in Proc, s \in Shms :
        {mapped[p][s], mapped[q][s]} \subseteq {0, bound[s]}

(* When everybody waits for the end of construction and the names stay, no *)
(* one dies of SIGBUS, every index mask is right, and only a lack of slots *)
(* turns a process away.                                                   *)
OrderlyStart ==
    ~early /\ ~gone => \A p \in Proc :
        /\ pc[p] # "bus"
        /\ pc[p] \in {"attached", "running"} => mask[p]
        /\ pc[p] = "threw" => p \in Readers /\ pc[Initializer] = "done" /\
               Cardinality(Readers) > MaxReaders

------------------------------------------------------------------------------
(* What the documentation says and the code does not do.                   *)

(* "Whether this structure is completely initialized on a zero-initialized *)
(* shared memory" (tp::ReaderInfo::initialized).                           *)
FlagMeansComplete ==
    \A p \in Proc : LET o == mapped[p]["ri"] IN
        o # 0 => ("initialized" \in stored[o] => ToSet(ReaderInfo) \subseteq stored[o])

(* "Ring buffer not initialized": whoever is not told so computes indices  *)
(* with the mask of the ring buffer.                                       *)
AttachedMaskRight ==
    \A p \in Proc : pc[p] \in {"attached", "running"} => mask[p]

(* "Atomically creates or opens shared memory": what it returns can be     *)
(* used.                                                                   *)
NoBusError == \A p \in Proc : pc[p] # "bus"

(* "Atomically creates or opens shared memory": it does one or the other.  *)
CreatesOrOpens == \A p \in Proc : pc[p] = "threw" => shm[p] = "none"
==============================================================================
