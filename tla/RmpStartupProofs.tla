--------------------------- MODULE RmpStartupProofs ---------------------------
(***************************************************************************)
(* Creating, constructing and attaching, for any number of processes that  *)
(* start in any order, die and unlink.                                     *)
(***************************************************************************)
EXTENDS RmpStartup, FiniteSetTheorems, TLAPS

(* The names each process has begun to open; each makes an object at most. *)
Begun == {ps \in Proc \X Shms : mapped[ps[1]][ps[2]] # 0 \/ shm[ps[1]] = ps[2]}

CountInv == made <= Cardinality(Begun)

(* These open the ring buffer first, and look at it alone.                 *)
Ordered == {Initializer} \cup Unlinkers

(* Past the test of the flag of the ring buffer. *)
Checked == {"rmp", "alloc", "tp", "attached", "running"}

(* What the control of a process says of what it has opened. *)
Controlled(p) ==
    /\ pc[p] \in {"idle", "construct", "unlink"} => shm[p] = "none" /\ fd[p] = 0
    /\ pc[p] \in {"truncate", "open"} =>
           /\ shm[p] \in Shms /\ mapped[p][shm[p]] = 0
           /\ p \in Ordered => shm[p] = "rb" \/ mapped[p]["rb"] # 0
    /\ pc[p] = "truncate" => fd[p] # 0
    /\ p \in Ordered /\ mapped[p]["ri"] # 0 => mapped[p]["rb"] # 0
    /\ pc[p] \in {"config", "flag"} \cup Checked =>
           p \notin Ordered /\ \A s \in Shms : mapped[p][s] # 0
    /\ pc[p] \in {"rmp", "alloc", "tp"} => p \in Readers
    /\ pc[p] = "construct" => p = Initializer /\ mapped[p]["rb"] # 0
    /\ pc[p] = "unlink" => p \in Unlinkers /\ mapped[p]["rb"] # 0
    /\ p = Initializer /\ pc[p] = "done" => \A s \in Shms : mapped[p][s] # 0

ControlInv == \A p \in Proc : Controlled(p)

(* The objects that a name stands for, or has stood for to some process.   *)
Named(s) ==
    ({bound[s]} \cup {mapped[p][s] : p \in Proc} \cup {fd[p] : p \in {q \in Proc : shm[q] = s}}) \ {0}

(* No object has been both a ring buffer and a reader info. *)
KindInv ==
    /\ \A s \in Shms : \A o \in Named(s) : o <= made
    /\ Named("rb") \cap Named("ri") = {}

(* What a constructor that stores f has stored. *)
Stages(f) == {{}, {f[1]}, {f[1], f[2]}, {f[1], f[2], f[3]}, {f[1], f[2], f[3], f[4]}}

(* The object the initializer constructs under a name. *)
Site(s) == mapped[Initializer][s]

(* Only the initializer's objects are constructed, field by field, and the *)
(* ring buffer before the reader info is opened.                           *)
StoreInv ==
    /\ \A o \in Objects : stored[o] # {} => o \in {Site("rb"), Site("ri")}
    /\ \A s \in Shms : Site(s) # 0 =>
        /\ stored[Site(s)] \in Stages(Fields(s))
        /\ pc[Initializer] = "construct" /\ s = Target(Initializer) =>
               stored[Site(s)] # ToSet(Fields(s))
        /\ pc[Initializer] = "done" \/ (s = "rb" /\ (pc[Initializer] = "idle" \/ shm[Initializer] = "ri" \/ Site("ri") # 0)) =>
               stored[Site(s)] = ToSet(Fields(s))

(* Who got past a test has found its flag, ... *)
AttachInv ==
    \A p \in Proc :
        /\ pc[p] \in Checked => "initialized" \in In(p, "rb")
        /\ pc[p] \in {"alloc", "tp"} \/ (p \in Readers /\ pc[p] = "attached") =>
               "rmp.initialized" \in In(p, "ri")

(* ... and so has who holds a slot. *)
HeldInv ==
    \A o \in Objects : \A p \in held[o] :
        /\ p \in Readers /\ o = mapped[p]["ri"] /\ pc[p] \in {"tp", "attached", "dead"}
        /\ "rmp.initialized" \in stored[o]

(* As long as no name is unlinked, what is made or mapped is what the name *)
(* is bound to.                                                            *)
SameInv ==
    ~gone => \A p \in Proc :
        /\ \A s \in Shms : mapped[p][s] \in {0, bound[s]}
        /\ pc[p] = "truncate" => fd[p] = bound[shm[p]]

(* A process that has not begun. *)
NotBegun(p) == pc[p] \in {"idle", "dead"} /\ shm[p] = "none" /\ \A s \in Shms : mapped[p][s] = 0

(* What an orderly start says of one process, ... *)
InOrder(p) ==
    /\ p # Initializer => pc[p] # "truncate"
    /\ \A s \in Shms : mapped[p][s] # 0 => sized[mapped[p][s]]
    /\ pc[p] \in {"flag"} \cup Checked => mask[p]
    /\ pc[p] # "bus"
    /\ pc[p] = "threw" => p \in Readers /\ pc[Initializer] = "done" /\ Cardinality(Readers) > MaxReaders

(* ... and of them all: nobody begins before the initializer is done,      *)
(* which makes both objects.                                               *)
InitializerFirst ==
    /\ pc[Initializer] # "done" =>
           /\ \A p \in Proc \ {Initializer} : NotBegun(p)
           /\ \A s \in Shms : bound[s] # 0 => Site(s) # 0 \/ shm[Initializer] = s
    /\ pc[Initializer] # "open"

OrderInv == ~early /\ ~gone => InitializerFirst /\ \A p \in Proc : InOrder(p)

StartupInv ==
    /\ TypeOK /\ CountInv /\ ControlInv /\ KindInv /\ StoreInv
    /\ AttachInv /\ HeldInv /\ SameInv /\ OrderInv

------------------------------------------------------------------------------
(* What the constants are. *)
LEMMA Bounds ==
    /\ IsFiniteSet(Proc) /\ Cardinality(Proc) \in Nat /\ MaxReaders \in Nat \ {0}
    /\ Initializer \in Proc /\ Writers \subseteq Proc /\ Readers \subseteq Proc /\ Unlinkers \subseteq Proc
    /\ Initializer \notin Writers \cup Readers \cup Unlinkers
    /\ Writers \cap Readers = {} /\ (Writers \cup Readers) \cap Unlinkers = {}
    /\ \A o \in Objects : o \in Nat /\ o # 0
<1>1. IsFiniteSet(Proc) /\ Cardinality(Proc) \in Nat
  BY StartupAssumption, FS_CardinalityType
<1>2. \A o \in Objects : o \in Nat /\ o # 0
  BY DEF Objects
<1>3. /\ Initializer \in Proc /\ Writers \subseteq Proc /\ Readers \subseteq Proc
      /\ Unlinkers \subseteq Proc
  BY DEF Proc
<1> QED
  BY <1>1, <1>2, <1>3, StartupAssumption

(* There are two names. *)
LEMMA NamesFinite == IsFiniteSet(Shms) /\ Cardinality(Shms) = 2
<1>1. IsFiniteSet({"rb"}) /\ Cardinality({"rb"}) = 1
  BY FS_Singleton
<1>2. "ri" \notin {"rb"} /\ Shms = {"rb"} \cup {"ri"}
  BY DEF Shms
<1> QED
  BY <1>1, <1>2, FS_AddElement

(* There is an object left for a name that a process has not begun. *)
LEMMA RoomForOne ==
    ASSUME TypeOK, CountInv, NEW p \in Proc, NEW s \in Shms, <<p, s>> \notin Begun
    PROVE  /\ made + 1 \in Objects
           /\ Cardinality(Begun \cup {<<p, s>>}) = Cardinality(Begun) + 1
<1>2. IsFiniteSet(Proc \X Shms) /\ Cardinality(Proc \X Shms) = Cardinality(Proc) * 2
  BY NamesFinite, Bounds, FS_Product
<1>3. Begun \cup {<<p, s>>} \in SUBSET (Proc \X Shms) /\ Begun \in SUBSET (Proc \X Shms)
  BY DEF Begun
<1>4. IsFiniteSet(Begun) /\ Cardinality(Begun) \in Nat
  BY <1>2, <1>3, FS_Subset, FS_CardinalityType
<1>5. Cardinality(Begun \cup {<<p, s>>}) = Cardinality(Begun) + 1
  BY <1>4, FS_AddElement
<1>6. Cardinality(Begun \cup {<<p, s>>}) <= Cardinality(Proc) * 2
  BY <1>2, <1>3, FS_Subset
<1>7. made \in Nat
  BY Bounds DEF TypeOK
<1> QED
  BY <1>4, <1>5, <1>6, <1>7, Bounds DEF CountInv, Objects

(* The fields of an object, none of them twice. *)
Distinct(f) ==
    f[1] # f[2] /\ f[1] # f[3] /\ f[1] # f[4] /\ f[2] # f[3] /\ f[2] # f[4] /\ f[3] # f[4]

LEMMA FieldsAre ==
    ASSUME NEW s \in Shms
    PROVE  /\ Len(Fields(s)) = 4 /\ Distinct(Fields(s))
           /\ ToSet(Fields(s)) = {Fields(s)[1], Fields(s)[2], Fields(s)[3], Fields(s)[4]}
<1>1. Len(Fields(s)) = 4 /\ DOMAIN Fields(s) = 1 .. 4
  BY DEF Fields, RingBuffer, ReaderInfo
<1>2. Distinct(Fields(s))
  BY DEF Fields, RingBuffer, ReaderInfo, Distinct
<1>3. ASSUME NEW f, DOMAIN f = 1 .. 4
      PROVE  ToSet(f) = {f[1], f[2], f[3], f[4]}
  BY <1>3 DEF ToSet
<1> QED
  BY <1>1, <1>2, <1>3

(* How many fields there are at each stage. *)
LEMMA StageSizes ==
    ASSUME NEW f, Distinct(f)
    PROVE  /\ Cardinality({}) = 0 /\ Cardinality({f[1]}) = 1 /\ Cardinality({f[1], f[2]}) = 2
           /\ Cardinality({f[1], f[2], f[3]}) = 3
<1>1. Cardinality({f[1]}) = 1 /\ IsFiniteSet({f[1]}) /\ Cardinality({}) = 0
  BY FS_Singleton, FS_EmptySet
<1>2. {f[1], f[2]} = {f[1]} \cup {f[2]} /\ {f[1], f[2], f[3]} = {f[1], f[2]} \cup {f[3]}
  OBVIOUS
<1>3. Cardinality({f[1], f[2]}) = 2 /\ IsFiniteSet({f[1], f[2]})
  <2>1. f[2] \notin {f[1]}
    BY DEF Distinct
  <2> QED
    BY <1>1, <1>2, <2>1, FS_AddElement
<1>4. Cardinality({f[1], f[2], f[3]}) = 3
  <2>1. f[3] \notin {f[1], f[2]}
    BY DEF Distinct
  <2>2. Cardinality({f[1], f[2]} \cup {f[3]}) = Cardinality({f[1], f[2]}) + 1
    BY <1>3, <2>1, FS_AddElement
  <2>3. Cardinality({f[1], f[2]} \cup {f[3]}) = 3
    BY <1>3, <2>2
  <2> QED
    BY <1>2, <2>3, Zenon
<1> QED
  BY <1>1, <1>3, <1>4

(* The next store of a constructor that is not done. *)
LEMMA NextStage ==
    ASSUME NEW f, Distinct(f), NEW S \in Stages(f), S # {f[1], f[2], f[3], f[4]}
    PROVE  LET n == Cardinality(S)
           IN  /\ f[n + 1] \in {f[1], f[2], f[3], f[4]}
               /\ S \cup {f[n + 1]} \in Stages(f)
               /\ S \cup {f[n + 1]} = {f[1], f[2], f[3], f[4]} <=> n + 1 = 4
<1>1. S = {} \/ S = {f[1]} \/ S = {f[1], f[2]} \/ S = {f[1], f[2], f[3]}
  BY DEF Stages
<1>2. CASE S = {}
  <2>1. Cardinality(S) = 0
    BY <1>2, StageSizes, Zenon
  <2> QED
    BY <1>2, <2>1 DEF Stages, Distinct
<1>3. CASE S = {f[1]}
  <2>1. Cardinality(S) = 1
    BY <1>3, StageSizes, Zenon
  <2>2. S \cup {f[2]} = {f[1], f[2]}
    BY <1>3
  <2> QED
    BY <1>3, <2>1, <2>2 DEF Stages, Distinct
<1>4. CASE S = {f[1], f[2]}
  <2>1. Cardinality(S) = 2
    BY <1>4, StageSizes, Zenon
  <2>2. S \cup {f[3]} = {f[1], f[2], f[3]}
    BY <1>4
  <2> QED
    BY <1>4, <2>1, <2>2 DEF Stages, Distinct
<1>5. CASE S = {f[1], f[2], f[3]}
  <2>1. Cardinality(S) = 3
    BY <1>5, StageSizes, Zenon
  <2>2. S \cup {f[4]} = {f[1], f[2], f[3], f[4]}
    BY <1>5
  <2> QED
    BY <1>5, <2>1, <2>2 DEF Stages
<1> QED
  BY <1>1, <1>2, <1>3, <1>4, <1>5

LEMMA NextField ==
    ASSUME NEW s \in Shms, NEW S \in Stages(Fields(s)), S # ToSet(Fields(s))
    PROVE  LET f == Fields(s)
               n == Cardinality(S)
           IN  /\ f[n + 1] \in ToSet(f)
               /\ S \cup {f[n + 1]} \in Stages(f)
               /\ S \cup {f[n + 1]} = ToSet(f) <=> n + 1 = Len(f)
<1> DEFINE f == Fields(s)
           T == {f[1], f[2], f[3], f[4]}
<1>1. Distinct(f) /\ Len(f) = 4 /\ ToSet(f) = T
  BY FieldsAre
<1>2. /\ f[Cardinality(S) + 1] \in T
      /\ S \cup {f[Cardinality(S) + 1]} \in Stages(f)
      /\ S \cup {f[Cardinality(S) + 1]} = T <=> Cardinality(S) + 1 = 4
  <2>1. S # T /\ S \in Stages(f)
    BY <1>1
  <2> HIDE DEF f
  <2> QED
    BY <1>1, <2>1, NextStage
<1> HIDE DEF T
<1> QED
  BY <1>1, <1>2

(* One process takes a step. *)
Step(p) ==
    \/ \E s \in Shms : ShmOpenExcl(p, s)
    \/ Truncate(p) \/ TruncateFails(p) \/ ShmOpen(p) \/ Unlink(p) \/ Construct(p)
    \/ ReadConfig(p) \/ CheckInitialized(p) \/ CheckRmpInitialized(p) \/ Alloc(p)
    \/ CheckTpInitialized(p) \/ FirstWrite(p) \/ Crash(p)

LEMMA Steps == Next => \E p \in Proc : Step(p)
BY DEF Next, CreateOrOpen, Attach, Step

(* Where a process goes when it has mapped an object. *)
AfterMap(p) ==
    IF p = Initializer THEN "construct"
    ELSE IF p \in Unlinkers THEN "unlink"
    ELSE IF \A s \in Shms \ {shm[p]} : mapped[p][s] # 0 THEN "config"
    ELSE "idle"

(* A mapping is one more for the process that makes it. *)
LEMMA MapDoes ==
    ASSUME TypeOK, NEW p \in Proc, NEW o \in Objects, shm[p] \in Shms, Map(p, o)
    PROVE  /\ mapped' \in [Proc -> [Shms -> {0} \cup Objects]]
           /\ fd' \in [Proc -> {0} \cup Objects] /\ shm' \in [Proc -> Shms \cup {"none"}]
           /\ pc' = [pc EXCEPT ![p] = AfterMap(p)]
           /\ mapped'[p][shm[p]] = o /\ fd'[p] = 0 /\ shm'[p] = "none"
           /\ \A s \in Shms : s # shm[p] => mapped'[p][s] = mapped[p][s]
           /\ \A q \in Proc : q # p => mapped'[q] = mapped[q] /\ fd'[q] = fd[q] /\ shm'[q] = shm[q]
<1>1. fd' = [fd EXCEPT ![p] = 0] /\ shm' = [shm EXCEPT ![p] = "none"]
      /\ pc' = [pc EXCEPT ![p] = AfterMap(p)]
  BY DEF Map, Go, AfterMap
<1>2. mapped' = [mapped EXCEPT ![p] = [mapped[p] EXCEPT ![shm[p]] = o]]
  BY DEF Map, TypeOK
<1>3. mapped[p] \in [Shms -> {0} \cup Objects]
  BY DEF TypeOK
<1> QED
  BY <1>1, <1>2, <1>3 DEF TypeOK

(* Nobody's step moves another process. *)
LEMMA OthersKeep ==
    ASSUME TypeOK, NEW p \in Proc, Step(p), NEW q \in Proc, q # p
    PROVE  /\ pc'[q] = pc[q] /\ shm'[q] = shm[q] /\ fd'[q] = fd[q]
           /\ mapped'[q] = mapped[q] /\ mask'[q] = mask[q]
<1> USE DEF TypeOK, procVars, Go
<1>1. ASSUME NEW s \in Shms, ShmOpenExcl(p, s)
      PROVE  /\ pc'[q] = pc[q] /\ shm'[q] = shm[q] /\ fd'[q] = fd[q]
             /\ mapped'[q] = mapped[q] /\ mask'[q] = mask[q]
  BY <1>1 DEF ShmOpenExcl
<1>2. CASE Truncate(p)
  BY <1>2 DEF Truncate, Map
<1>3. CASE ShmOpen(p)
  BY <1>3 DEF ShmOpen, Map
<1>4. CASE TruncateFails(p) \/ Unlink(p) \/ Construct(p)
  BY <1>4 DEF TruncateFails, Unlink, Construct
<1>5. CASE ReadConfig(p) \/ CheckInitialized(p) \/ CheckRmpInitialized(p)
  BY <1>5 DEF ReadConfig, CheckInitialized, CheckRmpInitialized, Touch
<1>6. CASE Alloc(p) \/ CheckTpInitialized(p) \/ FirstWrite(p) \/ Crash(p)
  BY <1>6 DEF Alloc, CheckTpInitialized, FirstWrite, Crash, Touch
<1> QED
  BY <1>1, <1>2, <1>3, <1>4, <1>5, <1>6 DEF Step

(* Steps after the opening change neither names nor mappings. *)
LateStep(p) ==
    \/ Construct(p) \/ ReadConfig(p) \/ CheckInitialized(p) \/ CheckRmpInitialized(p)
    \/ Alloc(p) \/ CheckTpInitialized(p) \/ FirstWrite(p) \/ Crash(p)

LEMMA LateStepKeeps ==
    ASSUME NEW p \in Proc, LateStep(p)
    PROVE  UNCHANGED <<objectVars, shm, fd, mapped, histVars>>
BY DEF LateStep, Construct, ReadConfig, CheckInitialized, CheckRmpInitialized, Alloc,
       CheckTpInitialized, FirstWrite, Crash, procVars

(* One step keeps the types, ... *)
LEMMA TypeStep ==
    ASSUME TypeOK, CountInv, ControlInv, StoreInv, [Next]_vars
    PROVE  TypeOK'
<1>1. CASE UNCHANGED vars
  BY <1>1 DEF vars, objectVars, dataVars, procVars, histVars, TypeOK
<1>2. ASSUME NEW p \in Proc, Step(p)
      PROVE  TypeOK'
  <2> USE DEF objectVars, dataVars, procVars, histVars, Go, Over
  <2>1. ASSUME NEW s \in Shms, ShmOpenExcl(p, s)
        PROVE  TypeOK'
    <3>1. <<p, s>> \notin Begun
      BY <2>1 DEF ShmOpenExcl, ControlInv, Controlled, Begun, Shms
    <3>2. made + 1 \in Objects
      BY <3>1, RoomForOne
    <3>3. early' \in BOOLEAN
      BY <2>1, Zenon DEF ShmOpenExcl
    <3> QED
      BY <2>1, <3>2, <3>3 DEF ShmOpenExcl, TypeOK
  <2>2. CASE Truncate(p)
    <3>1. fd[p] \in Objects /\ shm[p] \in Shms /\ Map(p, fd[p])
      BY <2>2 DEF Truncate, ControlInv, Controlled, TypeOK
    <3>2. AfterMap(p) \in {"construct", "unlink", "config", "idle"}
      BY DEF AfterMap
    <3>3. mapped' \in [Proc -> [Shms -> {0} \cup Objects]]
          /\ fd' \in [Proc -> {0} \cup Objects] /\ shm' \in [Proc -> Shms \cup {"none"}]
          /\ pc' = [pc EXCEPT ![p] = AfterMap(p)]
      BY <3>1, MapDoes
    <3> QED
      BY <2>2, <3>1, <3>2, <3>3 DEF Truncate, TypeOK
  <2>3. CASE ShmOpen(p)
    <3>1. CASE bound[shm[p]] # 0
      <4>1. bound[shm[p]] \in Objects /\ shm[p] \in Shms /\ Map(p, bound[shm[p]])
        BY <2>3, <3>1 DEF ShmOpen, ControlInv, Controlled, TypeOK
      <4>2. AfterMap(p) \in {"construct", "unlink", "config", "idle"}
        BY DEF AfterMap
      <4> QED
        BY <2>3, <4>1, <4>2, MapDoes DEF ShmOpen, TypeOK
    <3>2. CASE bound[shm[p]] = 0
      BY <2>3, <3>2 DEF ShmOpen, TypeOK
    <3> QED
      BY <3>1, <3>2
  <2>4. CASE TruncateFails(p)
    BY <2>4 DEF TruncateFails, TypeOK
  <2>5. CASE Unlink(p)
    BY <2>5 DEF Unlink, TypeOK
  <2>6. CASE Construct(p)
    <3> DEFINE s == Target(p)
               f == Fields(s)[Cardinality(stored[Site(s)]) + 1]
    <3>1. p = Initializer /\ s \in Shms /\ Site(s) # 0 /\ Site(s) \in Objects /\ pc[p] = "construct"
      BY <2>6 DEF Construct, ControlInv, Controlled, Target, Site, Shms, TypeOK
    <3>2. stored[Site(s)] \in Stages(Fields(s)) /\ stored[Site(s)] # ToSet(Fields(s))
      BY <3>1 DEF StoreInv
    <3>3. f \in ToSet(RingBuffer) \cup ToSet(ReaderInfo)
      BY <3>1, <3>2, NextField DEF Fields
    <3>4. stored' = stored \/ stored' = [stored EXCEPT ![Site(s)] = stored[Site(s)] \cup {f}]
      BY <2>6, <3>1 DEF Construct, Site
    <3>5. stored' \in [Objects -> SUBSET (ToSet(RingBuffer) \cup ToSet(ReaderInfo))]
      <4> HIDE DEF f, s
      <4> QED
        BY <3>1, <3>3, <3>4 DEF TypeOK
    <3>6. \E k \in {"bus", "construct", "idle", "done"} : pc' = [pc EXCEPT ![p] = k]
      BY <2>6 DEF Construct
    <3> QED
      BY <2>6, <3>5, <3>6 DEF Construct, TypeOK
  <2>7. CASE ReadConfig(p)
    <3>1. ("configBufSizeBytes" \in In(p, "rb")) \in BOOLEAN
      OBVIOUS
    <3>2. mask' \in [Proc -> BOOLEAN]
      BY <2>7, <3>1, Zenon DEF ReadConfig, TypeOK
    <3>3. \E k \in {"bus", "flag"} : pc' = [pc EXCEPT ![p] = k]
      BY <2>7 DEF ReadConfig, Touch
    <3> QED
      BY <2>7, <3>2, <3>3 DEF ReadConfig, TypeOK
  <2>8. CASE CheckInitialized(p) \/ CheckRmpInitialized(p) \/ FirstWrite(p) \/ Crash(p)
    <3>1. \E k \in {"bus", "threw", "rmp", "attached", "alloc", "running", "dead"} : pc' = [pc EXCEPT ![p] = k]
      BY <2>8 DEF CheckInitialized, CheckRmpInitialized, FirstWrite, Crash, Touch
    <3>2. UNCHANGED <<objectVars, dataVars, procVars, histVars>>
      BY <2>8 DEF CheckInitialized, CheckRmpInitialized, FirstWrite, Crash
    <3> QED
      BY <3>1, <3>2 DEF TypeOK
  <2>9. CASE Alloc(p)
    <3>1. p \in Readers /\ mapped[p]["ri"] \in Objects
      BY <2>9 DEF Alloc, ControlInv, Controlled, TypeOK, Checked, Shms
    <3>2. Live(held[mapped[p]["ri"]]) \cup {p} \in SUBSET Readers
      BY <3>1 DEF Live, TypeOK
    <3>3. held' \in [Objects -> SUBSET Readers]
      BY <2>9, <3>2 DEF Alloc, TypeOK
    <3>4. \E k \in {"threw", "tp"} : pc' = [pc EXCEPT ![p] = k]
      BY <2>9 DEF Alloc
    <3> QED
      BY <2>9, <3>3, <3>4 DEF Alloc, TypeOK
  <2>10. CASE CheckTpInitialized(p)
    <3>1. mapped[p]["ri"] \in Objects
      BY <2>10 DEF CheckTpInitialized, ControlInv, Controlled, TypeOK, Checked, Shms
    <3>2. held' \in [Objects -> SUBSET Readers]
      BY <2>10, <3>1 DEF CheckTpInitialized, TypeOK
    <3>3. \E k \in {"threw", "attached"} : pc' = [pc EXCEPT ![p] = k]
      BY <2>10 DEF CheckTpInitialized
    <3> QED
      BY <2>10, <3>2, <3>3 DEF CheckTpInitialized, TypeOK
  <2> QED
    BY <1>2, <2>1, <2>2, <2>3, <2>4, <2>5, <2>6, <2>7, <2>8, <2>9, <2>10 DEF Step
<1> QED
  BY <1>1, <1>2, Steps

(* ... the count of objects, ... *)
LEMMA CountStep ==
    ASSUME TypeOK, CountInv, ControlInv, [Next]_vars
    PROVE  CountInv'
<1>1. CASE UNCHANGED vars
  BY <1>1 DEF vars, objectVars, procVars, CountInv, Begun
<1>2. ASSUME NEW p \in Proc, Step(p)
      PROVE  CountInv'
  <2> USE DEF objectVars, procVars
  <2>1. ASSUME NEW s \in Shms, ShmOpenExcl(p, s)
        PROVE  CountInv'
    <3>1. <<p, s>> \notin Begun
      BY <2>1 DEF ShmOpenExcl, ControlInv, Controlled, Begun, Shms
    <3>2. Cardinality(Begun \cup {<<p, s>>}) = Cardinality(Begun) + 1
      BY <3>1, RoomForOne
    <3>3. Begun' = Begun \cup {<<p, s>>}
      <4>1. /\ mapped' = mapped /\ shm[p] = "none" /\ shm'[p] = s
            /\ \A q \in Proc : q # p => shm'[q] = shm[q]
        BY <2>1 DEF ShmOpenExcl, ControlInv, Controlled, TypeOK
      <4>2. \A q \in Proc, t \in Shms : <<q, t>> \in Begun' <=> <<q, t>> \in Begun \/ (q = p /\ t = s)
        BY <4>1 DEF Begun, Shms
      <4> QED
        BY <4>2 DEF Begun
    <3>4. made' = made \/ made' = made + 1
      BY <2>1 DEF ShmOpenExcl
    <3>5. made \in Nat /\ Cardinality(Begun) \in Nat
      <4>1. Begun \in SUBSET (Proc \X Shms)
        BY DEF Begun
      <4>2. IsFiniteSet(Proc \X Shms)
        BY NamesFinite, Bounds, FS_Product
      <4>3. Cardinality(Begun) \in Nat
        BY <4>1, <4>2, FS_Subset, FS_CardinalityType
      <4> QED
        BY <4>3, Bounds DEF TypeOK
    <3> QED
      BY <3>2, <3>3, <3>4, <3>5 DEF CountInv
  <2>2. ASSUME NEW o \in Objects, shm[p] \in Shms, Map(p, o), made' = made
        PROVE  CountInv'
    <3>1. \A q \in Proc, t \in Shms : <<q, t>> \in Begun' <=> <<q, t>> \in Begun
      BY <2>2, MapDoes, Bounds DEF Begun, Shms
    <3>2. Begun' = Begun
      BY <3>1 DEF Begun
    <3> QED
      BY <2>2, <3>2 DEF CountInv
  <2>3. CASE Truncate(p)
    BY <2>2, <2>3 DEF Truncate, ControlInv, Controlled, TypeOK
  <2>4. CASE ShmOpen(p) /\ bound[shm[p]] # 0
    BY <2>2, <2>4 DEF ShmOpen, ControlInv, Controlled, TypeOK
  <2>5. CASE UNCHANGED <<made, shm, mapped>>
    BY <2>5 DEF CountInv, Begun
  <2>6. CASE LateStep(p)
    BY <2>5, <2>6, LateStepKeeps
  <2> QED
    BY <1>2, <2>1, <2>3, <2>4, <2>5, <2>6 DEF Step, LateStep, ShmOpen, TruncateFails, Unlink
<1> QED
  BY <1>1, <1>2, Steps

(* ... what the control of the processes says, ... *)
LEMMA ControlStep ==
    ASSUME TypeOK, ControlInv, [Next]_vars
    PROVE  ControlInv'
<1>1. CASE UNCHANGED vars
  BY <1>1 DEF vars, procVars, ControlInv, Controlled
<1>2. ASSUME NEW p \in Proc, Step(p)
      PROVE  ControlInv'
  <2>1. ASSUME NEW q \in Proc, q # p
        PROVE  Controlled(q)'
    BY <1>2, <2>1, OthersKeep DEF ControlInv, Controlled
  <2>2. Controlled(p)
    BY DEF ControlInv
  <2> SUFFICES Controlled(p)'
    BY <2>1 DEF ControlInv
  <2>3. ASSUME NEW s \in Shms, ShmOpenExcl(p, s)
        PROVE  Controlled(p)'
    <3>1. pc[p] = "idle" /\ mapped[p][s] = 0 /\ mapped' = mapped /\ shm'[p] = s
      BY <2>3 DEF ShmOpenExcl, TypeOK
    <3>2. p \in Ordered => s = "rb" \/ mapped[p]["rb"] # 0
      BY <2>3 DEF ShmOpenExcl, Ordered
    <3>3. pc'[p] = "open" \/ (pc'[p] = "truncate" /\ fd'[p] = made + 1)
      BY <2>3 DEF ShmOpenExcl, TypeOK, Go
    <3>4. made + 1 # 0
      BY Bounds DEF TypeOK
    <3> QED
      BY <2>2, <3>1, <3>2, <3>3, <3>4 DEF Controlled, Checked
  <2>4. ASSUME NEW o \in Objects, pc[p] \in {"truncate", "open"}, Map(p, o)
        PROVE  Controlled(p)'
    <3>1. /\ shm[p] \in Shms /\ o # 0
          /\ p \in Ordered => shm[p] = "rb" \/ mapped[p]["rb"] # 0
      BY <2>2, <2>4, Bounds DEF Controlled
    <3>2. /\ pc' = [pc EXCEPT ![p] = AfterMap(p)]
          /\ mapped'[p][shm[p]] = o /\ fd'[p] = 0 /\ shm'[p] = "none"
          /\ \A s \in Shms : s # shm[p] => mapped'[p][s] = mapped[p][s]
      BY <2>4, <3>1, MapDoes
    <3>3. pc'[p] = AfterMap(p)
      BY <3>2 DEF TypeOK
    <3>4. p \in Ordered => mapped'[p]["rb"] # 0
      BY <3>1, <3>2 DEF Shms
    <3>5. AfterMap(p) = "config" => p \notin Ordered /\ \A s \in Shms : mapped'[p][s] # 0
      BY <3>1, <3>2 DEF AfterMap, Ordered
    <3>6. AfterMap(p) = "construct" => p = Initializer /\ p \in Ordered
      BY DEF AfterMap, Ordered
    <3>7. AfterMap(p) = "unlink" => p \in Unlinkers /\ p \in Ordered
      BY DEF AfterMap, Ordered
    <3>8. AfterMap(p) \in {"construct", "unlink", "config", "idle"}
      BY DEF AfterMap
    <3> QED
      BY <3>2, <3>3, <3>4, <3>5, <3>6, <3>7, <3>8 DEF Controlled, Checked
  <2>5. CASE Truncate(p)
    <3>1. fd[p] \in Objects
      BY <2>2, <2>5 DEF Truncate, Controlled, TypeOK
    <3> QED
      BY <2>4, <2>5, <3>1 DEF Truncate
  <2>6. CASE ShmOpen(p) /\ bound[shm[p]] # 0
    <3>1. bound[shm[p]] \in Objects
      BY <2>2, <2>6 DEF ShmOpen, Controlled, TypeOK
    <3> QED
      BY <2>4, <2>6, <3>1 DEF ShmOpen
  <2>7. CASE TruncateFails(p) \/ (ShmOpen(p) /\ bound[shm[p]] = 0)
    <3>1. pc'[p] = "threw" /\ UNCHANGED <<shm, fd, mapped>>
      BY <2>7 DEF TruncateFails, ShmOpen, Go, TypeOK, procVars
    <3> QED
      BY <2>2, <3>1 DEF Controlled, Checked
  <2>8. CASE Unlink(p)
    <3>1. pc[p] = "unlink" /\ pc'[p] \in {"idle", "done", "threw"} /\ UNCHANGED <<shm, fd, mapped>>
      BY <2>8 DEF Unlink, Go, TypeOK, procVars
    <3>2. p # Initializer
      BY <2>2, <3>1, Bounds DEF Controlled
    <3> QED
      BY <2>2, <3>1, <3>2 DEF Controlled, Checked
  <2>9. CASE LateStep(p)
    <3>1. UNCHANGED <<shm, fd, mapped>>
      BY <2>9, LateStepKeeps
    <3>2. CASE Construct(p)
      <4>1. pc[p] = "construct"
        BY <3>2 DEF Construct
      <4>2. pc'[p] \in {"bus", "construct", "idle", "done"} /\ (pc'[p] = "done" => Target(p) # "rb")
        BY <3>2 DEF Construct, Go, TypeOK
      <4>3. Target(p) # "rb" => mapped[p]["ri"] # 0
        BY DEF Target
      <4> QED
        BY <2>2, <3>1, <4>1, <4>2, <4>3 DEF Controlled, Checked, Shms
    <3>3. CASE ReadConfig(p) \/ CheckRmpInitialized(p)
      <4>1. /\ pc[p] = "config" => pc'[p] \in {"flag", "bus"}
            /\ pc[p] = "rmp" => pc'[p] \in {"alloc", "threw", "bus"}
            /\ pc[p] \in {"config", "rmp"}
        BY <3>3 DEF ReadConfig, CheckRmpInitialized, Touch, Go, TypeOK
      <4> QED
        BY <2>2, <3>1, <4>1 DEF Controlled, Checked
    <3>4. CASE CheckInitialized(p)
      <4>1. pc[p] = "flag" /\ (pc'[p] = "threw" \/ (p \in Readers /\ pc'[p] = "rmp") \/ pc'[p] = "attached")
        BY <3>4 DEF CheckInitialized, Go, TypeOK
      <4> QED
        BY <2>2, <3>1, <4>1 DEF Controlled, Checked
    <3>5. CASE Alloc(p) \/ CheckTpInitialized(p) \/ FirstWrite(p)
      <4>1. /\ pc[p] \in {"alloc", "tp", "attached"}
            /\ pc'[p] \in {"tp", "threw", "attached", "running", "bus"}
            /\ pc'[p] = "tp" => pc[p] = "alloc"
        BY <3>5 DEF Alloc, CheckTpInitialized, FirstWrite, Touch, Go, TypeOK
      <4> QED
        BY <2>2, <3>1, <4>1 DEF Controlled, Checked
    <3>6. CASE Crash(p)
      <4>1. pc'[p] = "dead"
        BY <3>6 DEF Crash, Go, TypeOK
      <4> QED
        BY <2>2, <3>1, <4>1 DEF Controlled, Checked
    <3> QED
      BY <2>9, <3>2, <3>3, <3>4, <3>5, <3>6 DEF LateStep
  <2> QED
    BY <1>2, <2>3, <2>5, <2>6, <2>7, <2>8, <2>9 DEF Step, LateStep
<1> QED
  BY <1>1, <1>2, Steps

(* What it is to have had a name. *)
LEMMA NamedIs ==
    ASSUME NEW s \in Shms, NEW o
    PROVE  o \in Named(s) <=>
               /\ o # 0
               /\ \/ o = bound[s]
                  \/ \E q \in Proc : o = mapped[q][s] \/ (shm[q] = s /\ o = fd[q])
BY DEF Named

(* ... the kinds of the objects, ... *)
LEMMA KindStep ==
    ASSUME TypeOK, ControlInv, KindInv, [Next]_vars
    PROVE  KindInv'
<1>1. CASE UNCHANGED vars
  BY <1>1 DEF vars, procVars, objectVars, KindInv, Named
<1>2. ASSUME NEW p \in Proc, Step(p)
      PROVE  KindInv'
  <2> USE DEF objectVars, procVars
  <2>1. ASSUME made' = made, \A s \in Shms : Named(s)' \subseteq Named(s)
        PROVE  KindInv'
    BY <2>1 DEF KindInv, Shms
  <2>2. ASSUME NEW o \in Objects, shm[p] \in Shms, Map(p, o), o \in Named(shm[p]), UNCHANGED <<made, bound>>
        PROVE  KindInv'
    <3>1. ASSUME NEW s \in Shms, NEW x, x \in Named(s)'
          PROVE  x \in Named(s)
      <4>1. x # 0 /\ (x = bound[s] \/ \E q \in Proc : x = mapped'[q][s] \/ (shm'[q] = s /\ x = fd'[q]))
        BY <2>2, <3>1 DEF Named
      <4>2. CASE x = bound[s]
        BY <4>1, <4>2, NamedIs
      <4>3. ASSUME NEW q \in Proc, x = mapped'[q][s] \/ (shm'[q] = s /\ x = fd'[q])
            PROVE  x \in Named(s)
        <5>1. CASE q # p
          BY <2>2, <4>1, <4>3, <5>1, MapDoes, NamedIs
        <5>2. CASE q = p
          <6>1. mapped'[p][shm[p]] = o /\ fd'[p] = 0 /\ \A u \in Shms : u # shm[p] => mapped'[p][u] = mapped[p][u]
            BY <2>2, MapDoes
          <6> QED
            BY <2>2, <4>1, <4>3, <5>2, <6>1, NamedIs
        <5> QED
          BY <5>1, <5>2
      <4> QED
        BY <4>1, <4>2, <4>3
    <3> QED
      BY <2>1, <2>2, <3>1
  <2>3. CASE Truncate(p)
    <3>1. fd[p] \in Objects /\ shm[p] \in Shms /\ fd[p] # 0
      BY <2>3, Bounds DEF Truncate, ControlInv, Controlled, TypeOK
    <3>2. fd[p] \in Named(shm[p])
      BY <3>1, NamedIs
    <3> QED
      BY <2>2, <2>3, <3>1, <3>2 DEF Truncate
  <2>4. CASE ShmOpen(p) /\ bound[shm[p]] # 0
    <3>1. bound[shm[p]] \in Objects /\ shm[p] \in Shms
      BY <2>4 DEF ShmOpen, ControlInv, Controlled, TypeOK
    <3>2. bound[shm[p]] \in Named(shm[p])
      BY <2>4, <3>1, NamedIs
    <3> QED
      BY <2>2, <2>4, <3>1, <3>2 DEF ShmOpen
  <2>5. ASSUME UNCHANGED <<made, shm, fd, mapped>>, \A s \in Shms : bound'[s] \in {0, bound[s]}
        PROVE  KindInv'
    BY <2>1, <2>5 DEF Named
  <2>6. CASE TruncateFails(p) \/ (ShmOpen(p) /\ bound[shm[p]] = 0) \/ Unlink(p)
    <3>1. UNCHANGED <<made, shm, fd, mapped>> /\ \A s \in Shms : bound'[s] \in {0, bound[s]}
      BY <2>6 DEF TruncateFails, ShmOpen, Unlink, TypeOK
    <3> QED
      BY <2>5, <3>1
  <2>7. CASE LateStep(p)
    BY <2>5, <2>7, LateStepKeeps
  <2>8. ASSUME NEW s \in Shms, ShmOpenExcl(p, s)
        PROVE  KindInv'
    <3>1. shm[p] = "none" /\ fd[p] = 0 /\ mapped' = mapped /\ made \in Nat
      BY <2>8, Bounds DEF ShmOpenExcl, ControlInv, Controlled, TypeOK
    <3>2. \A q \in Proc : q # p => shm'[q] = shm[q] /\ fd'[q] = fd[q]
      BY <1>2, OthersKeep
    <3>3. shm'[p] = s
      BY <2>8 DEF ShmOpenExcl, TypeOK
    <3>4. CASE bound[s] # 0
      <4>1. UNCHANGED <<made, bound, fd>>
        BY <2>8, <3>4 DEF ShmOpenExcl
      <4>2. ASSUME NEW u \in Shms, NEW x, x \in Named(u)'
            PROVE  x \in Named(u)
        <5>1. x # 0 /\ (x = bound[u] \/ \E q \in Proc : x = mapped[q][u] \/ (shm'[q] = u /\ x = fd[q]))
          BY <3>1, <4>1, <4>2 DEF Named
        <5> QED
          BY <3>1, <3>2, <5>1, NamedIs
      <4> QED
        BY <2>1, <4>1, <4>2
    <3>5. CASE bound[s] = 0
      <4>1. made' = made + 1 /\ bound' = [bound EXCEPT ![s] = made + 1] /\ fd' = [fd EXCEPT ![p] = made + 1]
        BY <2>8, <3>5 DEF ShmOpenExcl
      <4>2. fd'[p] = made + 1 /\ \A u \in Shms : bound'[u] = IF u = s THEN made + 1 ELSE bound[u]
        BY <4>1 DEF TypeOK
      <4>3. ASSUME NEW u \in Shms, NEW x, x \in Named(u)'
            PROVE  x \in Named(u) \/ (u = s /\ x = made + 1)
        <5>1. x # 0 /\ (x = bound'[u] \/ \E q \in Proc : x = mapped[q][u] \/ (shm'[q] = u /\ x = fd'[q]))
          BY <3>1, <4>3 DEF Named
        <5> QED
          BY <3>2, <3>3, <4>2, <5>1, NamedIs
      <4>4. \A u \in Shms : \A x \in Named(u) : x <= made /\ x \in Nat
        <5>1. \A u \in Shms : \A x \in Named(u) : x \in Objects
          BY NamedIs DEF TypeOK
        <5> QED
          BY <5>1, Bounds DEF KindInv
      <4>5. \A u \in Shms : \A x \in Named(u)' : x <= made'
        BY <3>1, <4>1, <4>3, <4>4
      <4>6. Named("rb")' \cap Named("ri")' = {}
        <5>1. "rb" \in Shms /\ "ri" \in Shms
          BY DEF Shms
        <5>2. made + 1 \notin Named("rb") /\ made + 1 \notin Named("ri")
          BY <3>1, <4>4, <5>1
        <5> QED
          BY <4>3, <5>1, <5>2 DEF KindInv
      <4> QED
        BY <4>5, <4>6 DEF KindInv
    <3> QED
      BY <3>4, <3>5
  <2> QED
    BY <1>2, <2>3, <2>4, <2>6, <2>7, <2>8 DEF Step, LateStep
<1> QED
  BY <1>1, <1>2, Steps

(* What the initializer's control says of its objects, with those of the   *)
(* other processes left alone.                                             *)
LEMMA SitesKept ==
    ASSUME StoreInv, UNCHANGED stored, mapped'[Initializer] = mapped[Initializer],
           \/ pc'[Initializer] \notin {"construct", "done", "idle"} /\ shm'[Initializer] = shm[Initializer]
           \/ UNCHANGED <<pc, shm>>
           \/ pc'[Initializer] = pc[Initializer] /\ shm'[Initializer] = shm[Initializer]
    PROVE  StoreInv'
<1>1. Site("rb")' = Site("rb") /\ Site("ri")' = Site("ri") /\ Target(Initializer)' = Target(Initializer)
      /\ \A s : Site(s)' = Site(s) /\ Fields(s)' = Fields(s)
  BY DEF Site, Target, Fields
<1> QED
  BY <1>1 DEF StoreInv

(* ... what is constructed, ... *)
LEMMA StoreStep ==
    ASSUME TypeOK, ControlInv, KindInv, StoreInv, [Next]_vars
    PROVE  StoreInv'
<1>1. CASE UNCHANGED vars
  BY <1>1, SitesKept DEF vars, procVars, dataVars
<1>2. ASSUME NEW p \in Proc, Step(p)
      PROVE  StoreInv'
  <2> USE DEF objectVars, dataVars, procVars, Go
  <2>1. UNCHANGED stored \/ Construct(p)
    BY <1>2 DEF Step, ShmOpenExcl, Truncate, TruncateFails, ShmOpen, Unlink, ReadConfig,
                CheckInitialized, CheckRmpInitialized, Alloc, CheckTpInitialized, FirstWrite, Crash
  <2>2. CASE p # Initializer
    <3>1. ~Construct(p)
      BY <2>2 DEF Construct, ControlInv, Controlled
    <3>2. /\ pc'[Initializer] = pc[Initializer] /\ shm'[Initializer] = shm[Initializer]
          /\ mapped'[Initializer] = mapped[Initializer]
      BY <1>2, <2>2, OthersKeep, Bounds
    <3> QED
      BY <2>1, <3>1, <3>2, SitesKept
  <2> SUFFICES ASSUME p = Initializer PROVE StoreInv'
    BY <2>2
  <2>3. Controlled(p)
    BY DEF ControlInv
  <2>4. ASSUME NEW s \in Shms, ShmOpenExcl(p, s)
        PROVE  StoreInv'
    <3>1. /\ UNCHANGED stored /\ mapped' = mapped /\ pc[p] = "idle" /\ shm'[p] = s
          /\ pc'[p] \in {"truncate", "open"} /\ (s = "rb" \/ Site("rb") # 0)
      BY <2>4 DEF ShmOpenExcl, TypeOK, Site
    <3>2. /\ \A u : Site(u)' = Site(u) /\ Fields(u)' = Fields(u)
          /\ stored' = stored
      BY <3>1 DEF Site, Fields
    <3>3. Site("rb") # 0 => stored[Site("rb")] = ToSet(Fields("rb"))
      BY <3>1 DEF StoreInv, Shms
    <3> QED
      BY <3>1, <3>2, <3>3 DEF StoreInv, Shms
  <2>5. ASSUME NEW o \in Objects, pc[p] \in {"truncate", "open"}, Map(p, o), o \in Named(shm[p]),
               UNCHANGED stored
        PROVE  StoreInv'
    <3>0. PICK s \in Shms : s = shm[p]
      BY <2>3, <2>5 DEF Controlled
    <3>1. s \in Shms /\ Site(s) = 0 /\ (s = "rb" \/ Site("rb") # 0) /\ o # 0
          /\ (Site("ri") # 0 => Site("rb") # 0)
      BY <2>3, <2>5, <3>0, Bounds DEF Controlled, Ordered, Site
    <3>2. /\ mapped'[p][s] = o /\ pc'[p] = "construct" /\ shm'[p] = "none"
          /\ \A u \in Shms : u # s => mapped'[p][u] = mapped[p][u]
      BY <2>5, <3>0, <3>1, MapDoes DEF AfterMap, TypeOK
    <3>3. /\ Site(s)' = o /\ (\A u \in Shms : u # s => Site(u)' = Site(u))
          /\ (\A u : Fields(u)' = Fields(u)) /\ stored' = stored
      BY <2>5, <3>2 DEF Site, Fields
    <3>4. Target(p)' = s
      BY <3>1, <3>2 DEF Target, Shms, Site
    <3>5. \A u \in Shms : Site(u) # 0 => Site(u) \in Named(u)
      BY NamedIs DEF Site
    <3>6. o # Site("rb") /\ o # Site("ri")
      <4>1. "rb" \in Shms /\ "ri" \in Shms /\ (s = "rb" \/ s = "ri")
        BY <3>1 DEF Shms
      <4> QED
        BY <2>5, <3>0, <3>1, <3>5, <4>1 DEF KindInv
    <3>7. stored[o] = {}
      BY <3>6 DEF StoreInv
    <3>8. {} \in Stages(Fields(s)) /\ {} # ToSet(Fields(s))
      BY <3>1, FieldsAre DEF Stages
    <3>9. ASSUME NEW x \in Objects, stored[x] # {}
          PROVE  x \in {Site("rb")', Site("ri")'}
      BY <3>1, <3>3, <3>9, Bounds DEF StoreInv, Shms
    <3>10. s = "ri" => stored[Site("rb")] = ToSet(Fields("rb"))
      BY <3>0, <3>1 DEF StoreInv, Shms
    <3>11. ASSUME NEW u \in Shms, u # s, Site(u) # 0
           PROVE  u = "rb" /\ s = "ri"
      BY <3>1, <3>11 DEF Shms
    <3>12. ASSUME NEW u \in Shms, Site(u)' # 0
           PROVE  /\ stored'[Site(u)'] \in Stages(Fields(u))
                  /\ u = s => stored'[Site(u)'] # ToSet(Fields(u))
                  /\ u # s => u = "rb" /\ stored'[Site(u)'] = ToSet(Fields(u))
      <4>1. CASE u = s
        BY <3>3, <3>7, <3>8, <4>1
      <4>2. CASE u # s
        <5>1. Site(u)' = Site(u) /\ u = "rb" /\ s = "ri" /\ Site(u) # 0
          BY <3>3, <3>11, <3>12, <4>2
        <5> QED
          BY <3>3, <3>10, <4>2, <5>1 DEF StoreInv
      <4> QED
        BY <4>1, <4>2
    <3>13. s = "rb" => Site("ri")' = 0
      BY <3>1, <3>3 DEF Shms
    <3> QED
      BY <3>1, <3>2, <3>3, <3>4, <3>9, <3>12, <3>13 DEF StoreInv, Shms
  <2>6. CASE Truncate(p)
    <3>1. fd[p] \in Objects /\ fd[p] # 0 /\ shm[p] \in Shms /\ UNCHANGED stored
      BY <2>3, <2>6, Bounds DEF Truncate, Controlled, TypeOK
    <3>2. fd[p] \in Named(shm[p])
      BY <3>1, NamedIs
    <3> QED
      BY <2>5, <2>6, <3>1, <3>2 DEF Truncate
  <2>7. CASE ShmOpen(p) /\ bound[shm[p]] # 0
    <3>1. bound[shm[p]] \in Objects /\ shm[p] \in Shms /\ UNCHANGED stored
      BY <2>3, <2>7 DEF ShmOpen, Controlled, TypeOK
    <3>2. bound[shm[p]] \in Named(shm[p])
      BY <2>7, <3>1, NamedIs
    <3> QED
      BY <2>5, <2>7, <3>1, <3>2 DEF ShmOpen
  <2>8. CASE TruncateFails(p) \/ (ShmOpen(p) /\ bound[shm[p]] = 0) \/ Crash(p)
    <3>1. UNCHANGED <<stored, shm, mapped>> /\ pc'[p] \in {"threw", "dead"}
      BY <2>8 DEF TruncateFails, ShmOpen, Crash, TypeOK
    <3> QED
      BY <3>1, SitesKept
  <2>9. CASE Construct(p)
    <3> DEFINE s == Target(p)
               f == Fields(s)[Cardinality(stored[Site(s)]) + 1]
    <3>1. s \in Shms /\ Site(s) # 0 /\ Site(s) \in Objects /\ pc[p] = "construct" /\ shm[p] = "none"
      BY <2>3, <2>9 DEF Construct, Controlled, Target, Site, Shms, TypeOK
    <3>2. stored[Site(s)] \in Stages(Fields(s)) /\ stored[Site(s)] # ToSet(Fields(s))
      BY <3>1 DEF StoreInv
    <3>3. UNCHANGED <<mapped, shm>>
      BY <2>9 DEF Construct
    <3>4. (\A u : Site(u)' = Site(u) /\ Fields(u)' = Fields(u)) /\ Target(p)' = s
      BY <3>3 DEF Site, Fields, Target
    <3>5. CASE ~sized[Site(s)]
      <4>1. UNCHANGED stored /\ pc'[p] = "bus"
        BY <2>9, <3>5 DEF Construct, Site, TypeOK
      <4> QED
        BY <3>3, <4>1, SitesKept
    <3>6. CASE sized[Site(s)]
      <4>1. /\ stored' = [stored EXCEPT ![Site(s)] = @ \cup {f}]
            /\ pc' = [pc EXCEPT ![p] = IF Cardinality(stored[Site(s)]) + 1 # Len(Fields(s))
                                       THEN "construct" ELSE IF s = "rb" THEN "idle" ELSE "done"]
        BY <2>9, <3>6 DEF Construct, Site
      <4>2. /\ stored[Site(s)] \cup {f} \in Stages(Fields(s))
            /\ stored[Site(s)] \cup {f} = ToSet(Fields(s)) <=>
                   Cardinality(stored[Site(s)]) + 1 = Len(Fields(s))
        BY <3>1, <3>2, NextField
      <4> HIDE DEF f, s
      <4>3. /\ stored'[Site(s)] = stored[Site(s)] \cup {f}
            /\ \A o \in Objects : o # Site(s) => stored'[o] = stored[o]
        BY <3>1, <4>1 DEF TypeOK
      <4>4. pc'[p] = IF stored'[Site(s)] # ToSet(Fields(s)) THEN "construct"
                     ELSE IF s = "rb" THEN "idle" ELSE "done"
        BY <4>1, <4>2, <4>3 DEF TypeOK
      <4>5. ASSUME NEW o \in Objects, stored'[o] # {}
            PROVE  o \in {Site("rb"), Site("ri")}
        BY <3>1, <4>3, <4>5 DEF StoreInv, Shms
      <4>6. ASSUME NEW u \in Shms, u # s, Site(u) # 0
            PROVE  u = "rb" /\ s = "ri" /\ stored'[Site(u)] = ToSet(Fields(u))
                   /\ stored'[Site(u)] \in Stages(Fields(u))
        <5>1. u = "rb" /\ s = "ri"
          BY <3>1, <4>6 DEF Target, Shms, Site, s
        <5>2. stored[Site(u)] = ToSet(Fields(u)) /\ stored[Site(u)] \in Stages(Fields(u))
          BY <3>1, <4>6, <5>1 DEF StoreInv
        <5>3. Site(u) # Site(s) /\ Site(u) \in Objects
          <6>1. Site(u) \in Named(u) /\ Site(s) \in Named(s)
            BY <3>1, <4>6, NamedIs DEF Site
          <6>2. Site(u) \in Objects
            BY <4>6 DEF Site, TypeOK
          <6> QED
            BY <5>1, <6>1, <6>2 DEF KindInv
        <5> QED
          BY <4>3, <5>1, <5>2, <5>3
      <4>7. stored'[Site(s)] \in Stages(Fields(s))
        BY <4>2, <4>3
      <4>8. pc'[p] = "done" => s = "ri" /\ stored'[Site(s)] = ToSet(Fields(s))
        BY <3>1, <4>4 DEF Shms
      <4>9. pc'[p] = "idle" => s = "rb" /\ stored'[Site(s)] = ToSet(Fields(s))
        BY <4>4
      <4>10. pc'[p] = "construct" => stored'[Site(s)] # ToSet(Fields(s))
        BY <4>4
      <4>11. s = "rb" => Site("ri") = 0
        BY DEF s, Target, Site
      <4>12. ASSUME NEW u \in Shms, Site(u) # 0
             PROVE  /\ stored'[Site(u)] \in Stages(Fields(u))
                    /\ pc'[p] = "construct" /\ u = s => stored'[Site(u)] # ToSet(Fields(u))
                    /\ pc'[p] = "done" \/ (u = "rb" /\ (pc'[p] = "idle" \/ shm[p] = "ri" \/ Site("ri") # 0)) =>
                           stored'[Site(u)] = ToSet(Fields(u))
        BY <3>1, <4>6, <4>7, <4>8, <4>9, <4>10, <4>11, <4>12
      <4> QED
        BY <3>3, <3>4, <4>5, <4>12 DEF StoreInv
    <3> QED
      BY <3>5, <3>6
  <2>10. p \notin Readers \cup Writers \cup Unlinkers /\ p \in Ordered
    BY Bounds DEF Ordered
  <2>11. ~(ReadConfig(p) \/ CheckInitialized(p) \/ CheckRmpInitialized(p) \/ Alloc(p)
           \/ CheckTpInitialized(p) \/ FirstWrite(p) \/ Unlink(p))
    BY <2>3, <2>10 DEF ReadConfig, CheckInitialized, CheckRmpInitialized, Alloc, CheckTpInitialized,
                       FirstWrite, Unlink, Controlled, Checked
  <2> QED
    BY <1>2, <2>4, <2>6, <2>7, <2>8, <2>9, <2>11 DEF Step
<1> QED
  BY <1>1, <1>2, Steps

------------------------------------------------------------------------------
(* Fields are added, never taken away. *)
LEMMA StoredGrows ==
    ASSUME TypeOK, NEW p \in Proc, Step(p), NEW o \in Objects
    PROVE  stored[o] \subseteq stored'[o]
<1>1. CASE Construct(p)
  BY <1>1 DEF Construct, TypeOK
<1>2. CASE ~Construct(p)
  BY <1>2 DEF Step, ShmOpenExcl, Truncate, TruncateFails, ShmOpen, Unlink, ReadConfig, CheckInitialized,
              CheckRmpInitialized, Alloc, CheckTpInitialized, FirstWrite, Crash, dataVars
<1> QED
  BY <1>1, <1>2

(* An object with fields is the one the initializer has under that name. *)
LEMMA SiteOnly ==
    ASSUME TypeOK, KindInv, StoreInv, NEW p \in Proc, NEW s \in Shms,
           mapped[p][s] # 0, stored[mapped[p][s]] # {}
    PROVE  mapped[p][s] = Site(s) /\ stored[mapped[p][s]] \in Stages(Fields(s))
<1>1. mapped[p][s] \in Objects /\ mapped[p][s] \in Named(s)
  BY NamedIs DEF TypeOK
<1>2. mapped[p][s] = Site("rb") \/ mapped[p][s] = Site("ri")
  BY <1>1 DEF StoreInv
<1>3. \A u \in Shms : Site(u) # 0 => Site(u) \in Named(u)
  BY Bounds, NamedIs DEF Site
<1>4. mapped[p][s] = Site(s)
  <2>1. "rb" \in Shms /\ "ri" \in Shms /\ (s = "rb" \/ s = "ri")
    BY DEF Shms
  <2> QED
    BY <1>1, <1>2, <1>3, <2>1 DEF KindInv
<1> QED
  BY <1>4 DEF StoreInv

(* An object with its last field has all of them. *)
LEMMA LastIsAll ==
    ASSUME TypeOK, KindInv, StoreInv, NEW p \in Proc, NEW s \in Shms,
           mapped[p][s] # 0, Fields(s)[4] \in stored[mapped[p][s]]
    PROVE  stored[mapped[p][s]] = ToSet(Fields(s))
<1> DEFINE S == stored[mapped[p][s]]
           f == Fields(s)
<1>1. S \in Stages(f)
  BY SiteOnly
<1>2. Distinct(f) /\ ToSet(f) = {f[1], f[2], f[3], f[4]}
  BY FieldsAre
<1>3. f[4] \in S
  OBVIOUS
<1> HIDE DEF S, f
<1>4. S = {f[1], f[2], f[3], f[4]}
  BY <1>1, <1>2, <1>3 DEF Stages, Distinct
<1> QED
  BY <1>2, <1>4 DEF S, f

(* So the flag of the ring buffer says that all of it is constructed, and  *)
(* the one of the rmp reader info that all of the reader info is.          *)
LEMMA FlagsAreLast ==
    ASSUME TypeOK, KindInv, StoreInv, NEW p \in Proc
    PROVE  /\ mapped[p]["rb"] # 0 /\ "initialized" \in In(p, "rb") => In(p, "rb") = ToSet(RingBuffer)
           /\ mapped[p]["ri"] # 0 /\ "rmp.initialized" \in In(p, "ri") => In(p, "ri") = ToSet(ReaderInfo)
<1>1. "rb" \in Shms /\ "ri" \in Shms /\ Fields("rb") = RingBuffer /\ Fields("ri") = ReaderInfo
  BY DEF Shms, Fields
<1>2. RingBuffer[4] = "initialized" /\ ReaderInfo[4] = "rmp.initialized"
  BY DEF RingBuffer, ReaderInfo
<1> QED
  BY <1>1, <1>2, LastIsAll DEF In

LEMMA SomeFields ==
    /\ "initialized" \in ToSet(ReaderInfo) /\ {"_readersMinMax", "infos"} \subseteq ToSet(ReaderInfo)
    /\ {"configBufSizeBytes", "initialized"} \subseteq ToSet(RingBuffer)
    /\ "rmp.initialized" \in ToSet(ReaderInfo)
<1>1. "rb" \in Shms /\ "ri" \in Shms /\ Fields("rb") = RingBuffer /\ Fields("ri") = ReaderInfo
  BY DEF Shms, Fields
<1>2. /\ ToSet(RingBuffer) = {RingBuffer[1], RingBuffer[2], RingBuffer[3], RingBuffer[4]}
      /\ ToSet(ReaderInfo) = {ReaderInfo[1], ReaderInfo[2], ReaderInfo[3], ReaderInfo[4]}
  BY <1>1, FieldsAre
<1> QED
  BY <1>2 DEF RingBuffer, ReaderInfo

(* A process that tests or has tested a flag maps what it mapped before. *)
LEMMA AttachedKeepsMap ==
    ASSUME TypeOK, ControlInv, NEW p \in Proc, Step(p), pc'[p] \in {"flag"} \cup Checked
    PROVE  LateStep(p) /\ mapped'[p] = mapped[p] /\ \A s \in Shms : mapped[p][s] # 0
<1> USE DEF Go, TypeOK, Checked
<1>1. ASSUME NEW s \in Shms, ShmOpenExcl(p, s)
      PROVE  FALSE
  BY <1>1 DEF ShmOpenExcl
<1>2. ~Truncate(p) /\ ~ShmOpen(p)
  BY DEF Truncate, ShmOpen, Map
<1>3. ~TruncateFails(p) /\ ~Unlink(p)
  BY DEF TruncateFails, Unlink
<1>4. LateStep(p) /\ mapped'[p] = mapped[p]
  BY <1>1, <1>2, <1>3, LateStepKeeps DEF Step, LateStep
<1>5. pc[p] \in {"config", "flag"} \cup Checked
  BY <1>4 DEF LateStep, Construct, ReadConfig, CheckInitialized, CheckRmpInitialized, Alloc,
              CheckTpInitialized, FirstWrite, Crash, Touch
<1> QED
  BY <1>4, <1>5 DEF ControlInv, Controlled

(* ... the flags that were found, ... *)
LEMMA AttachStep ==
    ASSUME TypeOK, ControlInv, AttachInv, [Next]_vars
    PROVE  AttachInv'
<1>1. CASE UNCHANGED vars
  BY <1>1 DEF vars, procVars, dataVars, AttachInv, In
<1>2. ASSUME NEW p \in Proc, Step(p)
      PROVE  AttachInv'
  <2>1. ASSUME NEW q \in Proc, NEW s \in Shms, mapped[q][s] # 0, mapped'[q] = mapped[q]
        PROVE  In(q, s) \subseteq In(q, s)'
    <3>1. mapped[q][s] \in Objects
      BY <2>1 DEF TypeOK
    <3> QED
      BY <1>2, <2>1, <3>1, StoredGrows DEF In
  <2>2. "rb" \in Shms /\ "ri" \in Shms
    BY DEF Shms
  <2>3. ASSUME NEW q \in Proc, q # p
        PROVE  /\ pc'[q] \in Checked => "initialized" \in In(q, "rb")'
               /\ pc'[q] \in {"alloc", "tp"} \/ (q \in Readers /\ pc'[q] = "attached") =>
                      "rmp.initialized" \in In(q, "ri")'
    <3>1. pc'[q] = pc[q] /\ mapped'[q] = mapped[q]
      BY <1>2, <2>3, OthersKeep
    <3>2. pc[q] \in Checked => \A s \in Shms : mapped[q][s] # 0
      BY DEF ControlInv, Controlled
    <3> QED
      BY <2>1, <2>2, <3>1, <3>2 DEF AttachInv, Checked
  <2>4. ASSUME pc'[p] \in Checked
        PROVE  /\ "initialized" \in In(p, "rb")'
               /\ pc'[p] \in {"alloc", "tp"} \/ (p \in Readers /\ pc'[p] = "attached") =>
                      "rmp.initialized" \in In(p, "ri")'
    <3>1. LateStep(p) /\ mapped'[p] = mapped[p] /\ mapped[p]["rb"] # 0 /\ mapped[p]["ri"] # 0
      BY <1>2, <2>2, <2>4, AttachedKeepsMap
    <3>2. In(p, "rb") \subseteq In(p, "rb")' /\ In(p, "ri") \subseteq In(p, "ri")'
      BY <2>1, <2>2, <3>1
    <3>3. "initialized" \in In(p, "rb")
      BY <2>4, <3>1 DEF LateStep, Construct, ReadConfig, CheckInitialized, CheckRmpInitialized, Alloc,
                    CheckTpInitialized, FirstWrite, Crash, Touch, Go, TypeOK, AttachInv, Checked
    <3>4. ASSUME pc'[p] \in {"alloc", "tp"} \/ (p \in Readers /\ pc'[p] = "attached")
          PROVE  "rmp.initialized" \in In(p, "ri")
      BY <2>4, <3>1, <3>4 DEF LateStep, Construct, ReadConfig, CheckInitialized, CheckRmpInitialized,
                    Alloc, CheckTpInitialized, FirstWrite, Crash, Touch, Go, TypeOK, AttachInv, Checked
    <3> QED
      BY <3>2, <3>3, <3>4
  <2> QED
    BY <2>3, <2>4 DEF AttachInv, Checked
<1> QED
  BY <1>1, <1>2, Steps

(* ... the slots that are held, ... *)
LEMMA HeldStep ==
    ASSUME TypeOK, ControlInv, KindInv, StoreInv, AttachInv, HeldInv, [Next]_vars
    PROVE  HeldInv'
<1>1. CASE UNCHANGED vars
  BY <1>1 DEF vars, procVars, dataVars, HeldInv
<1>2. ASSUME NEW p \in Proc, Step(p)
      PROVE  HeldInv'
  <2> SUFFICES ASSUME NEW o \in Objects, NEW q \in held'[o]
               PROVE  /\ q \in Readers /\ o = mapped'[q]["ri"] /\ pc'[q] \in {"tp", "attached", "dead"}
                      /\ "rmp.initialized" \in stored'[o]
    BY DEF HeldInv
  <2>1. stored[o] \subseteq stored'[o]
    BY <1>2, StoredGrows
  <2>2. CASE Alloc(p) /\ q = p /\ q \notin held[o]
    <3>1. /\ p \in Readers /\ "rmp.initialized" \in In(p, "ri") /\ mapped[p]["ri"] \in Objects
          /\ mapped' = mapped /\ stored' = stored
      BY <2>2 DEF Alloc, ControlInv, Controlled, AttachInv, TypeOK, Checked, Shms, procVars
    <3>2. o = mapped[p]["ri"] /\ pc'[p] = "tp"
      BY <2>2, <3>1 DEF Alloc, Go, TypeOK
    <3> QED
      BY <2>2, <3>1, <3>2 DEF In
  <2>3. ASSUME q \in held[o]
        PROVE  /\ q \in Readers /\ o = mapped'[q]["ri"] /\ pc'[q] \in {"tp", "attached", "dead"}
               /\ "rmp.initialized" \in stored'[o]
    <3>1. q \in Readers /\ o = mapped[q]["ri"] /\ pc[q] \in {"tp", "attached", "dead"}
          /\ "rmp.initialized" \in stored[o] /\ q \in Proc
      BY <2>3, Bounds DEF HeldInv
    <3>2. CASE q # p
      BY <1>2, <2>1, <3>1, <3>2, OthersKeep
    <3>3. CASE q = p /\ CheckTpInitialized(p)
      <4>1. "rmp.initialized" \in In(p, "ri") /\ mapped[p]["ri"] # 0
        BY <3>1, <3>3, Bounds DEF In
      <4>2. "initialized" \in In(p, "ri")
        BY <4>1, FlagsAreLast, SomeFields
      <4> QED
        BY <2>1, <3>1, <3>3, <4>2 DEF CheckTpInitialized, Go, TypeOK, procVars
    <3>4. CASE q = p /\ Crash(p)
      BY <2>1, <3>1, <3>4 DEF Crash, Go, TypeOK, procVars
    <3>5. CASE q = p /\ ~CheckTpInitialized(p) /\ ~Crash(p)
      <4>1. FALSE
        BY <1>2, <3>1, <3>5, Bounds DEF Step, ShmOpenExcl, Truncate, TruncateFails, ShmOpen, Unlink,
             Construct, ReadConfig, CheckInitialized, CheckRmpInitialized, Alloc, FirstWrite
      <4> QED
        BY <4>1
    <3> QED
      BY <3>2, <3>3, <3>4, <3>5
  <2>4. q \in held[o] \/ (Alloc(p) /\ q = p)
    <3>1. CASE Alloc(p)
      <4>1. held' = [held EXCEPT ![mapped[p]["ri"]] = Live(held[mapped[p]["ri"]]) \cup {p}] \/ held' = held
        BY <3>1 DEF Alloc
      <4>2. \A S : Live(S) \subseteq S
        BY DEF Live
      <4> QED
        BY <3>1, <4>1, <4>2 DEF TypeOK
    <3>2. CASE CheckTpInitialized(p)
      BY <3>2 DEF CheckTpInitialized, TypeOK
    <3>3. CASE ~Alloc(p) /\ ~CheckTpInitialized(p)
      <4>1. held' = held
        BY <1>2, <3>3 DEF Step, ShmOpenExcl, Truncate, TruncateFails, ShmOpen, Unlink, Construct,
             ReadConfig, CheckInitialized, CheckRmpInitialized, FirstWrite, Crash, dataVars
      <4> QED
        BY <4>1
    <3> QED
      BY <3>1, <3>2, <3>3
  <2> QED
    BY <2>2, <2>3, <2>4
<1> QED
  BY <1>1, <1>2, Steps

(* Once a name is unlinked or somebody began too early, that stays so. *)
LEMMA HistoryStays ==
    ASSUME NEW p \in Proc, Step(p)
    PROVE  (gone => gone') /\ (early => early')
<1>1. ASSUME NEW s \in Shms, ShmOpenExcl(p, s)
      PROVE  (gone => gone') /\ (early => early')
  <2>1. (early => early') /\ gone' = gone
    BY <1>1, Zenon DEF ShmOpenExcl
  <2> QED
    BY <2>1
<1>2. CASE LateStep(p)
  BY <1>2, LateStepKeeps DEF histVars
<1>3. CASE Truncate(p) \/ TruncateFails(p) \/ ShmOpen(p) \/ Unlink(p)
  BY <1>3 DEF Truncate, TruncateFails, ShmOpen, Unlink, histVars
<1> QED
  BY <1>1, <1>2, <1>3 DEF Step, LateStep

(* ... that names and mappings agree, ... *)
LEMMA SameStep ==
    ASSUME TypeOK, ControlInv, SameInv, [Next]_vars
    PROVE  SameInv'
<1>1. CASE UNCHANGED vars
  BY <1>1 DEF vars, procVars, objectVars, histVars, SameInv
<1>2. ASSUME NEW p \in Proc, Step(p), ~gone'
      PROVE  SameInv'
  <2> USE DEF objectVars, procVars
  <2>1. /\ \A q \in Proc, s \in Shms : mapped[q][s] \in {0, bound[s]}
        /\ \A q \in Proc : pc[q] = "truncate" => fd[q] = bound[shm[q]] /\ fd[q] # 0 /\ shm[q] \in Shms
    BY <1>2, HistoryStays DEF SameInv, ControlInv, Controlled
  <2>2. \A q \in Proc : q # p => /\ pc'[q] = pc[q] /\ shm'[q] = shm[q] /\ fd'[q] = fd[q]
                                /\ mapped'[q] = mapped[q]
    BY <1>2, OthersKeep
  <2>3. ASSUME NEW s \in Shms, ShmOpenExcl(p, s)
        PROVE  SameInv'
    <3>1. mapped' = mapped /\ shm'[p] = s
      BY <2>3 DEF ShmOpenExcl, TypeOK
    <3>2. CASE bound[s] = 0
      <4>1. fd'[p] = made + 1 /\ \A u \in Shms : bound'[u] = IF u = s THEN made + 1 ELSE bound[u]
        BY <2>3, <3>2 DEF ShmOpenExcl, TypeOK
      <4>2. \A q \in Proc, u \in Shms : mapped'[q][u] \in {0, bound'[u]}
        BY <2>1, <3>1, <3>2, <4>1
      <4>3. ASSUME NEW q \in Proc, pc'[q] = "truncate"
            PROVE  fd'[q] = bound'[shm'[q]]
        BY <2>1, <2>2, <3>1, <3>2, <4>1, <4>3
      <4> QED
        BY <4>2, <4>3 DEF SameInv
    <3>3. CASE bound[s] # 0
      <4>1. bound' = bound /\ pc'[p] = "open"
        BY <2>3, <3>3 DEF ShmOpenExcl, Go, TypeOK
      <4> QED
        BY <2>1, <2>2, <3>1, <4>1 DEF SameInv
    <3> QED
      BY <3>2, <3>3
  <2>4. ASSUME NEW o \in Objects, shm[p] \in Shms, Map(p, o), o = bound[shm[p]], bound' = bound
        PROVE  SameInv'
    <3>1. /\ mapped'[p][shm[p]] = o /\ \A s \in Shms : s # shm[p] => mapped'[p][s] = mapped[p][s]
          /\ pc' = [pc EXCEPT ![p] = AfterMap(p)]
      BY <2>4, MapDoes
    <3>2. pc'[p] # "truncate"
      BY <3>1 DEF AfterMap, TypeOK
    <3>3. \A s \in Shms : mapped'[p][s] \in {0, bound'[s]}
      BY <2>1, <2>4, <3>1
    <3> QED
      BY <2>1, <2>2, <2>4, <3>2, <3>3 DEF SameInv
  <2>5. CASE Truncate(p)
    <3>1. pc[p] = "truncate" /\ fd[p] \in Objects /\ shm[p] \in Shms /\ fd[p] = bound[shm[p]]
      BY <2>1, <2>5 DEF Truncate, TypeOK
    <3> QED
      BY <2>4, <2>5, <3>1 DEF Truncate
  <2>6. CASE ShmOpen(p) /\ bound[shm[p]] # 0
    <3>1. bound[shm[p]] \in Objects /\ shm[p] \in Shms
      BY <2>6 DEF ShmOpen, ControlInv, Controlled, TypeOK
    <3> QED
      BY <2>4, <2>6, <3>1 DEF ShmOpen
  <2>7. ASSUME UNCHANGED <<bound, shm, fd, mapped>>, pc'[p] # "truncate"
        PROVE  SameInv'
    BY <2>1, <2>2, <2>7 DEF SameInv
  <2>8. CASE (ShmOpen(p) /\ bound[shm[p]] = 0) \/ TruncateFails(p) \/ Unlink(p)
    <3>1. UNCHANGED <<bound, shm, fd, mapped>> /\ pc'[p] # "truncate"
      BY <1>2, <2>8 DEF ShmOpen, TruncateFails, Unlink, Go, TypeOK
    <3> QED
      BY <2>7, <3>1
  <2>9. CASE LateStep(p)
    <3>1. pc'[p] # "truncate"
      BY <2>9 DEF LateStep, Construct, ReadConfig, CheckInitialized, CheckRmpInitialized, Alloc,
                  CheckTpInitialized, FirstWrite, Crash, Touch, Go, TypeOK
    <3> QED
      BY <2>7, <2>9, <3>1, LateStepKeeps
  <2> QED
    BY <1>2, <2>3, <2>5, <2>6, <2>8, <2>9 DEF Step, LateStep
<1>3. CASE gone'
  BY <1>3 DEF SameInv
<1> QED
  BY <1>1, <1>2, <1>3, Steps

(* A slot is refused only to more readers than there are slots. *)
LEMMA SlotsTaken ==
    ASSUME TypeOK, ControlInv, HeldInv, NEW p \in Proc, Alloc(p), pc'[p] # "tp"
    PROVE  Cardinality(Readers) > MaxReaders /\ pc'[p] = "threw" /\ p \in Readers
<1> DEFINE o == mapped[p]["ri"]
           owners == Live(held[o])
<1>1. pc[p] = "alloc" /\ p \in Readers /\ o \in Objects
  BY DEF Alloc, ControlInv, Controlled, TypeOK, Checked, Shms
<1>2. ~(Cardinality(owners) < MaxReaders) /\ pc'[p] = "threw"
  BY DEF Alloc, Go, TypeOK
<1>3. owners \subseteq Readers /\ p \notin owners
  BY <1>1 DEF Live, TypeOK, HeldInv
<1> HIDE DEF owners
<1>4. IsFiniteSet(Readers) /\ IsFiniteSet(owners)
  BY <1>3, Bounds, FS_Subset
<1>5. Cardinality(owners \cup {p}) = Cardinality(owners) + 1
  BY <1>3, <1>4, FS_AddElement
<1>6. owners \cup {p} \in SUBSET Readers
  BY <1>1, <1>3
<1>7. Cardinality(owners \cup {p}) <= Cardinality(Readers)
  BY <1>4, <1>6, FS_Subset
<1>8. Cardinality(owners) \in Nat /\ Cardinality(Readers) \in Nat
  BY <1>4, FS_CardinalityType
<1> QED
  BY <1>1, <1>2, <1>5, <1>7, <1>8, Bounds

(* Sizes are given, never taken away. *)
LEMMA SizedStays ==
    ASSUME TypeOK, NEW p \in Proc, Step(p), NEW o \in Objects, sized[o]
    PROVE  sized'[o]
<1>1. CASE Truncate(p)
  BY <1>1 DEF Truncate, TypeOK
<1>2. CASE ~Truncate(p)
  BY <1>2 DEF Step, ShmOpenExcl, TruncateFails, ShmOpen, Unlink, Construct, ReadConfig, CheckInitialized,
              CheckRmpInitialized, Alloc, CheckTpInitialized, FirstWrite, Crash, objectVars
<1> QED
  BY <1>1, <1>2

(* What the initializer does in an orderly start, before it is done; the   *)
(* others have not begun.                                                  *)
LEMMA InitializerOrder ==
    ASSUME TypeOK, ControlInv, SameInv, InitializerFirst, \A q \in Proc : InOrder(q),
           Step(Initializer), ~gone', ~gone
    PROVE  InitializerFirst' /\ InOrder(Initializer)' /\ pc[Initializer] # "done"
<1> DEFINE p == Initializer
<1> USE DEF objectVars, procVars, Go
<1>1. /\ p \in Proc /\ Controlled(p) /\ InOrder(p) /\ p \in Ordered
      /\ p \notin Readers \cup Writers \cup Unlinkers
  BY Bounds DEF ControlInv, Ordered
<1>2. pc[p] # "done"
  BY <1>1 DEF Step, ShmOpenExcl, Truncate, TruncateFails, ShmOpen, Unlink, Construct, ReadConfig,
              CheckInitialized, CheckRmpInitialized, Alloc, CheckTpInitialized, FirstWrite, Crash
<1>3. /\ \A q \in Proc \ {p} : NotBegun(q)
      /\ \A s \in Shms : bound[s] # 0 => Site(s) # 0 \/ shm[p] = s
      /\ pc[p] # "open"
  BY <1>2 DEF InitializerFirst
<1>4. \A q \in Proc \ {p} : NotBegun(q)'
  <2> SUFFICES ASSUME NEW q \in Proc, q # p PROVE NotBegun(q)'
    OBVIOUS
  <2>1. pc'[q] = pc[q] /\ shm'[q] = shm[q] /\ mapped'[q] = mapped[q]
    BY <1>1, OthersKeep
  <2> QED
    BY <1>3, <2>1 DEF NotBegun
<1>5. ASSUME NEW s \in Shms, ShmOpenExcl(p, s)
      PROVE  InitializerFirst' /\ InOrder(p)'
  <2>1. shm[p] = "none" /\ Site(s) = 0 /\ s # "none"
    BY <1>1, <1>5 DEF ShmOpenExcl, Controlled, Site, Shms
  <2>2. bound[s] = 0
    BY <1>3, <2>1
  <2>3. /\ pc'[p] = "truncate" /\ shm'[p] = s /\ UNCHANGED <<mapped, sized, mask>>
        /\ \A u \in Shms : u # s => bound'[u] = bound[u]
    BY <1>1, <1>5, <2>2 DEF ShmOpenExcl, TypeOK
  <2>4. \A u \in Shms : Site(u)' = Site(u) /\ u # "none"
    BY <2>3 DEF Site, Shms
  <2>5. ASSUME NEW u \in Shms, bound'[u] # 0
        PROVE  Site(u)' # 0 \/ shm'[p] = u
    BY <1>3, <2>1, <2>3, <2>4, <2>5
  <2>6. InitializerFirst'
    BY <1>4, <2>3, <2>5 DEF InitializerFirst
  <2> QED
    BY <1>1, <2>3, <2>6 DEF InOrder, Checked
<1>6. CASE Truncate(p)
  <2>1. fd[p] \in Objects /\ shm[p] \in Shms /\ Map(p, fd[p]) /\ fd[p] # 0 /\ pc[p] = "truncate"
    BY <1>1, <1>6 DEF Truncate, Controlled, TypeOK
  <2>2. /\ pc' = [pc EXCEPT ![p] = AfterMap(p)] /\ mapped'[p][shm[p]] = fd[p]
        /\ \A s \in Shms : s # shm[p] => mapped'[p][s] = mapped[p][s]
    BY <1>1, <2>1, MapDoes
  <2>3. pc'[p] = "construct" /\ UNCHANGED <<bound, mask>>
    BY <1>1, <1>6, <2>2 DEF AfterMap, TypeOK, Truncate
  <2>4. sized'[fd[p]] /\ \A o \in Objects : sized[o] => sized'[o]
    BY <1>1, <1>6, <2>1 DEF Truncate, TypeOK
  <2>5. ASSUME NEW s \in Shms, mapped'[p][s] # 0
        PROVE  sized'[mapped'[p][s]]
    <3>1. CASE s = shm[p]
      BY <2>2, <2>4, <3>1
    <3>2. CASE s # shm[p]
      BY <1>1, <2>2, <2>4, <2>5, <3>2 DEF InOrder, TypeOK
    <3> QED
      BY <3>1, <3>2
  <2>6. ASSUME NEW s \in Shms, bound'[s] # 0
        PROVE  Site(s)' # 0
    BY <1>3, <2>1, <2>2, <2>3, <2>6 DEF Site
  <2>7. InitializerFirst'
    BY <1>4, <2>3, <2>6 DEF InitializerFirst
  <2>8. pc'[p] \notin {"flag", "bus", "threw"} \cup Checked
    BY <2>3 DEF Checked
  <2> QED
    BY <1>2, <2>5, <2>7, <2>8 DEF InOrder
<1>7. ~TruncateFails(p) /\ ~ShmOpen(p) /\ ~Unlink(p)
  BY <1>1, <1>3 DEF TruncateFails, ShmOpen, Unlink, Controlled
<1>8. CASE Construct(p)
  <2>1. mapped[p][Target(p)] # 0 /\ Target(p) \in Shms
    BY <1>1, <1>8 DEF Construct, Controlled, Target, Shms
  <2>2. sized[mapped[p][Target(p)]]
    BY <1>1, <2>1 DEF InOrder
  <2>3. pc'[p] \in {"construct", "idle", "done"} /\ UNCHANGED <<bound, shm, mapped, sized, mask>>
    BY <1>1, <1>8, <2>2 DEF Construct, TypeOK
  <2>4. \A s : Site(s)' = Site(s)
    BY <2>3 DEF Site
  <2>5. InitializerFirst'
    BY <1>3, <1>4, <2>3, <2>4 DEF InitializerFirst
  <2>6. pc'[p] \notin {"flag", "bus", "threw"} \cup Checked
    BY <2>3 DEF Checked
  <2>7. \A s \in Shms : mapped'[p][s] # 0 => sized'[mapped'[p][s]]
    BY <1>1, <2>3 DEF InOrder
  <2> QED
    BY <1>2, <2>5, <2>6, <2>7 DEF InOrder
<1>9. CASE Crash(p)
  <2>1. pc'[p] = "dead" /\ UNCHANGED <<bound, shm, mapped, sized, mask>>
    BY <1>1, <1>9 DEF Crash, TypeOK
  <2>2. \A s : Site(s)' = Site(s)
    BY <2>1 DEF Site
  <2>3. InitializerFirst'
    BY <1>3, <1>4, <2>1, <2>2 DEF InitializerFirst
  <2>4. pc'[p] \notin {"flag", "bus", "threw"} \cup Checked
    BY <2>1 DEF Checked
  <2>5. \A s \in Shms : mapped'[p][s] # 0 => sized'[mapped'[p][s]]
    BY <1>1, <2>1 DEF InOrder
  <2> QED
    BY <1>2, <2>3, <2>4, <2>5 DEF InOrder
<1>10. ~(ReadConfig(p) \/ CheckInitialized(p) \/ CheckRmpInitialized(p) \/ Alloc(p)
         \/ CheckTpInitialized(p) \/ FirstWrite(p))
  BY <1>1 DEF ReadConfig, CheckInitialized, CheckRmpInitialized, Alloc, CheckTpInitialized,
              FirstWrite, Controlled, Checked
<1> QED
  BY <1>2, <1>5, <1>6, <1>7, <1>8, <1>9, <1>10 DEF Step

(* What the others do once the initializer is done. *)
LEMMA OthersOrder ==
    ASSUME TypeOK, ControlInv, KindInv, StoreInv, AttachInv, HeldInv, SameInv, \A q \in Proc : InOrder(q),
           NEW p \in Proc, p # Initializer, Step(p), pc[Initializer] = "done", ~gone', ~gone
    PROVE  InOrder(p)'
<1> USE DEF objectVars, procVars, Go
<1>1. Controlled(p) /\ InOrder(p) /\ Initializer \in Proc
  BY Bounds DEF ControlInv
<1>2. \A s \in Shms : /\ Site(s) # 0 /\ bound[s] = Site(s) /\ bound[s] \in Objects /\ sized[bound[s]]
                     /\ stored[Site(s)] = ToSet(Fields(s))
  <2> SUFFICES ASSUME NEW s \in Shms
               PROVE  /\ Site(s) # 0 /\ bound[s] = Site(s) /\ bound[s] \in Objects /\ sized[bound[s]]
                      /\ stored[Site(s)] = ToSet(Fields(s))
    OBVIOUS
  <2>1. Site(s) # 0 /\ Site(s) = bound[s]
    BY <1>1 DEF ControlInv, Controlled, SameInv, Site
  <2>2. sized[Site(s)]
    BY <1>1, <2>1 DEF InOrder, Site
  <2>3. bound[s] \in Objects
    BY <2>1 DEF TypeOK
  <2> QED
    BY <2>1, <2>2, <2>3 DEF StoreInv
<1>3. \A s \in Shms : mapped[p][s] # 0 =>
        mapped[p][s] = bound[s] /\ In(p, s) = ToSet(Fields(s)) /\ sized[mapped[p][s]]
  BY <1>2 DEF SameInv, In
<1>4. pc'[Initializer] = "done"
  BY <1>1, OthersKeep
<1>5. ASSUME NEW s \in Shms, ShmOpenExcl(p, s)
      PROVE  InOrder(p)'
  <2>1. pc'[p] = "open" /\ UNCHANGED <<mapped, sized, mask>>
    BY <1>2, <1>5 DEF ShmOpenExcl, TypeOK
  <2> QED
    BY <1>1, <2>1 DEF InOrder, Checked
<1>6. ~Truncate(p) /\ ~TruncateFails(p)
  BY <1>1 DEF Truncate, TruncateFails, InOrder
<1>7. CASE ShmOpen(p)
  <2>1. shm[p] \in Shms
    BY <1>1, <1>7 DEF ShmOpen, Controlled
  <2>2. Map(p, bound[shm[p]]) /\ bound[shm[p]] \in Objects /\ UNCHANGED <<sized, mask>>
    BY <1>2, <1>7, <2>1, Bounds DEF ShmOpen
  <2>3. /\ pc' = [pc EXCEPT ![p] = AfterMap(p)] /\ mapped'[p][shm[p]] = bound[shm[p]]
        /\ \A s \in Shms : s # shm[p] => mapped'[p][s] = mapped[p][s]
    BY <2>1, <2>2, MapDoes
  <2>4. pc'[p] \in {"construct", "unlink", "config", "idle"}
    BY <2>3 DEF AfterMap, TypeOK
  <2>5. ASSUME NEW s \in Shms, mapped'[p][s] # 0
        PROVE  sized'[mapped'[p][s]]
    <3>1. CASE s = shm[p]
      BY <1>2, <2>1, <2>2, <2>3, <3>1
    <3>2. CASE s # shm[p]
      BY <1>3, <2>2, <2>3, <2>5, <3>2
    <3> QED
      BY <3>1, <3>2
  <2> QED
    BY <2>4, <2>5 DEF InOrder, Checked
<1>8. ~Unlink(p)
  <2>1. Target(p) \in Shms
    BY DEF Target, Shms
  <2>2. bound[Target(p)] # 0
    BY <1>2, <2>1
  <2> QED
    BY <2>2 DEF Unlink
<1>9. ~Construct(p)
  BY <1>1 DEF Construct, Controlled
<1>10. ASSUME LateStep(p), mask'[p] = mask[p] \/ mask'[p], pc'[p] # "bus",
              pc'[p] \in {"flag"} \cup Checked => pc[p] = "config" \/ pc[p] \in {"flag"} \cup Checked,
              pc[p] = "config" => mask'[p] \/ pc'[p] \notin {"flag"} \cup Checked,
              pc'[p] # "truncate", pc'[p] = "threw" => p \in Readers /\ Cardinality(Readers) > MaxReaders
       PROVE  InOrder(p)'
  <2>1. mapped' = mapped /\ sized' = sized
    BY <1>10, LateStepKeeps
  <2> QED
    BY <1>1, <1>4, <1>10, <2>1 DEF InOrder
<1>11. "rb" \in Shms /\ "ri" \in Shms /\ Fields("rb") = RingBuffer /\ Fields("ri") = ReaderInfo
  BY DEF Shms, Fields
<1>12. CASE ReadConfig(p)
  <2>1. mapped[p]["rb"] # 0
    BY <1>1, <1>11, <1>12 DEF ReadConfig, Controlled
  <2>2. "configBufSizeBytes" \in In(p, "rb") /\ sized[mapped[p]["rb"]]
    BY <1>3, <1>11, <2>1, SomeFields
  <2>3. mask'[p] = TRUE
    BY <1>12, <2>2 DEF ReadConfig, TypeOK
  <2>4. pc[p] = "config" /\ pc'[p] = "flag"
    BY <1>12, <2>2 DEF ReadConfig, Touch, TypeOK
  <2> QED
    BY <1>10, <1>12, <2>3, <2>4 DEF LateStep
<1>13. CASE CheckInitialized(p)
  <2>1. mapped[p]["rb"] # 0
    BY <1>1, <1>11, <1>13 DEF CheckInitialized, Controlled
  <2>2. "initialized" \in In(p, "rb")
    BY <1>3, <1>11, <2>1, SomeFields
  <2>3. pc[p] = "flag" /\ pc'[p] \in {"rmp", "attached"} /\ mask' = mask
    BY <1>13, <2>2 DEF CheckInitialized, TypeOK
  <2> QED
    BY <1>10, <1>13, <2>3 DEF LateStep
<1>14. CASE CheckRmpInitialized(p)
  <2>1. mapped[p]["ri"] # 0
    BY <1>1, <1>11, <1>14 DEF CheckRmpInitialized, Controlled, Checked
  <2>2. "rmp.initialized" \in In(p, "ri") /\ sized[mapped[p]["ri"]]
    BY <1>3, <1>11, <2>1, SomeFields
  <2>3. pc[p] = "rmp" /\ pc'[p] = "alloc" /\ mask' = mask
    BY <1>14, <2>2 DEF CheckRmpInitialized, Touch, TypeOK
  <2> QED
    BY <1>10, <1>14, <2>3 DEF LateStep, Checked
<1>15. CASE Alloc(p)
  <2>1. pc[p] = "alloc" /\ mask' = mask /\ pc'[p] \in {"tp", "threw"}
    BY <1>15 DEF Alloc, TypeOK
  <2>2. pc'[p] = "threw" => p \in Readers /\ Cardinality(Readers) > MaxReaders
    BY <1>15, SlotsTaken
  <2> QED
    BY <1>10, <1>15, <2>1, <2>2 DEF LateStep, Checked
<1>16. CASE CheckTpInitialized(p)
  <2>1. mapped[p]["ri"] # 0
    BY <1>1, <1>11, <1>16 DEF CheckTpInitialized, Controlled, Checked
  <2>2. "initialized" \in In(p, "ri")
    BY <1>3, <1>11, <2>1, SomeFields
  <2>3. pc[p] = "tp" /\ pc'[p] = "attached" /\ mask' = mask
    BY <1>16, <2>2 DEF CheckTpInitialized, TypeOK
  <2> QED
    BY <1>10, <1>16, <2>3 DEF LateStep, Checked
<1>17. CASE FirstWrite(p)
  <2>1. mapped[p]["ri"] # 0
    BY <1>1, <1>11, <1>17 DEF FirstWrite, Controlled, Checked
  <2>2. sized[mapped[p]["ri"]]
    BY <1>3, <1>11, <2>1
  <2>3. pc[p] = "attached" /\ pc'[p] = "running" /\ mask' = mask
    BY <1>17, <2>2 DEF FirstWrite, Touch, TypeOK
  <2> QED
    BY <1>10, <1>17, <2>3 DEF LateStep, Checked
<1>18. CASE Crash(p)
  <2>1. pc'[p] = "dead" /\ mask' = mask
    BY <1>18 DEF Crash, TypeOK
  <2> QED
    BY <1>10, <1>18, <2>1 DEF LateStep, Checked
<1> QED
  BY <1>5, <1>6, <1>7, <1>8, <1>9, <1>12, <1>13, <1>14, <1>15, <1>16, <1>17, <1>18 DEF Step

(* ... and what an orderly start guarantees. *)
LEMMA OrderStep ==
    ASSUME TypeOK, ControlInv, KindInv, StoreInv, AttachInv, HeldInv, SameInv, OrderInv, [Next]_vars
    PROVE  OrderInv'
<1>1. CASE UNCHANGED vars
  BY <1>1 DEF vars, procVars, objectVars, histVars, OrderInv, InitializerFirst, InOrder, NotBegun, Site
<1>2. ASSUME NEW p \in Proc, Step(p), ~early', ~gone'
      PROVE  OrderInv'
  <2>1. ~early /\ ~gone
    BY <1>2, HistoryStays
  <2>2. InitializerFirst /\ (\A q \in Proc : InOrder(q)) /\ Initializer \in Proc
    BY <2>1, Bounds DEF OrderInv
  <2>3. ASSUME NEW q \in Proc, q # p, pc'[Initializer] = pc[Initializer] \/ pc[q] # "threw"
        PROVE  InOrder(q)'
    <3>1. /\ pc'[q] = pc[q] /\ mapped'[q] = mapped[q] /\ mask'[q] = mask[q]
      BY <1>2, <2>3, OthersKeep
    <3>2. \A s \in Shms : mapped[q][s] # 0 => mapped[q][s] \in Objects
      BY DEF TypeOK
    <3>3. \A s \in Shms : mapped[q][s] # 0 => sized'[mapped[q][s]]
      BY <1>2, <2>2, <3>2, SizedStays DEF InOrder
    <3> QED
      BY <2>2, <2>3, <3>1, <3>3 DEF InOrder
  <2>4. CASE p = Initializer
    <3>1. InitializerFirst' /\ InOrder(p)' /\ pc[Initializer] # "done"
      BY <1>2, <2>1, <2>2, <2>4, InitializerOrder
    <3>2. \A q \in Proc : pc[q] # "threw"
      BY <2>2, <3>1 DEF InOrder
    <3> QED
      BY <2>3, <3>1, <3>2 DEF OrderInv
  <2>5. CASE p # Initializer /\ pc[Initializer] = "done"
    <3>1. InOrder(p)'
      BY <1>2, <2>1, <2>2, <2>5, OthersOrder
    <3>2. pc'[Initializer] = pc[Initializer]
      BY <1>2, <2>2, <2>5, OthersKeep
    <3>3. InitializerFirst'
      BY <2>5, <3>2 DEF InitializerFirst
    <3> QED
      BY <2>3, <3>1, <3>2, <3>3 DEF OrderInv
  <2>6. CASE p # Initializer /\ pc[Initializer] # "done"
    <3>1. NotBegun(p)
      BY <2>2, <2>6 DEF InitializerFirst
    <3>2. ASSUME NEW s \in Shms, ShmOpenExcl(p, s)
          PROVE  FALSE
      <4>1. early'
        BY <2>6, <3>2, Zenon DEF ShmOpenExcl
      <4> QED
        BY <1>2, <4>1
    <3>3. Crash(p)
      BY <1>2, <3>1, <3>2 DEF NotBegun, Step, Truncate, TruncateFails, ShmOpen, Unlink, Construct, ReadConfig,
         CheckInitialized, CheckRmpInitialized, Alloc, CheckTpInitialized, FirstWrite
    <3>4. pc'[p] = "dead" /\ UNCHANGED <<bound, shm, mapped, sized, mask>>
      BY <3>3 DEF Crash, Go, TypeOK, objectVars, procVars
    <3>5. \A q \in Proc : q # p => pc'[q] = pc[q]
      BY <1>2, OthersKeep
    <3>6. InitializerFirst'
      BY <2>2, <2>6, <3>4, <3>5 DEF InitializerFirst, NotBegun, Site
    <3>7. InOrder(p)'
      BY <2>2, <3>4 DEF InOrder, Checked
    <3>8. pc'[Initializer] = pc[Initializer]
      BY <2>2, <2>6, <3>5
    <3> QED
      BY <2>3, <3>6, <3>7, <3>8 DEF OrderInv
  <2> QED
    BY <2>4, <2>5, <2>6
<1>3. CASE early' \/ gone'
  BY <1>3 DEF OrderInv
<1> QED
  BY <1>1, <1>2, <1>3, Steps

------------------------------------------------------------------------------
(* Nothing has been made yet. *)
LEMMA InvInit == Init => StartupInv
<1> SUFFICES ASSUME Init PROVE StartupInv
  OBVIOUS
<1>1. TypeOK
  <2>1. early \in BOOLEAN /\ gone \in BOOLEAN
    BY Zenon DEF Init
  <2>2. sized \in [Objects -> BOOLEAN] /\ mask \in [Proc -> BOOLEAN]
    BY Zenon DEF Init
  <2> QED
    BY <2>1, <2>2 DEF Init, TypeOK
<1>2. CountInv
  <2>1. Begun = {}
    BY DEF Init, Begun, Shms
  <2> QED
    BY <2>1, FS_EmptySet DEF Init, CountInv
<1>3. ControlInv
  <2> SUFFICES ASSUME NEW p \in Proc PROVE Controlled(p)
    BY DEF ControlInv
  <2>1. pc[p] = "idle" /\ shm[p] = "none" /\ fd[p] = 0 /\ mapped[p]["ri"] = 0
    BY DEF Init, Shms
  <2> QED
    BY <2>1 DEF Controlled, Checked
<1>4. KindInv
  <2>1. \A s \in Shms : \A o : o \notin Named(s)
    BY NamedIs, Bounds DEF Init, Shms
  <2> QED
    BY <2>1 DEF KindInv, Shms
<1>5. StoreInv
  BY Bounds DEF Init, StoreInv, Site
<1>6. AttachInv /\ HeldInv /\ SameInv
  BY Bounds DEF Init, AttachInv, HeldInv, SameInv, Checked
<1>7. OrderInv
  <2>1. \A p \in Proc : InOrder(p) /\ NotBegun(p)
    BY DEF Init, InOrder, NotBegun, Checked
  <2>2. InitializerFirst
    BY <2>1, Bounds DEF Init, InitializerFirst
  <2> QED
    BY <2>1, <2>2 DEF OrderInv
<1> QED
  BY <1>1, <1>2, <1>3, <1>4, <1>5, <1>6, <1>7 DEF StartupInv

(* The invariant holds in every state a start reaches. *)
THEOREM Invariance == Spec => []StartupInv
<1>1. StartupInv /\ [Next]_vars => StartupInv'
  <2> SUFFICES ASSUME StartupInv, [Next]_vars PROVE StartupInv'
    OBVIOUS
  <2>1. /\ TypeOK /\ CountInv /\ ControlInv /\ KindInv /\ StoreInv
        /\ AttachInv /\ HeldInv /\ SameInv /\ OrderInv
    BY DEF StartupInv
  <2>2. TypeOK' /\ CountInv' /\ ControlInv' /\ KindInv' /\ StoreInv'
    BY <2>1, TypeStep, CountStep, ControlStep, KindStep, StoreStep
  <2>3. AttachInv' /\ HeldInv' /\ SameInv' /\ OrderInv'
    BY <2>1, AttachStep, HeldStep, SameStep, OrderStep
  <2> QED
    BY <2>2, <2>3 DEF StartupInv
<1> QED
  BY InvInit, <1>1, PTL DEF Spec

(* Objects, names and what processes have mapped keep their types: an      *)
(* object is given only fields of the two classes.                         *)
THEOREM Typing == Spec => []TypeOK
<1>1. StartupInv => TypeOK
  BY DEF StartupInv
<1> QED
  BY <1>1, Invariance, PTL

(* Whoever got past the tests of the constructors works on objects that    *)
(* are constructed, with any number of processes that die anywhere and of  *)
(* names that are unlinked and made again (initialized, the order of the   *)
(* members of ByteRingBuffer and of both ReaderInfos).                     *)
THEOREM AttachedFindConstructed == Spec => []UsesConstructed
<1>1. ASSUME StartupInv, NEW p \in Proc
      PROVE  /\ pc[p] \in {"rmp", "alloc", "tp", "attached", "running"} =>
                    ToSet(RingBuffer) \subseteq In(p, "rb")
             /\ pc[p] \in {"alloc", "tp"} \/ (p \in Readers /\ pc[p] = "attached") =>
                    {"_readersMinMax", "infos"} \subseteq In(p, "ri")
  <2>1. pc[p] \in Checked => mapped[p]["rb"] # 0 /\ mapped[p]["ri"] # 0
    BY <1>1 DEF StartupInv, ControlInv, Controlled, Shms
  <2> QED
    BY <1>1, <2>1, FlagsAreLast, SomeFields DEF StartupInv, AttachInv, Checked
<1>2. StartupInv => UsesConstructed
  BY <1>1 DEF UsesConstructed
<1> QED
  BY Invariance, <1>2, PTL

(* A reader that was given a slot is not refused by the test that comes    *)
(* after it (tp::Reader::Reader, ReaderWithBackpressure).                  *)
THEOREM SlotMeansAttached == Spec => []LateCheckPasses
<1>1. ASSUME StartupInv, NEW o \in Objects, NEW p \in held[o]
      PROVE  pc[p] # "threw" /\ "initialized" \in stored[o]
  <2>1. p \in Proc /\ o = mapped[p]["ri"] /\ pc[p] # "threw" /\ "rmp.initialized" \in In(p, "ri") /\ o # 0
    BY <1>1, Bounds DEF StartupInv, HeldInv, In
  <2>2. In(p, "ri") = ToSet(ReaderInfo)
    BY <1>1, <2>1, FlagsAreLast DEF StartupInv
  <2> QED
    BY <2>1, <2>2, SomeFields DEF In
<1>2. StartupInv => LateCheckPasses
  BY <1>1 DEF LateCheckPasses
<1> QED
  BY Invariance, <1>2, PTL

(* While no name is unlinked, all processes that opened it share one       *)
(* object, whoever of them won the race to create it (CreateOrOpen).       *)
THEOREM RacersShare == Spec => []SameObjects
<1>1. StartupInv => SameObjects
  BY DEF StartupInv, SameInv, SameObjects
<1> QED
  BY Invariance, <1>1, PTL

(* A start in which everybody waits for the constructing process kills and *)
(* refuses nobody, but readers for which there are no slots (RunInit,      *)
(* Alloc).                                                                 *)
THEOREM OrderlyStartWorks == Spec => []OrderlyStart
<1>1. StartupInv => OrderlyStart
  BY DEF StartupInv, OrderInv, InOrder, OrderlyStart, Checked
<1> QED
  BY Invariance, <1>1, PTL
==============================================================================
