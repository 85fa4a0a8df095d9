-------------------------- MODULE TpAsyncWriterProofs --------------------------
(***************************************************************************)
(* The asynchronous writer: at most one drainer, the order of the messages *)
(* and the wakeup of the reader, for any number of posting threads, of     *)
(* threads that run ProcWriter and of messages, any window and any socket; *)
(* and the messages themselves, from CreateMessage to the handlers, for    *)
(* any topics and sizes.                                                   *)
(***************************************************************************)
EXTENDS TpAsyncWriter, TpMessage, Integers, FiniteSetTheorems, SequenceTheorems,
        WellFoundedInduction, TLAPS

(* Those of Running that may still drain, ... *)
Busy == {w \in Workers : wpc[w] \notin {"idle", "notify"}}

(* ... and those that have drained nothing and leave. *)
Leaving == {w \in Workers : wpc[w] = "notify"}

(* The drainers there are or will be, but for those that leave. *)
Draining == Cardinality(Busy) + jobs + Cardinality(Starting)

ControlType ==
    /\ jobs \in Nat /\ startDrainer \in BOOLEAN /\ threw \in BOOLEAN
    /\ ppc \in [Posters -> {"idle", "start"}]
    /\ wpc \in [Workers -> {"idle", "drain", "write", "bpNotify", "bp", "notify"}]

(* _startDrainer is false while somebody drains or is about to; a false    *)
(* _startDrainer with nobody is what an exception leaves behind.           *)
DrainInv ==
    /\ ControlType
    /\ queue # <<>> => ~startDrainer
    /\ startDrainer => Draining = 0
    /\ Draining <= 1
    /\ ~startDrainer /\ ~threw => Draining = 1

(* Only who writes has a batch, and who finds the reader in the way has a  *)
(* message to write.                                                       *)
BatchInv ==
    \A w \in Workers :
        /\ batch[w] # <<>> => wpc[w] \in {"write", "bpNotify", "bp"}
        /\ wpc[w] \in {"bpNotify", "bp"} => batch[w] # <<>>

OrderInv ==
    /\ lost \subseteq 1 .. posted
    /\ \A i, j \in 1 .. Len(Messages) : i < j => Messages[i] < Messages[j]
    /\ ToSet(Messages) = (1 .. posted) \ lost

(* Somebody runs ProcWriter or is about to, and will notify.               *)
Somebody == jobs > 0 \/ Running # {} \/ Starting # {}

(* Unless somebody will notify, or has notified, a reader that waits has   *)
(* read what is in the stream.                                             *)
WakeInv ==
    ~threw =>
        /\ Len(Messages) = posted
        /\ rpc = "wait" /\ pending = 0 /\ rpos < Len(log) => Somebody

WriterInv == TypeOK /\ DrainInv /\ BatchInv /\ OrderInv /\ WakeInv

------------------------------------------------------------------------------
(* What was written, the batch in hand and the queue, end to end, are one    *)
(* sequence of numbered items.                                             *)
(* ToSet, without its definition. *)
LEMMA InToSet ==
    ASSUME NEW T, NEW s \in Seq(T), NEW x
    PROVE  x \in ToSet(s) <=> \E i \in 1 .. Len(s) : s[i] = x
BY DEF ToSet

(* The types of ToSet, Head, Tail and Append.                              *)
LEMMA SeqTypes ==
    ASSUME NEW T, NEW s \in Seq(T)
    PROVE  /\ ToSet(s) \subseteq T
           /\ s # <<>> => Head(s) \in T /\ Tail(s) \in Seq(T)
           /\ \A x \in T : Append(s, x) \in Seq(T) /\ Len(Append(s, x)) = Len(s) + 1
<1>1. ToSet(s) \subseteq T
  BY DEF ToSet
<1>2. s # <<>> => Head(s) \in T /\ Tail(s) \in Seq(T)
  OBVIOUS
<1>3. \A x \in T : Append(s, x) \in Seq(T) /\ Len(Append(s, x)) = Len(s) + 1
  OBVIOUS
<1> QED
  BY <1>1, <1>2, <1>3

(* A sequence is a function. *)
LEMMA IsFunction ==
    ASSUME NEW T, NEW s \in Seq(T)
    PROVE  s \in [1 .. Len(s) -> T]
OBVIOUS

(* The items of two sequences, end to end, ... *)
LEMMA Two ==
    ASSUME NEW a \in Seq(Nat), NEW b \in Seq(Nat)
    PROVE  /\ a \o b \in Seq(Nat)
           /\ Len(a \o b) = Len(a) + Len(b)
           /\ \A i \in 1 .. Len(a) : (a \o b)[i] = a[i]
           /\ \A i \in Len(a) + 1 .. Len(a) + Len(b) : (a \o b)[i] = b[i - Len(a)]
OBVIOUS

(* ... and of three. *)
LEMMA Three ==
    ASSUME NEW a \in Seq(Nat), NEW b \in Seq(Nat), NEW c \in Seq(Nat)
    PROVE  /\ a \o b \o c \in Seq(Nat)
           /\ Len(a \o b \o c) = Len(a) + Len(b) + Len(c)
           /\ \A i \in 1 .. Len(a) : (a \o b \o c)[i] = a[i]
           /\ \A i \in Len(a) + 1 .. Len(a) + Len(b) : (a \o b \o c)[i] = b[i - Len(a)]
           /\ \A i \in Len(a) + Len(b) + 1 .. Len(a) + Len(b) + Len(c) :
                   (a \o b \o c)[i] = c[i - Len(a) - Len(b)]
OBVIOUS

(* RunItem, and WriteEx, move the first of the batch, and nothing else.    *)
LEMMA HeadMoves ==
    ASSUME NEW a \in Seq(Nat), NEW b \in Seq(Nat), NEW c \in Seq(Nat), b # <<>>
    PROVE  Append(a, Head(b)) \o Tail(b) \o c = a \o b \o c
OBVIOUS

(* Enqueue appends to them all.                                            *)
LEMMA AppendMoves ==
    ASSUME NEW a \in Seq(Nat), NEW b \in Seq(Nat), NEW c \in Seq(Nat), NEW n \in Nat
    PROVE  a \o b \o Append(c, n) = Append(a \o b \o c, n)
<1> DEFINE d == a \o b
<1>1. d \in Seq(Nat)
  OBVIOUS
<1> HIDE DEF d
<1>2. d \o Append(c, n) = Append(d \o c, n)
  BY <1>1
<1> QED
  BY <1>2 DEF d

(* Enqueue puts the next number behind an increasing sequence.             *)
LEMMA NextBehind ==
    ASSUME NEW n \in Nat, NEW s \in Seq(Nat), NEW t,
           t = Append(s, n + 1),
           ToSet(s) \subseteq 1 .. n,
           \A i, j \in 1 .. Len(s) : i < j => s[i] < s[j]
    PROVE  /\ \A i, j \in 1 .. Len(t) : i < j => t[i] < t[j]
           /\ ToSet(t) = ToSet(s) \cup {n + 1}
<1>1. \A i \in 1 .. Len(s) : s[i] \in 1 .. n
  BY InToSet
<1>2. Len(t) = Len(s) + 1 /\ t[Len(s) + 1] = n + 1 /\ \A k \in 1 .. Len(s) : t[k] = s[k]
  OBVIOUS
<1>3. ASSUME NEW i \in 1 .. Len(t), NEW j \in 1 .. Len(t), i < j
      PROVE  t[i] < t[j]
  <2>1. i \in 1 .. Len(s) /\ t[i] = s[i] /\ s[i] \in 1 .. n
    BY <1>1, <1>2, <1>3
  <2>2. CASE j = Len(s) + 1
    BY <1>2, <2>1, <2>2
  <2>3. CASE j \in 1 .. Len(s)
    BY <1>2, <1>3, <2>1, <2>3
  <2> QED
    BY <1>2, <2>2, <2>3
<1>4. ToSet(t) = ToSet(s) \cup {n + 1}
  BY DEF ToSet
<1> QED
  BY <1>3, <1>4

(* What throws cuts the rest of the batch out of an increasing sequence.   *)
LEMMA CutOut ==
    ASSUME NEW a \in Seq(Nat), NEW b \in Seq(Nat), NEW c \in Seq(Nat),
           \A i, j \in 1 .. Len(a \o b \o c) : i < j => (a \o b \o c)[i] < (a \o b \o c)[j]
    PROVE  /\ \A i, j \in 1 .. Len(a \o c) : i < j => (a \o c)[i] < (a \o c)[j]
           /\ ToSet(a \o c) = ToSet(a \o b \o c) \ ToSet(b)
           /\ ToSet(b) \subseteq ToSet(a \o b \o c)
<1> DEFINE s == a \o b \o c
           t == a \o c
           L == Len(a)
           M == Len(b)
           N == Len(c)
<1>1. L \in Nat /\ M \in Nat /\ N \in Nat
  OBVIOUS
<1>2. Len(s) = L + M + N /\ s \in [1 .. L + M + N -> Nat]
  <2>1. s \in Seq(Nat) /\ Len(s) = L + M + N
    BY Three
  <2> QED
    BY <2>1, IsFunction
<1>3. Len(t) = L + N /\ t \in [1 .. L + N -> Nat] /\ b \in [1 .. M -> Nat]
  <2>1. t \in Seq(Nat) /\ Len(t) = L + N
    BY Two
  <2> QED
    BY <2>1, IsFunction
<1>4. \A i \in 1 .. L : t[i] = s[i]
  BY Two, Three
<1>5. \A i \in L + 1 .. L + N : t[i] = s[i + M]
  <2> SUFFICES ASSUME NEW i \in L + 1 .. L + N PROVE t[i] = s[i + M]
    OBVIOUS
  <2>1. t[i] = c[i - L]
    BY Two
  <2>2. i + M \in L + M + 1 .. L + M + N /\ (i + M) - L - M = i - L
    BY <1>1
  <2>3. s[i + M] = c[(i + M) - L - M]
    BY <2>2, Three
  <2> QED
    BY <2>1, <2>2, <2>3
<1>6. \A i \in 1 .. M : b[i] = s[L + i]
  <2> SUFFICES ASSUME NEW i \in 1 .. M PROVE b[i] = s[L + i]
    OBVIOUS
  <2>1. L + i \in L + 1 .. L + M /\ (L + i) - L = i
    BY <1>1
  <2> QED
    BY <2>1, Three
<1>7. /\ ToSet(s) = {s[i] : i \in 1 .. L + M + N}
      /\ ToSet(t) = {t[i] : i \in 1 .. L + N}
      /\ ToSet(b) = {b[i] : i \in 1 .. M}
  BY <1>2, <1>3 DEF ToSet
<1>8. \A i, j \in 1 .. L + M + N : i < j => s[i] < s[j]
  BY <1>2
<1> SUFFICES /\ \A i, j \in 1 .. L + N : i < j => t[i] < t[j]
             /\ ToSet(t) = ToSet(s) \ ToSet(b)
             /\ ToSet(b) \subseteq ToSet(s)
  BY <1>3
<1> HIDE DEF s, t, L, M, N
<1> DEFINE at(i) == IF i <= L THEN i ELSE i + M
<1> USE <1>1
<1>9. \A i \in 1 .. L + N : at(i) \in 1 .. L + M + N /\ t[i] = s[at(i)] /\ ~(at(i) \in L + 1 .. L + M)
  BY <1>4, <1>5
<1>10. \A i, j \in 1 .. L + N : i < j => at(i) < at(j)
  OBVIOUS
<1>11. \A i \in 1 .. M : L + i \in 1 .. L + M + N /\ L + i \in L + 1 .. L + M
  OBVIOUS
<1>12. \A i \in L + 1 .. L + M : i - L \in 1 .. M /\ s[i] = b[i - L]
  <2> SUFFICES ASSUME NEW i \in L + 1 .. L + M PROVE i - L \in 1 .. M /\ s[i] = b[i - L]
    OBVIOUS
  <2>1. i - L \in 1 .. M /\ L + (i - L) = i
    OBVIOUS
  <2> QED
    BY <1>6, <2>1
<1>13. \A i \in 1 .. L + M + N : i \in L + 1 .. L + M \/ \E k \in 1 .. L + N : i = at(k)
  <2> SUFFICES ASSUME NEW i \in 1 .. L + M + N, i \notin L + 1 .. L + M
               PROVE  \E k \in 1 .. L + N : i = at(k)
    OBVIOUS
  <2>1. CASE i <= L
    <3>1. i \in 1 .. L + N /\ i = at(i)
      BY <2>1
    <3> QED
      BY <3>1
  <2>2. CASE i > L
    <3>1. i - M \in 1 .. L + N /\ i = at(i - M)
      BY <2>2
    <3> QED
      BY <3>1
  <2> QED
    BY <2>1, <2>2
<1> HIDE DEF at
<1>14. \A i, j \in 1 .. L + M + N : i # j => s[i] # s[j]
  BY <1>2, <1>8
<1>15. \A i, j \in 1 .. L + N : i < j => t[i] < t[j]
  BY <1>8, <1>9, <1>10
<1>16. \A i \in 1 .. L + N : \A k \in 1 .. M : t[i] # b[k]
  <2> SUFFICES ASSUME NEW i \in 1 .. L + N, NEW k \in 1 .. M PROVE t[i] # b[k]
    OBVIOUS
  <2>1. at(i) \in 1 .. L + M + N /\ L + k \in 1 .. L + M + N /\ at(i) # L + k
    BY <1>9, <1>11
  <2>2. s[at(i)] # s[L + k]
    BY <1>14, <2>1
  <2> QED
    BY <1>6, <1>9, <2>2
<1>17. \A j \in 1 .. L + M + N : (\E k \in 1 .. M : s[j] = b[k]) \/ (\E i \in 1 .. L + N : s[j] = t[i])
  BY <1>9, <1>12, <1>13
<1>18. ToSet(t) \subseteq ToSet(s) \ ToSet(b)
  BY <1>7, <1>9, <1>16
<1>19. ToSet(s) \ ToSet(b) \subseteq ToSet(t)
  BY <1>7, <1>17
<1>20. ToSet(b) \subseteq ToSet(s)
  BY <1>6, <1>7, <1>11
<1> QED
  BY <1>15, <1>18, <1>19, <1>20

------------------------------------------------------------------------------
(* The sets of threads are finite. *)
LEMMA Finite ==
    /\ IsFiniteSet(Busy) /\ IsFiniteSet(Leaving) /\ IsFiniteSet(Starting) /\ IsFiniteSet(Running)
    /\ Cardinality(Busy) \in Nat /\ Cardinality(Leaving) \in Nat /\ Cardinality(Starting) \in Nat
<1>1. IsFiniteSet(Workers) /\ IsFiniteSet(Posters)
  BY AsyncWriterAssumption
<1>2. Busy \subseteq Workers /\ Leaving \subseteq Workers /\ Running \subseteq Workers /\ Starting \subseteq Posters
  BY DEF Busy, Leaving, Running, Starting
<1>3. IsFiniteSet(Busy) /\ IsFiniteSet(Leaving) /\ IsFiniteSet(Starting) /\ IsFiniteSet(Running)
  BY <1>1, <1>2, FS_Subset
<1> QED
  BY <1>3, FS_CardinalityType

(* Running is Busy and Leaving. *)
LEMMA RunningIs == Cardinality(Running) = Cardinality(Busy) + Cardinality(Leaving)
<1>1. Running = Busy \cup Leaving /\ Busy \cap Leaving = {}
  BY DEF Running, Busy, Leaving
<1>2. Cardinality(Busy \cup Leaving) = Cardinality(Busy) + Cardinality(Leaving) - Cardinality(Busy \cap Leaving)
  BY Finite, FS_Union
<1>3. Cardinality(Busy \cap Leaving) = 0
  BY <1>1, FS_EmptySet
<1> QED
  BY <1>1, <1>2, <1>3, Finite

(* Nobody posts yet. *)
LEMMA DrainInit == Init => DrainInv
<1> SUFFICES ASSUME Init PROVE DrainInv
  OBVIOUS
<1>1. Busy = {} /\ Starting = {}
  BY DEF Init, Busy, Starting
<1>2. Draining = 0
  BY <1>1, FS_EmptySet DEF Init, Draining
<1>3. ControlType /\ queue = <<>>
  BY DEF Init, ControlType
<1>4. startDrainer = TRUE /\ threw = FALSE
  BY DEF Init
<1> QED
  BY <1>2, <1>3, <1>4 DEF DrainInv

(* The first to post into an empty queue is on its way to start a drainer. *)
LEMMA EnqueueStep ==
    ASSUME DrainInv, NEW t \in Posters, Enqueue(t)
    PROVE  DrainInv'
<1>1. ControlType' /\ jobs' = jobs /\ Busy' = Busy /\ threw' = threw /\ ~startDrainer' /\ startDrainer' \in BOOLEAN
  BY DEF DrainInv, ControlType, Enqueue, writerVars, Busy
<1>2. CASE startDrainer
  <2>1. Starting' = Starting \cup {t} /\ t \notin Starting
    BY <1>2 DEF DrainInv, ControlType, Enqueue, Starting
  <2>2. Cardinality(Starting') = Cardinality(Starting) + 1
    BY <2>1, Finite, FS_AddElement
  <2>3. Draining' = 1
    BY <1>1, <1>2, <2>2, Finite DEF Draining, DrainInv, ControlType
  <2> QED
    BY <1>1, <2>3 DEF DrainInv
<1>3. CASE ~startDrainer
  <2>1. Starting' = Starting
    BY <1>3 DEF DrainInv, ControlType, Enqueue, Starting
  <2>2. Draining' = Draining
    BY <1>1, <2>1 DEF Draining
  <2> QED
    BY <1>1, <1>3, <2>2 DEF DrainInv
<1> QED
  BY <1>2, <1>3

(* What it was to start becomes a job. *)
LEMMA EnqueueWorkStep ==
    ASSUME DrainInv, NEW t \in Posters, EnqueueWork(t)
    PROVE  DrainInv'
<1>1. ControlType' /\ jobs' = jobs + 1 /\ UNCHANGED <<queue, startDrainer, threw>> /\ Busy' = Busy
  BY DEF DrainInv, ControlType, EnqueueWork, queueVars, postVars, Busy
<1>2. Starting' = Starting \ {t} /\ t \in Starting
  BY DEF DrainInv, ControlType, EnqueueWork, Starting
<1>3. Cardinality(Starting') = Cardinality(Starting) - 1
  BY <1>2, Finite, FS_RemoveElement
<1>4. Draining' = Draining
  BY <1>1, <1>3, Finite DEF Draining, DrainInv, ControlType
<1> QED
  BY <1>1, <1>4 DEF DrainInv

(* And the job a drainer. *)
LEMMA BeginStep ==
    ASSUME DrainInv, NEW w \in Workers, BeginProcWriter(w)
    PROVE  DrainInv'
<1>1. ControlType' /\ jobs' = jobs - 1 /\ UNCHANGED <<queue, startDrainer, threw>> /\ Starting' = Starting
  BY DEF DrainInv, ControlType, BeginProcWriter, Go, queueVars, postVars, Starting
<1>2. Busy' = Busy \cup {w} /\ w \notin Busy
  BY DEF DrainInv, ControlType, BeginProcWriter, Go, Busy
<1>3. Cardinality(Busy') = Cardinality(Busy) + 1
  BY <1>2, Finite, FS_AddElement
<1>4. Draining' = Draining
  BY <1>1, <1>3, Finite DEF Draining, DrainInv, ControlType
<1> QED
  BY <1>1, <1>4 DEF DrainInv

(* A drainer that finds the queue empty lets the next message start one.   *)
LEMMA DrainStep ==
    ASSUME DrainInv, NEW w \in Workers, Drain(w)
    PROVE  DrainInv'
<1>1. ControlType' /\ UNCHANGED <<jobs, threw>> /\ Starting' = Starting /\ queue' = <<>>
      /\ startDrainer' = (queue = <<>>)
  BY DEF DrainInv, ControlType, Drain, Go, postVars, Starting
<1>2. w \in Busy
  BY DEF Drain, Busy
<1>3. CASE queue = <<>>
  <2>1. Busy' = Busy \ {w}
    BY <1>3 DEF DrainInv, ControlType, Drain, Go, Busy
  <2>2. Cardinality(Busy') = Cardinality(Busy) - 1
    BY <1>2, <2>1, Finite, FS_RemoveElement
  <2>3. Cardinality(Busy') \in Nat
    BY <2>1, Finite, FS_RemoveElement, FS_CardinalityType
  <2>4. Draining' = 0
    BY <1>1, <2>2, <2>3, Finite DEF Draining, DrainInv, ControlType
  <2>5. startDrainer' = TRUE
    BY <1>1, <1>3
  <2> QED
    BY <1>1, <2>4, <2>5 DEF DrainInv
<1>4. CASE queue # <<>>
  <2>1. Busy' = Busy
    BY <1>2, <1>4 DEF DrainInv, ControlType, Drain, Go, Busy
  <2>2. Cardinality(Busy) > 0
    BY <1>2, Finite, FS_EmptySet
  <2>3. Draining' = 1
    BY <1>1, <2>1, <2>2, Finite DEF Draining, DrainInv, ControlType
  <2>4. startDrainer' = FALSE
    BY <1>1, <1>4
  <2> QED
    BY <1>1, <2>3, <2>4 DEF DrainInv
<1> QED
  BY <1>3, <1>4

(* An exception ends a drainer and starts none. *)
LEMMA ThrowStep ==
    ASSUME DrainInv, NEW w \in Workers, Throws(w)
    PROVE  DrainInv'
<1>1. ControlType' /\ UNCHANGED <<jobs, queue, startDrainer>> /\ Starting' = Starting /\ threw'
  BY DEF DrainInv, ControlType, Throws, Go, queueVars, Starting
<1>2. Busy' = Busy \ {w}
  BY DEF DrainInv, ControlType, Throws, Go, Busy
<1>3. Cardinality(Busy') <= Cardinality(Busy) /\ Cardinality(Busy') \in Nat
  <2>1. IsFiniteSet(Busy') /\ Cardinality(Busy') = IF w \in Busy THEN Cardinality(Busy) - 1 ELSE Cardinality(Busy)
    BY <1>2, Finite, FS_RemoveElement
  <2>2. Cardinality(Busy') \in Nat
    BY <2>1, FS_CardinalityType
  <2> QED
    BY <2>1, <2>2, Finite
<1>4. Draining \in Nat /\ Draining' <= Draining /\ Draining' \in Nat
  BY <1>1, <1>3, Finite DEF Draining, DrainInv, ControlType
<1> QED
  BY <1>1, <1>4 DEF DrainInv

(* Every other step of a drainer leaves the drainers as they are. *)
LEMMA OtherStep ==
    ASSUME DrainInv, NEW w \in Workers,
           BatchWritten(w) \/ Write(w) \/ DetectBackpressure(w) \/ NotifyOnBackpressure(w)
               \/ BpWait(w) \/ BpWrite(w) \/ NotifyAtEnd(w)
    PROVE  DrainInv'
<1>1. UNCHANGED <<queue, startDrainer, ppc, jobs, threw>>
  BY DEF BatchWritten, Write, DetectBackpressure, NotifyOnBackpressure, BpWait, BpWrite, NotifyAtEnd,
         Append1, queueVars, postVars
<1>2. \E k \in {"idle", "drain", "write", "bpNotify", "bp"} :
          wpc' = [wpc EXCEPT ![w] = k] /\ (k = "idle" <=> wpc[w] = "notify") /\ wpc[w] # "idle"
  BY DEF BatchWritten, Write, DetectBackpressure, NotifyOnBackpressure, BpWait, BpWrite, NotifyAtEnd,
         Append1, Go
<1>3. ControlType' /\ Busy' = Busy /\ Starting' = Starting
  BY <1>1, <1>2 DEF DrainInv, ControlType, Busy, Starting
<1>4. Draining' = Draining
  BY <1>1, <1>3 DEF Draining
<1> QED
  BY <1>1, <1>3, <1>4 DEF DrainInv

(* The step of the drainers. *)
LEMMA DrainersStep == DrainInv /\ [Next]_vars => DrainInv'
<1> SUFFICES ASSUME DrainInv, [Next]_vars PROVE DrainInv'
  OBVIOUS
<1>1. ASSUME NEW t \in Posters, Enqueue(t) \/ EnqueueWork(t)
      PROVE  DrainInv'
  BY <1>1, EnqueueStep, EnqueueWorkStep
<1>2. ASSUME NEW w \in Workers, WorkerStep(w)
      PROVE  DrainInv'
  BY <1>2, BeginStep, DrainStep, ThrowStep, OtherStep DEF WorkerStep
<1>3. CASE ReaderStep \/ UNCHANGED vars
  <2>1. UNCHANGED <<queue, startDrainer, ppc, jobs, threw, wpc>>
    BY <1>3 DEF ReaderStep, Wait, ReadNext, vars, queueVars, writerVars, postVars
  <2>2. ControlType' /\ Draining' = Draining
    BY <2>1 DEF DrainInv, ControlType, Draining, Busy, Starting
  <2> QED
    BY <2>1, <2>2 DEF DrainInv
<1> QED
  BY <1>1, <1>2, <1>3 DEF Next

------------------------------------------------------------------------------
(* Types.                                                                  *)

(* Nothing is posted yet. *)
LEMMA TypeInit == Init => TypeOK
<1> SUFFICES ASSUME Init PROVE TypeOK
  OBVIOUS
<1>1. posted \in 0 .. MaxPosts /\ pending \in 0 .. MaxPending
  BY AsyncWriterAssumption DEF Init
<1>2. queue \in Seq(1 .. MaxPosts) /\ log \in Seq(1 .. MaxPosts) /\ batch \in [Workers -> Seq(1 .. MaxPosts)]
  BY DEF Init
<1>3. rpos \in 0 .. Len(log)
  BY DEF Init
<1> QED
  BY <1>1, <1>2, <1>3 DEF Init, TypeOK

(* One more message in the stream. *)
LEMMA AppendType ==
    ASSUME TypeOK, NEW w \in Workers, batch[w] # <<>>, Append1(w)
    PROVE  /\ log' \in Seq(1 .. MaxPosts) /\ Len(log') = Len(log) + 1
           /\ batch' \in [Workers -> Seq(1 .. MaxPosts)]
           /\ wpc' = [wpc EXCEPT ![w] = "write"]
<1>1. batch[w] \in Seq(1 .. MaxPosts) /\ log \in Seq(1 .. MaxPosts)
  BY DEF TypeOK
<1>2. Head(batch[w]) \in 1 .. MaxPosts /\ Tail(batch[w]) \in Seq(1 .. MaxPosts)
  BY <1>1, SeqTypes
<1>3. log' \in Seq(1 .. MaxPosts) /\ Len(log') = Len(log) + 1
  BY <1>1, <1>2, SeqTypes DEF Append1
<1> QED
  BY <1>2, <1>3 DEF TypeOK, Append1, Go

LEMMA TypeStep ==
    ASSUME TypeOK, BatchInv, [Next]_vars
    PROVE  TypeOK'
<1> USE AsyncWriterAssumption DEF TypeOK
<1>1. ASSUME NEW t \in Posters, Enqueue(t)
      PROVE  TypeOK'
  <2>1. posted + 1 \in 1 .. MaxPosts
    BY <1>1 DEF Enqueue
  <2>2. queue' \in Seq(1 .. MaxPosts) /\ posted' \in 0 .. MaxPosts /\ startDrainer' \in BOOLEAN
    <3>1. queue' \in Seq(1 .. MaxPosts)
      BY <1>1, <2>1, SeqTypes DEF Enqueue
    <3>2. posted' = posted + 1 /\ startDrainer' = FALSE
      BY <1>1 DEF Enqueue
    <3>3. startDrainer' \in BOOLEAN
      BY <3>2
    <3>4. posted' \in 0 .. MaxPosts
      BY <2>1, <3>2
    <3> QED
      BY <3>1, <3>3, <3>4
  <2>3. ppc' \in [Posters -> {"idle", "start"}]
    BY <1>1 DEF Enqueue
  <2> QED
    BY <1>1, <2>2, <2>3 DEF Enqueue, writerVars, readerVars
<1>2. ASSUME NEW t \in Posters, EnqueueWork(t)
      PROVE  TypeOK'
  BY <1>2 DEF EnqueueWork, queueVars, postVars, readerVars
<1>3. ASSUME NEW w \in Workers, WorkerStep(w)
      PROVE  TypeOK'
  <2>1. CASE BeginProcWriter(w) \/ BatchWritten(w) \/ DetectBackpressure(w) \/ BpWait(w)
    <3>1. jobs' \in Nat
      BY <2>1 DEF BeginProcWriter, BatchWritten, DetectBackpressure, BpWait
    <3>2. wpc' \in [Workers -> {"idle", "drain", "write", "bpNotify", "bp", "notify"}]
      BY <2>1 DEF BeginProcWriter, BatchWritten, DetectBackpressure, BpWait, Go
    <3>3. UNCHANGED <<queueVars, ppc, batch, log, postVars, readerVars>>
      BY <2>1 DEF BeginProcWriter, BatchWritten, DetectBackpressure, BpWait
    <3> QED
      BY <3>1, <3>2, <3>3 DEF queueVars, postVars, readerVars
  <2>2. CASE Drain(w)
    BY <2>2 DEF Drain, Go, postVars, readerVars
  <2>3. CASE Write(w) \/ BpWrite(w)
    <3>1. batch[w] # <<>> /\ Append1(w)
      BY <2>3 DEF Write, BpWrite, BatchInv
    <3>2. UNCHANGED <<queueVars, ppc, jobs, postVars, readerVars>>
      BY <2>3 DEF Write, BpWrite
    <3>3. rpos' \in 0 .. Len(log')
      BY <3>1, <3>2, AppendType DEF readerVars
    <3> QED
      BY <3>1, <3>2, <3>3, AppendType DEF queueVars, postVars, readerVars
  <2>4. CASE NotifyOnBackpressure(w) \/ NotifyAtEnd(w)
    <3>1. pending' \in 0 .. MaxPending
      BY <2>4 DEF NotifyOnBackpressure, NotifyAtEnd, Notified
    <3> QED
      BY <2>4, <3>1 DEF NotifyOnBackpressure, NotifyAtEnd, Go, queueVars, postVars
  <2>5. CASE Throws(w)
    <3>1. ToSet(batch[w]) \subseteq 1 .. MaxPosts
      <4>1. batch[w] \in Seq(1 .. MaxPosts)
        OBVIOUS
      <4> QED
        BY <4>1, SeqTypes
    <3>2. lost' \subseteq 1 .. MaxPosts
      BY <2>5, <3>1 DEF Throws
    <3>3. batch' \in [Workers -> Seq(1 .. MaxPosts)]
      <4>1. <<>> \in Seq(1 .. MaxPosts)
        OBVIOUS
      <4> QED
        BY <2>5, <4>1 DEF Throws
    <3> QED
      BY <2>5, <3>2, <3>3 DEF Throws, Go, queueVars, readerVars
  <2> QED
    BY <1>3, <2>1, <2>2, <2>3, <2>4, <2>5 DEF WorkerStep
<1>4. CASE ReaderStep
  <2>1. CASE Wait
    BY <2>1 DEF Wait, queueVars, writerVars, postVars
  <2>2. CASE ReadNext
    BY <2>2 DEF ReadNext, queueVars, writerVars, postVars
  <2> QED
    BY <1>4, <2>1, <2>2 DEF ReaderStep
<1>5. CASE UNCHANGED vars
  BY <1>5 DEF vars, queueVars, writerVars, postVars, readerVars
<1> QED
  BY <1>1, <1>2, <1>3, <1>4, <1>5 DEF Next

------------------------------------------------------------------------------
(* The batch in hand.                                                      *)

LEMMA BatchStep ==
    ASSUME TypeOK, BatchInv, [Next]_vars
    PROVE  BatchInv'
<1> USE DEF BatchInv, TypeOK
<1>1. ASSUME NEW t \in Posters, Enqueue(t) \/ EnqueueWork(t)
      PROVE  BatchInv'
  BY <1>1 DEF Enqueue, EnqueueWork, writerVars
<1>2. ASSUME NEW w \in Workers, WorkerStep(w)
      PROVE  BatchInv'
  <2>1. CASE BeginProcWriter(w) \/ BatchWritten(w) \/ DetectBackpressure(w) \/ BpWait(w)
    BY <2>1 DEF BeginProcWriter, BatchWritten, DetectBackpressure, BpWait, Go
  <2>2. CASE Drain(w)
    BY <2>2 DEF Drain, Go
  <2>3. CASE Write(w) \/ BpWrite(w)
    BY <2>3 DEF Write, BpWrite, Append1, Go
  <2>4. CASE NotifyOnBackpressure(w) \/ NotifyAtEnd(w)
    BY <2>4 DEF NotifyOnBackpressure, NotifyAtEnd, Go
  <2>5. CASE Throws(w)
    BY <2>5 DEF Throws, Go
  <2> QED
    BY <1>2, <2>1, <2>2, <2>3, <2>4, <2>5 DEF WorkerStep
<1>3. CASE ReaderStep \/ UNCHANGED vars
  BY <1>3 DEF ReaderStep, Wait, ReadNext, vars, writerVars
<1> QED
  BY <1>1, <1>2, <1>3 DEF Next

(* When one worker at most has something in hand, that is InHand. *)
LEMMA TheHand ==
    ASSUME NEW b, NEW w \in Workers, \A v \in Workers \ {w} : b[v] = <<>>
    PROVE  LET W == {v \in Workers : b[v] # <<>>}
           IN  /\ W \subseteq {w}
               /\ (IF W = {} THEN <<>> ELSE b[CHOOSE v \in W : TRUE]) = b[w]
<1> DEFINE W == {v \in Workers : b[v] # <<>>}
<1>1. W \subseteq {w}
  OBVIOUS
<1>2. CASE W = {}
  BY <1>2
<1>3. CASE W # {}
  <2>1. (CHOOSE v \in W : TRUE) \in W
    BY <1>3
  <2>2. (CHOOSE v \in W : TRUE) = w
    BY <1>1, <2>1
  <2> QED
    BY <1>1, <1>3, <2>2
<1> QED
  BY <1>1, <1>2, <1>3

(* Two workers never write: the one that drains or writes is the only one. *)
LEMMA OneBusy ==
    ASSUME DrainInv, NEW w \in Busy
    PROVE  Busy = {w}
<1>1. Cardinality(Busy \ {w}) = Cardinality(Busy) - 1 /\ IsFiniteSet(Busy \ {w})
  BY Finite, FS_RemoveElement
<1>2. Cardinality(Busy) <= 1
  BY Finite DEF DrainInv, Draining, ControlType
<1>3. Cardinality(Busy \ {w}) \in Nat
  BY <1>1, FS_CardinalityType
<1>4. Cardinality(Busy \ {w}) = 0
  BY <1>1, <1>2, <1>3, Finite
<1> QED
  BY <1>1, <1>4, FS_EmptySet

(* What the one that drains or writes does to its batch.                   *)
LEMMA HandStep ==
    ASSUME TypeOK, DrainInv, BatchInv, NEW w \in Busy, NEW s,
           batch' = [batch EXCEPT ![w] = s]
    PROVE  InHand = batch[w] /\ InHand' = s
<1>1. w \in Workers
  BY DEF Busy
<1>2. \A v \in Workers \ {w} : batch[v] = <<>> /\ batch'[v] = batch[v]
  BY OneBusy DEF Busy, BatchInv, TypeOK
<1>3. batch'[w] = s
  BY <1>1 DEF TypeOK
<1>4. InHand = batch[w]
  BY <1>1, <1>2, TheHand DEF InHand, Writing
<1>5. InHand' = batch'[w]
  BY <1>1, <1>2, TheHand DEF InHand, Writing
<1> QED
  BY <1>3, <1>4, <1>5

(* InHand is a batch. *)
LEMMA HandType == TypeOK => InHand \in Seq(Nat) /\ log \in Seq(Nat) /\ queue \in Seq(Nat)
<1> SUFFICES ASSUME TypeOK PROVE InHand \in Seq(Nat) /\ log \in Seq(Nat) /\ queue \in Seq(Nat)
  OBVIOUS
<1>1. log \in Seq(Nat) /\ queue \in Seq(Nat) /\ batch \in [Workers -> Seq(Nat)]
  BY AsyncWriterAssumption DEF TypeOK
<1>2. CASE Writing # {}
  <2>1. (CHOOSE w \in Writing : TRUE) \in Workers
    BY <1>2 DEF Writing
  <2> QED
    BY <1>1, <1>2, <2>1 DEF InHand
<1>3. CASE Writing = {}
  BY <1>1, <1>3 DEF InHand
<1> QED
  BY <1>2, <1>3

------------------------------------------------------------------------------
(* Order.                                                                  *)

(* Enqueue adds a message, an exception takes the batch of one worker, and *)
(* nothing else changes what is written, in hand and in the queue.         *)
LEMMA MessagesStep ==
    ASSUME TypeOK, DrainInv, BatchInv, [Next]_vars
    PROVE  \/ UNCHANGED <<Messages, posted, lost>> /\ (threw => threw')
           \/ Messages' = Append(Messages, posted + 1) /\ posted' = posted + 1 /\ UNCHANGED <<lost, threw>>
           \/ \E b \in Seq(Nat) : /\ Messages = log \o b \o queue
                                  /\ Messages' = log \o queue
                                  /\ lost' = lost \cup ToSet(b)
                                  /\ threw' /\ posted' = posted
<1> DEFINE Same == UNCHANGED <<Messages, posted, lost>> /\ (threw => threw')
<1>t. log \in Seq(Nat) /\ queue \in Seq(Nat) /\ InHand \in Seq(Nat) /\ posted \in Nat
  BY HandType DEF TypeOK
<1>u. UNCHANGED <<batch, log, queue>> => Messages' = Messages
  <2>1. batch' = batch => InHand' = InHand
    BY DEF InHand, Writing
  <2> QED
    BY <2>1 DEF Messages
<1>1. ASSUME NEW t \in Posters, Enqueue(t)
      PROVE  Messages' = Append(Messages, posted + 1) /\ posted' = posted + 1 /\ UNCHANGED <<lost, threw>>
  <2> DEFINE n == posted + 1
  <2>1. InHand' = InHand /\ log' = log /\ queue' = Append(queue, n)
    BY <1>1 DEF Enqueue, writerVars, InHand, Writing
  <2>2. n \in Nat
    BY <1>t
  <2> HIDE DEF n
  <2>3. log \o InHand \o Append(queue, n) = Append(log \o InHand \o queue, n)
    BY <1>t, <2>2, AppendMoves
  <2>4. Messages' = log \o InHand \o Append(queue, n)
    BY <2>1 DEF Messages
  <2>5. Messages' = Append(Messages, n)
    BY <2>3, <2>4 DEF Messages
  <2> QED
    BY <1>1, <2>5 DEF Enqueue, n
<1>2. ASSUME NEW t \in Posters, EnqueueWork(t)
      PROVE  Same
  BY <1>2, <1>u DEF EnqueueWork, queueVars, postVars
<1>3. ASSUME NEW w \in Workers,
             BeginProcWriter(w) \/ BatchWritten(w) \/ DetectBackpressure(w) \/ BpWait(w)
                 \/ NotifyOnBackpressure(w) \/ NotifyAtEnd(w)
      PROVE  Same
  <2>1. UNCHANGED <<batch, log, queue, posted, lost, threw>>
    BY <1>3 DEF BeginProcWriter, BatchWritten, DetectBackpressure, BpWait, NotifyOnBackpressure,
       NotifyAtEnd, queueVars, postVars
  <2> QED
    BY <1>u, <2>1
<1>4. ASSUME NEW w \in Workers, Drain(w)
      PROVE  Same
  <2>1. w \in Busy /\ batch[w] = <<>> /\ queue' = <<>> /\ log' = log
    BY <1>4 DEF Drain, Busy, BatchInv
  <2>2. InHand = <<>> /\ InHand' = queue
    BY <1>4, <2>1, HandStep DEF Drain
  <2>3. Messages' = log \o queue \o <<>> /\ Messages = log \o <<>> \o queue
    BY <2>1, <2>2 DEF Messages
  <2>4. log \o queue \o <<>> = log \o <<>> \o queue
    BY <1>t
  <2> QED
    BY <1>4, <2>3, <2>4 DEF Drain, postVars
<1>5. ASSUME NEW w \in Workers, Write(w) \/ BpWrite(w)
      PROVE  Same
  <2>1. w \in Busy /\ batch[w] # <<>> /\ Append1(w) /\ UNCHANGED <<queueVars, postVars>>
    BY <1>5 DEF Write, BpWrite, Busy, BatchInv
  <2> DEFINE b == batch[w]
  <2>2. InHand = b /\ InHand' = Tail(b) /\ log' = Append(log, Head(b))
    BY <2>1, HandStep DEF Append1
  <2> HIDE DEF b
  <2>3. b # <<>> /\ b \in Seq(Nat)
    BY <1>t, <2>1, <2>2 DEF b
  <2>4. Append(log, Head(b)) \o Tail(b) \o queue = log \o b \o queue
    BY <1>t, <2>3, HeadMoves
  <2>5. Messages' = Append(log, Head(b)) \o Tail(b) \o queue /\ Messages = log \o b \o queue
    BY <2>1, <2>2 DEF Messages, queueVars
  <2> QED
    BY <2>1, <2>4, <2>5 DEF postVars
<1>6. ASSUME NEW w \in Workers, Throws(w)
      PROVE  \/ Same
             \/ \E b \in Seq(Nat) : /\ Messages = log \o b \o queue
                                    /\ Messages' = log \o queue
                                    /\ lost' = lost \cup ToSet(b)
                                    /\ threw' /\ posted' = posted
  <2>1. /\ lost' = lost \cup ToSet(batch[w]) /\ threw' /\ posted' = posted
        /\ log' = log /\ queue' = queue /\ batch' = [batch EXCEPT ![w] = <<>>]
    BY <1>6 DEF Throws, queueVars
  <2>2. CASE w \in Busy
    <3> DEFINE b == batch[w]
    <3>1. InHand = b /\ InHand' = <<>>
      BY <2>1, <2>2, HandStep
    <3> HIDE DEF b
    <3>2. b \in Seq(Nat) /\ Messages = log \o b \o queue
      BY <1>t, <3>1 DEF Messages
    <3>3. Messages' = log \o <<>> \o queue
      BY <2>1, <3>1 DEF Messages
    <3>4. log \o <<>> \o queue = log \o queue
      BY <1>t
    <3>5. lost' = lost \cup ToSet(b)
      BY <2>1 DEF b
    <3> QED
      BY <2>1, <3>2, <3>3, <3>4, <3>5
  <2>3. CASE w \notin Busy
    <3>1. batch[w] = <<>>
      BY <2>3 DEF Busy, BatchInv
    <3>2. batch' = batch
      BY <2>1, <3>1 DEF TypeOK
    <3>3. InHand' = InHand
      BY <3>2 DEF InHand, Writing
    <3>4. ToSet(batch[w]) = {}
      BY <3>1 DEF ToSet
    <3> QED
      BY <2>1, <3>3, <3>4 DEF Messages
  <2> QED
    BY <2>2, <2>3
<1>7. CASE ReaderStep \/ UNCHANGED vars
  <2>1. UNCHANGED <<batch, log, queue, posted, lost, threw>>
    BY <1>7 DEF ReaderStep, Wait, ReadNext, vars, queueVars, writerVars, postVars
  <2> QED
    BY <1>u, <2>1
<1> QED
  BY <1>1, <1>2, <1>3, <1>4, <1>5, <1>6, <1>7 DEF Next, WorkerStep

LEMMA OrderStep ==
    ASSUME TypeOK, DrainInv, BatchInv, OrderInv, [Next]_vars
    PROVE  OrderInv'
<1> DEFINE s == Messages
           t == Messages'
<1>t. log \in Seq(Nat) /\ queue \in Seq(Nat) /\ InHand \in Seq(Nat) /\ posted \in Nat
  BY HandType DEF TypeOK
<1>s. s \in Seq(Nat)
  BY <1>t DEF Messages
<1>o. /\ lost \subseteq 1 .. posted
      /\ \A i, j \in 1 .. Len(s) : i < j => s[i] < s[j]
      /\ ToSet(s) = (1 .. posted) \ lost
  BY DEF OrderInv
<1>g. \/ t = s /\ UNCHANGED <<posted, lost>>
      \/ t = Append(s, posted + 1) /\ posted' = posted + 1 /\ lost' = lost
      \/ \E b \in Seq(Nat) : /\ s = log \o b \o queue /\ t = log \o queue
                             /\ lost' = lost \cup ToSet(b) /\ posted' = posted
  BY MessagesStep
<1> SUFFICES /\ lost' \subseteq 1 .. posted'
             /\ \A i, j \in 1 .. Len(t) : i < j => t[i] < t[j]
             /\ ToSet(t) = (1 .. posted') \ lost'
  BY DEF OrderInv
<1> HIDE DEF s, t
<1>1. CASE t = s /\ UNCHANGED <<posted, lost>>
  BY <1>1, <1>o
<1>2. CASE t = Append(s, posted + 1) /\ posted' = posted + 1 /\ lost' = lost
  <2>1. /\ \A i, j \in 1 .. Len(t) : i < j => t[i] < t[j]
        /\ ToSet(t) = ToSet(s) \cup {posted + 1}
    BY <1>2, <1>o, <1>s, <1>t, NextBehind
  <2>2. posted + 1 \notin lost /\ lost' \subseteq 1 .. posted'
    BY <1>2, <1>o, <1>t
  <2>3. 1 .. posted' = (1 .. posted) \cup {posted + 1}
    BY <1>2, <1>t
  <2> QED
    BY <1>2, <1>o, <2>1, <2>2, <2>3
<1>3. ASSUME NEW b \in Seq(Nat), s = log \o b \o queue, t = log \o queue,
             lost' = lost \cup ToSet(b), posted' = posted
      PROVE  /\ lost' \subseteq 1 .. posted'
             /\ \A i, j \in 1 .. Len(t) : i < j => t[i] < t[j]
             /\ ToSet(t) = (1 .. posted') \ lost'
  <2>1. /\ \A i, j \in 1 .. Len(t) : i < j => t[i] < t[j]
        /\ ToSet(t) = ToSet(s) \ ToSet(b)
        /\ ToSet(b) \subseteq ToSet(s)
    BY <1>3, <1>o, <1>t, CutOut
  <2> QED
    BY <1>3, <1>o, <2>1
<1> QED
  BY <1>g, <1>1, <1>2, <1>3

------------------------------------------------------------------------------
(* Wakeup.                                                                 *)

LEMMA WakeStep ==
    ASSUME TypeOK, DrainInv, BatchInv, WakeInv, [Next]_vars
    PROVE  WakeInv'
<1>t. log \in Seq(Nat) /\ queue \in Seq(Nat) /\ InHand \in Seq(Nat) /\ posted \in Nat
  BY HandType DEF TypeOK
<1>1. ~threw' => ~threw /\ Len(Messages') = posted'
  <2>1. Messages \in Seq(Nat)
    BY <1>t DEF Messages
  <2>2. \A n \in Nat : Len(Append(Messages, n)) = Len(Messages) + 1
    BY <2>1
  <2>3. posted + 1 \in Nat
    BY <1>t
  <2> QED
    BY <2>2, <2>3, MessagesStep DEF WakeInv
<1>2. ASSUME ~threw', rpc' = "wait", pending' = 0, rpos' < Len(log')
      PROVE  Somebody'
  <2> USE <1>2 DEF TypeOK, Somebody, Running, Starting
  <2>w. rpc = "wait" /\ pending = 0 /\ rpos < Len(log) => Somebody
    BY <1>1 DEF WakeInv
  <2>1. ASSUME NEW x \in Posters, Enqueue(x) \/ EnqueueWork(x)
        PROVE  Somebody'
    <3>1. CASE Enqueue(x)
      <4>1. Somebody /\ jobs' = jobs /\ wpc' = wpc
        BY <2>w, <3>1 DEF Enqueue, writerVars, readerVars
      <4>2. \A y \in Posters : ppc[y] = "start" => ppc'[y] = "start"
        BY <3>1 DEF Enqueue
      <4> QED
        BY <4>1, <4>2
    <3>2. CASE EnqueueWork(x)
      BY <3>2 DEF EnqueueWork
    <3> QED
      BY <2>1, <3>1, <3>2
  <2>2. ASSUME NEW w \in Workers, WorkerStep(w)
        PROVE  Somebody'
    <3>1. CASE NotifyAtEnd(w)
      BY <3>1, AsyncWriterAssumption DEF NotifyAtEnd, Notified
    <3>2. CASE Throws(w)
      BY <3>2 DEF Throws
    <3>3. CASE ~NotifyAtEnd(w) /\ ~Throws(w)
      <4>1. wpc'[w] # "idle"
        BY <2>2, <3>3 DEF WorkerStep, BeginProcWriter, Drain, BatchWritten, Write, BpWrite, Append1,
           DetectBackpressure, NotifyOnBackpressure, BpWait, Go
      <4> QED
        BY <4>1
    <3> QED
      BY <3>1, <3>2, <3>3
  <2>3. CASE Wait
    BY <2>3 DEF Wait
  <2>4. CASE ReadNext
    <3>1. UNCHANGED <<ppc, jobs, wpc, log, pending>>
      BY <2>4 DEF ReadNext, writerVars
    <3>2. FALSE
      <4>1. rpc = "read" /\ rpos' = rpos /\ ~(rpos < Len(log)) /\ Len(log) \in Nat
        BY <2>4 DEF ReadNext
      <4> QED
        BY <3>1, <4>1
    <3> QED
      BY <3>2
  <2>5. CASE UNCHANGED vars
    BY <2>5, <2>w DEF vars, writerVars, readerVars
  <2> QED
    BY <2>1, <2>2, <2>3, <2>4, <2>5 DEF Next, ReaderStep
<1> QED
  BY <1>1, <1>2 DEF WakeInv

------------------------------------------------------------------------------
(* Nobody has posted. *)
LEMMA InvInit == Init => WriterInv
<1> SUFFICES ASSUME Init PROVE WriterInv
  OBVIOUS
<1>1. TypeOK /\ DrainInv
  BY TypeInit, DrainInit
<1>2. BatchInv
  BY DEF Init, BatchInv
<1>3. InHand = <<>>
  BY DEF Init, InHand, Writing
<1>4. Messages = <<>> /\ posted = 0 /\ lost = {}
  BY <1>3 DEF Init, Messages
<1>5. OrderInv
  BY <1>4 DEF OrderInv, ToSet
<1>6. WakeInv
  <2>1. log = <<>> /\ rpos = 0
    BY DEF Init
  <2> QED
    BY <1>4, <2>1 DEF WakeInv
<1> QED
  BY <1>1, <1>2, <1>5, <1>6 DEF WriterInv

(* The step of the invariant. *)
LEMMA InvStep == WriterInv /\ [Next]_vars => WriterInv'
BY TypeStep, DrainersStep, BatchStep, OrderStep, WakeStep DEF WriterInv

(* The variables keep their types, and WriterInv is an invariant.          *)
THEOREM Invariance == Spec => []WriterInv
BY InvInit, InvStep, PTL DEF Spec

(* The queue, the batches and the controls keep their types, for any      *)
(* number of posters and workers: no reader gets past the stream.          *)
THEOREM Typing == Spec => []TypeOK
<1>1. WriterInv => TypeOK
  BY DEF WriterInv
<1> QED
  BY <1>1, Invariance, PTL

(* What DrainInv says of the number of ProcWriters. *)
LEMMA DrainersOne == DrainInv => OneDrainer
<1> SUFFICES ASSUME DrainInv PROVE OneDrainer
  OBVIOUS
<1>1. Drainers = Draining + Cardinality(Leaving)
  BY RunningIs, Finite DEF Drainers, Draining, DrainInv, ControlType
<1>2. Draining \in Nat /\ Cardinality(Leaving) \in Nat
  BY Finite DEF Draining, DrainInv, ControlType
<1> QED
  BY <1>1, <1>2 DEF DrainInv, OneDrainer, Leaving

(* At most one ProcWriter runs or is scheduled that may still drain, and   *)
(* unless one ended in an exception, no message is in the queue without    *)
(* one (Post, ProcWriter).                                                 *)
THEOREM AtMostOneDrainer == Spec => []OneDrainer
<1>1. WriterInv => OneDrainer
  BY DrainersOne DEF WriterInv
<1> QED
  BY <1>1, Invariance, PTL

(* One worker at most has a batch, and the stream, the batch and the queue *)
(* hold the messages in the order they were posted, each once (Enqueue,    *)
(* Drain, ProcWriter).                                                     *)
THEOREM MessagesKeepOrder == Spec => []PostOrder
<1>1. WriterInv => PostOrder
  <2> SUFFICES ASSUME WriterInv PROVE PostOrder
    OBVIOUS
  <2>1. Writing \subseteq Busy
    BY DEF Writing, Busy, WriterInv, BatchInv
  <2>2. Cardinality(Busy) <= 1
    BY Finite DEF WriterInv, DrainInv, Draining, ControlType
  <2>3. IsFiniteSet(Writing) /\ Cardinality(Writing) <= Cardinality(Busy)
    BY <2>1, Finite, FS_Subset
  <2>4. Cardinality(Writing) \in Nat
    BY <2>3, FS_CardinalityType
  <2>5. Cardinality(Writing) <= 1
    BY <2>2, <2>3, <2>4, Finite
  <2> QED
    BY <2>5 DEF WriterInv, OrderInv, PostOrder
<1> QED
  BY <1>1, Invariance, PTL

(* A reader that waits while nobody is left to notify it has read all that *)
(* was posted, whatever datagrams its socket dropped (ProcWriter, Wait).   *)
THEOREM NoLostWakeup == Spec => []SleepsWithNothingToRead
<1>1. WriterInv => SleepsWithNothingToRead
  <2> SUFFICES ASSUME WriterInv, ~threw, Drainers = 0, pending = 0, rpc = "wait"
               PROVE  rpos = posted
    BY DEF SleepsWithNothingToRead
  <2>1. jobs = 0 /\ Running = {} /\ Starting = {}
    <3>1. Cardinality(Running) \in Nat /\ Cardinality(Starting) \in Nat /\ jobs \in Nat
      BY Finite, FS_CardinalityType DEF WriterInv, TypeOK
    <3>2. Cardinality(Running) = 0 /\ Cardinality(Starting) = 0 /\ jobs = 0
      BY <3>1 DEF Drainers
    <3> QED
      BY <3>2, Finite, FS_EmptySet
  <2>2. queue = <<>>
    BY DrainersOne DEF WriterInv, OneDrainer
  <2>3. InHand = <<>>
    BY <2>1 DEF InHand, Writing, Running, WriterInv, BatchInv
  <2>4. log \in Seq(Nat) /\ rpos \in 0 .. Len(log)
    BY HandType DEF WriterInv, TypeOK
  <2>5. Messages = log
    BY <2>2, <2>3, <2>4 DEF Messages
  <2>6. ~(rpos < Len(log)) /\ Len(log) = posted
    BY <2>1, <2>5 DEF WriterInv, WakeInv, Somebody
  <2> QED
    BY <2>4, <2>6
<1> QED
  BY <1>1, Invariance, PTL

------------------------------------------------------------------------------
(* Messages: what Serialize lays out, and what is found in it.             *)

(* The least member of a set of numbers. *)
LEMMA LeastExists ==
    ASSUME NEW S, S \subseteq Nat, S # {}
    PROVE  \E s \in S : \A t \in S : s <= t
<1> DEFINE Less == {ss \in Nat \X Nat : ss[1] < ss[2]}
<1>1. IsWellFoundedOn(Less, Nat)
  BY NatLessThanWellFounded DEF OpToRel
<1>2. \E s \in S : \A t \in S : <<t, s>> \notin Less
  <2> HIDE DEF Less
  <2> QED
    BY <1>1, WFMin
<1>3. PICK s \in S : \A t \in S : <<t, s>> \notin Less
  BY <1>2
<1>4. ASSUME NEW t \in S
      PROVE  s <= t
  <2>1. s \in Nat /\ t \in Nat /\ ~(t < s)
    BY <1>3
  <2> QED
    BY <2>1
<1> QED
  BY <1>4

(* What is added up in 32 bits and stays below Word is added up exactly. *)
LEMMA SmallRemainder ==
    ASSUME NEW n \in Nat, n < Word
    PROVE  n % Word = n
<1>1. Word \in Nat /\ Word > 0
  BY MessageAssumption
<1>2. n = Word * (n \div Word) + (n % Word) /\ n \div Word \in Int /\ n % Word \in 0 .. Word - 1
  BY <1>1, SMT
<1> DEFINE q == n \div Word
           r == n % Word
<1>3. n = Word * q + r /\ q \in Int /\ r \in 0 .. Word - 1
  BY <1>2
<1> HIDE DEF q, r
<1>4. q = 0
  BY <1>1, <1>3, SMT
<1> QED
  BY <1>1, <1>3, <1>4, SMT DEF r

(* What a message is made of. *)
Bytes == Characters \cup {"gen", "0", "1", "/", "NUL"}

LEMMA TopicsAre ==
    ASSUME NEW name \in Topics
    PROVE  /\ name \in Seq(Bytes) /\ Len(name) \in Nat
           /\ \A i \in 1 .. Len(name) : name[i] # "NUL"
<1>1. name \in Seq(Characters) /\ "NUL" \notin Characters
  BY MessageAssumption
<1>2. name \in Seq(Bytes)
  BY <1>1, SeqMonotonic, Characters \subseteq Bytes DEF Bytes
<1> QED
  BY <1>1, <1>2

(* The size of a message that fits 32 bits. *)
LEMMA SizeIs ==
    ASSUME NEW name \in Topics, NEW n \in Nat, 8 + 1 + (Len(name) + 1) + n < Word
    PROVE  SizeOf(name, n) = 8 + 1 + (Len(name) + 1) + n
<1>1. Len(name) \in Nat /\ Word \in Nat
  BY MessageAssumption, TopicsAre
<1>2. n < Word /\ n % Word = n
  BY <1>1, SmallRemainder
<1>3. (8 + 1 + (Len(name) + 1) + n) % Word = 8 + 1 + (Len(name) + 1) + n
  BY <1>1, SmallRemainder
<1> QED
  BY <1>2, <1>3 DEF SizeOf

------------------------------------------------------------------------------
(* Two topics have one common length: to the first character that differs, *)
(* or to the end of the shorter one.                                       *)
LEMMA CommonLengthIs ==
    ASSUME NEW a \in Seq(Bytes), NEW b \in Seq(Bytes)
    PROVE  /\ CommonLength(a, b) \in Nat
           /\ CommonLength(a, b) <= Len(a) /\ CommonLength(a, b) <= Len(b)
           /\ \A i \in 1 .. CommonLength(a, b) : a[i] = b[i]
           /\ CommonLength(a, b) < Len(a) /\ CommonLength(a, b) < Len(b) =>
                a[CommonLength(a, b) + 1] # b[CommonLength(a, b) + 1]
<1> DEFINE mlen == IF Len(a) < Len(b) THEN Len(a) ELSE Len(b)
           Ends(n) == (\A i \in 1 .. n : a[i] = b[i]) /\ (n < mlen => a[n + 1] # b[n + 1])
           S == {n \in 0 .. mlen : n < mlen => a[n + 1] # b[n + 1]}
<1>1. mlen \in Nat /\ mlen <= Len(a) /\ mlen <= Len(b) /\ (mlen = Len(a) \/ mlen = Len(b))
  OBVIOUS
<1>2. \E n \in 0 .. mlen : Ends(n)
  <2> HIDE DEF mlen
  <2>1. S \subseteq Nat /\ mlen \in S
    BY <1>1
  <2>2. PICK n \in S : \A m \in S : n <= m
    <3> HIDE DEF S
    <3> QED
      BY <2>1, LeastExists
  <2>3. ASSUME NEW i \in 1 .. n
        PROVE  a[i] = b[i]
    <3>1. i - 1 \in 0 .. mlen /\ i - 1 < n /\ (i - 1) + 1 = i /\ n <= mlen
      BY <1>1
    <3>2. i - 1 \notin S
      <4> HIDE DEF S
      <4> QED
        BY <2>1, <2>2, <3>1
    <3> QED
      BY <3>1, <3>2
  <2>4. n \in 0 .. mlen /\ Ends(n)
    BY <2>3
  <2> QED
    BY <2>4
<1>3. CommonLength(a, b) = CHOOSE n \in 0 .. mlen : Ends(n)
  BY DEF CommonLength
<1> HIDE DEF mlen, Ends
<1>4. CommonLength(a, b) \in 0 .. mlen /\ Ends(CommonLength(a, b))
  BY <1>2, <1>3
<1> QED
  BY <1>1, <1>4 DEF Ends

(* A topic is a prefix of another if all its characters are in common. *)
LEMMA PrefixIs ==
    ASSUME NEW a \in Seq(Bytes), NEW b \in Seq(Bytes)
    PROVE  IsPrefix(a, b) <=> Len(a) <= Len(b) /\ \A i \in 1 .. Len(a) : a[i] = b[i]
<1>1. ASSUME Len(a) <= Len(b)
      PROVE  SubSeq(a, 1, Len(a)) = SubSeq(b, 1, Len(a)) <=> \A i \in 1 .. Len(a) : a[i] = b[i]
  <2>1. /\ SubSeq(a, 1, Len(a)) \in Seq(Bytes) /\ SubSeq(b, 1, Len(a)) \in Seq(Bytes)
        /\ Len(SubSeq(a, 1, Len(a))) = Len(a) /\ Len(SubSeq(b, 1, Len(a))) = Len(a)
        /\ \A i \in 1 .. Len(a) : SubSeq(a, 1, Len(a))[i] = a[i] /\ SubSeq(b, 1, Len(a))[i] = b[i]
    BY <1>1
  <2> QED
    BY <2>1, SeqEqual
<1> QED
  BY <1>1 DEF IsPrefix

(* TopicMatches: comparing the common length with the two lengths tells    *)
(* whether the topics are equal and which is a prefix of which.            *)
LEMMA TopicMatchesIs ==
    ASSUME NEW reader \in Seq(Bytes), NEW writer \in Seq(Bytes),
           NEW hd \in BOOLEAN, NEW pd \in BOOLEAN
    PROVE  TopicMatches(reader, hd, writer, pd) <=>
             \/ reader = writer
             \/ pd /\ IsPrefix(writer, reader)
             \/ hd /\ IsPrefix(reader, writer)
<1> DEFINE clen == CommonLength(reader, writer)
<1>1. /\ clen \in Nat /\ clen <= Len(reader) /\ clen <= Len(writer)
      /\ \A i \in 1 .. clen : reader[i] = writer[i]
      /\ clen < Len(reader) /\ clen < Len(writer) => reader[clen + 1] # writer[clen + 1]
  BY CommonLengthIs
<1>2. TopicMatches(reader, hd, writer, pd) <=>
        \/ clen = Len(reader) /\ clen = Len(writer)
        \/ pd /\ clen = Len(writer)
        \/ hd /\ clen = Len(reader)
  BY DEF TopicMatches
<1> HIDE DEF clen
<1>3. Len(reader) \in Nat /\ Len(writer) \in Nat
  OBVIOUS
<1>4. clen = Len(writer) <=> IsPrefix(writer, reader)
  <2>1. IsPrefix(writer, reader) => clen = Len(writer)
    <3> SUFFICES ASSUME IsPrefix(writer, reader), clen < Len(writer) PROVE FALSE
      BY <1>1, <1>3
    <3>1. clen + 1 \in 1 .. Len(writer) /\ clen < Len(reader)
      BY <1>1, <1>3, PrefixIs
    <3> QED
      BY <1>1, <3>1, PrefixIs
  <2> QED
    BY <1>1, <2>1, PrefixIs
<1>5. clen = Len(reader) <=> IsPrefix(reader, writer)
  <2>1. IsPrefix(reader, writer) => clen = Len(reader)
    <3> SUFFICES ASSUME IsPrefix(reader, writer), clen < Len(reader) PROVE FALSE
      BY <1>1, <1>3
    <3>1. clen + 1 \in 1 .. Len(reader) /\ clen < Len(writer)
      BY <1>1, <1>3, PrefixIs
    <3> QED
      BY <1>1, <3>1, PrefixIs
  <2> QED
    BY <1>1, <2>1, PrefixIs
<1>6. clen = Len(reader) /\ clen = Len(writer) <=> reader = writer
  <2>1. clen = Len(reader) /\ clen = Len(writer) => reader = writer
    BY <1>1, SeqEqual
  <2>2. reader = writer => clen = Len(reader) /\ clen = Len(writer)
    BY <1>1, <1>3
  <2> QED
    BY <2>1, <2>2
<1> QED
  BY <1>2, <1>4, <1>5, <1>6

------------------------------------------------------------------------------
LEMMA Joined ==
    ASSUME NEW s \in Seq(Bytes), NEW t \in Seq(Bytes)
    PROVE  /\ s \o t \in Seq(Bytes) /\ Len(s \o t) = Len(s) + Len(t)
           /\ \A i \in 1 .. Len(s) : (s \o t)[i] = s[i]
           /\ \A i \in 1 .. Len(t) : (s \o t)[Len(s) + i] = t[i]
OBVIOUS

LEMMA DataIs ==
    ASSUME NEW n \in Nat
    PROVE  Data(n) \in Seq(Bytes) /\ Len(Data(n)) = n
<1>1. Data(n) \in [1 .. n -> Bytes]
  BY DEF Data, Bytes
<1> QED
  BY <1>1

(* Where Serialize puts what: two flags, the topic, a zero, the data. *)
LEMMA Layout ==
    ASSUME NEW name \in Topics, NEW n \in Nat, n < Word, NEW pd \in BOOLEAN,
           NEW b, b = Serialize("gen", pd, name, n)
    PROVE  /\ b \in Seq(Bytes) /\ Len(b) = Len(name) + 3 + n
           /\ b[2] = "1" <=> pd
           /\ \A i \in 1 .. Len(name) : b[i + 2] = name[i]
           /\ b[Len(name) + 3] = "NUL"
           /\ \A i \in 1 .. n : b[Len(name) + 3 + i] = Data(n)[i]
<1> DEFINE flags == <<"gen", IF pd THEN "1" ELSE "0">>
           d == Data(n)
<1>1. name \in Seq(Bytes) /\ Len(name) \in Nat
  BY TopicsAre
<1>2. b = flags \o name \o <<"NUL">> \o d
  BY SmallRemainder DEF Serialize
<1>3. d \in Seq(Bytes) /\ Len(d) = n
  BY DataIs
<1>4. flags \in Seq(Bytes) /\ Len(flags) = 2 /\ (flags[2] = "1" <=> pd)
  <2>1. flags[2] = IF pd THEN "1" ELSE "0"
    OBVIOUS
  <2>2. "gen" \in Bytes /\ (IF pd THEN "1" ELSE "0") \in Bytes
    BY DEF Bytes
  <2>3. flags \in Seq(Bytes) /\ Len(flags) = 2
    BY <2>2
  <2> QED
    BY <2>1, <2>3
<1> HIDE DEF flags, d
<1> DEFINE x == flags \o name
           y == x \o <<"NUL">>
<1>5. /\ x \in Seq(Bytes) /\ Len(x) = 2 + Len(name) /\ x[2] = flags[2]
      /\ \A i \in 1 .. Len(name) : x[2 + i] = name[i]
  <2>1. /\ x \in Seq(Bytes) /\ Len(x) = Len(flags) + Len(name)
        /\ \A i \in 1 .. Len(flags) : x[i] = flags[i]
        /\ \A i \in 1 .. Len(name) : x[Len(flags) + i] = name[i]
    BY <1>1, <1>4, Joined, Zenon
  <2> HIDE DEF x
  <2> QED
    BY <1>1, <1>4, <2>1
<1> HIDE DEF x
<1>6. /\ y \in Seq(Bytes) /\ Len(y) = 3 + Len(name) /\ y[Len(name) + 3] = "NUL"
      /\ \A i \in 1 .. 2 + Len(name) : y[i] = x[i]
  <2>1. "NUL" \in Bytes
    BY DEF Bytes
  <2>2. <<"NUL">> \in Seq(Bytes) /\ Len(<<"NUL">>) = 1 /\ <<"NUL">>[1] = "NUL"
    BY <2>1
  <2>3. /\ y \in Seq(Bytes) /\ Len(y) = Len(x) + 1
        /\ \A i \in 1 .. Len(x) : y[i] = x[i]
        /\ y[Len(x) + 1] = "NUL"
    BY <1>5, <2>2, Joined
  <2> HIDE DEF y
  <2> QED
    BY <1>1, <1>5, <2>3
<1>7. b = y \o d
  BY <1>2 DEF x
<1> HIDE DEF y
<1>8. /\ b \in Seq(Bytes) /\ Len(b) = Len(y) + n
      /\ \A i \in 1 .. Len(y) : b[i] = y[i]
      /\ \A i \in 1 .. n : b[Len(y) + i] = d[i]
  <2>1. y \in Seq(Bytes)
    BY <1>6
  <2>2. d \in Seq(Bytes)
    BY <1>3
  <2>3. /\ y \o d \in Seq(Bytes) /\ Len(y \o d) = Len(y) + Len(d)
        /\ \A i \in 1 .. Len(y) : (y \o d)[i] = y[i]
        /\ \A i \in 1 .. Len(d) : (y \o d)[Len(y) + i] = d[i]
    BY <2>1, <2>2, Joined
  <2> QED
    BY <1>3, <1>7, <2>3
<1>9. b[2] = flags[2]
  BY <1>1, <1>5, <1>6, <1>8
<1>10. ASSUME NEW i \in 1 .. Len(name)
       PROVE  b[i + 2] = name[i]
  <2>1. i + 2 \in 1 .. 2 + Len(name) /\ i + 2 \in 1 .. Len(y)
    BY <1>1, <1>6
  <2> QED
    BY <1>5, <1>6, <1>8, <2>1
<1>11. b[Len(name) + 3] = "NUL"
  BY <1>1, <1>6, <1>8
<1> QED
  BY <1>1, <1>4, <1>6, <1>8, <1>9, <1>10, <1>11 DEF d

(* DeserializeAndFilter finds the topic and the data that Serialize wrote: *)
(* the first zero ends the topic, whatever bytes the data has.             *)
LEMMA ParsesBack ==
    ASSUME NEW name \in Topics, NEW n \in Nat, n < Word, NEW pd \in BOOLEAN,
           bytes = Serialize("gen", pd, name, n)
    PROVE  Topic = name /\ Payload = Data(n) /\ (bytes[2] = "1" <=> pd)
<1> DEFINE e == Len(name) + 3
           First(i) == bytes[i] = "NUL" /\ "NUL" \notin ToSet(SubSeq(bytes, 3, i - 1))
<1>1. /\ name \in Seq(Bytes) /\ Len(name) \in Nat
      /\ \A i \in 1 .. Len(name) : name[i] # "NUL"
  BY TopicsAre
<1>2. /\ bytes \in Seq(Bytes) /\ Len(bytes) = e + n
      /\ bytes[2] = "1" <=> pd
      /\ \A i \in 1 .. Len(name) : bytes[i + 2] = name[i]
      /\ bytes[e] = "NUL"
      /\ \A i \in 1 .. n : bytes[e + i] = Data(n)[i]
  BY Layout
<1>3. ASSUME NEW i \in 3 .. Len(bytes)
      PROVE  ToSet(SubSeq(bytes, 3, i - 1)) = {bytes[j] : j \in 3 .. i - 1}
  <2>1. /\ DOMAIN SubSeq(bytes, 3, i - 1) = 1 .. i - 3
        /\ \A j \in 1 .. i - 3 : SubSeq(bytes, 3, i - 1)[j] = bytes[j + 2]
    BY <1>2
  <2>2. \A j \in 3 .. i - 1 : j - 2 \in 1 .. i - 3 /\ (j - 2) + 2 = j
    OBVIOUS
  <2>3. \A j \in 1 .. i - 3 : j + 2 \in 3 .. i - 1
    OBVIOUS
  <2> DEFINE t == SubSeq(bytes, 3, i - 1)
  <2>4. DOMAIN t = 1 .. i - 3 /\ (\A j \in 1 .. i - 3 : t[j] = bytes[j + 2])
    BY <2>1
  <2> HIDE DEF t
  <2>5. {t[j] : j \in 1 .. i - 3} \subseteq {bytes[j] : j \in 3 .. i - 1}
    BY <2>3, <2>4
  <2>6. {bytes[j] : j \in 3 .. i - 1} \subseteq {t[j] : j \in 1 .. i - 3}
    <3> SUFFICES ASSUME NEW j \in 3 .. i - 1 PROVE bytes[j] \in {t[k] : k \in 1 .. i - 3}
      OBVIOUS
    <3>1. t[j - 2] = bytes[j] /\ j - 2 \in 1 .. i - 3
      BY <2>2, <2>4
    <3> QED
      BY <3>1
  <2>7. ToSet(t) = {t[j] : j \in 1 .. i - 3}
    BY <2>4 DEF ToSet
  <2> QED
    BY <2>5, <2>6, <2>7 DEF t
<1>4. e \in 3 .. Len(bytes) /\ First(e)
  <2>1. e \in 3 .. Len(bytes)
    BY <1>1, <1>2
  <2>2. ASSUME NEW j \in 3 .. e - 1
        PROVE  bytes[j] # "NUL"
    <3>1. j - 2 \in 1 .. Len(name) /\ (j - 2) + 2 = j
      BY <1>1
    <3> QED
      BY <1>1, <1>2, <3>1
  <2> QED
    BY <1>2, <1>3, <2>1, <2>2
<1>5. ASSUME NEW i \in 3 .. Len(bytes), First(i)
      PROVE  i = e
  <2>1. ~(i < e)
    <3> SUFFICES ASSUME i < e PROVE FALSE
      OBVIOUS
    <3>1. i - 2 \in 1 .. Len(name) /\ (i - 2) + 2 = i
      BY <1>1
    <3>2. bytes[i] = name[i - 2] /\ name[i - 2] # "NUL"
      BY <1>1, <1>2, <3>1
    <3> QED
      BY <1>5, <3>2
  <2>2. ~(e < i)
    <3> SUFFICES ASSUME e < i PROVE FALSE
      OBVIOUS
    <3>1. e \in 3 .. i - 1
      BY <1>1
    <3> QED
      BY <1>2, <1>3, <1>5, <3>1
  <2> QED
    BY <1>1, <2>1, <2>2
<1>6. TopicEnd = CHOOSE i \in 3 .. Len(bytes) : First(i)
  BY DEF TopicEnd
<1> HIDE DEF First
<1>7. TopicEnd = e
  BY <1>4, <1>5, <1>6
<1>8. Topic = name
  <2>1. /\ SubSeq(bytes, 3, e - 1) \in Seq(Bytes) /\ Len(SubSeq(bytes, 3, e - 1)) = Len(name)
        /\ \A i \in 1 .. Len(name) : SubSeq(bytes, 3, e - 1)[i] = bytes[i + 2]
    BY <1>1, <1>2
  <2> QED
    BY <1>1, <1>2, <1>7, <2>1, SeqEqual DEF Topic
<1>9. Payload = Data(n)
  <2>1. /\ SubSeq(bytes, e + 1, Len(bytes)) \in Seq(Bytes)
        /\ Len(SubSeq(bytes, e + 1, Len(bytes))) = n
        /\ \A i \in 1 .. n : SubSeq(bytes, e + 1, Len(bytes))[i] = bytes[e + i]
    BY <1>1, <1>2
  <2>2. SubSeq(bytes, e + 1, Len(bytes)) = Data(n)
    <3> DEFINE t == SubSeq(bytes, e + 1, Len(bytes))
    <3>1. t \in Seq(Bytes) /\ Len(t) = n /\ \A i \in 1 .. n : t[i] = Data(n)[i]
      BY <1>2, <2>1
    <3> HIDE DEF t
    <3>2. t = Data(n)
      BY <3>1, DataIs, SeqEqual
    <3> QED
      BY <3>2 DEF t
  <2> QED
    BY <1>7, <2>2 DEF Payload
<1> QED
  BY <1>2, <1>8, <1>9

------------------------------------------------------------------------------
(* Of a message whose whole size has 32 bits, nothing is cut: there is     *)
(* room for all that Serialize writes.                                     *)
LEMMA NothingCut ==
    ASSUME NEW name \in Topics, NEW n \in Nat, 8 + 1 + (Len(name) + 1) + n < Word, NEW pd \in BOOLEAN
    PROVE  /\ FirstBytes(Serialize("gen", pd, name, n), SizeOf(name, n)) = Serialize("gen", pd, name, n)
           /\ n < Word /\ ~Overruns(name, n)
           /\ SizeOf(name, n) \in Nat /\ SizeOf(<<>>, 0) \in Nat
           /\ SizeOf(name, n) >= SizeOf(<<>>, 0)
<1> DEFINE b == Serialize("gen", pd, name, n)
           t == SubSeq(b, 1, Len(b))
<1>1. Len(name) \in Nat /\ Word \in Nat
  BY MessageAssumption, TopicsAre
<1>2. n < Word /\ n % Word = n
  BY <1>1, SmallRemainder
<1>3. SizeOf(name, n) = 8 + 1 + (Len(name) + 1) + n
  BY SizeIs
<1>4. b \in Seq(Bytes) /\ Len(b) = SizeOf(name, n) - 7
  <2>1. b \in Seq(Bytes) /\ Len(b) = Len(name) + 3 + n
    BY <1>2, Layout
  <2> HIDE DEF b
  <2> QED
    BY <1>1, <1>3, <2>1
<1> HIDE DEF b
<1>5. t = b
  <2>1. t \in Seq(Bytes) /\ Len(t) = Len(b) /\ \A i \in 1 .. Len(b) : t[i] = b[i]
    BY <1>4
  <2> HIDE DEF t
  <2> QED
    BY <1>4, <2>1, SeqEqual
<1>6. SizeOf(<<>>, 0) = 8 + 1 + (0 + 1) + 0
  <2>1. 0 % Word = 0 /\ (8 + 1 + (0 + 1) + 0) % Word = 8 + 1 + (0 + 1) + 0
    BY <1>1, SmallRemainder
  <2> QED
    BY <2>1 DEF SizeOf
<1>7. FirstBytes(b, SizeOf(name, n)) = b
  BY <1>4, <1>5 DEF FirstBytes
<1> QED
  BY <1>1, <1>2, <1>3, <1>6, <1>7 DEF Overruns, b

(* From the call of CreateMessage on: what the message is, and that it has *)
(* passed the checks so far.                                               *)
Fits == size < MaxMessageSize

MessageInv ==
    /\ stage \in {"start", "created", "posted", "read", "thrown", "aborted",
                  "undefined", "readAborted"}
    /\ stage # "start" =>
        /\ args.name \in Topics /\ args.len \in Lens /\ args.descendants \in BOOLEAN
    /\ stage \in {"created", "posted", "read", "aborted"} =>
        /\ bytes = FirstBytes(Serialize("gen", args.descendants, args.name, args.len),
                              SizeOf(args.name, args.len))
        /\ size = SizeOf(args.name, args.len) /\ size <= MaxMessageSize
    /\ stage \in {"posted", "read"} => Fits
    /\ stage = "aborted" => ~Fits
    /\ stage = "thrown" => SizeOf(args.name, args.len) > MaxMessageSize
    /\ stage \in {"undefined", "readAborted"} => WholeSize >= Word
    /\ Delivered

(* Who is called: the handlers whose topic matches, with what was posted. *)
LEMMA FilterIsRight == MessageInv /\ DeserializeAndFilter => Delivered'
<1> SUFFICES ASSUME MessageInv, DeserializeAndFilter, WholeSize < Word, stage' = "read" PROVE Delivered'
  BY DEF DeserializeAndFilter, Delivered, WholeSize
<1>1. /\ args.name \in Topics /\ args.len \in Nat /\ args.descendants \in BOOLEAN
      /\ args.len < Word
      /\ bytes = Serialize("gen", args.descendants, args.name, args.len)
  <2>1. /\ args.name \in Topics /\ args.len \in Nat /\ args.descendants \in BOOLEAN
        /\ bytes = FirstBytes(Serialize("gen", args.descendants, args.name, args.len),
                              SizeOf(args.name, args.len))
    BY MessageAssumption DEF MessageInv, DeserializeAndFilter
  <2> QED
    BY <2>1, NothingCut DEF WholeSize
<1>2. Topic = args.name /\ Payload = Data(args.len) /\ (bytes[2] = "1") = args.descendants
  BY <1>1, ParsesBack
<1>3. called' = {[reader |-> r, data |-> Data(args.len)] :
                   r \in {r \in ChannelReaders :
                           TopicMatches(r.name, r.descendants, args.name, args.descendants)}}
  BY <1>2 DEF DeserializeAndFilter
<1>4. ASSUME NEW r \in ChannelReaders
      PROVE  TopicMatches(r.name, r.descendants, args.name, args.descendants) <=>
               \/ r.name = args.name
               \/ args.descendants /\ IsPrefix(args.name, r.name)
               \/ r.descendants /\ IsPrefix(r.name, args.name)
  <2>1. r.name \in Seq(Bytes) /\ args.name \in Seq(Bytes) /\ r.descendants \in BOOLEAN
    BY <1>1, TopicsAre DEF ChannelReaders
  <2> QED
    BY <1>1, <2>1, TopicMatchesIs
<1>5. {r \in ChannelReaders :
         TopicMatches(r.name, r.descendants, args.name, args.descendants)} =
      {r \in ChannelReaders :
         \/ r.name = args.name
         \/ args.descendants /\ IsPrefix(args.name, r.name)
         \/ r.descendants /\ IsPrefix(r.name, args.name)}
  BY <1>4, Zenon
<1>6. args' = args
  BY DEF DeserializeAndFilter
<1> QED
  BY <1>3, <1>5, <1>6, Zenon DEF Delivered

(* A reader of a message whose whole size has 32 bits finds room for its   *)
(* topic, and the zero that ends it.                                       *)
LEMMA NothingMissing ==
    MessageInv /\ DeserializeAndFilter /\ WholeSize < Word => stage' = "read"
<1> SUFFICES ASSUME MessageInv, DeserializeAndFilter, WholeSize < Word PROVE stage' = "read"
  OBVIOUS
<1>1. /\ args.name \in Topics /\ args.len \in Nat /\ args.descendants \in BOOLEAN
      /\ bytes = FirstBytes(Serialize("gen", args.descendants, args.name, args.len),
                            SizeOf(args.name, args.len))
      /\ size = SizeOf(args.name, args.len)
  BY MessageAssumption DEF MessageInv, DeserializeAndFilter
<1>2. /\ args.len < Word
      /\ size \in Nat /\ SizeOf(<<>>, 0) \in Nat /\ size >= SizeOf(<<>>, 0)
      /\ bytes = Serialize("gen", args.descendants, args.name, args.len)
  BY <1>1, NothingCut DEF WholeSize
<1>3. /\ Len(bytes) = Len(args.name) + 3 + args.len
      /\ bytes[Len(args.name) + 3] = "NUL"
  BY <1>1, <1>2, Layout
<1>4. Len(args.name) \in Nat /\ Len(args.name) + 3 \in 3 .. Len(bytes)
  BY <1>1, <1>3, TopicsAre
<1> QED
  BY <1>2, <1>3, <1>4 DEF DeserializeAndFilter

LEMMA MessageInvInit == MessageInit => MessageInv
BY DEF MessageInit, MessageInv, Delivered

LEMMA MessageInvStep == MessageInv /\ [MessageNext]_messageVars => MessageInv'
<1> SUFFICES ASSUME MessageInv, [MessageNext]_messageVars PROVE MessageInv'
  OBVIOUS
<1>1. ASSUME NEW name \in Topics, NEW len \in Lens, NEW pd \in BOOLEAN, CreateMessage(name, len, pd)
      PROVE  MessageInv'
  <2>1. /\ args'.name = name /\ args'.len = len /\ args'.descendants = pd
    BY <1>1 DEF CreateMessage
  <2>2. SizeOf(name, len) \in Nat /\ MaxMessageSize \in Nat
    <3>1. len \in Nat /\ Word \in Nat /\ Word > 0 /\ Len(name) \in Nat
      BY MessageAssumption, TopicsAre
    <3>2. 8 + 1 + (Len(name) + 1) + (len % Word) \in Nat
      BY <3>1
    <3> QED
      BY <3>1, <3>2, MessageAssumption DEF SizeOf
  <2>3. CASE SizeOf(name, len) > MaxMessageSize
    <3>1. stage' = "thrown"
      BY <1>1, <2>3 DEF CreateMessage
    <3> QED
      BY <2>1, <2>3, <3>1 DEF MessageInv, Delivered
  <2>4. CASE /\ ~(SizeOf(name, len) > MaxMessageSize)
             /\ stage' = "created" /\ size' = SizeOf(name, len)
             /\ bytes' = FirstBytes(Serialize("gen", pd, name, len), SizeOf(name, len))
    BY <2>1, <2>2, <2>4 DEF MessageInv, Delivered
  <2>5. CASE Overruns(name, len) /\ stage' = "undefined"
    <3>1. WholeSize' = 8 + 1 + (Len(name) + 1) + len
      BY <2>1 DEF WholeSize
    <3>2. len \in Nat /\ Len(name) \in Nat /\ Word \in Nat
      BY MessageAssumption, TopicsAre
    <3>3. ~(8 + 1 + (Len(name) + 1) + len < Word)
      BY <2>5, <3>2, NothingCut
    <3> QED
      BY <2>1, <2>5, <3>1, <3>2, <3>3 DEF MessageInv, Delivered
  <2> QED
    BY <1>1, <2>3, <2>4, <2>5 DEF CreateMessage
<1>2. CASE Post
  BY <1>2 DEF Post, MessageInv, Fits, Delivered, WholeSize
<1>3. CASE DeserializeAndFilter
  <2>1. stage' \in {"read", "undefined", "readAborted"} /\ UNCHANGED <<args, bytes, size>>
    BY <1>3 DEF DeserializeAndFilter
  <2>2. WholeSize \in Int /\ Word \in Int /\ WholeSize' = WholeSize
    <3>1. args.name \in Topics /\ args.len \in Nat /\ Word \in Nat
      BY <1>3, MessageAssumption DEF DeserializeAndFilter, MessageInv
    <3>2. Len(args.name) \in Nat
      BY <3>1, TopicsAre
    <3>3. WholeSize \in Int
      BY <3>1, <3>2 DEF WholeSize
    <3>4. WholeSize' = WholeSize
      BY <2>1 DEF WholeSize
    <3> QED
      BY <3>1, <3>3, <3>4
  <2>3. stage' # "read" => WholeSize' >= Word
    <3>1. WholeSize < Word => stage' = "read"
      BY <1>3, NothingMissing
    <3>2. WholeSize \in Int /\ Word \in Int /\ WholeSize' = WholeSize
      BY <2>2
    <3> HIDE DEF WholeSize
    <3> QED
      BY <3>1, <3>2
  <2>4. Delivered'
    BY <1>3, FilterIsRight
  <2>5. stage = "posted"
    BY <1>3 DEF DeserializeAndFilter
  <2> QED
    BY <2>1, <2>3, <2>4, <2>5 DEF MessageInv, Fits
<1>4. CASE UNCHANGED messageVars
  BY <1>4 DEF messageVars, MessageInv, Fits, Delivered, WholeSize
<1> QED
  BY <1>1, <1>2, <1>3, <1>4 DEF MessageNext

(* The invariant: what there is of a message is what was asked for.        *)
THEOREM MessageInvariance == MessageSpec => []MessageInv
BY MessageInvInit, MessageInvStep, PTL DEF MessageSpec

(* For every set of topics and every message whose whole size has 32 bits, *)
(* what Serialize writes is what DeserializeAndFilter finds, and           *)
(* TopicMatches calls exactly the handlers of that topic and those the two *)
(* descendant flags reach.                                                 *)
THEOREM DeliveredToWhomItIsFor == MessageSpec => []Delivered
<1>1. MessageInv => Delivered
  BY DEF MessageInv
<1> QED
  BY <1>1, MessageInvariance, PTL

(* CreateMessage and Post check the size of every message that has one of  *)
(* 32 bits, but for the one size at which the assertion of Post fails, and *)
(* nothing is then written or read past the end of the message.            *)
THEOREM SizesAreChecked == MessageSpec => []SizesChecked
<1>1. MessageInv => SizesChecked
  <2> SUFFICES ASSUME MessageInv, stage # "start",
                      WholeSize < Word
               PROVE  SizesChecked
    BY DEF SizesChecked
  <2>1. args.name \in Topics /\ args.len \in Nat /\ MaxMessageSize \in Nat /\ Len(args.name) \in Nat
    <3>1. args.name \in Topics /\ args.len \in Lens
      BY DEF MessageInv
    <3> QED
      BY <3>1, MessageAssumption, TopicsAre
  <2>2. SizeOf(args.name, args.len) = WholeSize /\ WholeSize \in Nat /\ Word \in Nat
    BY <2>1, SizeIs, MessageAssumption DEF WholeSize
  <2> QED
    BY <2>1, <2>2 DEF MessageInv, Fits, SizesChecked
<1> QED
  BY <1>1, MessageInvariance, PTL
==============================================================================
