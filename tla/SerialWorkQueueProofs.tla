------------------------- MODULE SerialWorkQueueProofs -------------------------
(***************************************************************************)
(* The order of the items and what a stop leaves behind, for any number of *)
(* items, both classes and all exit policies.                              *)
(***************************************************************************)
EXTENDS SerialWorkQueue, Integers, SequenceTheorems, TLAPS

(* What the controls of the thread and of the caller of Stop say of each   *)
(* other: a batch exists only while it runs, the thread leaves only when   *)
(* _stop is stored, and _stopPolicy is the caller's once it is stored.     *)
ControlInv ==
    /\ pc # "run" => batch = <<>>
    /\ pc \in {"policy?", "done"} => stop
    /\ stop <=> spc \in {"stored", "notify", "join", "returned"}
    /\ spc \in {"none", "called", "stored"} => policy = "IF_EMPTY"
    /\ spc \in {"notify", "join", "returned"} => policy = asked
    /\ spc = "returned" => pc = "done"
    /\ before <= count

(* A thread that left under IF_EMPTY left nothing of what was there when   *)
(* Stop was called.                                                        *)
DoneInv ==
    pc = "done" /\ asked = "IF_EMPTY" =>
        \A i \in 1 .. before : i \in ToSet(ran) \cup dropped

QueueInv == TypeOK /\ ControlInv /\ dropped \subseteq 1 .. count /\ SerialOrder /\ DoneInv

------------------------------------------------------------------------------
(* The items done, the batch in hand and the queue, end to end, are one    *)
(* sequence of numbered items.                                             *)
(* ToSet, without its definition. *)
LEMMA InToSet ==
    ASSUME NEW T, NEW s \in Seq(T), NEW x
    PROVE  x \in ToSet(s) <=> \E i \in 1 .. Len(s) : s[i] = x
BY DEF ToSet

(* A sequence is a function. *)
LEMMA IsFunction ==
    ASSUME NEW T, NEW s \in Seq(T)
    PROVE  s \in [1 .. Len(s) -> T]
OBVIOUS

(* The items of two sequences, end to end, ... *)
LEMMA Two ==
    ASSUME NEW a \in Seq(Nat), NEW b \in Seq(Nat)
    PROVE  /\ a \o b \in Seq(Nat)
           /\ Len(a \o b) = Len(a) + Len(b)
           /\ \A i \in 1 .. Len(a) : (a \o b)[i] = a[i]
           /\ \A i \in Len(a) + 1 .. Len(a) + Len(b) : (a \o b)[i] = b[i - Len(a)]
OBVIOUS

(* ... and of three. *)
LEMMA Three ==
    ASSUME NEW a \in Seq(Nat), NEW b \in Seq(Nat), NEW c \in Seq(Nat)
    PROVE  /\ a \o b \o c \in Seq(Nat)
           /\ Len(a \o b \o c) = Len(a) + Len(b) + Len(c)
           /\ \A i \in 1 .. Len(a) : (a \o b \o c)[i] = a[i]
           /\ \A i \in Len(a) + 1 .. Len(a) + Len(b) : (a \o b \o c)[i] = b[i - Len(a)]
           /\ \A i \in Len(a) + Len(b) + 1 .. Len(a) + Len(b) + Len(c) :
                   (a \o b \o c)[i] = c[i - Len(a) - Len(b)]
OBVIOUS

(* RunItem, and WriteEx, move the first of the batch, and nothing else.    *)
LEMMA HeadMoves ==
    ASSUME NEW a \in Seq(Nat), NEW b \in Seq(Nat), NEW c \in Seq(Nat), b # <<>>
    PROVE  Append(a, Head(b)) \o Tail(b) \o c = a \o b \o c
OBVIOUS

(* Enqueue appends to them all.                                            *)
LEMMA AppendMoves ==
    ASSUME NEW a \in Seq(Nat), NEW b \in Seq(Nat), NEW c \in Seq(Nat), NEW n \in Nat
    PROVE  a \o b \o Append(c, n) = Append(a \o b \o c, n)
<1> DEFINE d == a \o b
<1>1. d \in Seq(Nat)
  OBVIOUS
<1> HIDE DEF d
<1>2. d \o Append(c, n) = Append(d \o c, n)
  BY <1>1
<1> QED
  BY <1>2 DEF d

(* Enqueue puts the next number behind an increasing sequence.             *)
LEMMA NextBehind ==
    ASSUME NEW n \in Nat, NEW s \in Seq(Nat), NEW t,
           t = Append(s, n + 1),
           ToSet(s) \subseteq 1 .. n,
           \A i, j \in 1 .. Len(s) : i < j => s[i] < s[j]
    PROVE  /\ \A i, j \in 1 .. Len(t) : i < j => t[i] < t[j]
           /\ ToSet(t) = ToSet(s) \cup {n + 1}
<1>1. \A i \in 1 .. Len(s) : s[i] \in 1 .. n
  BY InToSet
<1>2. Len(t) = Len(s) + 1 /\ t[Len(s) + 1] = n + 1 /\ \A k \in 1 .. Len(s) : t[k] = s[k]
  OBVIOUS
<1>3. ASSUME NEW i \in 1 .. Len(t), NEW j \in 1 .. Len(t), i < j
      PROVE  t[i] < t[j]
  <2>1. i \in 1 .. Len(s) /\ t[i] = s[i] /\ s[i] \in 1 .. n
    BY <1>1, <1>2, <1>3
  <2>2. CASE j = Len(s) + 1
    BY <1>2, <2>1, <2>2
  <2>3. CASE j \in 1 .. Len(s)
    BY <1>2, <1>3, <2>1, <2>3
  <2> QED
    BY <1>2, <2>2, <2>3
<1>4. ToSet(t) = ToSet(s) \cup {n + 1}
  BY DEF ToSet
<1> QED
  BY <1>3, <1>4

(* What throws cuts the rest of the batch out of an increasing sequence.   *)
LEMMA CutOut ==
    ASSUME NEW a \in Seq(Nat), NEW b \in Seq(Nat), NEW c \in Seq(Nat),
           \A i, j \in 1 .. Len(a \o b \o c) : i < j => (a \o b \o c)[i] < (a \o b \o c)[j]
    PROVE  /\ \A i, j \in 1 .. Len(a \o c) : i < j => (a \o c)[i] < (a \o c)[j]
           /\ ToSet(a \o c) = ToSet(a \o b \o c) \ ToSet(b)
           /\ ToSet(b) \subseteq ToSet(a \o b \o c)
<1> DEFINE s == a \o b \o c
           t == a \o c
           L == Len(a)
           M == Len(b)
           N == Len(c)
<1>1. L \in Nat /\ M \in Nat /\ N \in Nat
  OBVIOUS
<1>2. Len(s) = L + M + N /\ s \in [1 .. L + M + N -> Nat]
  <2>1. s \in Seq(Nat) /\ Len(s) = L + M + N
    BY Three
  <2> QED
    BY <2>1, IsFunction
<1>3. Len(t) = L + N /\ t \in [1 .. L + N -> Nat] /\ b \in [1 .. M -> Nat]
  <2>1. t \in Seq(Nat) /\ Len(t) = L + N
    BY Two
  <2> QED
    BY <2>1, IsFunction
<1>4. \A i \in 1 .. L : t[i] = s[i]
  BY Two, Three
<1>5. \A i \in L + 1 .. L + N : t[i] = s[i + M]
  <2> SUFFICES ASSUME NEW i \in L + 1 .. L + N PROVE t[i] = s[i + M]
    OBVIOUS
  <2>1. t[i] = c[i - L]
    BY Two
  <2>2. i + M \in L + M + 1 .. L + M + N /\ (i + M) - L - M = i - L
    BY <1>1
  <2>3. s[i + M] = c[(i + M) - L - M]
    BY <2>2, Three
  <2> QED
    BY <2>1, <2>2, <2>3
<1>6. \A i \in 1 .. M : b[i] = s[L + i]
  <2> SUFFICES ASSUME NEW i \in 1 .. M PROVE b[i] = s[L + i]
    OBVIOUS
  <2>1. L + i \in L + 1 .. L + M /\ (L + i) - L = i
    BY <1>1
  <2> QED
    BY <2>1, Three
<1>7. /\ ToSet(s) = {s[i] : i \in 1 .. L + M + N}
      /\ ToSet(t) = {t[i] : i \in 1 .. L + N}
      /\ ToSet(b) = {b[i] : i \in 1 .. M}
  BY <1>2, <1>3 DEF ToSet
<1>8. \A i, j \in 1 .. L + M + N : i < j => s[i] < s[j]
  BY <1>2
<1> SUFFICES /\ \A i, j \in 1 .. L + N : i < j => t[i] < t[j]
             /\ ToSet(t) = ToSet(s) \ ToSet(b)
             /\ ToSet(b) \subseteq ToSet(s)
  BY <1>3
<1> HIDE DEF s, t, L, M, N
<1> DEFINE at(i) == IF i <= L THEN i ELSE i + M
<1> USE <1>1
<1>9. \A i \in 1 .. L + N : at(i) \in 1 .. L + M + N /\ t[i] = s[at(i)] /\ ~(at(i) \in L + 1 .. L + M)
  BY <1>4, <1>5
<1>10. \A i, j \in 1 .. L + N : i < j => at(i) < at(j)
  OBVIOUS
<1>11. \A i \in 1 .. M : L + i \in 1 .. L + M + N /\ L + i \in L + 1 .. L + M
  OBVIOUS
<1>12. \A i \in L + 1 .. L + M : i - L \in 1 .. M /\ s[i] = b[i - L]
  <2> SUFFICES ASSUME NEW i \in L + 1 .. L + M PROVE i - L \in 1 .. M /\ s[i] = b[i - L]
    OBVIOUS
  <2>1. i - L \in 1 .. M /\ L + (i - L) = i
    OBVIOUS
  <2> QED
    BY <1>6, <2>1
<1>13. \A i \in 1 .. L + M + N : i \in L + 1 .. L + M \/ \E k \in 1 .. L + N : i = at(k)
  <2> SUFFICES ASSUME NEW i \in 1 .. L + M + N, i \notin L + 1 .. L + M
               PROVE  \E k \in 1 .. L + N : i = at(k)
    OBVIOUS
  <2>1. CASE i <= L
    <3>1. i \in 1 .. L + N /\ i = at(i)
      BY <2>1
    <3> QED
      BY <3>1
  <2>2. CASE i > L
    <3>1. i - M \in 1 .. L + N /\ i = at(i - M)
      BY <2>2
    <3> QED
      BY <3>1
  <2> QED
    BY <2>1, <2>2
<1> HIDE DEF at
<1>14. \A i, j \in 1 .. L + M + N : i # j => s[i] # s[j]
  BY <1>2, <1>8
<1>15. \A i, j \in 1 .. L + N : i < j => t[i] < t[j]
  BY <1>8, <1>9, <1>10
<1>16. \A i \in 1 .. L + N : \A k \in 1 .. M : t[i] # b[k]
  <2> SUFFICES ASSUME NEW i \in 1 .. L + N, NEW k \in 1 .. M PROVE t[i] # b[k]
    OBVIOUS
  <2>1. at(i) \in 1 .. L + M + N /\ L + k \in 1 .. L + M + N /\ at(i) # L + k
    BY <1>9, <1>11
  <2>2. s[at(i)] # s[L + k]
    BY <1>14, <2>1
  <2> QED
    BY <1>6, <1>9, <2>2
<1>17. \A j \in 1 .. L + M + N : (\E k \in 1 .. M : s[j] = b[k]) \/ (\E i \in 1 .. L + N : s[j] = t[i])
  BY <1>9, <1>12, <1>13
<1>18. ToSet(t) \subseteq ToSet(s) \ ToSet(b)
  BY <1>7, <1>9, <1>16
<1>19. ToSet(s) \ ToSet(b) \subseteq ToSet(t)
  BY <1>7, <1>17
<1>20. ToSet(b) \subseteq ToSet(s)
  BY <1>6, <1>7, <1>11
<1> QED
  BY <1>15, <1>18, <1>19, <1>20

------------------------------------------------------------------------------
(* Types.                                                                  *)

(* The types hold at first, ... *)
LEMMA TypeInit == Init => TypeOK
<1> SUFFICES ASSUME Init PROVE TypeOK
  OBVIOUS
<1>1. stopLocks \in BOOLEAN /\ pc \in ThreadPcs /\ stop \in BOOLEAN
  BY WorkQueueAssumption DEF Init, MutexHeld, ThreadPcs
<1>2. MaxItems \in Nat /\ count \in 0 .. MaxItems /\ before \in 0 .. MaxItems
  BY WorkQueueAssumption DEF Init
<1> QED
  BY <1>1, <1>2 DEF Init, TypeOK

(* ... and after every step. *)
LEMMA TypeStep ==
    ASSUME TypeOK, [Next]_vars
    PROVE  TypeOK'
<1> USE WorkQueueAssumption DEF TypeOK, threadVars, stopVars
<1>0. MutexHeld \subseteq ThreadPcs /\ {"asleep", "woken", "run", "done", "check"} \subseteq ThreadPcs
  BY DEF ThreadPcs, MutexHeld
<1>1. Notified \in ThreadPcs
  BY <1>0 DEF Notified
<1>2. CASE Enqueue
  <2>1. count + 1 \in 1 .. MaxItems
    BY <1>2 DEF Enqueue
  <2> QED
    BY <1>1, <1>2, <2>1 DEF Enqueue
<1>3. CASE CallStop \/ StopStep
  BY <1>1, <1>3 DEF CallStop, StopStep, StoreStop, StorePolicy, NotifyStop, Join
<1>4. CASE CheckPredicate \/ Sleep \/ TestStop \/ TestPolicy \/ BatchDone \/ Wake
  BY <1>0, <1>4 DEF CheckPredicate, Sleep, TestStop, TestPolicy, BatchDone, Wake, Go, MutexHeld
<1>5. CASE SwapQueue
  BY <1>0, <1>5 DEF SwapQueue
<1>6. CASE RunItem
  BY <1>6 DEF RunItem
<1>7. CASE ItemThrows
  <2>1. ToSet(Tail(batch)) \subseteq 1 .. MaxItems
    BY <1>7 DEF ItemThrows, ToSet
  <2>2. ran' \in Seq(1 .. MaxItems) /\ batch' \in Seq(1 .. MaxItems)
    BY <1>7 DEF ItemThrows
  <2>3. dropped' \subseteq 1 .. MaxItems /\ pc' \in ThreadPcs
    BY <1>0, <1>7, <2>1 DEF ItemThrows
  <2> QED
    BY <1>7, <2>2, <2>3 DEF ItemThrows
<1>8. CASE UNCHANGED vars
  BY <1>8 DEF vars
<1> QED
  BY <1>2, <1>3, <1>4, <1>5, <1>6, <1>7, <1>8 DEF Next, ThreadStep

------------------------------------------------------------------------------
(* Controls.                                                               *)

(* One step keeps what the control of the runner says of the queue, ... *)
LEMMA ControlStep ==
    ASSUME TypeOK, ControlInv, [Next]_vars
    PROVE  ControlInv'
<1> USE DEF ControlInv, threadVars, stopVars
<1>1. CASE Enqueue
  BY <1>1 DEF Enqueue, Notified, TypeOK
<1>2. CASE CallStop
  BY <1>2 DEF CallStop, TypeOK
<1>3. CASE StopStep
  BY <1>3 DEF StopStep, StoreStop, StorePolicy, NotifyStop, Join, Notified, TypeOK
<1>4. CASE CheckPredicate \/ Sleep \/ TestStop \/ TestPolicy \/ BatchDone \/ Wake
  BY <1>4 DEF CheckPredicate, Sleep, TestStop, TestPolicy, BatchDone, Wake, Go
<1>5. CASE SwapQueue \/ RunItem \/ ItemThrows
  BY <1>5 DEF SwapQueue, RunItem, ItemThrows
<1>6. CASE UNCHANGED vars
  BY <1>6 DEF vars
<1> QED
  BY <1>1, <1>2, <1>3, <1>4, <1>5, <1>6 DEF Next, ThreadStep

------------------------------------------------------------------------------
(* Order.                                                                  *)

(* ... the order of the items, ... *)
LEMMA OrderStep ==
    ASSUME TypeOK, ControlInv, SerialOrder, dropped \subseteq 1 .. count, [Next]_vars
    PROVE  SerialOrder' /\ (dropped \subseteq 1 .. count)'
<1>t. ran \in Seq(Nat) /\ batch \in Seq(Nat) /\ queue \in Seq(Nat) /\ count \in Nat
  BY WorkQueueAssumption DEF TypeOK
<1>1. ASSUME Items' = Items, count' = count, dropped' = dropped
      PROVE  SerialOrder' /\ (dropped \subseteq 1 .. count)'
  BY <1>1 DEF SerialOrder
<1>2. CASE Enqueue
  <2>1. Items' = Append(Items, count + 1)
    <3> DEFINE n == count + 1
    <3>1. ran' = ran /\ batch' = batch /\ queue' = Append(queue, n)
      BY <1>2 DEF Enqueue
    <3>2. n \in Nat
      BY <1>t
    <3> HIDE DEF n
    <3>3. ran \o batch \o Append(queue, n) = Append(ran \o batch \o queue, n)
      BY <1>t, <3>2, AppendMoves
    <3>4. Items' = ran \o batch \o Append(queue, n)
      BY <3>1 DEF Items
    <3> QED
      BY <3>3, <3>4 DEF Items, n
  <2>2. Items \in Seq(Nat)
    BY <1>t DEF Items
  <2>3. ToSet(Items) \subseteq 1 .. count /\ \A i, j \in 1 .. Len(Items) : i < j => Items[i] < Items[j]
    BY DEF SerialOrder
  <2> DEFINE s == Items
             t == Items'
  <2> HIDE DEF s, t
  <2>4. /\ \A i, j \in 1 .. Len(t) : i < j => t[i] < t[j]
        /\ ToSet(t) = ToSet(s) \cup {count + 1}
    <3>1. s \in Seq(Nat) /\ t = Append(s, count + 1) /\ ToSet(s) \subseteq 1 .. count
      BY <2>1, <2>2, <2>3 DEF s, t
    <3>2. \A i, j \in 1 .. Len(s) : i < j => s[i] < s[j]
      BY <2>3 DEF s
    <3> QED
      BY <1>t, <3>1, <3>2, NextBehind
  <2>5. \A i, j \in 1 .. Len(Items') : i < j => Items'[i] < Items'[j]
    BY <2>4 DEF t
  <2>6. count + 1 \notin dropped /\ dropped' = dropped /\ count' = count + 1
    BY <1>2 DEF Enqueue, TypeOK
  <2> QED
    BY <1>t, <2>4, <2>5, <2>6 DEF SerialOrder, s, t
<1>3. CASE CallStop \/ StopStep \/ Wake \/ CheckPredicate \/ Sleep \/ TestStop \/ TestPolicy \/ BatchDone
  BY <1>1, <1>3 DEF CallStop, StopStep, StoreStop, StorePolicy, NotifyStop, Join, Wake, CheckPredicate,
     Sleep, TestStop, TestPolicy, BatchDone, Go, Items, threadVars
<1>4. CASE SwapQueue
  <2>1. Items' = Items
    BY <1>4, <1>t DEF SwapQueue, Items, ControlInv
  <2> QED
    BY <1>1, <1>4, <2>1 DEF SwapQueue
<1>5. CASE RunItem
  <2>1. Items' = Items
    BY <1>5, <1>t, HeadMoves DEF RunItem, Items
  <2> QED
    BY <1>1, <1>5, <2>1 DEF RunItem
<1>6. CASE ItemThrows
  <2> DEFINE a == Append(ran, Head(batch))
             b == Tail(batch)
             s == a \o b \o queue
             t == a \o queue
  <2>1. batch # <<>> /\ dropped' = dropped \cup ToSet(b) /\ count' = count
    BY <1>6 DEF ItemThrows
  <2>2. a \in Seq(Nat) /\ b \in Seq(Nat) /\ queue \in Seq(Nat)
    BY <1>t, <2>1
  <2>3. s = Items
    BY <1>t, <2>1, HeadMoves DEF Items
  <2>4. t = Items'
    BY <1>6, <1>t, <2>2 DEF ItemThrows, Items
  <2>5. /\ \A i, j \in 1 .. Len(s) : i < j => s[i] < s[j]
        /\ ToSet(s) = (1 .. count) \ dropped
    BY <2>3 DEF SerialOrder
  <2> HIDE DEF a, b, s, t
  <2>6. /\ \A i, j \in 1 .. Len(t) : i < j => t[i] < t[j]
        /\ ToSet(t) = ToSet(s) \ ToSet(b)
        /\ ToSet(b) \subseteq ToSet(s)
    BY <2>2, <2>5, CutOut DEF s, t
  <2>7. ToSet(t) = (1 .. count) \ (dropped \cup ToSet(b)) /\ ToSet(b) \subseteq 1 .. count
    BY <2>5, <2>6
  <2> QED
    BY <2>1, <2>4, <2>6, <2>7 DEF SerialOrder
<1>7. CASE UNCHANGED vars
  BY <1>1, <1>7 DEF vars, Items
<1> QED
  BY <1>2, <1>3, <1>4, <1>5, <1>6, <1>7 DEF Next, ThreadStep

(* ... and what a Stop that returned leaves behind. *)
LEMMA DoneStep ==
    ASSUME TypeOK, ControlInv, SerialOrder, DoneInv, [Next]_vars
    PROVE  DoneInv'
<1> USE DEF DoneInv
<1>t. ran \in Seq(Nat) /\ batch \in Seq(Nat) /\ queue \in Seq(Nat) /\ count \in Nat /\ before \in Nat
  BY WorkQueueAssumption DEF TypeOK
<1>1. CASE Enqueue
  BY <1>1 DEF Enqueue, Notified, stopVars
<1>2. CASE CallStop
  BY <1>2 DEF CallStop, threadVars, ControlInv
<1>3. CASE StopStep
  BY <1>3 DEF StopStep, StoreStop, StorePolicy, NotifyStop, Join, Notified, threadVars
<1>4. CASE CheckPredicate \/ Sleep \/ TestStop \/ BatchDone \/ Wake
  BY <1>4 DEF CheckPredicate, Sleep, TestStop, BatchDone, Wake, Go
<1>5. CASE TestPolicy
  <2> SUFFICES ASSUME pc' = "done", asked = "IF_EMPTY"
               PROVE  \A i \in 1 .. before : i \in ToSet(ran) \cup dropped
    BY <1>5 DEF TestPolicy, Go, stopVars
  <2>1. batch = <<>> /\ queue = <<>> /\ before <= count
    BY <1>5 DEF TestPolicy, Go, ControlInv
  <2>2. Items = ran
    BY <1>t, <2>1 DEF Items
  <2> QED
    BY <1>t, <2>1, <2>2 DEF SerialOrder
<1>6. CASE SwapQueue \/ RunItem \/ ItemThrows
  BY <1>6 DEF SwapQueue, RunItem, ItemThrows
<1>7. CASE UNCHANGED vars
  BY <1>7 DEF vars
<1> QED
  BY <1>1, <1>2, <1>3, <1>4, <1>5, <1>6, <1>7 DEF Next, ThreadStep

------------------------------------------------------------------------------
(* A queue just constructed. *)
LEMMA InvInit == Init => QueueInv
<1> SUFFICES ASSUME Init PROVE QueueInv
  OBVIOUS
<1>1. TypeOK
  BY TypeInit
<1>2. ControlInv /\ DoneInv /\ dropped \subseteq 1 .. count
  BY DEF Init, ControlInv, DoneInv
<1>3. Items = <<>> /\ count = 0
  BY DEF Init, Items
<1>4. SerialOrder
  BY <1>3 DEF SerialOrder, ToSet
<1> QED
  BY <1>1, <1>2, <1>4 DEF QueueInv

(* The step of the invariant. *)
LEMMA InvStep == QueueInv /\ [Next]_vars => QueueInv'
BY TypeStep, ControlStep, OrderStep, DoneStep DEF QueueInv

(* The variables of SerialWorkQueue keep their types, and QueueInv is an   *)
(* invariant.                                                              *)
THEOREM Invariance == Spec => []QueueInv
BY InvInit, InvStep, PTL DEF Spec

(* The queue, the batch and the controls keep their types, for any number *)
(* of items and both classes.                                              *)
THEOREM Typing == Spec => []TypeOK
<1>1. QueueInv => TypeOK
  BY DEF QueueInv
<1> QED
  BY <1>1, Invariance, PTL

(* SerialWorkItemQueue executes items in the order they were enqueued,     *)
(* each once, whatever throws and whenever the queue is stopped.           *)
THEOREM ItemsKeepOrder == Spec => []SerialOrder
<1>1. QueueInv => SerialOrder
  BY DEF QueueInv
<1> QED
  BY <1>1, Invariance, PTL

(* A Stop(IF_EMPTY) that has returned leaves nothing unexecuted of what    *)
(* was enqueued before it, in both classes and whenever the thread looks   *)
(* at the flag and at the policy.                                          *)
THEOREM StopLeavesNothing == Spec => []StopDrains
<1>1. QueueInv => StopDrains
  BY DEF QueueInv, ControlInv, DoneInv, StopDrains
<1> QED
  BY <1>1, Invariance, PTL
==============================================================================
