----------------------------- MODULE RmpRingProofs -----------------------------
(***************************************************************************)
(* Proofs about RmpRing for every buffer size, header size, number of      *)
(* readers, set of message sizes and behaviour of backpressure handlers.   *)
(***************************************************************************)
EXTENDS RmpRingInv, RmpRingRefines, Integers, FiniteSetTheorems, TLAPS

------------------------------------------------------------------------------
(* The layout of the stream in the buffer.                                 *)

(* Division with remainder, which the provers know only for constants.     *)
LEMMA DivMod ==
    ASSUME NEW p \in Nat
    PROVE  /\ BufSize \in Nat /\ BufSize > 0 /\ HdrSize \in Nat /\ HdrSize > 0
           /\ \E d \in Nat : p = BufSize * d + Idx(p)
           /\ Idx(p) \in Nat /\ Idx(p) < BufSize
<1>1. BufSize \in Nat /\ BufSize > 0 /\ HdrSize \in Nat /\ HdrSize > 0
  BY LayoutAssumption
<1>2. p = BufSize * (p \div BufSize) + (p % BufSize) /\ p \div BufSize \in Nat
  BY <1>1, SMT
<1>3. p % BufSize \in Nat /\ p % BufSize < BufSize
  BY <1>1, SMT
<1> QED
  BY <1>1, <1>2, <1>3 DEF Idx

(* The quotient and the remainder are determined by their sum.             *)
LEMMA ModUnique ==
    ASSUME NEW d \in Nat, NEW x \in Nat, x < BufSize
    PROVE  Idx(BufSize * d + x) = x
<1>1. BufSize \in Nat /\ BufSize > 0
  BY LayoutAssumption
<1>2. BufSize * d + x \in Nat
  BY <1>1
<1>3. PICK e \in Nat : BufSize * d + x = BufSize * e + Idx(BufSize * d + x)
  BY <1>2, DivMod
<1>4. Idx(BufSize * d + x) \in Nat /\ Idx(BufSize * d + x) < BufSize
  BY <1>2, DivMod
<1>5. BufSize * d = BufSize * e
  <2> DEFINE y == Idx(BufSize * d + x)
  <2>1. y \in Nat /\ y < BufSize /\ BufSize * d + x = BufSize * e + y
    BY <1>3, <1>4
  <2> HIDE DEF y
  <2>2. ~(d < e)
    <3>1. SUFFICES ASSUME d < e PROVE FALSE
      OBVIOUS
    <3>2. BufSize * e >= BufSize * (d + 1)
      BY <1>1, <3>1, SMT
    <3> QED
      BY <1>1, <2>1, <3>2, SMT
  <2>3. ~(e < d)
    <3>1. SUFFICES ASSUME e < d PROVE FALSE
      OBVIOUS
    <3>2. BufSize * d >= BufSize * (e + 1)
      BY <1>1, <3>1, SMT
    <3> QED
      BY <1>1, <2>1, <3>2, SMT
  <2> QED
    BY <2>2, <2>3
<1> QED
  BY <1>1, <1>3, <1>4, <1>5, SMT

(* The cell of a byte that does not run past the end of the buffer.        *)
LEMMA CellOf ==
    ASSUME NEW p \in Nat, NEW k \in Nat, Idx(p) + k < BufSize
    PROVE  Idx(p + k) = Idx(p) + k
<1>1. PICK d \in Nat : p = BufSize * d + Idx(p)
  BY DivMod
<1>2. Idx(p) \in Nat /\ BufSize \in Nat
  BY DivMod
<1>3. p + k = BufSize * d + (Idx(p) + k)
  BY <1>1, <1>2, SMT
<1>4. Idx(p) + k \in Nat
  BY <1>2
<1> QED
  BY <1>3, <1>4, ModUnique

(* The rest of the buffer ends where the buffer starts.                    *)
LEMMA EndIsStart ==
    ASSUME NEW p \in Nat
    PROVE  /\ ToEnd(p) \in Nat /\ ToEnd(p) > 0
           /\ Idx(p + ToEnd(p)) = 0
<1>1. PICK d \in Nat : p = BufSize * d + Idx(p)
  BY DivMod
<1>2. Idx(p) \in Nat /\ Idx(p) < BufSize /\ BufSize \in Nat
  BY DivMod
<1>3. p + ToEnd(p) = BufSize * (d + 1) + 0
  BY <1>1, <1>2, SMT DEF ToEnd
<1>4. Idx(BufSize * (d + 1) + 0) = 0
  <2>1. d + 1 \in Nat /\ 0 \in Nat /\ 0 < BufSize
    BY <1>2
  <2> QED
    BY ONLY <2>1, ModUnique, Zenon
<1> QED
  BY <1>2, <1>3, <1>4 DEF ToEnd

(* Two bytes of the stream that share a cell are at least a buffer apart.  *)
LEMMA Lap ==
    ASSUME NEW m \in Nat, NEW n \in Nat, Idx(m) = Idx(n), m < n
    PROVE  n >= m + BufSize
<1>1. PICK d \in Nat : m = BufSize * d + Idx(m)
  BY DivMod
<1>2. PICK e \in Nat : n = BufSize * e + Idx(n)
  BY DivMod
<1>3. Idx(m) \in Nat /\ BufSize \in Nat /\ BufSize > 0
  BY DivMod
<1>4. d < e
  <2>1. SUFFICES ASSUME e <= d PROVE FALSE
    OBVIOUS
  <2>2. BufSize * e <= BufSize * d
    BY <1>3, <2>1, SMT
  <2> QED
    BY <1>1, <1>2, <1>3, <2>2, SMT
<1>5. BufSize * e >= BufSize * (d + 1)
  BY <1>3, <1>4, SMT
<1> QED
  BY <1>1, <1>2, <1>3, <1>5, SMT

------------------------------------------------------------------------------
(* The sizes, and what a message may take.                                 *)
LEMMA Sizes ==
    /\ BufSize \in Nat /\ BufSize > 0
    /\ HdrSize \in Nat /\ HdrSize > 0 /\ HdrSize <= BufSize
    /\ \A n \in MsgLens : n \in Nat /\ HdrSize + n <= BufSize
BY LayoutAssumption, RingAssumption DEF MaxMessageSize

(* The types of the operators of RmpLayout.                                *)
LEMMA LayoutTypes ==
    ASSUME NEW p \in Nat
    PROVE  /\ Idx(p) \in Nat /\ Idx(p) < BufSize
           /\ ToEnd(p) \in Nat /\ ToEnd(p) > 0 /\ ToEnd(p) = BufSize - Idx(p)
           /\ ToEnd(p) <= BufSize
           /\ \A n \in Nat : BytesToWrite(p, n) \in Nat /\ BytesToWrite(p, n) >= HdrSize + n
<1>1. Idx(p) \in Nat /\ Idx(p) < BufSize
  BY DivMod
<1>2. ToEnd(p) \in Nat /\ ToEnd(p) > 0 /\ ToEnd(p) = BufSize - Idx(p) /\ ToEnd(p) <= BufSize
  BY <1>1, Sizes DEF ToEnd
<1> QED
  BY <1>1, <1>2, Sizes DEF BytesToWrite

LEMMA IdxType ==
    ASSUME NEW p \in Nat
    PROVE  /\ Idx(p) \in Nat /\ Idx(p) < BufSize /\ Idx(p) \in Cells
           /\ ToEnd(p) = BufSize - Idx(p)
<1>1. Idx(p) \in Nat /\ Idx(p) < BufSize /\ ToEnd(p) = BufSize - Idx(p)
  BY LayoutTypes
<1> QED
  BY <1>1, Sizes DEF Cells

LEMMA StoredType ==
    ASSUME TypeOK, NEW p \in Nat, NEW n \in Nat
    PROVE  Stored(p, n) \in [Cells -> Int]
<1>1. Idx(p) \in Int
  BY LayoutTypes
<1>2. \A c \in Cells : c \in Int /\ mem[c] \in Int
  BY Sizes DEF TypeOK, Cells
<1>3. \A c \in Cells : p + (c - Idx(p)) \in Int
  BY <1>1, <1>2
<1> QED
  BY <1>2, <1>3 DEF Stored

LEMMA WithFrameType ==
    ASSUME TypeOK, NEW p \in Nat, NEW h \in Header
    PROVE  /\ DOMAIN WithFrame(p, h) = DOMAIN frames \cup {p}
           /\ DOMAIN WithFrame(p, h) \subseteq Nat
           /\ WithFrame(p, h) \in [DOMAIN WithFrame(p, h) -> Header]
           /\ WithFrame(p, h)[p] = h
           /\ \A q \in DOMAIN frames : q # p => WithFrame(p, h)[q] = frames[q]
BY DEF WithFrame, TypeOK

LEMMA HeaderAtType ==
    ASSUME TypeOK, NEW p, NEW h \in HeaderAt(p)
    PROVE  h \in Header
BY RingAssumption DEF HeaderAt, TypeOK, Garbage, NoHeader, Header, Types

LEMMA HullType == \A act : Hull(act) \subseteq Readers
BY DEF Hull

(* No step of a reader touches the buffer or the writer.                   *)
LEMMA ReaderLeavesBuffer ==
    ASSUME NEW r \in Readers, ReaderStep(r)
    PROVE  UNCHANGED <<bufVars, writerVars>>
BY DEF ReaderStep, Activation, ReadStep, Alloc, Free, LoadFreePos, StorePosition, SetActive,
       UpdateRange, StartRead, ReadDone, SkipBlank, CheckEarly, CopyHeader, CheckHeader,
       CopyData, Confirm, Advance, Deactivate, CrashReader

(* No step of a writer touches a slot or what a reader holds.              *)
LEMMA WriterLeavesReaders ==
    ASSUME WriterStep \/ CrashWriter
    PROVE  UNCHANGED <<slotVars, localVars, base, got>>
BY DEF WriterStep, BeginWrite, ScanActive, ScanPosition, ScanDone, BpWait, BpWrite, BpThrow,
       StorePadding, SkipToStart, StoreHeader, StoreData, Commit, CrashWriter, histVars

------------------------------------------------------------------------------
(* Types.                                                                  *)

LEMMA TypeInit == Init => TypeOK
<1> SUFFICES ASSUME Init PROVE TypeOK
  OBVIOUS
<1>1. frames \in [DOMAIN frames -> Header] /\ DOMAIN frames \subseteq Nat
  BY DEF Init
<1>2. NoHeader \in Header
  BY DEF NoHeader, Header
<1>3. mem \in [Cells -> Int]
  BY DEF Init
<1>4. /\ active \in [Readers -> BOOLEAN] /\ bpos \in [Readers -> Nat]
      /\ rpc \in [Readers -> ReaderPcs] /\ pos \in [Readers -> Nat]
      /\ hdr \in [Readers -> Header] /\ ok \in [Readers -> BOOLEAN]
      /\ exposed \in [Readers -> BOOLEAN] /\ base \in [Readers -> Nat]
  BY <1>2 DEF Init, ReaderPcs, Vacant
<1>5. got \in [Readers -> Seq([at : Nat, intact : BOOLEAN])]
  BY DEF Init
<1> QED
  BY <1>1, <1>3, <1>4, <1>5 DEF Init, TypeOK, WriterPcs

LEMMA TypeWriter ==
    ASSUME TypeOK, WriterInv, WriterStep \/ CrashWriter
    PROVE  TypeOK'
<1> USE DEF bufVars, writerVars, slotVars, localVars, histVars, WriterPcs, Scanning, Storing
<1>1. CASE BeginWrite
  <2>1. PICK len \in MsgLens : wlen' = len /\ wEnd' = freePos + BytesToWrite(freePos, len)
    BY <1>1 DEF BeginWrite
  <2>2. wlen' \in Nat /\ wEnd' \in Nat
    <3>1. len \in Nat /\ freePos \in Nat
      BY Sizes DEF TypeOK
    <3>2. BytesToWrite(freePos, len) \in Nat
      BY <3>1, LayoutTypes
    <3> QED
      BY <2>1, <3>1, <3>2
  <2> QED
    BY <1>1, <2>2 DEF BeginWrite, TypeOK
<1>2. CASE ScanActive
  BY <1>2 DEF ScanActive, TypeOK
<1>3. CASE ScanPosition
  BY <1>3 DEF ScanPosition, TypeOK
<1>4. CASE ScanDone
  BY <1>4 DEF ScanDone, RaiseHigh, FirstStore, TypeOK
<1>5. CASE BpWait
  BY <1>5 DEF BpWait, TypeOK
<1>6. CASE BpWrite
  BY <1>6, LayoutTypes, Sizes DEF BpWrite, RaiseHigh, FirstStore, TypeOK, Expired
<1>7. CASE BpThrow
  BY <1>7 DEF BpThrow, WriterLeaves, TypeOK
<1>8. CASE StorePadding
  <2> DEFINE h == [type |-> "PADDING", len |-> ToEnd(freePos) - HdrSize]
  <2>a. freePos \in Nat /\ HdrSize \in Nat /\ ~(ToEnd(freePos) < HdrSize)
    BY <1>8, Sizes DEF StorePadding, TypeOK, WriterInv, NoRoomForHeader
  <2>b. ToEnd(freePos) \in Nat
    BY <2>a, LayoutTypes
  <2>c. ToEnd(freePos) - HdrSize \in Nat
    BY <2>a, <2>b
  <2>1. h \in Header
    BY <2>c DEF Header, Types
  <2>2. mem' \in [Cells -> Int]
    BY <1>8, StoredType, Sizes DEF StorePadding, TypeOK
  <2>3. DOMAIN frames' \subseteq Nat /\ frames' \in [DOMAIN frames' -> Header]
    BY <1>8, <2>1, WithFrameType DEF StorePadding, TypeOK
  <2> QED
    BY <1>8, <2>2, <2>3 DEF StorePadding, TypeOK
<1>9. CASE SkipToStart
  BY <1>9, LayoutTypes DEF SkipToStart, TypeOK
<1>10. CASE StoreHeader
  <2> DEFINE h == [type |-> "MSG", len |-> wlen]
  <2>1. h \in Header
    BY DEF TypeOK, Header, Types
  <2>2. mem' \in [Cells -> Int]
    BY <1>10, StoredType, Sizes DEF StoreHeader, TypeOK
  <2>3. DOMAIN frames' \subseteq Nat /\ frames' \in [DOMAIN frames' -> Header]
    BY <1>10, <2>1, WithFrameType DEF StoreHeader, TypeOK
  <2> QED
    BY <1>10, <2>2, <2>3 DEF StoreHeader, TypeOK
<1>11. CASE StoreData
  <2>1. mem' \in [Cells -> Int]
    <3>1. freePos + HdrSize \in Nat /\ wlen \in Nat
      BY Sizes DEF TypeOK
    <3> QED
      BY <1>11, <3>1, StoredType DEF StoreData
  <2> QED
    BY <1>11, <2>1 DEF StoreData, TypeOK
<1>12. CASE Commit
  <2>1. freePos + HdrSize + wlen \in Nat
    BY Sizes DEF TypeOK
  <2> QED
    BY <1>12, <2>1 DEF Commit, WriterLeaves, TypeOK
<1>13. CASE CrashWriter
  BY <1>13 DEF CrashWriter, WriterLeaves, TypeOK
<1> QED
  BY <1>1, <1>2, <1>3, <1>4, <1>5, <1>6, <1>7, <1>8, <1>9, <1>10, <1>11, <1>12, <1>13
  DEF WriterStep

LEMMA TypeReader ==
    ASSUME TypeOK, NEW r \in Readers, ReaderStep(r)
    PROVE  TypeOK'
<1>0. UNCHANGED <<bufVars, writerVars>>
  BY ReaderLeavesBuffer
<1> USE DEF slotVars, localVars, histVars, ReaderPcs, Vacant, Listed, Reading, Go
<1> DEFINE ReaderTypes ==
        /\ range \subseteq Readers
        /\ active \in [Readers -> BOOLEAN] /\ bpos \in [Readers -> Nat]
        /\ rpc \in [Readers -> ReaderPcs] /\ pos \in [Readers -> Nat]
        /\ hdr \in [Readers -> Header] /\ ok \in [Readers -> BOOLEAN]
        /\ exposed \in [Readers -> BOOLEAN] /\ base \in [Readers -> Nat]
        /\ got \in [Readers -> Seq([at : Nat, intact : BOOLEAN])]
<1>a. ReaderTypes
  BY DEF TypeOK
<1>b. NoHeader \in Header /\ <<>> \in Seq([at : Nat, intact : BOOLEAN]) /\ freePos \in Nat
  BY DEF NoHeader, Header, TypeOK
<1>c. SUFFICES ReaderTypes'
  BY <1>0 DEF TypeOK, bufVars, writerVars
<1>1. CASE Alloc(r)
  BY <1>1, <1>a, HullType DEF Alloc
<1>2. CASE Free(r)
  BY <1>2, <1>a, <1>b, HullType DEF Free, Vanishes, IterationEnds, ActivationEnds
<1>3. CASE LoadFreePos(r)
  BY <1>3, <1>a, <1>b DEF LoadFreePos
<1>4. CASE StorePosition(r)
  BY <1>4, <1>a DEF StorePosition
<1>5. CASE SetActive(r)
  BY <1>5, <1>a DEF SetActive
<1>6. CASE UpdateRange(r)
  <2>1. (Expired(pos[r], high) \/ MissedByScan(r)) \in BOOLEAN
    BY DEF Expired, MissedByScan
  <2> QED
    BY <1>6, <1>a, <2>1, HullType DEF UpdateRange
<1>7. CASE StartRead(r)
  BY <1>7, <1>a DEF StartRead
<1>8. CASE ReadDone(r)
  BY <1>8, <1>a DEF ReadDone
<1>9. CASE SkipBlank(r)
  <2>1. pos[r] + ToEnd(pos[r]) \in Nat
    <3>1. pos[r] \in Nat
      BY <1>a
    <3>2. ToEnd(pos[r]) \in Nat
      BY <3>1, LayoutTypes
    <3> QED
      BY <3>1, <3>2
  <2> QED
    BY <1>9, <1>a, <2>1 DEF SkipBlank
<1>10. CASE CheckEarly(r)
  BY <1>10, <1>a DEF CheckEarly
<1>11. CASE CopyHeader(r)
  BY <1>11, <1>a, HeaderAtType DEF CopyHeader
<1>12. CASE CheckHeader(r)
  <2>1. hdr' \in [Readers -> Header] /\ ok' \in [Readers -> BOOLEAN]
    <3>1. CASE ~Valid(hdr[r]) \/ Expired(pos[r], freePos)
      <4>1. IterationEnds(r)
        BY <1>12, <3>1 DEF CheckHeader
      <4> QED
        BY <4>1, <1>a, <1>b DEF IterationEnds
    <3>2. CASE ~(~Valid(hdr[r]) \/ Expired(pos[r], freePos))
      BY <1>12, <1>a, <3>2 DEF CheckHeader
    <3> QED
      BY <3>1, <3>2
  <2>2. rpc' \in [Readers -> ReaderPcs]
    BY <1>12, <1>a DEF CheckHeader
  <2> QED
    BY <1>12, <1>a, <2>1, <2>2 DEF CheckHeader
<1>13. CASE CopyData(r)
  BY <1>13, <1>a DEF CopyData, Intact
<1>14. CASE Confirm(r)
  <2>1. hdr' \in [Readers -> Header] /\ ok' \in [Readers -> BOOLEAN]
    <3>1. CASE Expired(pos[r], freePos)
      <4>1. IterationEnds(r)
        BY <1>14, <3>1 DEF Confirm
      <4> QED
        BY <4>1, <1>a, <1>b DEF IterationEnds
    <3>2. CASE ~Expired(pos[r], freePos)
      BY <1>14, <1>a, <3>2 DEF Confirm
    <3> QED
      BY <3>1, <3>2
  <2>2. rpc' \in [Readers -> ReaderPcs]
    BY <1>14, <1>a DEF Confirm
  <2>3. got' \in [Readers -> Seq([at : Nat, intact : BOOLEAN])]
    <3>1. [at |-> pos[r], intact |-> ok[r]] \in [at : Nat, intact : BOOLEAN]
      BY <1>a
    <3>2. CASE Expired(pos[r], freePos)
      BY <1>14, <1>a, <3>2 DEF Confirm
    <3>3. CASE ~Expired(pos[r], freePos)
      <4> DEFINE S == Seq([at : Nat, intact : BOOLEAN])
                 m == [at |-> pos[r], intact |-> ok[r]]
      <4>1. got' = [got EXCEPT ![r] = Append(got[r], m)]
        BY <1>14, <3>3 DEF Confirm
      <4>2. got[r] \in S
        BY <1>a
      <4>3. Append(got[r], m) \in S
        BY <3>1, <4>2
      <4> QED
        BY <1>a, <4>1, <4>3
    <3> QED
      BY <3>2, <3>3
  <2> QED
    BY <1>14, <1>a, <2>1, <2>2, <2>3 DEF Confirm
<1>15. CASE Advance(r)
  <2> DEFINE next == pos[r] + HdrSize + hdr[r].len
             lag == IF next >= bpos[r] + BposMaxLag THEN next ELSE bpos[r]
  <2>1. next \in Nat
    BY <1>a, Sizes DEF Header
  <2>2. lag \in Nat
    BY <1>a, <2>1
  <2>3. pos' = [pos EXCEPT ![r] = next] /\ bpos' = [bpos EXCEPT ![r] = lag]
    BY <1>15 DEF Advance
  <2>4. pos' \in [Readers -> Nat] /\ bpos' \in [Readers -> Nat]
    BY <1>a, <2>1, <2>2, <2>3
  <2> HIDE DEF next, lag
  <2> QED
    BY <1>15, <1>a, <1>b, <2>4 DEF Advance, IterationEnds
<1>16. CASE Deactivate(r)
  BY <1>16, <1>a, <1>b, HullType DEF Deactivate, ActivationEnds
<1>17. CASE CrashReader(r)
  BY <1>17, <1>a, <1>b DEF CrashReader, Vanishes, IterationEnds, ActivationEnds
<1> QED
  BY <1>1, <1>2, <1>3, <1>4, <1>5, <1>6, <1>7, <1>8, <1>9, <1>10, <1>11, <1>12, <1>13, <1>14,
     <1>15, <1>16, <1>17 DEF ReaderStep, Activation, ReadStep

------------------------------------------------------------------------------
(* The buffer and the writer.                                              *)

BufInv == MemInv /\ FramesInv /\ CellsInv /\ WriterInv

LEMMA BufUnchanged ==
    ASSUME BufInv, UNCHANGED <<bufVars, writerVars>>
    PROVE  BufInv'
BY DEF BufInv, MemInv, FramesInv, CellsInv, WriterInv, bufVars, writerVars, StoredLen, FrameEnd,
       Boundary, Committed, Intact

(* Storing n bytes from q on leaves alone every byte m of the stream that  *)
(* no write was allowed to overtake.                                       *)
LEMMA StoreKeeps ==
    ASSUME TypeOK, NEW q \in Nat, NEW n \in Nat, Idx(q) + n <= BufSize, q + n <= high,
           NEW m \in Nat, m < q, m + BufSize >= high
    PROVE  Stored(q, n)[Idx(m)] = mem[Idx(m)]
<1>1. Idx(m) \in Cells /\ Idx(m) \in Nat /\ Idx(q) \in Nat
  BY IdxType
<1>2. SUFFICES ASSUME Idx(m) \in Idx(q) .. Idx(q) + n - 1 PROVE FALSE
  BY <1>1 DEF Stored
<1> DEFINE k == Idx(m) - Idx(q)
<1>3. k \in Nat /\ k < n /\ Idx(q) + k < BufSize /\ Idx(q) + k = Idx(m)
  BY <1>1, <1>2, Sizes
<1> HIDE DEF k
<1>4. q + k \in Nat /\ m < q + k /\ Idx(q + k) = Idx(m)
  BY <1>3, CellOf
<1>5. q + k >= m + BufSize
  BY <1>4, Lap
<1> QED
  BY <1>3, <1>5, Sizes DEF TypeOK

(* The bytes stored are there, and every cell still holds its own bytes.   *)
LEMMA StoreWrites ==
    ASSUME TypeOK, MemInv, NEW q \in Nat, NEW n \in Nat, Idx(q) + n <= BufSize
    PROVE  /\ \A k \in 0 .. n - 1 : Stored(q, n)[Idx(q) + k] = q + k
           /\ \A c \in Cells : \/ Stored(q, n)[c] = -1
                               \/ Stored(q, n)[c] \in Nat /\ Idx(Stored(q, n)[c]) = c
<1>1. Idx(q) \in Nat /\ BufSize \in Nat
  BY IdxType, Sizes
<1>2. \A k \in 0 .. n - 1 : Stored(q, n)[Idx(q) + k] = q + k
  BY <1>1 DEF Stored, Cells
<1>3. ASSUME NEW c \in Cells
      PROVE  \/ Stored(q, n)[c] = -1
             \/ Stored(q, n)[c] \in Nat /\ Idx(Stored(q, n)[c]) = c
  <2>1. CASE c \in Idx(q) .. Idx(q) + n - 1
    <3> DEFINE k == c - Idx(q)
    <3>1. k \in Nat /\ k < n /\ Idx(q) + k < BufSize /\ Idx(q) + k = c
      BY <1>1, <2>1
    <3>2. Stored(q, n)[c] = q + k
      BY <2>1 DEF Stored
    <3> HIDE DEF k
    <3>3. Idx(q + k) = c
      BY <3>1, CellOf
    <3> QED
      BY <3>1, <3>2, <3>3
  <2>2. CASE c \notin Idx(q) .. Idx(q) + n - 1
    BY <2>2 DEF Stored, MemInv
  <2> QED
    BY <2>1, <2>2
<1>4. \A c \in Cells : \/ Stored(q, n)[c] = -1
                       \/ Stored(q, n)[c] \in Nat /\ Idx(Stored(q, n)[c]) = c
  BY <1>3
<1> QED
  BY ONLY <1>2, <1>4, Zenon

(* The first cell of a frame and the cell of its byte k.                   *)
LEMMA FrameCell ==
    ASSUME TypeOK, FramesInv, NEW p \in DOMAIN frames, NEW k \in 0 .. StoredLen(p) - 1
    PROVE  /\ p \in Nat /\ k \in Nat /\ frames[p].len \in Nat
           /\ Idx(p) + k < BufSize /\ Idx(p + k) = Idx(p) + k
           /\ p + k < FrameEnd(p)
<1>1. p \in Nat /\ frames[p] \in Header
  BY DEF TypeOK
<1>2. frames[p].len \in Nat
  BY <1>1 DEF Header
<1>3. ~Splits(p, frames[p].len)
  BY DEF FramesInv
<1>4. k \in Nat /\ k < HdrSize + frames[p].len
  BY <1>2, Sizes DEF StoredLen
<1>5. Idx(p) + k < BufSize
  <2>1. Idx(p) \in Nat /\ ToEnd(p) = BufSize - Idx(p)
    BY <1>1, IdxType
  <2>2. ~(ToEnd(p) < HdrSize + frames[p].len)
    BY <1>3 DEF Splits
  <2> QED
    BY <1>2, <1>4, <2>1, <2>2, Sizes
<1>6. Idx(p + k) = Idx(p) + k
  BY <1>1, <1>4, <1>5, CellOf
<1> QED
  BY <1>1, <1>2, <1>4, <1>5, <1>6, Sizes DEF FrameEnd

(* A store at the stream end that stays below high leaves the committed    *)
(* frames as they were.                                                    *)
LEMMA StoreKeepsCells ==
    ASSUME TypeOK, FramesInv, CellsInv, NEW q \in Nat, NEW n \in Nat,
           freePos <= q, Idx(q) + n <= BufSize, q + n <= high
    PROVE  \A p \in DOMAIN frames : p < freePos =>
              \A k \in 0 .. StoredLen(p) - 1 :
                  p + k + BufSize >= high => Stored(q, n)[Idx(p) + k] = p + k
<1> SUFFICES ASSUME NEW p \in DOMAIN frames, p < freePos,
                    NEW k \in 0 .. StoredLen(p) - 1, p + k + BufSize >= high
             PROVE  Stored(q, n)[Idx(p) + k] = p + k
  OBVIOUS
<1>1. /\ p \in Nat /\ k \in Nat /\ frames[p].len \in Nat
      /\ Idx(p + k) = Idx(p) + k
      /\ p + k < FrameEnd(p)
  BY FrameCell
<1>2. FrameEnd(p) <= freePos
  BY DEF FramesInv
<1>3. p + k < q /\ p + k \in Nat
  <2>1. FrameEnd(p) \in Nat
    BY <1>1, Sizes DEF FrameEnd
  <2>2. freePos \in Nat
    BY DEF TypeOK
  <2> QED
    BY <1>1, <1>2, <2>1, <2>2
<1>4. Stored(q, n)[Idx(p + k)] = mem[Idx(p + k)]
  BY <1>3, StoreKeeps
<1>5. mem[Idx(p) + k] = p + k
  BY DEF CellsInv
<1> QED
  BY <1>1, <1>4, <1>5

(* A stream position a reader may stand at stays one as the stream grows.  *)
LEMMA BoundaryGrows ==
    ASSUME TypeOK, BufInv, WriterStep \/ CrashWriter, NEW x \in Nat, Boundary(x)
    PROVE  Boundary(x)'
<1> USE DEF bufVars
<1>1. CASE SkipToStart
  <2>1. freePos' = freePos + ToEnd(freePos) /\ frames' = frames /\ freePos' > freePos
        /\ freePos \in Nat /\ freePos' \in Nat
    <3>1. ToEnd(freePos) \in Nat /\ ToEnd(freePos) > 0 /\ freePos \in Nat
      BY LayoutTypes DEF TypeOK
    <3> QED
      BY <1>1, <3>1 DEF SkipToStart
  <2>2. Committed \subseteq Committed'
    BY <2>1 DEF Committed, TypeOK
  <2>3. NoRoomForHeader(freePos) \/ freePos \in Committed'
    BY <1>1, <2>1 DEF SkipToStart, BufInv, WriterInv, Committed, Storing
  <2>4. CASE x = freePos
    BY <2>1, <2>3, <2>4 DEF Boundary
  <2>5. CASE x \in Committed
    BY <2>2, <2>5 DEF Boundary
  <2>6. CASE NoRoomForHeader(x) /\ x + ToEnd(x) = freePos
    <3>1. Idx(freePos) = 0
      BY <2>6, EndIsStart
    <3>2. ToEnd(freePos) = BufSize - 0 /\ BufSize \in Nat /\ HdrSize \in Nat /\ HdrSize <= BufSize
      BY <3>1, Sizes DEF ToEnd
    <3>3. ~NoRoomForHeader(freePos)
      BY <3>2 DEF NoRoomForHeader
    <3> QED
      BY <2>3, <2>6, <3>3 DEF Boundary
  <2>7. CASE NoRoomForHeader(x) /\ x + ToEnd(x) \in Committed
    BY <2>2, <2>7 DEF Boundary
  <2> QED
    BY <2>4, <2>5, <2>6, <2>7 DEF Boundary
<1>2. CASE Commit
  <2>1. freePos' = freePos + HdrSize + wlen /\ frames' = frames /\ freePos' > freePos
    BY <1>2, Sizes DEF Commit, TypeOK
  <2>2. Committed \subseteq Committed' /\ freePos \in Committed'
    BY <1>2, <2>1 DEF Commit, Committed, TypeOK, BufInv, WriterInv
  <2> QED
    BY <2>2 DEF Boundary
<1>3. CASE StorePadding \/ StoreHeader
  <2>1. freePos' = freePos /\ \E h : frames' = WithFrame(freePos, h)
    BY <1>3 DEF StorePadding, StoreHeader
  <2>2. Committed' = Committed
    BY <2>1 DEF Committed, WithFrame, TypeOK
  <2> QED
    BY <2>1, <2>2 DEF Boundary
<1>4. CASE ~(SkipToStart \/ Commit \/ StorePadding \/ StoreHeader)
  <2>1. freePos' = freePos /\ frames' = frames
    BY <1>4 DEF WriterStep, BeginWrite, ScanActive, ScanPosition, ScanDone, BpWait, BpWrite,
                BpThrow, StoreData, CrashWriter
  <2> QED
    BY <2>1 DEF Boundary, Committed
<1> QED
  BY <1>1, <1>2, <1>3, <1>4

LEMMA BufInit == Init => BufInv
<1> SUFFICES ASSUME Init PROVE BufInv
  OBVIOUS
<1>1. DOMAIN frames = {}
  BY DEF Init
<1>2. MemInv
  BY DEF Init, MemInv, Cells
<1>3. FramesInv /\ CellsInv
  BY <1>1 DEF FramesInv, CellsInv
<1>4. WriterInv
  BY DEF Init, WriterInv, Scanning, Storing
<1> QED
  BY <1>2, <1>3, <1>4 DEF BufInv

(* Steps that leave the buffer alone only move the writer's control.       *)
LEMMA BufQuiet ==
    ASSUME TypeOK, BufInv, UNCHANGED bufVars, WriterInv'
    PROVE  BufInv'
BY DEF BufInv, MemInv, FramesInv, CellsInv, bufVars, StoredLen, FrameEnd, Boundary, Committed

(* Once the way is free, the stores are those that bytesToWrite counted.   *)
LEMMA BeginStores ==
    ASSUME TypeOK, BufInv, wpc \in {"scan", "bp"}, RaiseHigh, wpc' = FirstStore,
           UNCHANGED <<freePos, mem, frames, wlen, wEnd>>
    PROVE  BufInv'
<1>1. /\ freePos \in Nat /\ wlen \in MsgLens /\ wlen \in Nat /\ wEnd \in Nat /\ high \in Nat
      /\ wEnd = freePos + BytesToWrite(freePos, wlen) /\ freePos <= high /\ freePos <= wEnd
  BY DEF TypeOK, BufInv, WriterInv, Scanning
<1>2. high' \in Nat /\ high' >= high /\ high' >= wEnd
  BY <1>1 DEF RaiseHigh
<1>3. MemInv' /\ FramesInv'
  BY DEF BufInv, MemInv, FramesInv, FrameEnd, Boundary, Committed
<1>4. CellsInv'
  <2> SUFFICES ASSUME NEW p \in DOMAIN frames, p < freePos,
                      NEW k \in 0 .. StoredLen(p) - 1, p + k + BufSize >= high'
               PROVE  mem[Idx(p) + k] = p + k
    BY DEF CellsInv, StoredLen
  <2>1. p \in Nat /\ k \in Nat
    BY FrameCell DEF BufInv
  <2>2. p + k + BufSize >= high
    BY <1>1, <1>2, <2>1, Sizes
  <2> QED
    BY <2>2 DEF BufInv, CellsInv
<1>5. ToEnd(freePos) \in Nat
  BY <1>1, LayoutTypes
<1>6. WriterInv'
  <2>1. CASE NoRoomForHeader(freePos)
    <3>1. wpc' = "blank"
      BY <2>1 DEF FirstStore
    <3>2. Splits(freePos, wlen)
      BY <1>1, <1>5, <2>1, Sizes DEF NoRoomForHeader, Splits
    <3>3. wEnd = freePos + ToEnd(freePos) + HdrSize + wlen
      BY <1>1, <1>5, <3>2, Sizes DEF BytesToWrite
    <3> QED
      BY <1>1, <1>2, <2>1, <3>1, <3>3 DEF WriterInv, Scanning, Storing
  <2>2. CASE ~NoRoomForHeader(freePos) /\ Splits(freePos, wlen)
    <3>1. wpc' = "pad"
      BY <2>2 DEF FirstStore
    <3>2. wEnd = freePos + ToEnd(freePos) + HdrSize + wlen
      BY <1>1, <1>5, <2>2, Sizes DEF BytesToWrite
    <3> QED
      BY <1>1, <1>2, <2>2, <3>1, <3>2 DEF WriterInv, Scanning, Storing
  <2>3. CASE ~NoRoomForHeader(freePos) /\ ~Splits(freePos, wlen)
    <3>1. wpc' = "hdr"
      BY <2>3 DEF FirstStore
    <3>2. wEnd = freePos + HdrSize + wlen
      BY <1>1, <2>3, Sizes DEF BytesToWrite
    <3> QED
      BY <1>1, <1>2, <2>3, <3>1, <3>2 DEF WriterInv, Scanning, Storing
  <2> QED
    BY <2>1, <2>2, <2>3
<1> QED
  BY <1>3, <1>4, <1>6 DEF BufInv

(* Storing a header at the stream end.                                     *)
LEMMA BufHeader ==
    ASSUME TypeOK, BufInv, NEW h \in Header, h.type \in Types,
           ~NoRoomForHeader(freePos), ~Splits(freePos, h.len), freePos + HdrSize <= high,
           mem' = Stored(freePos, HdrSize), frames' = WithFrame(freePos, h),
           UNCHANGED <<freePos, high>>
    PROVE  MemInv' /\ FramesInv' /\ CellsInv' /\ Intact(freePos, HdrSize)'
<1>1. freePos \in Nat /\ HdrSize \in Nat /\ HdrSize > 0 /\ Idx(freePos) + HdrSize <= BufSize
  <2>1. ToEnd(freePos) = BufSize - Idx(freePos) /\ Idx(freePos) \in Nat /\ freePos \in Nat
    BY IdxType DEF TypeOK
  <2>2. ~(ToEnd(freePos) < HdrSize)
    BY DEF NoRoomForHeader
  <2> QED
    BY <2>1, <2>2, Sizes
<1>2. MemInv' /\ Intact(freePos, HdrSize)'
  <2>1. MemInv
    BY DEF BufInv
  <2>2. /\ \A k \in 0 .. HdrSize - 1 : Stored(freePos, HdrSize)[Idx(freePos) + k] = freePos + k
        /\ \A c \in Cells : \/ Stored(freePos, HdrSize)[c] = -1
                           \/ /\ Stored(freePos, HdrSize)[c] \in Nat
                              /\ Idx(Stored(freePos, HdrSize)[c]) = c
    BY <1>1, <2>1, StoreWrites
  <2> QED
    BY <2>2 DEF MemInv, Intact
<1>3. /\ DOMAIN frames' = DOMAIN frames \cup {freePos}
      /\ DOMAIN frames' \subseteq Nat
      /\ frames'[freePos] = h
      /\ \A q \in DOMAIN frames : q # freePos => frames'[q] = frames[q]
  BY <1>1, WithFrameType
<1>4. Committed' = Committed
  BY <1>3, <1>1 DEF Committed
<1>5. FramesInv'
  <2> SUFFICES ASSUME NEW p \in DOMAIN frames'
               PROVE  /\ p <= freePos
                      /\ frames'[p].type \in Types
                      /\ ~NoRoomForHeader(p) /\ ~Splits(p, frames'[p].len)
                      /\ p < freePos => FrameEnd(p)' <= freePos /\ Boundary(FrameEnd(p))'
    BY DEF FramesInv
  <2>1. CASE p = freePos
    BY <1>1, <1>3, <2>1
  <2>2. CASE p # freePos
    <3>1. p \in DOMAIN frames /\ frames'[p] = frames[p]
      BY <1>3, <2>2
    <3>2. FrameEnd(p)' = FrameEnd(p)
      BY <3>1 DEF FrameEnd
    <3> QED
      BY <1>4, <3>1, <3>2 DEF BufInv, FramesInv, Boundary
  <2> QED
    BY <2>1, <2>2
<1>6. CellsInv'
  <2>1. \A p \in DOMAIN frames : p < freePos =>
           \A k \in 0 .. StoredLen(p) - 1 :
               p + k + BufSize >= high => mem'[Idx(p) + k] = p + k
    BY <1>1, StoreKeepsCells DEF BufInv
  <2> SUFFICES ASSUME NEW p \in DOMAIN frames', p < freePos,
                      NEW k \in 0 .. StoredLen(p)' - 1, p + k + BufSize >= high
               PROVE  mem'[Idx(p) + k] = p + k
    BY DEF CellsInv
  <2>2. p \in DOMAIN frames /\ frames'[p] = frames[p]
    BY <1>1, <1>3
  <2>3. StoredLen(p)' = StoredLen(p)
    BY <2>2 DEF StoredLen
  <2> QED
    BY <2>1, <2>2, <2>3
<1> QED
  BY <1>2, <1>5, <1>6

(* Moving the stream end past the frame stored there, or past a blank.     *)
LEMMA BufGrow ==
    ASSUME TypeOK, BufInv, SkipToStart \/ Commit,
           freePos' \in Nat, freePos' > freePos,
           freePos \in DOMAIN frames =>
                /\ FrameEnd(freePos) = freePos'
                /\ \A k \in 0 .. StoredLen(freePos) - 1 : mem[Idx(freePos) + k] = freePos + k,
           UNCHANGED <<mem, frames, high>>
    PROVE  MemInv' /\ FramesInv' /\ CellsInv'
<1>1. MemInv'
  BY DEF BufInv, MemInv
<1>2. \A x \in Nat : Boundary(x) => Boundary(x)'
  BY BoundaryGrows DEF WriterStep
<1>3. FramesInv'
  <2> SUFFICES ASSUME NEW p \in DOMAIN frames
               PROVE  /\ p <= freePos'
                      /\ frames[p].type \in Types
                      /\ ~NoRoomForHeader(p) /\ ~Splits(p, frames[p].len)
                      /\ p < freePos' => FrameEnd(p) <= freePos' /\ Boundary(FrameEnd(p))'
    BY DEF FramesInv, FrameEnd
  <2>1. /\ p <= freePos
        /\ frames[p].type \in Types
        /\ ~NoRoomForHeader(p) /\ ~Splits(p, frames[p].len)
        /\ p < freePos => FrameEnd(p) <= freePos /\ Boundary(FrameEnd(p))
    BY DEF BufInv, FramesInv
  <2>2. p \in Nat /\ freePos \in Nat /\ FrameEnd(p) \in Nat
    <3>1. p \in Nat /\ frames[p].len \in Nat /\ freePos \in Nat
      BY DEF TypeOK, Header
    <3> QED
      BY <3>1, Sizes DEF FrameEnd
  <2>3. CASE p = freePos
    <3>1. FrameEnd(p) = freePos'
      BY <2>3
    <3>2. Boundary(FrameEnd(p))'
      BY <3>1 DEF Boundary, FrameEnd
    <3> QED
      BY <2>1, <2>2, <2>3, <3>1, <3>2
  <2>4. CASE p # freePos
    <3>1. p < freePos /\ p <= freePos'
      BY <2>1, <2>2, <2>4
    <3>2. FrameEnd(p) <= freePos' /\ Boundary(FrameEnd(p))
      BY <2>1, <2>2, <3>1
    <3>3. Boundary(FrameEnd(p))'
      <4> DEFINE x == FrameEnd(p)
      <4>1. x \in Nat /\ Boundary(x) /\ x' = x
        BY <2>2, <3>2 DEF FrameEnd
      <4> HIDE DEF x
      <4>2. Boundary(x)'
        BY <1>2, <4>1
      <4> QED
        BY <4>1, <4>2 DEF x, FrameEnd, Boundary
    <3> QED
      BY <2>1, <3>1, <3>2, <3>3
  <2> QED
    BY <2>3, <2>4
<1>4. CellsInv'
  <2> SUFFICES ASSUME NEW p \in DOMAIN frames, p < freePos',
                      NEW k \in 0 .. StoredLen(p) - 1, p + k + BufSize >= high
               PROVE  mem[Idx(p) + k] = p + k
    BY DEF CellsInv, StoredLen
  <2>1. p <= freePos /\ p \in Nat /\ freePos \in Nat
    BY DEF BufInv, FramesInv, TypeOK
  <2>2. CASE p = freePos
    BY <2>2
  <2>3. CASE p < freePos
    BY <2>3 DEF BufInv, CellsInv
  <2> QED
    BY <2>1, <2>2, <2>3
<1> QED
  BY <1>1, <1>3, <1>4

LEMMA BufWriter ==
    ASSUME TypeOK, BufInv, WriterStep \/ CrashWriter
    PROVE  BufInv'
<1> USE DEF Scanning, Storing
<1>t. /\ freePos \in Nat /\ high \in Nat /\ wlen \in Nat /\ wEnd \in Nat
      /\ HdrSize \in Nat /\ HdrSize > 0 /\ BufSize \in Nat
      /\ ToEnd(freePos) \in Nat /\ ToEnd(freePos) > 0
  BY Sizes, LayoutTypes DEF TypeOK
<1>w. WriterInv
  BY DEF BufInv
<1>1. CASE BeginWrite
  <2>1. PICK len \in MsgLens : wlen' = len /\ wEnd' = freePos + BytesToWrite(freePos, len)
    BY <1>1 DEF BeginWrite
  <2>2. len \in Nat
    BY Sizes
  <2>3. BytesToWrite(freePos, len) \in Nat
    BY <1>t, <2>2, LayoutTypes
  <2>4. wpc' = "scan" /\ UNCHANGED bufVars
    BY <1>1 DEF BeginWrite
  <2>5. WriterInv'
    BY <1>t, <1>w, <2>1, <2>3, <2>4 DEF WriterInv, bufVars
  <2> QED
    BY <2>4, <2>5, BufQuiet
<1>2. CASE ScanActive \/ ScanPosition \/ BpWait
  <2>1. wpc \in {"scan", "scanPos", "bp"} /\ wpc' \in {"scan", "scanPos", "bp"}
        /\ UNCHANGED <<bufVars, wlen, wEnd>>
    BY <1>2 DEF ScanActive, ScanPosition, BpWait
  <2>2. WriterInv'
    BY <1>w, <2>1 DEF WriterInv, bufVars
  <2> QED
    BY <2>1, <2>2, BufQuiet DEF bufVars
<1>3. CASE ScanDone \/ BpWrite
  BY <1>3, BeginStores DEF ScanDone, BpWrite
<1>4. CASE BpThrow \/ CrashWriter
  <2>1. wpc' \in {"idle", "dead"} /\ UNCHANGED bufVars
    BY <1>4 DEF BpThrow, CrashWriter, WriterLeaves
  <2>2. WriterInv'
    BY <1>w, <2>1 DEF WriterInv, bufVars
  <2> QED
    BY <2>1, <2>2, BufQuiet
<1>5. CASE StorePadding
  <2> DEFINE h == [type |-> "PADDING", len |-> ToEnd(freePos) - HdrSize]
  <2>1. /\ wpc = "pad" /\ wpc' = "padCommit" /\ UNCHANGED <<freePos, high, wlen, wEnd>>
        /\ mem' = Stored(freePos, HdrSize) /\ frames' = WithFrame(freePos, h)
    BY <1>5 DEF StorePadding
  <2>2. ~NoRoomForHeader(freePos) /\ wEnd <= high
        /\ wEnd = freePos + ToEnd(freePos) + HdrSize + wlen
    BY <1>w, <2>1 DEF WriterInv
  <2>3. ToEnd(freePos) - HdrSize \in Nat
    BY <1>t, <2>2 DEF NoRoomForHeader
  <2>4. h \in Header /\ h.type \in Types /\ ~Splits(freePos, h.len)
    BY <1>t, <2>3 DEF Header, Types, Splits
  <2>5. freePos + HdrSize <= high
    BY <1>t, <2>2
  <2>6. MemInv' /\ FramesInv' /\ CellsInv' /\ Intact(freePos, HdrSize)'
    BY <2>1, <2>2, <2>4, <2>5, BufHeader
  <2>7. freePos \in DOMAIN frames' /\ frames'[freePos] = h
    <3>1. freePos \in DOMAIN WithFrame(freePos, h) /\ WithFrame(freePos, h)[freePos] = h
      <4> HIDE DEF h
      <4> QED
        BY <1>t, <2>4, WithFrameType
    <3> QED
      BY <2>1, <3>1
  <2>8. WriterInv'
    BY <1>w, <2>1, <2>2, <2>6, <2>7 DEF WriterInv
  <2> QED
    BY <2>6, <2>8 DEF BufInv
<1>6. CASE StoreHeader
  <2> DEFINE h == [type |-> "MSG", len |-> wlen]
  <2>1. /\ wpc = "hdr" /\ wpc' = "data" /\ UNCHANGED <<freePos, high, wlen, wEnd>>
        /\ mem' = Stored(freePos, HdrSize) /\ frames' = WithFrame(freePos, h)
    BY <1>6 DEF StoreHeader
  <2>2. ~Splits(freePos, wlen) /\ wEnd <= high /\ wEnd = freePos + HdrSize + wlen
    BY <1>w, <2>1 DEF WriterInv
  <2>3. ~NoRoomForHeader(freePos)
    BY <1>t, <2>2 DEF NoRoomForHeader, Splits
  <2>4. h \in Header /\ h.type \in Types /\ h.len = wlen
    BY <1>t DEF Header, Types
  <2>5. freePos + HdrSize <= high
    BY <1>t, <2>2
  <2>6. MemInv' /\ FramesInv' /\ CellsInv' /\ Intact(freePos, HdrSize)'
    BY <2>1, <2>2, <2>3, <2>4, <2>5, BufHeader
  <2>7. freePos \in DOMAIN frames' /\ frames'[freePos] = h
    <3>1. freePos \in DOMAIN WithFrame(freePos, h) /\ WithFrame(freePos, h)[freePos] = h
      <4> HIDE DEF h
      <4> QED
        BY <1>t, <2>4, WithFrameType
    <3> QED
      BY <2>1, <3>1
  <2>8. WriterInv'
    BY <1>w, <2>1, <2>2, <2>6, <2>7 DEF WriterInv
  <2> QED
    BY <2>6, <2>8 DEF BufInv
<1>7. CASE StoreData
  <2> DEFINE q == freePos + HdrSize
  <2>1. /\ wpc = "data" /\ wpc' = "commit" /\ UNCHANGED <<freePos, frames, high, wlen, wEnd>>
        /\ mem' = Stored(q, wlen)
    BY <1>7 DEF StoreData
  <2>2. ~Splits(freePos, wlen) /\ wEnd <= high /\ wEnd = freePos + HdrSize + wlen
        /\ freePos \in DOMAIN frames /\ frames[freePos] = [type |-> "MSG", len |-> wlen]
        /\ Intact(freePos, HdrSize)
    BY <1>w, <2>1 DEF WriterInv
  <2>3. q \in Nat /\ freePos <= q /\ q + wlen <= high
    BY <1>t, <2>2
  <2>4. Idx(freePos) \in Nat /\ Idx(freePos) + HdrSize + wlen <= BufSize
    <3>1. ToEnd(freePos) = BufSize - Idx(freePos) /\ Idx(freePos) \in Nat
      BY <1>t, IdxType
    <3>2. ~(ToEnd(freePos) < HdrSize + wlen)
      BY <2>2 DEF Splits
    <3> QED
      BY <1>t, <3>1, <3>2
  <2>5. CASE wlen = 0
    <3>1. Stored(q, wlen) = [c \in Cells |-> mem[c]]
      <4>1. Idx(q) \in Nat
        BY <2>3, IdxType
      <4> QED
        BY <2>5, <4>1 DEF Stored
    <3>2. mem' = mem
      BY <2>1, <3>1 DEF TypeOK
    <3>3. Intact(freePos + HdrSize, wlen)'
      BY <2>1, <2>5 DEF Intact
    <3>4. WriterInv'
      BY <1>w, <2>1, <2>2, <3>2, <3>3 DEF WriterInv, Intact
    <3> QED
      BY <2>1, <3>2, <3>4, BufQuiet DEF bufVars
  <2>6. CASE wlen # 0
    <3>1. Idx(q) = Idx(freePos) + HdrSize
      <4>1. Idx(freePos) + HdrSize < BufSize
        BY <1>t, <2>4, <2>6
      <4> QED
        BY <1>t, <4>1, CellOf
    <3>2. Idx(q) + wlen <= BufSize
      BY <2>4, <3>1
    <3>3. MemInv
      BY DEF BufInv
    <3>4. /\ \A k \in 0 .. wlen - 1 : Stored(q, wlen)[Idx(q) + k] = q + k
          /\ \A c \in Cells : \/ Stored(q, wlen)[c] = -1
                             \/ /\ Stored(q, wlen)[c] \in Nat
                                /\ Idx(Stored(q, wlen)[c]) = c
      BY <1>t, <2>3, <3>2, <3>3, StoreWrites
    <3>5. MemInv' /\ Intact(q, wlen)'
      BY <2>1, <3>4 DEF MemInv, Intact
    <3>6. FramesInv'
      BY <2>1 DEF BufInv, FramesInv, FrameEnd, Boundary, Committed
    <3>7. \A p \in DOMAIN frames : p < freePos =>
             \A k \in 0 .. StoredLen(p) - 1 :
                 p + k + BufSize >= high => mem'[Idx(p) + k] = p + k
      BY <1>t, <2>1, <2>3, <3>2, StoreKeepsCells DEF BufInv
    <3>8. CellsInv'
      BY <2>1, <3>7 DEF CellsInv, StoredLen
    <3>9. Intact(freePos, HdrSize)'
      <4> SUFFICES ASSUME NEW k \in 0 .. HdrSize - 1
                   PROVE  Stored(q, wlen)[Idx(freePos) + k] = freePos + k
        BY <2>1 DEF Intact
      <4>1. mem[Idx(freePos) + k] = freePos + k
        BY <2>2 DEF Intact
      <4>2. Idx(freePos) + k \in Cells
        BY <1>t, <2>4 DEF Cells
      <4>3. Idx(freePos) + k \notin Idx(q) .. Idx(q) + wlen - 1
        BY <1>t, <2>4, <3>1
      <4> QED
        BY <4>1, <4>2, <4>3 DEF Stored
    <3>10. WriterInv'
      BY <1>w, <2>1, <2>2, <3>5, <3>9 DEF WriterInv
    <3> QED
      BY <3>5, <3>6, <3>8, <3>10 DEF BufInv
  <2> QED
    BY <2>5, <2>6
<1>8. CASE SkipToStart
  <2>1. /\ wpc \in {"padCommit", "blank"} /\ wpc' = "hdr"
        /\ freePos' = freePos + ToEnd(freePos) /\ UNCHANGED <<mem, frames, high, wlen, wEnd>>
    BY <1>8 DEF SkipToStart
  <2>2. freePos' \in Nat /\ freePos' > freePos
    BY <1>t, <2>1
  <2>3. ASSUME freePos \in DOMAIN frames
        PROVE  /\ FrameEnd(freePos) = freePos'
               /\ \A k \in 0 .. StoredLen(freePos) - 1 : mem[Idx(freePos) + k] = freePos + k
    <3>1. wpc = "padCommit"
      BY <1>w, <2>1, <2>3 DEF WriterInv, BufInv, FramesInv
    <3>2. frames[freePos] = [type |-> "PADDING", len |-> ToEnd(freePos) - HdrSize]
          /\ Intact(freePos, HdrSize)
      BY <1>w, <3>1 DEF WriterInv
    <3> QED
      BY <1>t, <2>1, <3>2 DEF FrameEnd, StoredLen, Intact
  <2>4. MemInv' /\ FramesInv' /\ CellsInv'
    BY <1>8, <2>1, <2>2, <2>3, BufGrow
  <2>5. wlen \in MsgLens /\ wEnd <= high /\ wEnd = freePos + ToEnd(freePos) + HdrSize + wlen
    BY <1>w, <2>1 DEF WriterInv
  <2>6. wEnd = freePos' + HdrSize + wlen /\ freePos' <= wEnd /\ freePos' <= high
    BY <1>t, <2>1, <2>2, <2>5
  <2>7. ~Splits(freePos', wlen)
    <3>1. Idx(freePos') = 0
      BY <1>t, <2>1, EndIsStart
    <3>2. ToEnd(freePos') = BufSize
      BY <1>t, <3>1 DEF ToEnd
    <3> QED
      BY <1>t, <2>5, <3>2, Sizes DEF Splits
  <2>8. WriterInv'
    BY <1>w, <2>1, <2>5, <2>6, <2>7 DEF WriterInv
  <2> QED
    BY <2>4, <2>8 DEF BufInv
<1>9. CASE Commit
  <2>1. /\ wpc = "commit" /\ wpc' = "idle"
        /\ freePos' = freePos + HdrSize + wlen /\ UNCHANGED <<mem, frames, high>>
    BY <1>9 DEF Commit, WriterLeaves
  <2>2. freePos' \in Nat /\ freePos' > freePos
    BY <1>t, <2>1
  <2>3. /\ frames[freePos] = [type |-> "MSG", len |-> wlen]
        /\ wEnd <= high /\ wEnd = freePos + HdrSize + wlen /\ ~Splits(freePos, wlen)
        /\ Intact(freePos, HdrSize) /\ Intact(freePos + HdrSize, wlen)
    BY <1>w, <2>1 DEF WriterInv
  <2>4. ASSUME NEW k \in 0 .. HdrSize + wlen - 1
        PROVE  mem[Idx(freePos) + k] = freePos + k
    <3>1. CASE k < HdrSize
      BY <1>t, <2>3, <3>1 DEF Intact
    <3>2. CASE k >= HdrSize
      <4>1. ToEnd(freePos) = BufSize - Idx(freePos) /\ Idx(freePos) \in Nat
        BY <1>t, IdxType
      <4>2. ~(ToEnd(freePos) < HdrSize + wlen)
        BY <2>3 DEF Splits
      <4>3. Idx(freePos) + HdrSize < BufSize
        BY <1>t, <3>2, <4>1, <4>2
      <4>4. Idx(freePos + HdrSize) = Idx(freePos) + HdrSize
        BY <1>t, <4>3, CellOf
      <4>5. mem[Idx(freePos + HdrSize) + (k - HdrSize)] = freePos + HdrSize + (k - HdrSize)
        <5>1. k - HdrSize \in 0 .. wlen - 1
          BY <1>t, <3>2
        <5> QED
          BY <2>3, <5>1 DEF Intact
      <4>6. Idx(freePos) + HdrSize + (k - HdrSize) = Idx(freePos) + k
            /\ freePos + HdrSize + (k - HdrSize) = freePos + k
        BY <1>t, <4>1
      <4> QED
        BY <4>4, <4>5, <4>6
    <3> QED
      BY <1>t, <3>1, <3>2
  <2>5. FrameEnd(freePos) = freePos' /\ StoredLen(freePos) = HdrSize + wlen
    BY <2>1, <2>3 DEF FrameEnd, StoredLen
  <2>6. MemInv' /\ FramesInv' /\ CellsInv'
    <3>1. \A k \in 0 .. StoredLen(freePos) - 1 : mem[Idx(freePos) + k] = freePos + k
      <4> SUFFICES ASSUME NEW k \in 0 .. StoredLen(freePos) - 1
                   PROVE  mem[Idx(freePos) + k] = freePos + k
        OBVIOUS
      <4>1. k \in 0 .. HdrSize + wlen - 1
        BY <1>t, <2>5
      <4> QED
        BY <2>4, <4>1
    <3> QED
      BY <1>9, <2>1, <2>2, <2>5, <3>1, BufGrow
  <2>7. WriterInv'
    BY <2>1, <2>2, <2>3 DEF WriterInv
  <2> QED
    BY <2>6, <2>7 DEF BufInv
<1> QED
  BY <1>1, <1>2, <1>3, <1>4, <1>5, <1>6, <1>7, <1>8, <1>9 DEF WriterStep

LEMMA BufNext ==
    ASSUME TypeOK, BufInv, [Next]_vars
    PROVE  BufInv'
<1>1. CASE WriterStep \/ CrashWriter
  BY <1>1, BufWriter
<1>2. ASSUME NEW r \in Readers, ReaderStep(r)
      PROVE  BufInv'
  BY <1>2, ReaderLeavesBuffer, BufUnchanged
<1>3. CASE UNCHANGED vars
  BY <1>3, BufUnchanged DEF vars
<1> QED
  BY <1>1, <1>2, <1>3 DEF Next

LEMMA TypeNext ==
    ASSUME TypeOK, BufInv, [Next]_vars
    PROVE  TypeOK'
<1>1. CASE WriterStep \/ CrashWriter
  BY <1>1, TypeWriter DEF BufInv
<1>2. ASSUME NEW r \in Readers, ReaderStep(r)
      PROVE  TypeOK'
  BY <1>2, TypeReader
<1>3. CASE UNCHANGED vars
  BY <1>3 DEF TypeOK, vars, bufVars, writerVars, slotVars, localVars, histVars
<1> QED
  BY <1>1, <1>2, <1>3 DEF Next

(* Every variable of the ring keeps its type, for all readers, message     *)
(* sizes and handlers, whatever a reader that was overtaken read.          *)
THEOREM Typing == Spec => []TypeOK
<1>1. Init => TypeOK /\ BufInv
  BY TypeInit, BufInit
<1>2. (TypeOK /\ BufInv) /\ [Next]_vars => (TypeOK /\ BufInv)'
  BY TypeNext, BufNext
<1> QED
  BY <1>1, <1>2, PTL DEF Spec

------------------------------------------------------------------------------
(* Readers.                                                                *)

LEMMA ActiveInHull ==
    ASSUME NEW act, NEW r \in Readers, act[r]
    PROVE  r \in Hull(act)
<1>1. r \in Nat
  BY RingAssumption DEF Readers
<1> QED
  BY <1>1 DEF Hull

(* A committed frame is where a reader that has not reached the end of the *)
(* stream stands, unless it stands at a blank.                             *)
LEMMA AtFrame ==
    ASSUME TypeOK, BufInv, NEW p \in Nat, Boundary(p), p # freePos
    PROVE  /\ ~NoRoomForHeader(p) => p \in Committed
           /\ NoRoomForHeader(p) =>
                /\ p + ToEnd(p) <= freePos
                /\ Boundary(p + ToEnd(p))
<1>1. \A q \in Committed : ~NoRoomForHeader(q) /\ q <= freePos
  BY DEF BufInv, FramesInv, Committed
<1>2. freePos \in Nat
  BY DEF TypeOK
<1> QED
  BY <1>1, <1>2 DEF Boundary

(* The header a protected reader copies is the one that was stored.        *)
LEMMA HeaderIsFrame ==
    ASSUME TypeOK, BufInv, NEW p \in Committed, p + BufSize > high
    PROVE  HeaderAt(p) = {frames[p]}
<1>1. p \in DOMAIN frames /\ p < freePos /\ p \in Nat /\ frames[p].len \in Nat
  BY DEF Committed, TypeOK, Header
<1>2. \A k \in 0 .. HdrSize - 1 : mem[Idx(p) + k] = p + k
  <2> SUFFICES ASSUME NEW k \in 0 .. HdrSize - 1
               PROVE  mem[Idx(p) + k] = p + k
    OBVIOUS
  <2>1. k \in 0 .. StoredLen(p) - 1
    BY <1>1, Sizes DEF StoredLen
  <2>2. p + k + BufSize >= high
    BY <1>1, Sizes DEF TypeOK
  <2> QED
    BY <1>1, <2>1, <2>2 DEF BufInv, CellsInv
<1>3. mem[Idx(p)] = p
  <2>1. 0 \in 0 .. HdrSize - 1 /\ Idx(p) + 0 = Idx(p) /\ p + 0 = p
    BY <1>1, IdxType, Sizes
  <2> QED
    BY <1>2, <2>1
<1> QED
  BY <1>1, <1>2, <1>3 DEF HeaderAt

(* ... and so is the payload.                                              *)
LEMMA DataIsIntact ==
    ASSUME TypeOK, BufInv, NEW p \in Committed, p + BufSize > high, frames[p].type = "MSG"
    PROVE  Intact(p + HdrSize, frames[p].len)
<1> DEFINE n == frames[p].len
<1>1. /\ p \in DOMAIN frames /\ p < freePos /\ p \in Nat /\ n \in Nat
      /\ ~Splits(p, n) /\ StoredLen(p) = HdrSize + n
  BY DEF Committed, TypeOK, Header, BufInv, FramesInv, StoredLen
<1> SUFFICES ASSUME NEW k \in 0 .. n - 1
             PROVE  mem[Idx(p + HdrSize) + k] = p + HdrSize + k
  BY DEF Intact
<1>2. Idx(p) \in Nat /\ Idx(p) + HdrSize < BufSize
  <2>1. ToEnd(p) = BufSize - Idx(p) /\ Idx(p) \in Nat /\ ~(ToEnd(p) < HdrSize + n)
    BY <1>1, IdxType DEF Splits
  <2> QED
    BY <1>1, <2>1, Sizes
<1>3. Idx(p + HdrSize) = Idx(p) + HdrSize
  BY <1>1, <1>2, Sizes, CellOf
<1> DEFINE j == HdrSize + k
<1>4. j \in 0 .. StoredLen(p) - 1 /\ p + j + BufSize >= high
  <2>1. k \in Nat /\ k <= n - 1 /\ j = HdrSize + k /\ high \in Nat
    BY <1>1 DEF TypeOK
  <2>2. j \in Nat /\ j <= StoredLen(p) - 1
    BY <1>1, <2>1, Sizes
  <2>3. p + BufSize >= high
    BY <1>1, <2>1, Sizes
  <2> QED
    BY <1>1, <2>1, <2>2, <2>3, Sizes
<1>5. mem[Idx(p) + j] = p + j
  BY <1>1, <1>4 DEF BufInv, CellsInv
<1> QED
  BY <1>1, <1>2, <1>3, <1>5, Sizes

LEMMA ReadersInit == Init => JoiningInv /\ ReadersInv
BY DEF Init, JoiningInv, ReadersInv, Protected, Listed, Reading

(* What the writer does takes no protection away without marking the       *)
(* reader exposed, and moves no frame.                                     *)
LEMMA ReadersWriter ==
    ASSUME IInv, WriterStep \/ CrashWriter
    PROVE  JoiningInv' /\ ReadersInv'
<1> USE DEF Scanning, Storing
<1>0. UNCHANGED <<slotVars, localVars, base, got>>
  BY WriterLeavesReaders
<1>b. TypeOK /\ BufInv /\ WriterInv /\ FramesInv
  BY DEF IInv, BufInv
<1>t. /\ freePos \in Nat /\ high \in Nat /\ wEnd \in Nat
      /\ BufSize \in Nat /\ HdrSize \in Nat /\ ToEnd(freePos) \in Nat /\ wlen \in Nat
  BY <1>b, Sizes, LayoutTypes DEF TypeOK
<1>1. freePos' \in Nat /\ freePos' >= freePos
  <2>1. freePos' \in {freePos, freePos + ToEnd(freePos), freePos + HdrSize + wlen}
    BY DEF WriterStep, BeginWrite, ScanActive, ScanPosition, ScanDone, BpWait, BpWrite, BpThrow,
           StorePadding, SkipToStart, StoreHeader, StoreData, Commit, CrashWriter, bufVars
  <2> QED
    BY <1>t, <2>1
<1>2. \A x \in Nat : Boundary(x) => Boundary(x)'
  BY <1>b, BoundaryGrows
<1>3. \A p \in Committed : p \in Committed' /\ frames'[p] = frames[p]
  <2> SUFFICES ASSUME NEW p \in Committed
               PROVE  p \in Committed' /\ frames'[p] = frames[p]
    OBVIOUS
  <2>1. p \in DOMAIN frames /\ p < freePos /\ p \in Nat
    BY <1>b DEF Committed, TypeOK
  <2>2. CASE StorePadding \/ StoreHeader
    <3>1. \E h : frames' = WithFrame(freePos, h)
      BY <2>2 DEF StorePadding, StoreHeader
    <3>2. p # freePos /\ p < freePos'
      BY <1>t, <1>1, <2>1
    <3> QED
      BY <2>1, <3>1, <3>2 DEF WithFrame, Committed
  <2>3. CASE ~(StorePadding \/ StoreHeader)
    <3>1. frames' = frames
      BY <2>3 DEF WriterStep, BeginWrite, ScanActive, ScanPosition, ScanDone, BpWait, BpWrite,
             BpThrow, SkipToStart, StoreData, Commit, CrashWriter, bufVars
    <3>2. p < freePos'
      BY <1>t, <1>1, <2>1
    <3> QED
      BY <2>1, <3>1, <3>2 DEF Committed
  <2> QED
    BY <2>2, <2>3
<1>4. JoiningInv'
  <2> SUFFICES ASSUME NEW r \in Readers
               PROVE  /\ rpc[r] \in {"loaded", "half", "active"} =>
                            pos[r] <= freePos' /\ Boundary(pos[r])'
                      /\ rpc[r] \in {"loaded", "half", "active"} => got[r] = <<>>
                      /\ rpc[r] = "active" \/ (rpc[r] = "half" /\ PositionFirst) => bpos[r] = pos[r]
                      /\ rpc[r] \in {"active"} \cup Listed \/ (rpc[r] = "half" /\ ~PositionFirst) => active[r]
    BY <1>0 DEF JoiningInv, slotVars, localVars, Boundary
  <2>1. pos[r] \in Nat
    BY <1>b DEF TypeOK
  <2>2. /\ rpc[r] \in {"loaded", "half", "active"} => pos[r] <= freePos /\ Boundary(pos[r])
        /\ rpc[r] \in {"loaded", "half", "active"} => got[r] = <<>>
        /\ rpc[r] = "active" \/ (rpc[r] = "half" /\ PositionFirst) => bpos[r] = pos[r]
        /\ rpc[r] \in {"active"} \cup Listed \/ (rpc[r] = "half" /\ ~PositionFirst) => active[r]
    BY DEF IInv, JoiningInv
  <2>3. Boundary(pos[r]) => Boundary(pos[r])'
    <3>1. PICK x \in Nat : x = pos[r]
      BY <2>1
    <3>2. Boundary(x) => Boundary(x)'
      BY <1>2
    <3>3. pos'[r] = x
      BY <1>0, <3>1 DEF localVars
    <3> QED
      BY <3>1, <3>2, <3>3 DEF Boundary
  <2> QED
    BY <1>t, <1>1, <2>1, <2>2, <2>3
<1>5. ReadersInv'
  <2> SUFFICES ASSUME NEW r \in Readers, Protected(r)'
               PROVE  ProtectedAt(r)' /\ LocalsAt(r)'
    BY DEF ReadersInv
  <2>1. rpc[r] \in Listed /\ ~exposed'[r]
    BY <1>0 DEF Protected, localVars
  <2>2. ~exposed[r] /\ (BpWrite => ~Expired(bpos[r], wEnd))
    BY <1>b, <2>1 DEF WriterStep, BeginWrite, ScanActive, ScanPosition, ScanDone, BpWait, BpWrite,
           BpThrow, StorePadding, SkipToStart, StoreHeader, StoreData, Commit, CrashWriter,
           histVars, TypeOK
  <2>3. ProtectedAt(r) /\ LocalsAt(r) /\ active[r]
    BY <2>1, <2>2 DEF IInv, ReadersInv, Protected, JoiningInv
  <2>t. bpos[r] \in Nat /\ pos[r] \in Nat
    BY <1>b DEF TypeOK
  <2>4. high' < bpos[r] + BufSize
    <3>1. CASE ScanDone \/ BpWrite
      <4>1. wEnd < bpos[r] + BufSize
        BY <1>t, <2>2, <2>3, <2>t, <3>1 DEF ScanDone, ProtectedAt, Expired
      <4>2. high' = IF wEnd > high THEN wEnd ELSE high
        BY <3>1 DEF ScanDone, BpWrite, RaiseHigh
      <4> QED
        BY <2>3, <4>1, <4>2 DEF ProtectedAt
    <3>2. CASE ~(ScanDone \/ BpWrite)
      <4>1. high' = high
        BY <3>2 DEF WriterStep, BeginWrite, ScanActive, ScanPosition, BpWait,
           BpThrow, StorePadding, SkipToStart, StoreHeader, StoreData, Commit, CrashWriter, bufVars
      <4> QED
        BY <2>3, <4>1 DEF ProtectedAt
    <3> QED
      BY <3>1, <3>2
  <2>5. wpc' \in Scanning /\ r \notin wTodo' => wEnd' < bpos[r] + BufSize
    <3>1. CASE BeginWrite \/ BpWait
      BY <2>3, <3>1 DEF BeginWrite, BpWait, ProtectedAt
    <3>2. CASE ScanActive
      BY <2>3, <3>2 DEF ScanActive, ProtectedAt
    <3>3. CASE ScanPosition
      <4>1. ~Expired(bpos[r], freePos)
        BY <1>b, <1>t, <2>3, <2>t DEF ProtectedAt, Expired, WriterInv
      <4>2. PICK i \in wTodo :
                IF Overtakes(bpos[i], wEnd)
                THEN wpc' = "bp" /\ UNCHANGED wTodo
                ELSE wpc' = "scan" /\ wTodo' = wTodo \ {i}
        BY <3>3 DEF ScanPosition
      <4>3. wpc \in Scanning /\ wEnd' = wEnd
        BY <3>3 DEF ScanPosition
      <4>4. ASSUME wpc' \in Scanning, r \notin wTodo' PROVE wEnd < bpos[r] + BufSize
        <5>1. ~Overtakes(bpos[i], wEnd) /\ wTodo' = wTodo \ {i}
          BY <4>2, <4>4
        <5>2. CASE r = i
          BY <1>t, <2>t, <4>1, <5>1, <5>2 DEF Overtakes, Expired
        <5>3. CASE r # i
          BY <2>3, <4>3, <4>4, <5>1, <5>3 DEF ProtectedAt
        <5> QED
          BY <5>2, <5>3
      <4> QED
        BY <4>3, <4>4
    <3>4. CASE ~(BeginWrite \/ BpWait \/ ScanActive \/ ScanPosition)
      <4>1. wpc' \notin Scanning
        BY <3>4 DEF WriterStep, ScanDone, BpWrite, BpThrow, StorePadding, SkipToStart,
           StoreHeader, StoreData, Commit, CrashWriter, WriterLeaves, FirstStore
      <4> QED
        BY <4>1
    <3> QED
      BY <3>1, <3>2, <3>3, <3>4
  <2>6. ProtectedAt(r)'
    <3>1. r \in range /\ bpos[r] <= pos[r] /\ pos[r] <= freePos /\ Boundary(pos[r])
      BY <2>3 DEF ProtectedAt
    <3>2. Boundary(pos[r])'
      <4>1. PICK x \in Nat : x = pos[r]
        BY <2>t
      <4>2. Boundary(x)'
        BY <1>2, <3>1, <4>1
      <4>3. pos'[r] = x
        BY <1>0, <4>1 DEF localVars
      <4> QED
        BY <4>2, <4>3 DEF Boundary
    <3>3. pos[r] <= freePos'
      BY <1>t, <1>1, <2>t, <3>1
    <3>4. UNCHANGED <<range, bpos, pos>>
      BY <1>0 DEF slotVars, localVars
    <3> QED
      BY <2>4, <2>5, <3>1, <3>2, <3>3, <3>4 DEF ProtectedAt
  <2>7. LocalsAt(r)'
    <3>1. UNCHANGED <<rpc, pos, hdr, ok, got>>
      BY <1>0 DEF localVars
    <3>2. rpc[r] \in Reading \ {"top"} => pos[r] \in Committed
      BY <2>3 DEF LocalsAt
    <3>3. rpc[r] = "expired" => pos[r] \in Committed
      BY <2>3 DEF LocalsAt
    <3>4. rpc[r] \in (Reading \ {"top"}) \cup {"expired"} =>
            pos[r] \in Committed' /\ frames'[pos[r]] = frames[pos[r]]
      BY <1>3, <3>2, <3>3
    <3> QED
      BY <2>3, <3>1, <3>4 DEF LocalsAt, Reading
  <2> QED
    BY <2>6, <2>7
<1> QED
  BY <1>4, <1>5

(* A reader's step changes its own slot and locals, and keeps every active *)
(* slot in the published range.                                            *)
LEMMA OtherReaders ==
    ASSUME TypeOK, NEW r \in Readers, ReaderStep(r), NEW s \in Readers, s # r
    PROVE  /\ rpc'[s] = rpc[s] /\ pos'[s] = pos[s] /\ hdr'[s] = hdr[s] /\ ok'[s] = ok[s]
           /\ active'[s] = active[s] /\ bpos'[s] = bpos[s]
           /\ exposed'[s] = exposed[s] /\ got'[s] = got[s]
           /\ s \in range /\ active[s] => s \in range'
<1> USE DEF Go, slotVars, localVars, histVars
<1> DEFINE Same == /\ rpc'[s] = rpc[s] /\ pos'[s] = pos[s] /\ hdr'[s] = hdr[s] /\ ok'[s] = ok[s]
                   /\ active'[s] = active[s] /\ bpos'[s] = bpos[s]
                   /\ exposed'[s] = exposed[s] /\ got'[s] = got[s]
<1>1. CASE Alloc(r) \/ Free(r) \/ Deactivate(r)
  <2>1. Same
    BY <1>1 DEF Alloc, Free, Deactivate, Vanishes, ActivationEnds, IterationEnds, TypeOK
  <2>2. range' = Hull(active')
    BY <1>1 DEF Alloc, Free, Deactivate
  <2> QED
    BY <2>1, <2>2, ActiveInHull
<1>2. CASE Activation(r)
  <2>1. Same
    BY <1>2 DEF Activation, LoadFreePos, StorePosition, SetActive, UpdateRange, TypeOK
  <2>2. range' = range \/ (range' = Hull(active) /\ active' = active)
    BY <1>2 DEF Activation, LoadFreePos, StorePosition, SetActive, UpdateRange
  <2> QED
    BY <2>1, <2>2, ActiveInHull
<1>3. CASE ReadStep(r)
  <2>1. range' = range /\ active' = active /\ exposed' = exposed
    BY <1>3 DEF ReadStep, StartRead, ReadDone, SkipBlank, CheckEarly, CopyHeader, CheckHeader,
       CopyData, Confirm, Advance
  <2>2. /\ rpc'[s] = rpc[s] /\ pos'[s] = pos[s] /\ bpos'[s] = bpos[s] /\ got'[s] = got[s]
    BY <1>3 DEF ReadStep, StartRead, ReadDone, SkipBlank, CheckEarly, CopyHeader, CheckHeader,
       CopyData, Confirm, Advance, TypeOK
  <2>3. hdr'[s] = hdr[s] /\ ok'[s] = ok[s]
    BY <1>3 DEF ReadStep, StartRead, ReadDone, SkipBlank, CheckEarly, CopyHeader, CheckHeader,
       CopyData, Confirm, Advance, IterationEnds, TypeOK
  <2> QED
    BY <2>1, <2>2, <2>3
<1>4. CASE CrashReader(r)
  BY <1>4 DEF CrashReader, Vanishes, ActivationEnds, IterationEnds, TypeOK
<1> QED
  BY <1>1, <1>2, <1>3, <1>4 DEF ReaderStep

(* A reader that its step leaves unprotected has nothing to show; one that *)
(* keeps its protection keeps what the invariant says of it.               *)
LEMMA ReadersReader ==
    ASSUME IInv, NEW r \in Readers, ReaderStep(r)
    PROVE  JoiningInv' /\ ReadersInv'
<1> DEFINE JoinAt(s) ==
        /\ rpc[s] \in {"loaded", "half", "active"} => pos[s] <= freePos /\ Boundary(pos[s])
        /\ rpc[s] \in {"loaded", "half", "active"} => got[s] = <<>>
        /\ rpc[s] = "active" \/ (rpc[s] = "half" /\ PositionFirst) => bpos[s] = pos[s]
        /\ rpc[s] \in {"active"} \cup Listed \/ (rpc[s] = "half" /\ ~PositionFirst) => active[s]
     Good(s) == JoinAt(s) /\ (Protected(s) => ProtectedAt(s) /\ LocalsAt(s))
<1>a. \A s \in Readers : Good(s)
  BY DEF IInv, JoiningInv, ReadersInv
<1>b. TypeOK /\ BufInv
  BY DEF IInv, BufInv
<1>0. UNCHANGED <<freePos, mem, frames, high, wpc, wlen, wEnd, wTodo>>
  BY ReaderLeavesBuffer DEF bufVars, writerVars
<1>c. SUFFICES \A s \in Readers : Good(s)'
  BY DEF JoiningInv, ReadersInv
<1>1. ASSUME NEW s \in Readers, s # r PROVE Good(s)'
  <2>1. /\ rpc'[s] = rpc[s] /\ pos'[s] = pos[s] /\ hdr'[s] = hdr[s] /\ ok'[s] = ok[s]
        /\ active'[s] = active[s] /\ bpos'[s] = bpos[s]
        /\ exposed'[s] = exposed[s] /\ got'[s] = got[s]
        /\ s \in range /\ active[s] => s \in range'
    BY <1>1, <1>b, OtherReaders
  <2>2. Good(s)
    BY <1>a
  <2>3. JoinAt(s)'
    BY <1>0, <2>1, <2>2 DEF Boundary, Committed
  <2>4. Protected(s)' => ProtectedAt(s)'
    BY <1>0, <2>1, <2>2 DEF Protected, ProtectedAt, Boundary, Committed, Scanning
  <2>5. Protected(s)' => LocalsAt(s)'
    BY <1>0, <2>1, <2>2 DEF Protected, LocalsAt, Committed
  <2> QED
    BY <2>3, <2>4, <2>5
<1>2. Good(r)'
  <2> USE DEF Go, Listed, Reading
  <2>t. /\ pos[r] \in Nat /\ bpos[r] \in Nat /\ freePos \in Nat /\ high \in Nat
        /\ BufSize \in Nat /\ HdrSize \in Nat /\ ok[r] \in BOOLEAN
        /\ r \in DOMAIN rpc /\ r \in DOMAIN pos /\ r \in DOMAIN bpos /\ r \in DOMAIN hdr
        /\ r \in DOMAIN ok /\ r \in DOMAIN active /\ r \in DOMAIN exposed /\ r \in DOMAIN got
    BY <1>b, Sizes DEF TypeOK
  <2>g. JoinAt(r) /\ (Protected(r) => ProtectedAt(r) /\ LocalsAt(r))
    BY <1>a
  <2>k. ASSUME UNCHANGED <<pos, bpos, active, range, exposed>>,
               rpc[r] \in Listed, rpc'[r] \in Listed \cup {"aborted"}
        PROVE  JoinAt(r)' /\ (Protected(r)' => Protected(r) /\ ProtectedAt(r)')
    <3>1. JoinAt(r)'
      BY <2>g, <2>k
    <3>2. ASSUME Protected(r)' PROVE Protected(r) /\ ProtectedAt(r)'
      <4>1. Protected(r)
        BY <2>k, <3>2 DEF Protected
      <4>2. ProtectedAt(r)'
        BY <1>0, <2>g, <2>k, <4>1 DEF ProtectedAt, Boundary, Committed, Scanning
      <4> QED
        BY <4>1, <4>2
    <3> QED
      BY <3>1, <3>2
  <2>n. Protected(r) => ~Expired(pos[r], freePos)
    <3> SUFFICES ASSUME Protected(r) PROVE freePos < pos[r] + BufSize
      BY <2>t DEF Expired
    <3>1. high < bpos[r] + BufSize /\ bpos[r] <= pos[r] /\ freePos <= high
      BY <1>b, <2>g DEF ProtectedAt, BufInv, WriterInv
    <3> QED
      BY <2>t, <3>1
  <2>1. CASE Alloc(r) \/ Free(r) \/ Deactivate(r) \/ CrashReader(r)
    <3>1. rpc'[r] \in {"idle", "free", "dead"}
      BY <2>1, <2>t DEF Alloc, Free, Deactivate, CrashReader
    <3> QED
      BY <3>1 DEF Protected
  <2>2. CASE LoadFreePos(r)
    <3>1. rpc'[r] = "loaded" /\ pos'[r] = freePos /\ got'[r] = <<>>
      BY <2>2, <2>t DEF LoadFreePos
    <3> QED
      BY <1>0, <2>t, <3>1 DEF Protected, Boundary
  <2>3. CASE StorePosition(r) \/ SetActive(r)
    <3>1. \/ rpc[r] = "loaded" /\ rpc'[r] = "half" /\ IF PositionFirst THEN bpos'[r] = pos[r] ELSE active'[r]
          \/ /\ rpc[r] = "half" /\ rpc'[r] = "active"
             /\ IF PositionFirst THEN active'[r] /\ bpos' = bpos ELSE bpos'[r] = pos[r] /\ active' = active
      BY <2>3, <2>t DEF StorePosition, SetActive
    <3>2. UNCHANGED <<pos, got>>
      BY <2>3 DEF StorePosition, SetActive, histVars
    <3> QED
      BY <1>0, <2>g, <3>1, <3>2 DEF Protected, Boundary, Committed
  <2>4. CASE UpdateRange(r)
    <3>1. /\ rpc[r] = "active" /\ rpc'[r] = "ready" /\ range' = Hull(active)
          /\ exposed'[r] = (Expired(pos[r], high) \/ MissedByScan(r))
          /\ UNCHANGED <<pos, bpos, active, got>>
      BY <2>4, <2>t DEF UpdateRange
    <3>2. active[r] /\ bpos[r] = pos[r] /\ pos[r] <= freePos /\ Boundary(pos[r]) /\ got[r] = <<>>
      BY <2>g, <3>1
    <3>3. r \in range'
      BY <3>1, <3>2, ActiveInHull
    <3>4. ASSUME Protected(r)' PROVE ProtectedAt(r)' /\ LocalsAt(r)'
      <4>1. ~Expired(pos[r], high) /\ ~MissedByScan(r)
        BY <3>1, <3>4 DEF Protected
      <4>2. high < bpos[r] + BufSize
        BY <2>t, <3>2, <4>1 DEF Expired
      <4>3. wpc \in Scanning /\ r \notin wTodo => wEnd < bpos[r] + BufSize
        <5>1. wEnd \in Nat
          BY <1>b DEF TypeOK
        <5> QED
          BY <2>t, <3>2, <4>1, <5>1 DEF MissedByScan, Expired
      <4>4. ProtectedAt(r)'
        BY <1>0, <2>t, <3>1, <3>2, <3>3, <4>2, <4>3 DEF ProtectedAt, Boundary, Committed, Scanning
      <4>5. LocalsAt(r)'
        BY <3>1, <3>2 DEF LocalsAt
      <4> QED
        BY <4>4, <4>5
    <3>5. JoinAt(r)'
      BY <3>1, <3>2
    <3> QED
      BY <3>4, <3>5
  <2>5. CASE StartRead(r)
    <3>1. rpc[r] = "ready" /\ rpc'[r] \in {"top", "aborted"}
          /\ UNCHANGED <<pos, bpos, active, range, exposed, got>>
      BY <2>5, <2>t DEF StartRead, slotVars, histVars
    <3>2. Protected(r) => LocalsAt(r)'
      BY <2>g, <3>1 DEF LocalsAt
    <3> QED
      BY <2>k, <3>1, <3>2
  <2>6. CASE ReadDone(r)
    <3>1. rpc[r] = "top" /\ rpc'[r] = "ready" /\ bpos'[r] = pos[r] /\ pos[r] = freePos
          /\ UNCHANGED <<pos, active, range, exposed, got>>
      BY <2>6, <2>t DEF ReadDone, histVars
    <3>2. ASSUME Protected(r)' PROVE ProtectedAt(r)' /\ LocalsAt(r)'
      <4>1. Protected(r)
        BY <3>1, <3>2 DEF Protected
      <4>2. wEnd \in Nat
        BY <1>b DEF TypeOK
      <4>3. ProtectedAt(r)'
        BY <1>0, <2>g, <2>t, <3>1, <4>1, <4>2 DEF ProtectedAt, Boundary, Committed, Scanning
      <4>4. LocalsAt(r)'
        BY <2>g, <3>1, <4>1 DEF LocalsAt
      <4> QED
        BY <4>3, <4>4
    <3> QED
      BY <2>g, <3>1, <3>2
  <2>7. CASE SkipBlank(r)
    <3>1. rpc[r] = "top" /\ rpc'[r] = "top" /\ pos'[r] = pos[r] + ToEnd(pos[r])
          /\ pos[r] # freePos /\ NoRoomForHeader(pos[r])
          /\ UNCHANGED <<bpos, active, range, exposed, got>>
      BY <2>7, <2>t DEF SkipBlank, slotVars, histVars
    <3>2. ASSUME Protected(r)' PROVE ProtectedAt(r)' /\ LocalsAt(r)'
      <4>1. Protected(r)
        BY <3>1, <3>2 DEF Protected
      <4>2. pos[r] + ToEnd(pos[r]) <= freePos /\ Boundary(pos[r] + ToEnd(pos[r]))
        BY <1>b, <2>g, <2>t, <3>1, <4>1, AtFrame DEF ProtectedAt
      <4>3. ToEnd(pos[r]) \in Nat
        BY <2>t, LayoutTypes
      <4>4. bpos[r] <= pos[r] + ToEnd(pos[r])
        BY <2>g, <2>t, <4>1, <4>3 DEF ProtectedAt
      <4>5. ProtectedAt(r)'
        BY <1>0, <2>g, <3>1, <4>1, <4>2, <4>4 DEF ProtectedAt, Boundary, Committed, Scanning
      <4>6. LocalsAt(r)'
        BY <2>g, <3>1, <4>1 DEF LocalsAt
      <4> QED
        BY <4>5, <4>6
    <3> QED
      BY <2>g, <3>1, <3>2
  <2>8. CASE CheckEarly(r)
    <3>1. rpc[r] = "top" /\ rpc'[r] \in {"hdr", "expired"} /\ pos[r] # freePos
          /\ ~NoRoomForHeader(pos[r])
          /\ (rpc'[r] = "expired" => Expired(pos[r], freePos))
          /\ UNCHANGED <<pos, bpos, active, range, exposed, got>>
      BY <2>8, <2>t DEF CheckEarly, slotVars, histVars
    <3>2. ASSUME Protected(r) PROVE LocalsAt(r)'
      <4>1. pos[r] \in Committed
        BY <1>b, <2>g, <2>t, <3>1, <3>2, AtFrame DEF ProtectedAt
      <4>2. rpc'[r] # "expired"
        BY <2>n, <3>1, <3>2
      <4> QED
        BY <1>0, <2>g, <3>1, <3>2, <4>1, <4>2 DEF LocalsAt, Committed
    <3> QED
      BY <2>k, <3>1, <3>2
  <2>9. CASE CopyHeader(r)
    <3>1. rpc[r] = "hdr" /\ rpc'[r] = "check" /\ hdr'[r] \in HeaderAt(pos[r])
          /\ UNCHANGED <<pos, bpos, active, range, exposed, got>>
      BY <2>9, <2>t DEF CopyHeader, slotVars, histVars
    <3>2. ASSUME Protected(r) PROVE LocalsAt(r)'
      <4>1. pos[r] \in Committed
        BY <2>g, <3>1, <3>2 DEF LocalsAt
      <4>2. pos[r] + BufSize > high
        BY <2>g, <2>t, <3>2 DEF ProtectedAt
      <4>3. hdr'[r] = frames[pos[r]]
        BY <1>b, <3>1, <4>1, <4>2, HeaderIsFrame
      <4> QED
        BY <1>0, <2>g, <3>1, <3>2, <4>1, <4>3 DEF LocalsAt, Committed
    <3> QED
      BY <2>k, <3>1, <3>2
  <2>10. CASE CheckHeader(r)
    <3>1. rpc[r] = "check" /\ rpc'[r] \in {"expired", "aborted", "copy", "advance"}
          /\ (rpc'[r] = "copy" => hdr[r].type = "MSG")
          /\ (rpc'[r] = "expired" => ~Valid(hdr[r]) \/ Expired(pos[r], freePos))
          /\ (rpc'[r] \in {"copy", "advance"} => hdr' = hdr)
          /\ UNCHANGED <<pos, bpos, active, range, exposed, got>>
      <4>1. CASE ~Valid(hdr[r]) \/ Expired(pos[r], freePos)
        BY <2>10, <2>t, <4>1 DEF CheckHeader, slotVars, histVars
      <4>2. CASE ~(~Valid(hdr[r]) \/ Expired(pos[r], freePos))
        BY <2>10, <2>t, <4>2 DEF CheckHeader, slotVars, histVars
      <4> QED
        BY <4>1, <4>2
    <3>2. ASSUME Protected(r) PROVE LocalsAt(r)'
      <4>1. LocalsAt(r) /\ pos[r] \in Committed /\ pos[r] \in Committed' /\ frames' = frames
        BY <1>0, <2>g, <3>1, <3>2 DEF LocalsAt, Committed
      <4>2. rpc'[r] = "expired" => ~Valid(hdr[r])
        BY <2>n, <3>1, <3>2
      <4>3. hdr[r] = frames[pos[r]] /\ frames[pos[r]].type \in Types
        BY <1>b, <3>1, <4>1 DEF LocalsAt, BufInv, FramesInv, Committed
      <4>4. rpc'[r] = "expired" => frames[pos[r]].len = 0
        BY <4>2, <4>3 DEF Valid
      <4> QED
        BY <3>1, <4>1, <4>4 DEF LocalsAt
    <3> QED
      BY <2>k, <3>1, <3>2
  <2>11. CASE CopyData(r)
    <3>1. rpc[r] = "copy" /\ rpc'[r] \in {"confirm", "advance"}
          /\ ok'[r] = (/\ pos[r] \in DOMAIN frames
                       /\ hdr[r] = frames[pos[r]]
                       /\ Intact(pos[r] + HdrSize, hdr[r].len))
          /\ UNCHANGED <<pos, bpos, active, range, exposed, got, hdr>>
      BY <2>11, <2>t DEF CopyData, slotVars, histVars
    <3>2. ASSUME Protected(r) PROVE LocalsAt(r)'
      <4>1. /\ pos[r] \in Committed /\ pos[r] \in DOMAIN frames
            /\ hdr[r] = frames[pos[r]] /\ hdr[r].type = "MSG"
        BY <2>g, <3>1, <3>2 DEF LocalsAt, Committed
      <4>2. pos[r] + BufSize > high
        BY <2>g, <2>t, <3>2 DEF ProtectedAt
      <4>3. Intact(pos[r] + HdrSize, hdr[r].len)
        BY <1>b, <4>1, <4>2, DataIsIntact
      <4>4. ok'[r] = TRUE
        BY <3>1, <4>1, <4>3
      <4> QED
        BY <1>0, <2>g, <3>1, <3>2, <4>1, <4>4 DEF LocalsAt, Committed
    <3> QED
      BY <2>k, <3>1, <3>2
  <2>12. CASE Confirm(r)
    <3>1. rpc[r] = "confirm" /\ rpc'[r] \in {"expired", "advance"}
          /\ UNCHANGED <<pos, bpos, active, range, exposed>>
          /\ (rpc'[r] = "expired" => got' = got /\ Expired(pos[r], freePos))
          /\ (rpc'[r] = "advance" =>
                hdr' = hdr /\ got'[r] = Append(got[r], [at |-> pos[r], intact |-> ok[r]]))
      <4>1. CASE Expired(pos[r], freePos)
        BY <2>12, <2>t, <4>1 DEF Confirm, slotVars
      <4>2. CASE ~Expired(pos[r], freePos)
        BY <2>12, <2>t, <4>2 DEF Confirm, slotVars
      <4> QED
        BY <4>1, <4>2
    <3>2. ASSUME Protected(r) PROVE LocalsAt(r)'
      <4>1. LocalsAt(r) /\ pos[r] \in Committed' /\ frames' = frames /\ ok[r]
        BY <1>0, <2>g, <3>1, <3>2 DEF LocalsAt, Committed
      <4>2. \A i \in DOMAIN got'[r] : got'[r][i].intact
        <5>1. CASE rpc'[r] = "expired"
          BY <3>1, <4>1, <5>1 DEF LocalsAt
        <5>2. CASE rpc'[r] = "advance"
          <6> DEFINE m == [at |-> pos[r], intact |-> ok[r]]
          <6>1. got[r] \in Seq([at : Nat, intact : BOOLEAN]) /\ m \in [at : Nat, intact : BOOLEAN]
            BY <1>b, <2>t DEF TypeOK
          <6>2. m.intact /\ \A i \in DOMAIN got[r] : got[r][i].intact
            BY <4>1 DEF LocalsAt
          <6> HIDE DEF m
          <6>3. \A i \in DOMAIN Append(got[r], m) : Append(got[r], m)[i].intact
            BY <6>1, <6>2
          <6> QED
            BY <3>1, <5>2, <6>3 DEF m
        <5> QED
          BY <3>1, <5>1, <5>2
      <4>3. rpc'[r] # "expired"
        BY <2>n, <3>1, <3>2
      <4> QED
        BY <3>1, <4>1, <4>2, <4>3 DEF LocalsAt
    <3> QED
      BY <2>k, <3>1, <3>2
  <2>13. CASE Advance(r)
    <3> DEFINE next == pos[r] + HdrSize + hdr[r].len
    <3>1. rpc[r] = "advance" /\ rpc'[r] = "top" /\ pos'[r] = next
          /\ bpos'[r] = (IF next >= bpos[r] + BposMaxLag THEN next ELSE bpos[r])
          /\ UNCHANGED <<active, range, exposed, got>>
      BY <2>13, <2>t DEF Advance, histVars
    <3>2. ASSUME Protected(r)' PROVE ProtectedAt(r)' /\ LocalsAt(r)'
      <4>1. Protected(r)
        BY <3>1, <3>2 DEF Protected
      <4>2. pos[r] \in Committed /\ hdr[r] = frames[pos[r]]
        BY <2>g, <3>1, <4>1 DEF LocalsAt
      <4>3. next = FrameEnd(pos[r]) /\ frames[pos[r]].len \in Nat
        BY <1>b, <4>2 DEF FrameEnd, Committed, TypeOK, Header
      <4>4. next <= freePos /\ Boundary(next) /\ next \in Nat /\ pos[r] <= next
        BY <1>b, <2>t, <4>2, <4>3 DEF BufInv, FramesInv, Committed
      <4>5. bpos'[r] \in Nat /\ bpos[r] <= bpos'[r] /\ bpos'[r] <= next
        BY <2>g, <2>t, <3>1, <4>1, <4>4 DEF ProtectedAt
      <4> HIDE DEF next
      <4>6. wEnd \in Nat
        BY <1>b DEF TypeOK
      <4>7. ProtectedAt(r)'
        BY <1>0, <2>g, <2>t, <3>1, <4>1, <4>4, <4>5, <4>6
        DEF ProtectedAt, Boundary, Committed, Scanning
      <4>8. LocalsAt(r)'
        BY <2>g, <3>1, <4>1 DEF LocalsAt
      <4> QED
        BY <4>7, <4>8
    <3> QED
      BY <2>g, <3>1, <3>2
  <2> QED
    BY <2>1, <2>2, <2>3, <2>4, <2>5, <2>6, <2>7, <2>8, <2>9, <2>10, <2>11, <2>12, <2>13
    DEF ReaderStep, Activation, ReadStep
<1> QED
  BY <1>1, <1>2

------------------------------------------------------------------------------
(* The theorems.                                                           *)

(* A header is stored at the end of the stream only. *)
LEMMA ApartStep ==
    ASSUME TypeOK, BufInv, ApartInv, [Next]_vars
    PROVE  ApartInv'
<1>1. CASE UNCHANGED frames
  BY <1>1 DEF ApartInv, FrameEnd
<1>2. ASSUME NEW h, frames' = WithFrame(freePos, h)
      PROVE  ApartInv'
  <2> SUFFICES ASSUME NEW p \in DOMAIN frames', NEW q \in DOMAIN frames', p < q
               PROVE  FrameEnd(p)' <= q
    BY DEF ApartInv
  <2>1. DOMAIN frames' = DOMAIN frames \cup {freePos} /\ DOMAIN frames \subseteq Nat /\ freePos \in Nat
    BY <1>2 DEF WithFrame, TypeOK
  <2>2. \A x \in DOMAIN frames : x <= freePos /\ (x < freePos => FrameEnd(x) <= freePos)
    BY DEF BufInv, FramesInv
  <2>3. p \in DOMAIN frames /\ p < freePos
    BY <2>1, <2>2
  <2>4. FrameEnd(p)' = FrameEnd(p)
    <3>1. p # freePos
      BY <2>1, <2>3
    <3>2. frames'[p] = frames[p]
      BY <1>2, <2>1, <2>3, <3>1 DEF WithFrame
    <3> QED
      BY <3>2 DEF FrameEnd
  <2> QED
    BY <2>1, <2>2, <2>3, <2>4 DEF ApartInv
<1>3. ASSUME NEW r \in Readers, ReaderStep(r)
      PROVE  UNCHANGED frames
  BY <1>3, ReaderLeavesBuffer DEF bufVars
<1>4. CASE WriterStep \/ CrashWriter
  BY <1>1, <1>2, <1>4 DEF WriterStep, CrashWriter, BeginWrite, ScanActive, ScanPosition, ScanDone, BpWait, BpWrite,
       BpThrow, StorePadding, SkipToStart, StoreHeader, StoreData, Commit, bufVars
<1> QED
  BY <1>1, <1>3, <1>4 DEF Next, vars, bufVars

LEMMA Inductive == IInv /\ [Next]_vars => IInv'
<1> SUFFICES ASSUME IInv, [Next]_vars PROVE IInv'
  OBVIOUS
<1>1. TypeOK' /\ BufInv'
  BY TypeNext, BufNext DEF IInv, BufInv
<1>2. JoiningInv' /\ ReadersInv'
  <2>1. CASE WriterStep \/ CrashWriter
    BY <2>1, ReadersWriter
  <2>2. ASSUME NEW r \in Readers, ReaderStep(r)
        PROVE  JoiningInv' /\ ReadersInv'
    BY <2>2, ReadersReader
  <2>3. CASE UNCHANGED vars
    BY <2>3 DEF IInv, JoiningInv, ReadersInv, Protected, ProtectedAt, LocalsAt, Boundary, Committed,
       Scanning, vars, bufVars, writerVars, slotVars, localVars, histVars
  <2> QED
    BY <2>1, <2>2, <2>3 DEF Next
<1>3. ApartInv'
  BY ApartStep DEF IInv, BufInv
<1> QED
  BY <1>1, <1>2, <1>3 DEF IInv, BufInv

(* The inductive invariant holds in every reachable state.                 *)
THEOREM Invariance == Spec => []IInv
<1>1. Init => IInv
  <2>1. Init => ApartInv
    BY DEF Init, ApartInv
  <2> QED
    BY <2>1, TypeInit, BufInit, ReadersInit DEF IInv, BufInv
<1> QED
  BY <1>1, Inductive, PTL DEF Spec

(* No protected reader is ever handed a message other than the one that    *)
(* was written: Writer::DetectReaderBackpressure keeps every store of      *)
(* Write less than a buffer ahead of what ReadEx is copying.               *)
THEOREM DeliveryIsIntact == Spec => []ProtectedIntact
<1>1. IInv => ProtectedIntact
  BY DEF IInv, ReadersInv, LocalsAt, ProtectedIntact
<1> QED
  BY <1>1, Invariance, PTL

(* A protected reader that gives up stands at a header of length 0: ReadEx *)
(* has no other way to return EXPIRED_POSITION to it.                      *)
THEOREM ExpiryIsJustified == Spec => []ExpiredJustified
<1>1. IInv => ExpiredJustified
  BY DEF IInv, ReadersInv, LocalsAt, ExpiredJustified, Protected, Listed
<1> QED
  BY <1>1, Invariance, PTL

(* No assertion of ReadEx fails in a protected reader: it never stands     *)
(* past the stream end, and the length of the header it copied fits.       *)
THEOREM NoAssertionFails == Spec => []AssertionsHold
<1>1. Init => AssertionsHold
  BY DEF Init, AssertionsHold
<1>2. IInv /\ AssertionsHold /\ [Next]_vars => AssertionsHold'
  <2> SUFFICES ASSUME IInv, AssertionsHold, [Next]_vars,
                      NEW r \in Readers, rpc'[r] = "aborted"
               PROVE  exposed'[r]
    BY DEF AssertionsHold
  <2>t. /\ rpc \in [Readers -> ReaderPcs] /\ exposed \in [Readers -> BOOLEAN]
        /\ pos[r] \in Nat /\ freePos \in Nat
    BY DEF IInv, TypeOK
  <2>g. /\ rpc[r] = "aborted" => exposed[r]
        /\ Protected(r) => ProtectedAt(r) /\ LocalsAt(r)
    BY DEF AssertionsHold, IInv, ReadersInv
  <2>1. CASE WriterStep \/ CrashWriter
    <3>1. rpc' = rpc /\ (exposed[r] => exposed'[r])
      BY <2>1, <2>t DEF WriterStep, BeginWrite, ScanActive, ScanPosition, ScanDone, BpWait, BpWrite,
         BpThrow, StorePadding, SkipToStart, StoreHeader, StoreData, Commit, CrashWriter,
         localVars, histVars
    <3> QED
      BY <2>g, <3>1
  <2>2. ASSUME NEW s \in Readers, ReaderStep(s), s # r
        PROVE  exposed'[r]
    <3>1. rpc'[r] = rpc[r] /\ exposed'[r] = exposed[r]
      BY <2>2, <2>t DEF ReaderStep, Activation, ReadStep, Alloc, Free, LoadFreePos, StorePosition,
         SetActive, UpdateRange, StartRead, ReadDone, SkipBlank, CheckEarly, CopyHeader, CheckHeader,
         CopyData, Confirm, Advance, Deactivate, CrashReader, Go, histVars
    <3> QED
      BY <2>g, <3>1
  <2>3. CASE StartRead(r)
    <3>1. rpc[r] = "ready" /\ pos[r] > freePos /\ exposed' = exposed
      BY <2>3, <2>t DEF StartRead, Go, histVars
    <3>2. ~Protected(r)
      BY <2>g, <2>t, <3>1 DEF ProtectedAt
    <3> QED
      BY <3>1, <3>2 DEF Protected, Listed
  <2>4. CASE CheckHeader(r)
    <3>1. rpc[r] = "check" /\ Splits(pos[r], hdr[r].len) /\ exposed' = exposed
      BY <2>4, <2>t DEF CheckHeader, Go, histVars
    <3>2. ~Protected(r)
      BY <2>g, <3>1 DEF LocalsAt, Reading, Committed, IInv, FramesInv
    <3> QED
      BY <3>1, <3>2 DEF Protected, Listed, Reading
  <2>5. CASE ReaderStep(r) /\ ~StartRead(r) /\ ~CheckHeader(r)
    <3>1. FALSE
      BY <2>5, <2>t DEF ReaderStep, Activation, ReadStep, Alloc, Free, LoadFreePos, StorePosition,
         SetActive, UpdateRange, ReadDone, SkipBlank, CheckEarly, CopyHeader,
         CopyData, Confirm, Advance, Deactivate, CrashReader, Go
    <3> QED
      BY <3>1
  <2>6. CASE UNCHANGED vars
    BY <2>6, <2>g DEF vars, localVars, histVars
  <2> QED
    BY <2>1, <2>2, <2>3, <2>4, <2>5, <2>6 DEF Next
<1> QED
  BY <1>1, <1>2, Invariance, PTL DEF Spec

(* Wherever a writer dies, the committed stream stays a chain of whole     *)
(* frames, intact unless a write was allowed over it.                      *)
THEOREM StreamIsWellFormed == Spec => []StreamWellFormed
<1>1. Init => Boundary(0)
  BY DEF Init, Boundary
<1>2. IInv /\ Boundary(0) /\ [Next]_vars => Boundary(0)'
  <2> SUFFICES ASSUME IInv, Boundary(0), [Next]_vars PROVE Boundary(0)'
    OBVIOUS
  <2>1. CASE WriterStep \/ CrashWriter
    BY <2>1, BoundaryGrows DEF IInv, BufInv
  <2>2. ASSUME NEW r \in Readers, ReaderStep(r)
        PROVE  Boundary(0)'
    BY <2>2, ReaderLeavesBuffer DEF bufVars, Boundary, Committed
  <2>3. CASE UNCHANGED vars
    BY <2>3 DEF vars, bufVars, Boundary, Committed
  <2> QED
    BY <2>1, <2>2, <2>3 DEF Next
<1>3. IInv /\ Boundary(0) => StreamWellFormed
  <2> SUFFICES ASSUME IInv, Boundary(0), NEW p \in Committed
               PROVE  /\ Boundary(FrameEnd(p))
                      /\ Idx(p) + HdrSize + frames[p].len <= BufSize
                      /\ \A k \in 0 .. StoredLen(p) - 1 :
                            p + k + BufSize >= high => mem[Idx(p) + k] = p + k
    BY DEF StreamWellFormed, StoredLen
  <2>1. p \in DOMAIN frames /\ p < freePos /\ p \in Nat /\ frames[p].len \in Nat
    BY DEF IInv, TypeOK, Committed, Header
  <2>2. ToEnd(p) = BufSize - Idx(p) /\ Idx(p) \in Nat
    BY <2>1, IdxType
  <2>3. ~(ToEnd(p) < HdrSize + frames[p].len)
    BY <2>1 DEF IInv, FramesInv, Splits
  <2>4. Idx(p) + HdrSize + frames[p].len <= BufSize
    BY <2>1, <2>2, <2>3, Sizes
  <2> QED
    BY <2>1, <2>4 DEF IInv, FramesInv, CellsInv
<1> QED
  BY <1>1, <1>2, <1>3, Invariance, PTL DEF Spec

(* No step stores over a byte a protected reader has still to read.        *)
THEOREM UnreadBytesStay == Spec => NoUnreadByteOverwritten
<1> DEFINE Stays == \A r \in Readers : Protected(r) =>
        \A c \in Cells : mem[c] \in pos[r] .. freePos - 1 => mem'[c] = mem[c]
<1>1. IInv /\ [Next]_vars => [Stays]_vars
  <2> SUFFICES ASSUME IInv, Next,
                      NEW r \in Readers, Protected(r),
                      NEW c \in Cells, mem[c] \in pos[r] .. freePos - 1
               PROVE  mem'[c] = mem[c]
    BY DEF vars
  <2>t. /\ TypeOK /\ WriterInv /\ ProtectedAt(r) /\ freePos \in Nat /\ wlen \in Nat /\ high \in Nat
        /\ wEnd \in Nat /\ pos[r] \in Nat /\ bpos[r] \in Nat
        /\ HdrSize \in Nat /\ HdrSize > 0 /\ BufSize \in Nat
    BY Sizes DEF IInv, TypeOK, ReadersInv
  <2>m. mem[c] \in Nat /\ Idx(mem[c]) = c /\ mem[c] < freePos /\ mem[c] + BufSize >= high
    <3>1. mem[c] \in Int /\ pos[r] <= mem[c] /\ mem[c] <= freePos - 1
      BY <2>t DEF TypeOK
    <3>2. mem[c] \in Nat /\ mem[c] < freePos /\ mem[c] + BufSize >= high
      BY <2>t, <3>1 DEF ProtectedAt
    <3> QED
      BY <3>2 DEF IInv, MemInv
  <2>1. CASE StorePadding \/ StoreHeader
    <3>1. mem' = Stored(freePos, HdrSize) /\ wpc \in {"pad", "hdr"}
      BY <2>1 DEF StorePadding, StoreHeader
    <3>2. ToEnd(freePos) = BufSize - Idx(freePos) /\ Idx(freePos) \in Nat
      BY <2>t, IdxType
    <3>3. ~(ToEnd(freePos) < HdrSize) /\ freePos + HdrSize <= high
      BY <2>t, <3>1, <3>2 DEF WriterInv, NoRoomForHeader, Splits, Storing
    <3>4. Idx(freePos) + HdrSize <= BufSize
      BY <2>t, <3>2, <3>3
    <3> QED
      BY <2>t, <2>m, <3>1, <3>3, <3>4, StoreKeeps
  <2>2. CASE StoreData
    <3> DEFINE q == freePos + HdrSize
    <3>1. mem' = Stored(q, wlen) /\ wpc = "data"
      BY <2>2 DEF StoreData
    <3>2. ~(ToEnd(freePos) < HdrSize + wlen) /\ q + wlen <= high
      BY <2>t, <3>1 DEF WriterInv, Splits, Storing
    <3>3. ToEnd(freePos) = BufSize - Idx(freePos) /\ Idx(freePos) \in Nat
      BY <2>t, IdxType
    <3>4. CASE wlen = 0
      <4>1. q \in Nat
        BY <2>t
      <4>2. Idx(q) \in Nat
        BY <4>1, IdxType
      <4> QED
        BY <3>1, <3>4, <4>2 DEF Stored
    <3>5. CASE wlen # 0
      <4>1. Idx(freePos) + HdrSize < BufSize /\ q \in Nat /\ mem[c] < q
        BY <2>t, <2>m, <3>2, <3>3, <3>5
      <4>2. Idx(q) = Idx(freePos) + HdrSize
        BY <2>t, <4>1, CellOf
      <4>3. Idx(q) + wlen <= BufSize
        BY <2>t, <3>2, <3>3, <4>2
      <4> QED
        BY <2>t, <2>m, <3>1, <3>2, <4>1, <4>3, StoreKeeps
    <3> QED
      BY <3>4, <3>5
  <2>3. CASE (WriterStep \/ CrashWriter) /\ ~(StorePadding \/ StoreHeader \/ StoreData)
    BY <2>3 DEF WriterStep, BeginWrite, ScanActive, ScanPosition, ScanDone, BpWait, BpWrite, BpThrow,
       SkipToStart, Commit, CrashWriter, bufVars
  <2>4. ASSUME NEW s \in Readers, ReaderStep(s)
        PROVE  mem' = mem
    BY <2>4, ReaderLeavesBuffer DEF bufVars
  <2> QED
    BY <2>1, <2>2, <2>3, <2>4 DEF Next
<1>2. [][Stays]_vars <=> NoUnreadByteOverwritten
  BY DEF NoUnreadByteOverwritten
<1> QED
  BY <1>1, Invariance, PTL DEF Spec, NoUnreadByteOverwritten

------------------------------------------------------------------------------
(* The refinement of RmpStream.                                            *)

(* The log of the stream lists the positions of its messages in ascending  *)
(* order.                                                                  *)

(* A message has fewer before it than there are, and than a later one has. *)
LEMMA BelowCount ==
    ASSUME NEW M, IsFiniteSet(M), M \subseteq Nat, NEW p \in M
    PROVE  /\ Cardinality(M) \in Nat /\ Cardinality(Below(M, p)) \in Nat
           /\ Cardinality(Below(M, p)) < Cardinality(M)
           /\ Cardinality(Below(M, p) \cup {p}) = Cardinality(Below(M, p)) + 1
           /\ \A q \in M : p < q => Cardinality(Below(M, p)) < Cardinality(Below(M, q))
<1>1. Below(M, p) \subseteq M /\ p \notin Below(M, p)
  BY DEF Below
<1>2. IsFiniteSet(Below(M, p)) /\ Cardinality(Below(M, p)) \in Nat /\ Cardinality(M) \in Nat
  BY <1>1, FS_Subset, FS_CardinalityType
<1>3. Cardinality(Below(M, p) \cup {p}) = Cardinality(Below(M, p)) + 1
  BY <1>1, <1>2, FS_AddElement
<1>4. ASSUME NEW S, S \subseteq M, Below(M, p) \cup {p} \subseteq S
      PROVE  Cardinality(Below(M, p)) < Cardinality(S)
  <2>1. IsFiniteSet(S)
    BY <1>4, FS_Subset
  <2>2. Cardinality(S) \in Nat /\ Cardinality(Below(M, p) \cup {p}) <= Cardinality(S)
    BY <1>4, <2>1, FS_Subset, FS_CardinalityType
  <2> QED
    BY <1>2, <1>3, <2>2
<1>5. Cardinality(Below(M, p)) < Cardinality(M)
  BY <1>1, <1>4
<1>6. ASSUME NEW q \in M, p < q
      PROVE  Cardinality(Below(M, p)) < Cardinality(Below(M, q))
  <2>0. \A x \in M : x < p => x < q
    <3> SUFFICES ASSUME NEW x \in M, x < p PROVE x < q
      OBVIOUS
    <3>1. x \in Nat /\ p \in Nat /\ q \in Nat
      OBVIOUS
    <3> QED
      BY <1>6, <3>1
  <2>1. Below(M, p) \cup {p} \subseteq Below(M, q) /\ Below(M, q) \subseteq M
    BY <1>6, <2>0, Zenon DEF Below
  <2> QED
    BY <2>1, <1>4
<1> QED
  BY <1>2, <1>3, <1>5, <1>6

(* It is found in the place after those. *)
LEMMA PlaceOf ==
    ASSUME NEW M, IsFiniteSet(M), M \subseteq Nat, NEW p \in M
    PROVE  /\ Cardinality(Below(M, p)) + 1 \in 1 .. Cardinality(M)
           /\ Ascending(M)[Cardinality(Below(M, p)) + 1] = p
<1> DEFINE n == Cardinality(Below(M, p))
<1>1. n \in Nat /\ Cardinality(M) \in Nat /\ n < Cardinality(M)
  BY BelowCount
<1>2. ASSUME NEW q \in M, Cardinality(Below(M, q)) = n
      PROVE  q = p
  <2>1. p < q => n < Cardinality(Below(M, q))
    BY BelowCount
  <2>2. q < p => Cardinality(Below(M, q)) < n
    BY BelowCount
  <2>3. p \in Nat /\ q \in Nat
    OBVIOUS
  <2> QED
    BY <1>1, <1>2, <2>1, <2>2, <2>3
<1>3. Place(M, n + 1) = {p}
  <2>1. (n + 1) - 1 = n
    BY <1>1
  <2> QED
    BY <1>2, <2>1 DEF Place
<1>4. Pick({p}) = p
  BY DEF Pick
<1>5. n + 1 \in 1 .. Cardinality(M)
  BY <1>1
<1> QED
  BY <1>3, <1>4, <1>5 DEF Ascending

(* A message after all others leaves each of them in its place. *)
LEMMA AscendingGrows ==
    ASSUME NEW M, IsFiniteSet(M), M \subseteq Nat, NEW f \in Nat, \A p \in M : p < f
    PROVE  /\ Len(Ascending(M \cup {f})) = Len(Ascending(M)) + 1
           /\ SubSeq(Ascending(M \cup {f}), 1, Len(Ascending(M))) = Ascending(M)
<1> DEFINE N == M \cup {f}
           n == Cardinality(M)
<1>1. f \notin M /\ n \in Nat /\ Cardinality(N) = n + 1
  BY FS_AddElement, FS_CardinalityType
<1>2. \A p \in M : Below(N, p) = Below(M, p)
  BY DEF Below
<1>3. Below(N, f) = M
  <2>1. ~(f < f)
    OBVIOUS
  <2> QED
    BY <2>1, Zenon DEF Below
<1>4. ASSUME NEW i \in 1 .. n PROVE Ascending(N)[i] = Ascending(M)[i]
  <2>1. Cardinality(Below(N, f)) # i - 1
    BY <1>1, <1>3
  <2>2. \A p \in M : Cardinality(Below(N, p)) = Cardinality(Below(M, p))
    BY <1>2
  <2>3. Place(N, i) = Place(M, i)
    BY <2>1, <2>2 DEF Place
  <2>4. i \in 1 .. Cardinality(N)
    BY <1>1
  <2> QED
    BY <2>3, <2>4 DEF Ascending
<1>5. /\ Ascending(N) \in Seq({Ascending(N)[i] : i \in 1 .. n + 1}) /\ Len(Ascending(N)) = n + 1
      /\ Ascending(M) = [i \in 1 .. n |-> Ascending(M)[i]] /\ Len(Ascending(M)) = n
  <2>1. DOMAIN Ascending(N) = 1 .. n + 1 /\ DOMAIN Ascending(M) = 1 .. n
    BY <1>1 DEF Ascending
  <2>2. Ascending(N) = [i \in 1 .. n + 1 |-> Ascending(N)[i]]
    BY <1>1, <2>1 DEF Ascending
  <2>3. Ascending(M) = [i \in 1 .. n |-> Ascending(M)[i]]
    BY <2>1 DEF Ascending
  <2> HIDE DEF N
  <2>4. Ascending(N) \in Seq({Ascending(N)[i] : i \in 1 .. n + 1})
    BY <1>1, <2>1, <2>2
  <2> QED
    BY <1>1, <2>1, <2>3, <2>4
<1>6. SubSeq(Ascending(N), 1, n) = [i \in 1 .. n |-> Ascending(N)[i]]
  <2> DEFINE T == {Ascending(N)[i] : i \in 1 .. n + 1}
             s == Ascending(N)
  <2>1. s \in Seq(T) /\ Len(s) = n + 1 /\ n \in Nat
    BY <1>1, <1>5
  <2> HIDE DEF T, s
  <2>2. SubSeq(s, 1, n) = [i \in 1 .. n |-> s[i]]
    BY <2>1
  <2> QED
    BY <2>2 DEF s
<1> QED
  BY <1>4, <1>5, <1>6

(* What the messages of the stream are. *)
LEMMA MessagesAre ==
    ASSUME TypeOK, FramesInv
    PROVE  /\ IsFiniteSet(Messages) /\ Messages \subseteq Nat
           /\ \A p \in Messages : p \in Committed /\ p < freePos /\ ~NoRoomForHeader(p)
<1>1. freePos \in Nat /\ DOMAIN frames \subseteq 0 .. freePos
  BY DEF TypeOK, FramesInv
<1>2. Messages \subseteq 0 .. freePos
  BY <1>1 DEF Messages, Committed
<1>3. IsFiniteSet(0 .. freePos)
  BY <1>1, FS_Interval
<1>4. IsFiniteSet(Messages)
  BY <1>2, <1>3, FS_Subset
<1> QED
  BY <1>1, <1>2, <1>4 DEF Messages, Committed, FramesInv

(* What is behind a reader. *)
LEMMA BehindIs ==
    ASSUME NEW r
    PROVE  Behind(r) = Below(Messages, pos[r]) \cup
                       (IF rpc[r] = "advance" THEN Messages \cap {pos[r]} ELSE {})
BY DEF Behind, Below

(* No message lies in a blank, ... *)
LEMMA BlankIsEmpty ==
    ASSUME TypeOK, FramesInv, NEW p \in Nat, NoRoomForHeader(p)
    PROVE  Below(Messages, p + ToEnd(p)) = Below(Messages, p)
<1>1. ToEnd(p) \in Nat /\ Idx(p) \in Nat /\ BufSize \in Nat /\ ToEnd(p) = BufSize - Idx(p)
  BY LayoutTypes, IdxType, Sizes, EndIsStart DEF ToEnd
<1>2. ASSUME NEW q \in Messages, q < p + ToEnd(p), ~(q < p)
      PROVE  FALSE
  <2>1. q \in Nat /\ ~NoRoomForHeader(q)
    BY MessagesAre
  <2>2. q - p \in Nat /\ Idx(p) + (q - p) < BufSize /\ p + (q - p) = q
    BY <1>1, <1>2, <2>1
  <2>3. Idx(q) = Idx(p) + (q - p)
    BY <2>2, CellOf
  <2> QED
    BY <1>1, <2>1, <2>2, <2>3, Sizes DEF NoRoomForHeader, ToEnd
<1>3. \A q \in Messages : q < p => q < p + ToEnd(p)
  <2> SUFFICES ASSUME NEW q \in Messages, q < p PROVE q < p + ToEnd(p)
    OBVIOUS
  <2>1. q \in Nat
    BY MessagesAre
  <2> QED
    BY <1>1, <2>1
<1> QED
  BY <1>2, <1>3, Zenon DEF Below

(* ... nor behind a frame and before its end, but for the frame itself. *)
LEMMA FrameIsOne ==
    ASSUME TypeOK, FramesInv, ApartInv, NEW p \in Committed
    PROVE  Below(Messages, FrameEnd(p)) = Below(Messages, p) \cup (Messages \cap {p})
<1>1. p \in Nat /\ FrameEnd(p) \in Nat /\ p < FrameEnd(p)
  <2>1. p \in DOMAIN frames /\ p \in Nat /\ frames[p].len \in Nat
    BY DEF Committed, TypeOK, Header
  <2> QED
    BY <2>1, Sizes DEF FrameEnd
<1>2. \A q \in Messages : q \in Nat /\ q \in DOMAIN frames
  BY MessagesAre DEF Committed
<1>3. ASSUME NEW q \in Messages
      PROVE  q < FrameEnd(p) <=> (q < p \/ q = p)
  <2>1. p < q => FrameEnd(p) <= q
    BY <1>2 DEF ApartInv, Committed
  <2> QED
    BY <1>1, <1>2, <2>1
<1> QED
  BY <1>3 DEF Below

(* Only a message that is committed becomes one of the stream. *)
LEMMA MessagesWriter ==
    ASSUME TypeOK, BufInv, WriterStep \/ CrashWriter
    PROVE  \/ Messages' = Messages
           \/ Commit /\ Messages' = Messages \cup {freePos}
<1>1. /\ freePos \in Nat /\ DOMAIN frames \subseteq Nat /\ wlen \in Nat
      /\ \A p \in DOMAIN frames : p <= freePos /\ ~NoRoomForHeader(p)
  BY DEF TypeOK, BufInv, FramesInv
<1>2. CASE StorePadding \/ StoreHeader
  <2>1. PICK h : frames' = WithFrame(freePos, h) /\ freePos' = freePos
    BY <1>2 DEF StorePadding, StoreHeader
  <2>2. Committed' = Committed
    BY <1>1, <2>1 DEF Committed, WithFrame
  <2>3. \A p \in Committed : frames'[p] = frames[p]
    BY <1>1, <2>1 DEF Committed, WithFrame
  <2> QED
    BY <2>2, <2>3 DEF Messages
<1>3. CASE SkipToStart
  <2>1. frames' = frames /\ freePos' = freePos + ToEnd(freePos) /\ ToEnd(freePos) \in Nat /\ ToEnd(freePos) > 0
    BY <1>1, <1>3, EndIsStart DEF SkipToStart
  <2>2. freePos \in DOMAIN frames => frames[freePos].type # "MSG"
    BY <1>1, <1>3 DEF SkipToStart, BufInv, WriterInv
  <2>3. \A p \in DOMAIN frames : p < freePos' <=> (p < freePos \/ p = freePos)
    BY <1>1, <2>1
  <2> QED
    BY <2>1, <2>2, <2>3 DEF Messages, Committed
<1>4. CASE Commit
  <2>1. frames' = frames /\ freePos' = freePos + HdrSize + wlen
    BY <1>4 DEF Commit
  <2>2. freePos \in DOMAIN frames /\ frames[freePos].type = "MSG"
    BY <1>4 DEF Commit, BufInv, WriterInv
  <2>3. \A p \in DOMAIN frames : p < freePos' <=> (p < freePos \/ p = freePos)
    BY <1>1, <2>1, Sizes
  <2>4. Messages' = Messages \cup {freePos}
    BY <2>1, <2>2, <2>3 DEF Messages, Committed
  <2> QED
    BY <1>4, <2>4
<1>5. CASE BeginWrite \/ ScanActive \/ ScanPosition \/ ScanDone \/ BpWait \/ BpWrite \/ BpThrow
           \/ StoreData \/ CrashWriter
  <2>1. UNCHANGED <<freePos, frames>>
    BY <1>5 DEF BeginWrite, ScanActive, ScanPosition, ScanDone, BpWait, BpWrite, BpThrow, StoreData,
       CrashWriter, bufVars
  <2> QED
    BY <2>1 DEF Messages, Committed
<1> QED
  BY <1>2, <1>3, <1>4, <1>5 DEF WriterStep

(* The log of the stream. *)
Log == Ascending(Messages)

(* It has as many places as there are messages. *)
LEMMA LogLength ==
    ASSUME TypeOK, FramesInv
    PROVE  Len(Log) = Cardinality(Messages) /\ Cardinality(Messages) \in Nat
<1>1. Cardinality(Messages) \in Nat
  BY MessagesAre, FS_CardinalityType
<1>2. DOMAIN Log = 1 .. Cardinality(Messages)
  BY DEF Log, Ascending
<1>3. Log \in Seq({Log[i] : i \in 1 .. Cardinality(Messages)})
  <2>1. Log = [i \in 1 .. Cardinality(Messages) |-> Log[i]]
    BY DEF Log, Ascending
  <2> QED
    BY <1>1, <1>2, <2>1
<1> QED
  BY <1>1, <1>2, <1>3

(* What a step that changes one reader does to the stream. *)
LEMMA OneReader ==
    ASSUME NEW r \in Readers, Messages' = Messages,
           \A s \in Readers \ {r} : ModeOf(s)' = ModeOf(s) /\ NextOf(s)' = NextOf(s) /\ GivenTo(s)' = GivenTo(s)
    PROVE  /\ ModeOf(r)' = ModeOf(r) /\ NextOf(r)' = NextOf(r) /\ GivenTo(r)' = GivenTo(r) =>
                  UNCHANGED Stream!vars
           /\ ModeOf(r) = "out" /\ ModeOf(r)' = "joining" /\ NextOf(r)' = Len(Log) /\ GivenTo(r)' = GivenTo(r) =>
                  Stream!Join(r)
           /\ ModeOf(r) = "joining" /\ ModeOf(r)' = "in" /\ NextOf(r)' = NextOf(r) /\ GivenTo(r)' = GivenTo(r) =>
                  Stream!Joined(r)
           /\ ModeOf(r) = "joining" /\ ModeOf(r)' = "lost" /\ NextOf(r)' = 0 /\ GivenTo(r)' = GivenTo(r) =>
                  Stream!Missed(r)
           /\ ModeOf(r) = "in" /\ NextOf(r) < Len(Log) /\ ModeOf(r)' = ModeOf(r) /\ NextOf(r)' = NextOf(r) + 1
              /\ GivenTo(r)' = Append(GivenTo(r), Log[NextOf(r) + 1]) =>
                  Stream!Deliver(r)
           /\ ModeOf(r) = "in" /\ NextOf(r) < Len(Log) /\ ModeOf(r)' = ModeOf(r) /\ NextOf(r)' = NextOf(r) + 1
              /\ GivenTo(r)' = GivenTo(r) =>
                  Stream!Decline(r)
           /\ ModeOf(r) # "out" /\ ModeOf(r)' = "out" =>
                  Stream!Leave(r)
<1> DEFINE m == [s \in Readers |-> ModeOf(s)]
           n == [s \in Readers |-> NextOf(s)]
           d == [s \in Readers |-> GivenTo(s)]
<1>1. Log' = Log
  BY DEF Log
<1>2. /\ m' = [m EXCEPT ![r] = ModeOf(r)'] /\ n' = [n EXCEPT ![r] = NextOf(r)'] /\ d' = [d EXCEPT ![r] = GivenTo(r)']
      /\ m[r] = ModeOf(r) /\ n[r] = NextOf(r) /\ d[r] = GivenTo(r)
      /\ \A x : x = ModeOf(r) => m = [m EXCEPT ![r] = x]
      /\ \A x : x = NextOf(r) => n = [n EXCEPT ![r] = x]
      /\ \A x : x = GivenTo(r) => d = [d EXCEPT ![r] = x]
  OBVIOUS
<1>3. ModeOf(r)' = "out" => NextOf(r)' = 0 /\ GivenTo(r)' = <<>>
  BY DEF NextOf, GivenTo
<1> HIDE DEF m, n, d
<1>4. ModeOf(r)' = ModeOf(r) /\ NextOf(r)' = NextOf(r) /\ GivenTo(r)' = GivenTo(r) => UNCHANGED Stream!vars
  BY <1>1, <1>2 DEF Stream!vars, Log, m, n, d
<1>5. ModeOf(r) = "out" /\ ModeOf(r)' = "joining" /\ NextOf(r)' = Len(Log) /\ GivenTo(r)' = GivenTo(r) => Stream!Join(r)
  BY <1>1, <1>2 DEF Stream!Join, Log, m, n, d
<1>6. ModeOf(r) = "joining" /\ ModeOf(r)' = "in" /\ NextOf(r)' = NextOf(r) /\ GivenTo(r)' = GivenTo(r) =>
        Stream!Joined(r)
  BY <1>1, <1>2 DEF Stream!Joined, Log, m, n, d
<1>7. ModeOf(r) = "joining" /\ ModeOf(r)' = "lost" /\ NextOf(r)' = 0 /\ GivenTo(r)' = GivenTo(r) => Stream!Missed(r)
  BY <1>1, <1>2 DEF Stream!Missed, Log, m, n, d
<1>8. ASSUME ModeOf(r) = "in", NextOf(r) < Len(Log), ModeOf(r)' = ModeOf(r), NextOf(r)' = NextOf(r) + 1,
             GivenTo(r)' = Append(GivenTo(r), Log[NextOf(r) + 1])
      PROVE  Stream!Deliver(r)
  <2>1. /\ m[r] = "in" /\ n[r] < Len(Log) /\ Log' = Log /\ m' = m
        /\ n' = [n EXCEPT ![r] = n[r] + 1]
        /\ d' = [d EXCEPT ![r] = Append(d[r], Log[n[r] + 1])]
    BY <1>1, <1>2, <1>8
  <2> QED
    BY <2>1 DEF Stream!Deliver, Log, m, n, d
<1>9. ASSUME ModeOf(r) = "in", NextOf(r) < Len(Log), ModeOf(r)' = ModeOf(r), NextOf(r)' = NextOf(r) + 1,
             GivenTo(r)' = GivenTo(r)
      PROVE  Stream!Decline(r)
  <2>1. /\ m[r] = "in" /\ n[r] < Len(Log) /\ Log' = Log /\ m' = m /\ d' = d
        /\ n' = [n EXCEPT ![r] = n[r] + 1]
    BY <1>1, <1>2, <1>9
  <2> QED
    BY <2>1 DEF Stream!Decline, Log, m, n, d
<1>10. ModeOf(r) # "out" /\ ModeOf(r)' = "out" => Stream!Leave(r)
  BY <1>1, <1>2, <1>3 DEF Stream!Leave, Log, m, n, d
<1> QED
  BY <1>4, <1>5, <1>6, <1>7, <1>8, <1>9, <1>10

(* Every step of a reader is one of the stream, or none. *)
LEMMA ReaderRefines ==
    ASSUME IInv, NEW r \in Readers, ReaderStep(r)
    PROVE  Stream!Next \/ UNCHANGED Stream!vars
<1> DEFINE Still == ModeOf(r)' = ModeOf(r) /\ NextOf(r)' = NextOf(r) /\ GivenTo(r)' = GivenTo(r)
           Goal == Stream!Next \/ UNCHANGED Stream!vars
<1>a. TypeOK /\ BufInv /\ FramesInv /\ ApartInv
  BY DEF IInv, BufInv
<1>b. UNCHANGED <<freePos, frames>> /\ Messages' = Messages
  BY ReaderLeavesBuffer DEF bufVars, Messages, Committed
<1>c. ASSUME NEW s \in Readers \ {r}
      PROVE  ModeOf(s)' = ModeOf(s) /\ NextOf(s)' = NextOf(s) /\ GivenTo(s)' = GivenTo(s)
  <2>1. rpc'[s] = rpc[s] /\ pos'[s] = pos[s] /\ exposed'[s] = exposed[s] /\ got'[s] = got[s]
    BY <1>a, OtherReaders
  <2>2. ModeOf(s)' = ModeOf(s)
    BY <2>1 DEF ModeOf, Protected
  <2>3. Behind(s)' = Behind(s)
    BY <1>b, <2>1, BehindIs DEF Behind
  <2>4. Given(got[s])' = Given(got[s])
    BY <2>1 DEF Given
  <2> QED
    BY <2>2, <2>3, <2>4 DEF NextOf, GivenTo
<1>d. /\ Still => Goal
      /\ Stream!Join(r) \/ Stream!Joined(r) \/ Stream!Missed(r) \/ Stream!Deliver(r) \/ Stream!Decline(r) => Goal
      /\ ModeOf(r)' = "out" => Goal
  <2>1. Still => Goal
    BY <1>b, <1>c, OneReader
  <2>2. \A q \in Readers : Stream!Join(q) \/ Stream!Joined(q) \/ Stream!Missed(q) \/ Stream!Deliver(q)
                              \/ Stream!Decline(q) \/ Stream!Leave(q) => Goal
    BY DEF Stream!Next
  <2>3. CASE ModeOf(r)' = "out" /\ ModeOf(r) # "out"
    <3>1. Stream!Leave(r)
      BY <1>b, <1>c, <2>3, OneReader
    <3> QED
      BY <2>2, <3>1
  <2>4. CASE ModeOf(r)' = "out" /\ ModeOf(r) = "out"
    <3>1. Still
      BY <2>4 DEF NextOf, GivenTo
    <3> QED
      BY <2>1, <3>1
  <2> QED
    BY <2>1, <2>2, <2>3, <2>4
<1> HIDE DEF Goal
<1>t. /\ r \in DOMAIN rpc /\ r \in DOMAIN pos /\ r \in DOMAIN exposed /\ r \in DOMAIN got
      /\ pos[r] \in Nat /\ freePos \in Nat /\ exposed[r] \in BOOLEAN
  BY <1>a DEF TypeOK
<1>j. rpc[r] \in JoiningPcs => got[r] = <<>>
  BY DEF IInv, JoiningInv, JoiningPcs
<1>p. Protected(r) => ProtectedAt(r) /\ LocalsAt(r)
  BY DEF IInv, ReadersInv
<1>n. ASSUME NEW g, g = <<>> PROVE Given(g) = <<>>
  BY <1>n DEF Given
<1>1. CASE Alloc(r) \/ Free(r) \/ Deactivate(r) \/ CrashReader(r)
  <2>1. rpc'[r] \in {"idle", "free", "dead"}
    BY <1>1, <1>t DEF Alloc, Free, Deactivate, CrashReader, Go
  <2>2. ModeOf(r)' = "out"
    BY <2>1 DEF ModeOf, Protected, JoiningPcs, Listed, Reading
  <2> QED
    BY <1>d, <2>2 DEF Goal
<1>2. CASE LoadFreePos(r)
  <2>1. rpc[r] = "idle" /\ rpc'[r] = "loaded" /\ pos'[r] = freePos
    BY <1>2, <1>t DEF LoadFreePos, Go
  <2>2. ModeOf(r) = "out" /\ ModeOf(r)' = "joining"
    BY <2>1 DEF ModeOf, Protected, JoiningPcs, Listed, Reading
  <2>3. Behind(r)' = Messages
    <3>1. \A p \in Messages : p < freePos
      BY <1>a, MessagesAre
    <3> QED
      BY <1>b, <2>1, <3>1 DEF Behind
  <2>4. NextOf(r)' = Len(Log)
    BY <1>a, <2>2, <2>3, LogLength DEF NextOf
  <2>5. GivenTo(r)' = GivenTo(r)
    BY <2>2 DEF GivenTo
  <2>6. Stream!Join(r)
    BY <1>b, <1>c, <2>2, <2>4, <2>5, OneReader
  <2> QED
    BY <1>d, <2>6 DEF Goal
<1>3. CASE StorePosition(r) \/ SetActive(r)
  <2>1. /\ rpc[r] \in {"loaded", "half"} /\ rpc'[r] \in {"half", "active"} /\ pos'[r] = pos[r]
        /\ got' = got
    BY <1>3, <1>t DEF StorePosition, SetActive, Go, histVars
  <2>2. ModeOf(r) = "joining" /\ ModeOf(r)' = "joining"
    BY <2>1 DEF ModeOf, JoiningPcs
  <2>3. Behind(r)' = Behind(r)
    BY <1>b, <2>1 DEF Behind
  <2>4. Still
    BY <2>2, <2>3 DEF NextOf, GivenTo
  <2> QED
    BY <1>d, <2>4 DEF Goal
<1>4. CASE UpdateRange(r)
  <2>1. rpc[r] = "active" /\ rpc'[r] = "ready" /\ pos'[r] = pos[r] /\ got'[r] = got[r]
    BY <1>4, <1>t DEF UpdateRange, Go
  <2>2. ModeOf(r) = "joining" /\ ModeOf(r)' \in {"in", "lost"}
    BY <2>1 DEF ModeOf, Protected, JoiningPcs, Listed
  <2>3. Behind(r)' = Behind(r)
    BY <1>b, <2>1 DEF Behind
  <2>4. got'[r] = <<>> /\ Given(got[r])' = <<>>
    BY <1>j, <1>n, <2>1 DEF JoiningPcs
  <2>5. CASE ModeOf(r)' = "in"
    <3>1. NextOf(r)' = NextOf(r) /\ GivenTo(r)' = GivenTo(r)
      BY <2>2, <2>3, <2>4, <2>5 DEF NextOf, GivenTo
    <3>2. Stream!Joined(r)
      BY <1>b, <1>c, <2>2, <2>5, <3>1, OneReader
    <3> QED
      BY <1>d, <3>2 DEF Goal
  <2>6. CASE ModeOf(r)' = "lost"
    <3>1. NextOf(r)' = 0 /\ GivenTo(r)' = GivenTo(r)
      BY <2>2, <2>6 DEF NextOf, GivenTo
    <3>2. Stream!Missed(r)
      BY <1>b, <1>c, <2>2, <2>6, <3>1, OneReader
    <3> QED
      BY <1>d, <3>2 DEF Goal
  <2> QED
    BY <2>2, <2>5, <2>6
<1>5. CASE ReadStep(r)
  <2>1. rpc[r] \in Listed /\ rpc[r] \notin JoiningPcs /\ exposed' = exposed
    BY <1>5 DEF ReadStep, StartRead, ReadDone, SkipBlank, CheckEarly, CopyHeader, CheckHeader, CopyData,
       Confirm, Advance, histVars, Listed, Reading, JoiningPcs
  <2>2. rpc'[r] \in Listed \cup {"aborted"} /\ rpc'[r] \notin JoiningPcs
    BY <1>5, <1>t DEF ReadStep, StartRead, ReadDone, SkipBlank, CheckEarly, CopyHeader, CheckHeader, CopyData,
       Confirm, Advance, Go, Listed, Reading, JoiningPcs
  <2>3. CASE rpc'[r] = "aborted"
    <3>1. ModeOf(r)' = "out"
      BY <2>3 DEF ModeOf, Protected, JoiningPcs, Listed, Reading
    <3> QED
      BY <1>d, <3>1 DEF Goal
  <2>4. CASE rpc'[r] \in Listed /\ exposed[r]
    <3>1. ModeOf(r) = "lost" /\ ModeOf(r)' = "lost"
      BY <2>1, <2>2, <2>4 DEF ModeOf, Protected
    <3>2. Still
      BY <3>1 DEF NextOf, GivenTo
    <3> QED
      BY <1>d, <3>2 DEF Goal
  <2>5. CASE rpc'[r] \in Listed /\ ~exposed[r]
    <3>1. ModeOf(r) = "in" /\ ModeOf(r)' = "in" /\ Protected(r)
      BY <2>1, <2>2, <2>5 DEF ModeOf, Protected
    <3>2. ProtectedAt(r) /\ LocalsAt(r)
      BY <1>p, <3>1
    <3>3. got'[r] = got[r] => GivenTo(r)' = GivenTo(r)
      BY <3>1 DEF GivenTo, Given
    <3>4. ASSUME pos'[r] = pos[r], rpc[r] # "advance", rpc'[r] # "advance", got'[r] = got[r]
          PROVE  Goal
      <4>1. Behind(r)' = Behind(r)
        BY <1>b, <3>4 DEF Behind
      <4>2. Still
        BY <3>1, <3>3, <3>4, <4>1 DEF NextOf
      <4> QED
        BY <1>d, <4>2
    <3>5. ASSUME Behind(r)' = Behind(r), got'[r] = got[r]
          PROVE  Goal
      <4>1. Still
        BY <3>1, <3>3, <3>5 DEF NextOf
      <4> QED
        BY <1>d, <4>1
    <3>6. ASSUME pos[r] \in Committed
          PROVE  /\ Cardinality(Behind(r) \cup {pos[r]}) \in Nat
                 /\ pos[r] \in Messages /\ rpc[r] # "advance" /\ rpc'[r] = "advance" /\ pos'[r] = pos[r] =>
                      /\ NextOf(r) < Len(Log) /\ NextOf(r)' = NextOf(r) + 1 /\ Log[NextOf(r) + 1] = pos[r]
      <4> DEFINE B == Below(Messages, pos[r])
      <4>1. IsFiniteSet(Messages) /\ Messages \subseteq Nat
        BY <1>a, MessagesAre
      <4>2. Behind(r) \cup {pos[r]} \subseteq Messages \cup {pos[r]} /\ IsFiniteSet(Messages \cup {pos[r]})
        BY <4>1, FS_AddElement DEF Behind
      <4>3. Cardinality(Behind(r) \cup {pos[r]}) \in Nat
        BY <4>2, FS_Subset, FS_CardinalityType
      <4>4. ASSUME pos[r] \in Messages, rpc[r] # "advance", rpc'[r] = "advance", pos'[r] = pos[r]
            PROVE  NextOf(r) < Len(Log) /\ NextOf(r)' = NextOf(r) + 1 /\ Log[NextOf(r) + 1] = pos[r]
        <5>1. Behind(r) = B /\ Behind(r)' = B \cup {pos[r]}
          BY <1>b, <4>4 DEF Behind, Below
        <5>2. NextOf(r) = Cardinality(B) /\ NextOf(r)' = Cardinality(B \cup {pos[r]})
          BY <3>1, <5>1 DEF NextOf
        <5> QED
          BY <1>a, <4>1, <4>4, <5>2, BelowCount, PlaceOf, LogLength DEF Log
      <4> QED
        BY <4>3, <4>4
    <3>7. CASE SkipBlank(r)
      <4>1. /\ rpc[r] = "top" /\ rpc'[r] = "top" /\ got' = got /\ NoRoomForHeader(pos[r])
            /\ pos'[r] = pos[r] + ToEnd(pos[r])
        BY <1>t, <3>7 DEF SkipBlank, histVars
      <4>2. Behind(r) = Below(Messages, pos[r]) /\ Behind(r)' = Below(Messages, pos[r] + ToEnd(pos[r]))
        BY <1>b, <4>1 DEF Behind, Below
      <4>3. Behind(r)' = Behind(r)
        BY <1>a, <1>t, <4>1, <4>2, BlankIsEmpty
      <4> QED
        BY <3>5, <4>1, <4>3 DEF Goal
    <3>8. CASE Advance(r)
      <4>1. /\ rpc[r] = "advance" /\ rpc'[r] = "top" /\ got' = got
            /\ pos'[r] = pos[r] + HdrSize + hdr[r].len
        BY <1>t, <3>8 DEF Advance, Go, histVars
      <4>2. pos[r] \in Committed /\ hdr[r] = frames[pos[r]]
        BY <3>2, <4>1 DEF LocalsAt, Reading
      <4>3. pos'[r] = FrameEnd(pos[r])
        BY <4>1, <4>2 DEF FrameEnd
      <4>4. Behind(r) = Below(Messages, pos[r]) \cup (Messages \cap {pos[r]})
        BY <4>1, BehindIs
      <4>5. Behind(r)' = Below(Messages, FrameEnd(pos[r]))
        BY <1>b, <4>1, <4>3 DEF Behind, Below
      <4>6. Behind(r)' = Behind(r)
        BY <1>a, <4>2, <4>4, <4>5, FrameIsOne
      <4> QED
        BY <3>5, <4>1, <4>6 DEF Goal
    <3>9. CASE StartRead(r) \/ ReadDone(r) \/ CheckEarly(r) \/ CopyHeader(r)
      BY <1>t, <3>4, <3>9 DEF StartRead, ReadDone, CheckEarly, CopyHeader, Go, histVars, Goal
    <3>10. CASE CheckHeader(r)
      <4>1. rpc[r] = "check" /\ pos'[r] = pos[r] /\ got' = got /\ pos[r] \in Committed /\ hdr[r] = frames[pos[r]]
        BY <3>2, <3>10 DEF CheckHeader, histVars, LocalsAt, Reading
      <4>2. CASE rpc'[r] = "advance"
        <5>1. hdr[r].type # "MSG"
          BY <1>t, <3>10, <4>2 DEF CheckHeader, Go
        <5>2. pos[r] \notin Messages
          BY <4>1, <5>1 DEF Messages
        <5>3. Behind(r)' = Behind(r)
          BY <1>b, <4>1, <5>2 DEF Behind
        <5> QED
          BY <3>5, <4>1, <5>3 DEF Goal
      <4>3. CASE rpc'[r] # "advance"
        BY <3>4, <4>1, <4>3 DEF Goal
      <4> QED
        BY <4>2, <4>3
    <3>11. CASE CopyData(r) \/ Confirm(r)
      <4>1. /\ rpc[r] \in {"copy", "confirm"} /\ pos'[r] = pos[r] /\ pos[r] \in Committed /\ pos[r] \in Messages
        <5>1. rpc[r] \in {"copy", "confirm"} /\ pos'[r] = pos[r]
          BY <3>11 DEF CopyData, Confirm
        <5>2. pos[r] \in Committed /\ frames[pos[r]].type = "MSG"
          BY <3>2, <5>1 DEF LocalsAt, Reading
        <5> QED
          BY <5>1, <5>2 DEF Messages
      <4>2. CASE rpc'[r] # "advance"
        <5>1. got'[r] = got[r]
          BY <1>t, <3>11, <4>2 DEF CopyData, Confirm, Go, histVars
        <5> QED
          BY <3>4, <4>1, <4>2, <5>1 DEF Goal
      <4>3. CASE CopyData(r) /\ rpc'[r] = "advance"
        <5>1. GivenTo(r)' = GivenTo(r)
          BY <3>3, <4>3 DEF CopyData, histVars
        <5>2. Stream!Decline(r)
          BY <1>b, <1>c, <3>1, <3>6, <4>1, <4>3, <5>1, OneReader
        <5> QED
          BY <1>d, <5>2 DEF Goal
      <4>4. CASE Confirm(r) /\ rpc'[r] = "advance"
        <5>1. rpc[r] = "confirm" /\ ok[r]
          BY <3>2, <4>4 DEF Confirm, LocalsAt
        <5>2. got'[r] = Append(got[r], [at |-> pos[r], intact |-> ok[r]])
          BY <1>t, <4>4 DEF Confirm, Go
        <5>3. Given(got'[r]) = Append(Given(got[r]), pos[r])
          <6> DEFINE g == got[r]
                     e == [at |-> pos[r], intact |-> ok[r]]
          <6>1. g \in Seq([at : Nat, intact : BOOLEAN]) /\ e \in [at : Nat, intact : BOOLEAN]
            BY <1>a, <1>t, <5>1 DEF TypeOK
          <6>2. e.at = pos[r] /\ e.intact
            BY <5>1
          <6> HIDE DEF g, e
          <6>3. /\ Len(g) \in Nat /\ DOMAIN g = 1 .. Len(g) /\ DOMAIN Append(g, e) = 1 .. Len(g) + 1
                /\ \A i \in 1 .. Len(g) : Append(g, e)[i] = g[i]
                /\ Append(g, e)[Len(g) + 1] = e
            BY <6>1
          <6>4. Given(g) \in Seq(Int) /\ Len(Given(g)) = Len(g)
            <7>1. Given(g) = [i \in 1 .. Len(g) |-> IF g[i].intact THEN g[i].at ELSE -1]
              BY <6>3 DEF Given
            <7>2. ASSUME NEW i \in 1 .. Len(g) PROVE (IF g[i].intact THEN g[i].at ELSE -1) \in Int
              <8> DEFINE R == [at : Nat, intact : BOOLEAN]
              <8>1. g \in Seq(R)
                BY <6>1
              <8>2. \A x \in R : (IF x.intact THEN x.at ELSE -1) \in Int
                OBVIOUS
              <8> HIDE DEF R
              <8>3. g[i] \in R
                BY <8>1
              <8> QED
                BY <8>2, <8>3
            <7> QED
              BY <6>3, <7>1, <7>2
          <6>5. /\ DOMAIN Append(Given(g), pos[r]) = 1 .. Len(g) + 1
                /\ Append(Given(g), pos[r]) = [i \in 1 .. Len(g) + 1 |-> Append(Given(g), pos[r])[i]]
                /\ \A i \in 1 .. Len(g) : Append(Given(g), pos[r])[i] = Given(g)[i]
                /\ Append(Given(g), pos[r])[Len(g) + 1] = pos[r]
            <7> DEFINE s == Given(g)
            <7>1. s \in Seq(Int) /\ Len(s) = Len(g) /\ pos[r] \in Int
              BY <1>t, <6>4
            <7> HIDE DEF s
            <7>2. /\ Append(s, pos[r]) \in Seq(Int) /\ Len(Append(s, pos[r])) = Len(s) + 1
                  /\ \A i \in 1 .. Len(s) : Append(s, pos[r])[i] = s[i]
                  /\ Append(s, pos[r])[Len(s) + 1] = pos[r]
              BY <7>1
            <7> QED
              BY <7>1, <7>2 DEF s
          <6>6. /\ DOMAIN Given(Append(g, e)) = 1 .. Len(g) + 1
                /\ Given(Append(g, e)) = [i \in 1 .. Len(g) + 1 |-> Given(Append(g, e))[i]]
                /\ \A i \in 1 .. Len(g) : Given(Append(g, e))[i] = Given(g)[i]
                /\ Given(Append(g, e))[Len(g) + 1] = pos[r]
            BY <6>2, <6>3 DEF Given
          <6>7. \A i \in 1 .. Len(g) + 1 : Given(Append(g, e))[i] = Append(Given(g), pos[r])[i]
            <7>1. \A i \in 1 .. Len(g) + 1 : i \in 1 .. Len(g) \/ i = Len(g) + 1
              BY <6>3
            <7> QED
              BY <6>5, <6>6, <7>1
          <6>8. Given(Append(g, e)) = Append(Given(g), pos[r])
            BY <6>5, <6>6, <6>7
          <6> QED
            BY <5>2, <6>8 DEF g, e
        <5>4. GivenTo(r)' = Append(GivenTo(r), pos[r])
          BY <3>1, <5>3 DEF GivenTo
        <5>5. NextOf(r) < Len(Log) /\ NextOf(r)' = NextOf(r) + 1 /\ Log[NextOf(r) + 1] = pos[r]
          BY <3>6, <4>1, <4>4, <5>1
        <5>6. Stream!Deliver(r)
          BY <1>b, <1>c, <3>1, <5>4, <5>5, OneReader
        <5> QED
          BY <1>d, <5>6 DEF Goal
      <4> QED
        BY <3>11, <4>2, <4>3, <4>4
    <3> QED
      BY <1>5, <3>7, <3>8, <3>9, <3>10, <3>11 DEF ReadStep
  <2> QED
    BY <2>2, <2>3, <2>4, <2>5
<1> QED
  BY <1>1, <1>2, <1>3, <1>4, <1>5 DEF ReaderStep, Activation, Goal

(* Every step of a writer is one of the stream, or none: a commit is the   *)
(* message the log gains, a handler that writes on overrides the readers   *)
(* in the way, and nothing else shows.                                     *)
LEMMA WriterRefines ==
    ASSUME IInv, WriterStep \/ CrashWriter
    PROVE  Stream!Next \/ UNCHANGED Stream!vars
<1> DEFINE m == [s \in Readers |-> ModeOf(s)]
           n == [s \in Readers |-> NextOf(s)]
           d == [s \in Readers |-> GivenTo(s)]
<1>a. TypeOK /\ BufInv /\ FramesInv
  BY DEF IInv, BufInv
<1>b. UNCHANGED <<rpc, pos, got>>
  BY WriterLeavesReaders DEF localVars
<1>c. UNCHANGED exposed \/ BpWrite
  BY DEF WriterStep, CrashWriter, BeginWrite, ScanActive, ScanPosition, ScanDone, BpWait, BpThrow,
     StorePadding, SkipToStart, StoreHeader, StoreData, Commit, histVars
<1>1. CASE Messages' = Messages /\ UNCHANGED exposed
  <2>1. ASSUME NEW s \in Readers
        PROVE  ModeOf(s)' = ModeOf(s) /\ NextOf(s)' = NextOf(s) /\ GivenTo(s)' = GivenTo(s)
    <3>1. ModeOf(s)' = ModeOf(s) /\ Behind(s)' = Behind(s) /\ Given(got[s])' = Given(got[s])
      BY <1>b, <1>1 DEF ModeOf, Protected, Behind, Given
    <3> QED
      BY <3>1 DEF NextOf, GivenTo
  <2>2. m' = m /\ n' = n /\ d' = d /\ Log' = Log
    BY <1>1, <2>1 DEF Log
  <2> QED
    BY <2>2 DEF Stream!vars, Log
<1>2. CASE Commit /\ Messages' = Messages \cup {freePos}
  <2>1. ASSUME NEW s \in Readers
        PROVE  ModeOf(s)' = ModeOf(s) /\ NextOf(s)' = NextOf(s) /\ GivenTo(s)' = GivenTo(s)
    <3>1. ModeOf(s)' = ModeOf(s) /\ Given(got[s])' = Given(got[s])
      BY <1>b, <1>2 DEF Commit, histVars, ModeOf, Protected, Given
    <3>2. ASSUME ModeOf(s) \in {"joining", "in"}
          PROVE  Behind(s)' = Behind(s)
      <4>1. pos[s] <= freePos /\ (rpc[s] = "advance" => pos[s] < freePos) /\ pos[s] \in Nat /\ freePos \in Nat
        <5>1. CASE rpc[s] \in JoiningPcs
          BY <1>a, <5>1 DEF IInv, JoiningInv, JoiningPcs, TypeOK
        <5>2. CASE Protected(s)
          BY <1>a, <5>2 DEF IInv, ReadersInv, ProtectedAt, LocalsAt, Reading, Committed, TypeOK
        <5> QED
          BY <3>2, <5>1, <5>2 DEF ModeOf
      <4>2. ~(freePos < pos[s]) /\ ~(freePos = pos[s] /\ rpc[s] = "advance")
        BY <4>1
      <4> QED
        BY <1>b, <1>2, <4>2 DEF Behind
    <3> QED
      BY <3>1, <3>2 DEF NextOf, GivenTo
  <2>2. m' = m /\ n' = n /\ d' = d
    BY <2>1
  <2>3. Len(Log') = Len(Log) + 1 /\ SubSeq(Log', 1, Len(Log)) = Log
    <3>1. freePos \in Nat /\ IsFiniteSet(Messages) /\ Messages \subseteq Nat /\ \A p \in Messages : p < freePos
      BY <1>a, MessagesAre DEF TypeOK
    <3>2. Log' = Ascending(Messages \cup {freePos})
      BY <1>2 DEF Log
    <3> QED
      BY <3>1, <3>2, AscendingGrows DEF Log
  <2>4. Stream!Publish
    BY <2>2, <2>3 DEF Stream!Publish, Log
  <2> QED
    BY <2>4 DEF Stream!Next
<1>3. CASE BpWrite
  <2>1. /\ "write" \in BpAnswers /\ UNCHANGED <<freePos, frames>>
        /\ \A s \in Readers : exposed'[s] \in BOOLEAN /\ (exposed[s] => exposed'[s])
    BY <1>a, <1>3 DEF BpWrite, TypeOK
  <2>2. Messages' = Messages
    BY <2>1 DEF Messages, Committed
  <2> DEFINE S == {s \in Readers : ModeOf(s) = "in" /\ exposed'[s]}
  <2>3. ASSUME NEW s \in Readers
        PROVE  /\ ModeOf(s)' = IF s \in S THEN "lost" ELSE ModeOf(s)
               /\ NextOf(s)' = IF s \in S THEN 0 ELSE NextOf(s)
               /\ GivenTo(s)' = IF s \in S THEN <<>> ELSE GivenTo(s)
    <3>1. ModeOf(s)' = IF s \in S THEN "lost" ELSE ModeOf(s)
      BY <1>b, <2>1 DEF ModeOf, Protected
    <3>2. Behind(s)' = Behind(s) /\ Given(got[s])' = Given(got[s])
      BY <1>b, <2>2 DEF Behind, Given
    <3> QED
      BY <3>1, <3>2 DEF NextOf, GivenTo
  <2>4. /\ m' = [s \in Readers |-> IF s \in S THEN "lost" ELSE m[s]]
        /\ n' = [s \in Readers |-> IF s \in S THEN 0 ELSE n[s]]
        /\ d' = [s \in Readers |-> IF s \in S THEN <<>> ELSE d[s]]
    BY <2>3
  <2>5. S \in SUBSET {s \in Readers : m[s] = "in"} /\ Log' = Log
    BY <2>2 DEF Log
  <2> HIDE DEF S
  <2>6. Stream!Override
    BY <2>1, <2>4, <2>5 DEF Stream!Override, Log
  <2> QED
    BY <2>6 DEF Stream!Next
<1>4. Messages' = Messages \/ (Commit /\ Messages' = Messages \cup {freePos})
  BY <1>a, MessagesWriter
<1> QED
  BY <1>1, <1>2, <1>3, <1>4, <1>c

(* The ring buffer begins as the empty stream. *)
LEMMA InitRefines == Init => Stream!Init
<1> SUFFICES ASSUME Init PROVE Stream!Init
  OBVIOUS
<1>1. Messages = {}
  BY DEF Init, Messages, Committed
<1>2. Ascending({}) = <<>>
  <2>1. 1 .. Cardinality({}) = {}
    BY FS_EmptySet
  <2> QED
    BY <2>1 DEF Ascending
<1>3. ASSUME NEW r \in Readers
      PROVE  ModeOf(r) = "out" /\ NextOf(r) = 0 /\ GivenTo(r) = <<>>
  <2>1. ModeOf(r) = "out"
    BY DEF Init, ModeOf, JoiningPcs, Protected, Listed, Reading
  <2> QED
    BY <2>1 DEF NextOf, GivenTo
<1> QED
  BY <1>1, <1>2, <1>3 DEF Stream!Init

(* The ring buffer, with everything its readers and writers do, implements *)
(* the stream: every step is one of the stream, or shows nothing.          *)
THEOREM RingIsStream == Spec => ImplementsStream
<1>1. IInv /\ [Next]_vars => [Stream!Next]_(Stream!vars)
  <2> SUFFICES ASSUME IInv, [Next]_vars PROVE Stream!Next \/ UNCHANGED Stream!vars
    OBVIOUS
  <2>1. CASE WriterStep \/ CrashWriter
    BY <2>1, WriterRefines
  <2>2. ASSUME NEW r \in Readers, ReaderStep(r)
        PROVE  Stream!Next \/ UNCHANGED Stream!vars
    BY <2>2, ReaderRefines
  <2>3. CASE UNCHANGED vars
    <3>1. UNCHANGED <<frames, freePos, rpc, pos, got, exposed>>
      BY <2>3 DEF vars, bufVars, localVars, histVars
    <3>2. Messages' = Messages
      BY <3>1 DEF Messages, Committed
    <3>3. ASSUME NEW s \in Readers
          PROVE  ModeOf(s)' = ModeOf(s) /\ NextOf(s)' = NextOf(s) /\ GivenTo(s)' = GivenTo(s)
      <4>1. ModeOf(s)' = ModeOf(s) /\ Behind(s)' = Behind(s) /\ Given(got[s])' = Given(got[s])
        BY <3>1, <3>2 DEF ModeOf, Protected, Behind, Given
      <4> QED
        BY <4>1 DEF NextOf, GivenTo
    <3> QED
      BY <3>2, <3>3 DEF Stream!vars
  <2> QED
    BY <2>1, <2>2, <2>3 DEF Next
<1> QED
  BY <1>1, InitRefines, Invariance, PTL DEF Spec, ImplementsStream, Stream!Spec
==============================================================================
