------------------------------ MODULE RmpRingInv ------------------------------
(***************************************************************************)
(* The inductive invariant of RmpRing.  Its parts say why a reader needs   *)
(* no lock: a write may store up to high, a protected reader stands less   *)
(* than BufSize behind high, and two positions that share a cell are a     *)
(* multiple of BufSize apart.                                              *)
(***************************************************************************)
EXTENDS RmpRing

(* A cell holds only positions that live in it.                            *)
MemInv == \A c \in Cells : mem[c] = -1 \/ (mem[c] \in Nat /\ Idx(mem[c]) = c)

(* Every header ever stored leaves its message whole in the buffer, and a  *)
(* committed one is followed by the end of the stream or by another.  Only *)
(* the header being written, or left by a crash, is at the stream end.     *)
FramesInv ==
    \A p \in DOMAIN frames :
        /\ p <= freePos
        /\ frames[p].type \in Types
        /\ ~NoRoomForHeader(p) /\ ~Splits(p, frames[p].len)
        /\ p < freePos => FrameEnd(p) <= freePos /\ Boundary(FrameEnd(p))

(* No frame begins before the one in front of it ends.                     *)
ApartInv == \A p, q \in DOMAIN frames : p < q => FrameEnd(p) <= q

(* How many bytes of a frame the writer stores.                            *)
StoredLen(p) == IF frames[p].type = "MSG" THEN HdrSize + frames[p].len ELSE HdrSize

(* What no write was allowed to overtake is still in the buffer.           *)
CellsInv ==
    \A p \in DOMAIN frames : p < freePos =>
        \A k \in 0 .. StoredLen(p) - 1 :
            p + k + BufSize >= high => mem[Idx(p) + k] = p + k

(* Where the writer is and how far it may store.                           *)
WriterInv ==
    /\ freePos <= high
    /\ wpc \in Scanning \cup {"bp"} \cup Storing =>
        /\ wlen \in MsgLens
        /\ freePos <= wEnd
    /\ wpc \in Scanning \cup {"bp"} => wEnd = freePos + BytesToWrite(freePos, wlen)
    /\ wpc \in Storing => wEnd <= high
    /\ wpc \in {"blank", "pad", "padCommit"} =>
        wEnd = freePos + ToEnd(freePos) + HdrSize + wlen
    /\ wpc = "blank" => NoRoomForHeader(freePos)
    /\ wpc \in {"pad", "padCommit"} => ~NoRoomForHeader(freePos)
    /\ wpc = "padCommit" =>
        /\ freePos \in DOMAIN frames
        /\ frames[freePos] = [type |-> "PADDING", len |-> ToEnd(freePos) - HdrSize]
    /\ wpc \in {"hdr", "data", "commit"} =>
        wEnd = freePos + HdrSize + wlen /\ ~Splits(freePos, wlen)
    /\ wpc \in {"data", "commit"} =>
        /\ freePos \in DOMAIN frames
        /\ frames[freePos] = [type |-> "MSG", len |-> wlen]
    /\ wpc \in {"padCommit", "data", "commit"} => Intact(freePos, HdrSize)
    /\ wpc = "commit" => Intact(freePos + HdrSize, wlen)

(* A reader on its way to activation.                                      *)
JoiningInv ==
    \A r \in Readers :
        /\ rpc[r] \in {"loaded", "half", "active"} => pos[r] <= freePos /\ Boundary(pos[r])
        /\ rpc[r] \in {"loaded", "half", "active"} => got[r] = <<>>
        /\ rpc[r] = "active" \/ (rpc[r] = "half" /\ PositionFirst) => bpos[r] = pos[r]
        /\ rpc[r] \in {"active"} \cup Listed \/ (rpc[r] = "half" /\ ~PositionFirst) => active[r]

(* The writer sees a listed reader, and stores less than BufSize past the  *)
(* position it publishes.                                                  *)
ProtectedAt(r) ==
    /\ r \in range
    /\ high < bpos[r] + BufSize
    /\ wpc \in Scanning /\ r \notin wTodo => wEnd < bpos[r] + BufSize
    /\ bpos[r] <= pos[r] /\ pos[r] <= freePos
    /\ Boundary(pos[r])

(* What a reading process holds in its locals.                             *)
LocalsAt(r) ==
    /\ rpc[r] \in Reading \ {"top"} => pos[r] \in Committed
    /\ rpc[r] \in {"check", "copy", "confirm", "advance"} => hdr[r] = frames[pos[r]]
    /\ rpc[r] \in {"copy", "confirm"} => hdr[r].type = "MSG"
    /\ rpc[r] = "confirm" => ok[r]
    /\ rpc[r] = "expired" => pos[r] \in Committed /\ frames[pos[r]].len = 0
    /\ \A i \in DOMAIN got[r] : got[r][i].intact

ReadersInv == \A r \in Readers : Protected(r) => ProtectedAt(r) /\ LocalsAt(r)

(* Together, an invariant that every step preserves.                       *)
IInv ==
    /\ TypeOK
    /\ MemInv
    /\ FramesInv
    /\ ApartInv
    /\ CellsInv
    /\ WriterInv
    /\ JoiningInv
    /\ ReadersInv
==============================================================================
