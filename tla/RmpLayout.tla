------------------------------ MODULE RmpLayout ------------------------------
(***************************************************************************)
(* Where the bytes of the RMP stream live in the ring buffer.              *)
(*                                                                         *)
(* A stream position counts every byte ever reserved in the stream.  The   *)
(* ring buffer holds the byte of position p in the cell Idx(p).  A message *)
(* and its header are never split by the end of the buffer: the writer     *)
(* fills the rest of the buffer with a padding message, or skips it when   *)
(* not even a header fits.  Positions are natural numbers here; the module *)
(* RmpPosition relates them to the 64-bit counters of the code.            *)
(***************************************************************************)
EXTENDS Naturals

CONSTANTS
    BufSize,    \* configBufSizeBytes
    HdrSize     \* sizeof(MsgHeader)

ASSUME LayoutAssumption ==
    /\ HdrSize \in Nat \ {0}
    /\ BufSize \in Nat
    /\ HdrSize <= BufSize

Cells == 0 .. BufSize - 1

(* Writer::GetMaxMessageSize *)
MaxMessageSize == BufSize - HdrSize

(* BufIndex(IndexMask(BufSize), p); & by a mask of low bits is a remainder. *)
Idx(p) == p % BufSize

(* lengthToBufEnd *)
ToEnd(p) == BufSize - Idx(p)

(* No header fits at p: both sides skip to the start of the buffer. *)
NoRoomForHeader(p) == ToEnd(p) < HdrSize

(* The message of len bytes does not fit in the rest of the buffer. *)
Splits(p, len) == ToEnd(p) < HdrSize + len

(* addBlank and addPadding add the same amount: the rest of the buffer. *)
BytesToWrite(p, len) ==
    HdrSize + len + (IF Splits(p, len) THEN ToEnd(p) ELSE 0)

(* A reader at p is overtaken once the stream end is BufSize past p. *)
Expired(p, end) == end >= p + BufSize
==============================================================================
