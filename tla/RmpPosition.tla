----------------------------- MODULE RmpPosition -----------------------------
(***************************************************************************)
(* Stream positions as the code has them: unsigned words that wrap around, *)
(* compared by the sign of their difference (GreaterThan, Expired), except *)
(* for one raw comparison in ReadEx.  One writer and one reader run        *)
(* forever, through every wrap; history variables count how far apart they *)
(* really are.  It is what lets RmpRing use natural numbers.               *)
(***************************************************************************)
EXTENDS Integers, Sequences

CONSTANTS
    Mod,        \* how many values a Position has: 2^64
    BufSize,    \* configBufSizeBytes
    BposMaxLag, \* how far a reader reads before it publishes its position
    Sizes       \* what writes and messages add to a position

(* A message with its header is at most a buffer (GetMaxMessageSize), and  *)
(* the padding before it less than that.                                   *)
ASSUME PositionAssumption ==
    /\ BufSize \in Nat \ {0} /\ Mod \in Nat /\ BposMaxLag \in 0 .. BufSize
    /\ Mod % BufSize = 0 /\ Mod >= 4 * BufSize
    /\ Sizes \subseteq 1 .. 2 * BufSize - 1

VARIABLES
    freePos,    \* freePos, a word
    pos,        \* _readerPos, a word
    bpos,       \* Info::position, a word
    want,       \* the size a writer waits to write, or 0
    msgs,       \* the sizes of the messages between pos and freePos
    unread,     \* how far freePos is past pos (history)
    lag         \* how far pos is past bpos (history)

positionVars == <<freePos, pos, bpos, want, msgs, unread, lag>>

Words == 0 .. Mod - 1
Plus(a, b) == (a + b) % Mod

(* static_cast<int64_t>(b - a)                                             *)
Signed(d) == IF d < Mod \div 2 THEN d ELSE d - Mod
Difference(b, a) == Signed((b - a) % Mod)

GreaterThan(a, b) == Difference(b, a) < 0

(* Mutant: words are compared as they are.                                 *)
GreaterOrEqualThanRaw(a, b) == a >= b

GreaterOrEqualThan(a, b) == Difference(b, a) <= 0

ExpiredWord(p, end) == GreaterOrEqualThan(end, Plus(p, BufSize))

PositionInit ==
    /\ freePos = 0 /\ pos = 0 /\ bpos = 0
    /\ want = 0 /\ msgs = <<>>
    /\ unread = 0 /\ lag = 0

(* A write is asked for.                                                   *)
BeginWrite ==
    /\ want = 0
    /\ want' \in Sizes
    /\ UNCHANGED <<freePos, pos, bpos, msgs, unread, lag>>

(* DetectReaderBackpressure finds the reader in the way.                   *)
InTheWay == ~ExpiredWord(bpos, freePos) /\ ExpiredWord(bpos, Plus(freePos, want))

Write ==
    /\ want # 0 /\ ~InTheWay
    /\ freePos' = Plus(freePos, want)
    /\ msgs' = Append(msgs, want)
    /\ unread' = unread + want
    /\ want' = 0
    /\ UNCHANGED <<pos, bpos, lag>>

(* Mutant: the position is published when it lags by bposMaxLag, and       *)
(* not at the stream end.                                                  *)
ReadDoneSilent ==
    /\ pos = freePos
    /\ UNCHANGED positionVars

(* The end of ReadEx.                                                      *)
ReadDone ==
    /\ pos = freePos
    /\ bpos' = pos
    /\ lag' = 0
    /\ UNCHANGED <<freePos, pos, want, msgs, unread>>

(* One iteration of ReadEx.  The sum bpos + bposMaxLag may wrap before pos *)
(* does, or pos before the sum.                                            *)
ReadMessage ==
    /\ msgs # <<>> /\ pos # freePos /\ ~ExpiredWord(pos, freePos)
    /\ LET n == Head(msgs)
       IN  /\ pos' = Plus(pos, n)
           /\ unread' = unread - n
           /\ IF pos' >= Plus(bpos, BposMaxLag)
              THEN bpos' = pos' /\ lag' = 0
              ELSE lag' = lag + n /\ UNCHANGED bpos
    /\ msgs' = Tail(msgs)
    /\ UNCHANGED <<freePos, want>>

ReaderStep == ReadMessage \/ ReadDone

PositionNext == BeginWrite \/ Write \/ ReaderStep

PositionSpec == PositionInit /\ [][PositionNext]_positionVars

(* A writer tries again and the reader it notifies reads.                  *)
PositionFairSpec == PositionSpec /\ WF_positionVars(Write) /\ WF_positionVars(ReaderStep)

------------------------------------------------------------------------------
(* Every comparison of words says what the distance between the positions  *)
(* says, on both sides of every wrap: GreaterThan in ReadEx, the three     *)
(* expiration checks, and the two in DetectReaderBackpressure.             *)
WordsAgree ==
    /\ ~GreaterThan(pos, freePos)
    /\ pos = freePos <=> unread = 0
    /\ ExpiredWord(pos, freePos) <=> unread >= BufSize
    /\ ExpiredWord(bpos, freePos) <=> unread + lag >= BufSize
    /\ \A n \in Sizes : ExpiredWord(bpos, Plus(freePos, n)) <=> unread + lag + n >= BufSize

(* Backpressure keeps the writer less than a buffer past the position the  *)
(* reader published, though the raw comparison publishes late when pos has *)
(* wrapped and the sum has not.                                            *)
NeverOvertaken == unread >= 0 /\ lag >= 0 /\ unread + lag < BufSize

(* The late publication does not stop a writer for good: a wait ends.  One *)
(* for a buffer or more, which only a reader that never publishes would    *)
(* let pass, is that of RmpRing_big.cfg and does not.                      *)
WaitEnds == (want # 0 /\ want < BufSize) ~> want = 0
==============================================================================
