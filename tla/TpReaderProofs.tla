---------------------------- MODULE TpReaderProofs ----------------------------
(***************************************************************************)
(* For any number of channel readers and of messages, both classes and     *)
(* hosts with one queue or two: the slot of a tp::Reader is active exactly *)
(* while somebody listens, the handlers are called with messages that      *)
(* follow one another, and the assertions of ReadRmp hold, the last two    *)
(* while activation and ReadRmp never run side by side.                    *)
(***************************************************************************)
EXTENDS TpReader, SequenceTheorems, TLAPS

Job == [op : {"add", "remove", "run", "read"}, c : SUBSET ChannelReaders]

(* What AddChannelReader and RemoveChannelReader rely on: a job that adds  *)
(* adds somebody, only a list with somebody in it is being activated, and  *)
(* whenever nothing is being activated the slot and the list agree.        *)
ListInv ==
    /\ serial \in Seq(Job)
    /\ \A i \in 1 .. Len(serial) : serial[i].op = "add" => serial[i].c # {}
    /\ crs \subseteq ChannelReaders
    /\ spc \in {"idle", "activate"} /\ active \in BOOLEAN
    /\ spc = "activate" => crs # {}
    /\ spc = "idle" => (active <=> crs # {})
    /\ event = "FIRST" <=> crs # {}

SomeClosed == \E c \in ChannelReaders : cstate[c] = "closed"
Reading == rpc \in {"enter", "loop", "confirm", "advance"}

(* Nobody is in a list or was called before it was added, and it is added  *)
(* once.                                                                   *)
Untouched(c) ==
    /\ got[c] = <<>> /\ c \notin crs /\ c \notin copy
    /\ \A j \in 1 .. Len(reads) : c \notin reads[j]
    /\ \A j \in 1 .. Len(serial) : serial[j].op = "read" => c \notin serial[j].c

FreshInv ==
    \A c \in ChannelReaders :
        /\ cstate[c] = "none" => Untouched(c)
        /\ \A i \in 1 .. Len(serial) : serial[i].op = "add" /\ c \in serial[i].c =>
              /\ cstate[c] # "none" /\ Untouched(c)
              /\ \A j \in 1 .. Len(serial) : serial[j].op = "add" /\ c \in serial[j].c => i = j

(* ReadRmp is enqueued where it belongs; a channel reader that is removed  *)
(* was closed, and so was one that left an empty list to read for.         *)
QueueInv ==
    /\ liveList => oneQueue
    /\ oneQueue => reads = <<>>
    /\ \A i \in 1 .. Len(serial) :
        /\ serial[i].op = "read" => oneQueue
        /\ serial[i].op = "remove" => SomeClosed
        /\ serial[i].op = "read" /\ crs = {} => SomeClosed

(* Of those still in the list, a later copy leaves out nobody that an      *)
(* earlier one holds, nor anybody who was called.                          *)
CopiesInv ==
    /\ \A i, j \in 1 .. Len(serial) :
          i < j /\ serial[i].op = "read" /\ serial[j].op = "read" => serial[i].c \cap crs \subseteq serial[j].c
    /\ \A i, j \in 1 .. Len(reads) : i < j => reads[i] \cap crs \subseteq reads[j]
    /\ Reading => /\ \A j \in 1 .. Len(serial) : serial[j].op = "read" => copy \cap crs \subseteq serial[j].c
                  /\ \A j \in 1 .. Len(reads) : copy \cap crs \subseteq reads[j]
    /\ \A c \in crs : got[c] # <<>> =>
          /\ \A j \in 1 .. Len(serial) : serial[j].op = "read" => c \in serial[j].c
          /\ \A j \in 1 .. Len(reads) : c \in reads[j]
          /\ Reading => c \in copy

(* While it is calm, ReadRmp reads for an active reader that is not past   *)
(* the end, and whoever was called was last called with the message before *)
(* the next.                                                               *)
CalmInv ==
    /\ spc = "activate" => ~active
    /\ Calm =>
        /\ rpos <= end
        /\ rpc \in {"confirm", "advance"} => rpos < end
        /\ Reading => active /\ spc = "idle"

LastInv ==
    Calm => \A c \in crs : got[c] # <<>> =>
        got[c][Len(got[c])] = IF rpc = "advance" THEN rpos + 1 ELSE rpos

ReaderInv ==
    /\ TypeOK /\ ListInv /\ QueueInv /\ FreshInv
    /\ ~liveList => CopiesInv
    /\ CalmInv /\ LastInv /\ NoGaps /\ CalmAssertionsHold

------------------------------------------------------------------------------
(* The types of Head, Tail and Append, and a sequence over a larger set.   *)
LEMMA SeqTypes ==
    ASSUME NEW T, NEW s \in Seq(T)
    PROVE  /\ s # <<>> => Head(s) \in T /\ Tail(s) \in Seq(T)
           /\ \A x \in T : Append(s, x) \in Seq(T) /\ Len(Append(s, x)) = Len(s) + 1
<1>1. s # <<>> => Head(s) \in T /\ Tail(s) \in Seq(T)
  OBVIOUS
<1>2. \A x \in T : Append(s, x) \in Seq(T) /\ Len(Append(s, x)) = Len(s) + 1
  OBVIOUS
<1> QED
  BY <1>1, <1>2

LEMMA SeqWider ==
    ASSUME NEW T, NEW U, T \subseteq U, NEW s \in Seq(T)
    PROVE  s \in Seq(U)
BY SeqMonotonic

------------------------------------------------------------------------------
(* The slot and the list.                                                  *)

(* A job is enqueued, ... *)
LEMMA Enqueued ==
    ASSUME ListInv, NEW j \in Job, j.op = "add" => j.c # {},
           serial' = Append(serial, j), UNCHANGED <<spc, crs, active, event>>
    PROVE  ListInv'
<1>1. serial' \in Seq(Job)
  BY DEF ListInv
<1>2. ASSUME NEW i \in 1 .. Len(serial'), serial'[i].op = "add" PROVE serial'[i].c # {}
  <2>1. serial \in Seq(Job) /\ Len(serial') = Len(serial) + 1
    BY DEF ListInv
  <2>2. CASE i = Len(serial) + 1
    BY <1>2, <2>1, <2>2
  <2>3. CASE i \in 1 .. Len(serial)
    <3>1. serial'[i] = serial[i]
      BY <2>1, <2>3
    <3> QED
      BY <1>2, <2>3, <3>1 DEF ListInv
  <2> QED
    BY <2>1, <2>2, <2>3
<1> QED
  BY <1>1, <1>2 DEF ListInv

(* ... or the first of them is taken. *)
LEMMA Dequeued ==
    ASSUME ListInv, serial # <<>>
    PROVE  /\ Head(serial) \in Job
           /\ Head(serial).op = "add" => Head(serial).c # {}
           /\ Tail(serial) \in Seq(Job)
           /\ \A i \in 1 .. Len(Tail(serial)) :
                Tail(serial)[i].op = "add" => Tail(serial)[i].c # {}
<1>1. serial \in Seq(Job) /\ Len(serial) \in Nat /\ Len(serial) > 0
  BY DEF ListInv
<1>2. Head(serial) = serial[1] /\ serial[1] \in Job /\ 1 \in 1 .. Len(serial)
  BY <1>1
<1>3. Tail(serial) \in Seq(Job) /\ Len(Tail(serial)) = Len(serial) - 1
  BY <1>1
<1>4. ASSUME NEW i \in 1 .. Len(Tail(serial)), Tail(serial)[i].op = "add"
      PROVE  Tail(serial)[i].c # {}
  <2>1. Tail(serial)[i] = serial[i + 1] /\ i + 1 \in 1 .. Len(serial)
    BY <1>1, <1>3
  <2> QED
    BY <1>4, <2>1 DEF ListInv
<1> QED
  BY <1>2, <1>3, <1>4 DEF ListInv

(* Nobody listens yet. *)
LEMMA ListInit == Init => ListInv
<1> SUFFICES ASSUME Init PROVE ListInv
  OBVIOUS
<1>1. serial = <<>> /\ <<>> \in Seq(Job) /\ Len(serial) = 0
  BY DEF Init
<1>2. crs = {} /\ spc = "idle" /\ active = FALSE /\ event = "LAST"
  BY DEF Init
<1>3. \A i \in 1 .. Len(serial) : serial[i].op = "add" => serial[i].c # {}
  BY <1>1
<1>4. event = "FIRST" <=> crs # {}
  BY <1>2
<1> QED
  BY <1>1, <1>2, <1>3, <1>4 DEF ListInv

(* What the application and the writers do. *)
LEMMA AppStep ==
    ASSUME ListInv,
           \/ \E c \in ChannelReaders : CreateChannelReader(c) \/ CloseChannelReader(c)
           \/ Post \/ Run
    PROVE  ListInv'
<1>1. ASSUME NEW c \in ChannelReaders, CreateChannelReader(c) PROVE ListInv'
  <2>1. [op |-> "add", c |-> {c}] \in Job
    BY DEF Job
  <2> QED
    BY <1>1, <2>1, Enqueued DEF CreateChannelReader, slotVars, histVars
<1>2. ASSUME NEW c \in ChannelReaders, CloseChannelReader(c) PROVE ListInv'
  <2>1. [op |-> "remove", c |-> {c}] \in Job
    BY DEF Job
  <2> QED
    BY <1>2, <2>1, Enqueued DEF CloseChannelReader, slotVars, histVars
<1>3. CASE Post
  BY <1>3 DEF Post, jobVars, slotVars, histVars, ListInv
<1>4. CASE Run
  <2>1. [op |-> "run", c |-> {}] \in Job
    BY DEF Job
  <2> QED
    BY <1>4, <2>1, Enqueued DEF Run, slotVars, histVars
<1> QED
  BY <1>1, <1>2, <1>3, <1>4

(* The first channel reader of the list begins an activation, ... *)
LEMMA AddStep ==
    ASSUME ListInv, AddChannelReader
    PROVE  ListInv'
<1>1. serial # <<>> /\ Head(serial).op = "add" /\ spc = "idle"
  BY DEF AddChannelReader, NextJob, SerialIdle
<1>2. Head(serial) \in Job /\ Head(serial).c # {}
  BY <1>1, Dequeued
<1>3. crs' \subseteq ChannelReaders /\ crs' # {}
  BY <1>2 DEF AddChannelReader, ListInv, Job
<1>4. active' = active /\ serial' = Tail(serial)
  BY DEF AddChannelReader
<1>5. /\ spc' \in {"idle", "activate"}
      /\ spc' = "idle" => crs # {}
      /\ event' = "FIRST"
  BY <1>1 DEF AddChannelReader, ListInv
<1> QED
  BY <1>1, <1>3, <1>4, <1>5, Dequeued DEF ListInv

(* ... and the last one to leave it deactivates the slot. *)
LEMMA RemoveStep ==
    ASSUME ListInv, RemoveChannelReader
    PROVE  ListInv'
<1>1. serial # <<>> /\ spc = "idle" /\ spc' = "idle" /\ serial' = Tail(serial)
  BY DEF RemoveChannelReader, NextJob, SerialIdle
<1>2. crs' \subseteq crs
  BY DEF RemoveChannelReader
<1>3. CASE crs # {} /\ crs' = {}
  BY <1>1, <1>3, Dequeued DEF RemoveChannelReader, ListInv
<1>4. CASE ~(crs # {} /\ crs' = {})
  <2>1. active' = active /\ event' = event /\ (crs' = {} <=> crs = {})
    BY <1>2, <1>4 DEF RemoveChannelReader
  <2> QED
    BY <1>1, <1>2, <2>1, Dequeued DEF ListInv
<1> QED
  BY <1>3, <1>4

(* The other jobs of the serial queue. *)
LEMMA SerialJobStep ==
    ASSUME ListInv, ActivateSlot \/ RunJob
    PROVE  ListInv'
<1>1. CASE ActivateSlot
  BY <1>1 DEF ActivateSlot, ListInv, jobVars, histVars
<1>2. CASE RunJob
  <2>1. serial # <<>> /\ UNCHANGED <<spc, crs, active, event>>
    BY <1>2 DEF RunJob, NextJob, slotVars, histVars
  <2>2. CASE serial' = Tail(serial)
    BY <2>1, <2>2, Dequeued DEF ListInv
  <2>3. CASE serial' = Append(Tail(serial), [op |-> "read", c |-> IF liveList THEN {} ELSE crs])
    <3> DEFINE j == [op |-> "read", c |-> IF liveList THEN {} ELSE crs]
               t == Tail(serial)
    <3>1. j \in Job /\ j.op # "add"
      BY DEF Job, ListInv
    <3>2. t \in Seq(Job) /\ \A i \in 1 .. Len(t) : t[i].op = "add" => t[i].c # {}
      BY <2>1, Dequeued
    <3>3. serial' = Append(t, j)
      BY <2>3
    <3> HIDE DEF j, t
    <3>4. /\ serial' \in Seq(Job) /\ Len(serial') = Len(t) + 1
          /\ \A i \in 1 .. Len(t) : serial'[i] = t[i]
          /\ serial'[Len(t) + 1] = j
      BY <3>1, <3>2, <3>3
    <3>5. \A i \in 1 .. Len(serial') : serial'[i].op = "add" => serial'[i].c # {}
      BY <3>1, <3>2, <3>4
    <3> QED
      BY <2>1, <3>4, <3>5 DEF ListInv
  <2> QED
    BY <1>2, <2>2, <2>3 DEF RunJob
<1> QED
  BY <1>1, <1>2

(* ReadRmp leaves the list and isActive alone. *)
LEMMA ReadRmpStep ==
    ASSUME ListInv, ReadStep
    PROVE  ListInv'
<1>1. UNCHANGED <<spc, crs, active, event>>
  BY DEF ReadStep, Reads, slotVars, BeginReadRmp, EnterReadEx, ReadDone, CopyMessage, Expire, Confirm, Advance
<1>2. CASE serial' = serial
  BY <1>1, <1>2 DEF ListInv
<1>3. CASE serial # <<>> /\ serial' = Tail(serial)
  BY <1>1, <1>3, Dequeued DEF ListInv
<1>4. serial' = serial \/ (serial # <<>> /\ serial' = Tail(serial))
  BY DEF ReadStep, jobVars, NextJob, BeginReadRmp, EnterReadEx, ReadDone, CopyMessage, Expire, Confirm, Advance
<1> QED
  BY <1>2, <1>3, <1>4

(* The step of the list and the slot. *)
LEMMA ListStep == ListInv /\ [Next]_vars => ListInv'
<1>1. ListInv /\ UNCHANGED vars => ListInv'
  BY DEF ListInv, vars, jobVars, slotVars, histVars
<1> QED
  BY <1>1, AppStep, AddStep, RemoveStep, SerialJobStep, ReadRmpStep DEF Next, SerialStep

------------------------------------------------------------------------------
(* Types.                                                                  *)

LEMMA TypeInit == Init => TypeOK
<1> SUFFICES ASSUME Init PROVE TypeOK
  OBVIOUS
<1>1. oneQueue \in BOOLEAN /\ liveList \in BOOLEAN /\ rung \in BOOLEAN /\ active \in BOOLEAN
  BY ReaderAssumption DEF Init
<1>2. 0 \in 0 .. MaxPosts
  BY ReaderAssumption
<1>3. end \in 0 .. MaxPosts /\ rpos \in Nat /\ bpos \in Nat
  BY <1>2 DEF Init
<1>4. serial \in Seq(Jobs) /\ reads \in Seq(ReaderLists) /\ crs \subseteq ChannelReaders /\ copy \subseteq ChannelReaders
  BY DEF Init
<1>5. /\ cstate \in [ChannelReaders -> {"none", "open", "closed"}]
      /\ born \in [ChannelReaders -> 0 .. MaxPosts] /\ joined \in [ChannelReaders -> 0 .. MaxPosts]
  BY <1>2 DEF Init
<1>6. got \in [ChannelReaders -> Seq(-1 .. MaxPosts)]
  <2>1. <<>> \in Seq(-1 .. MaxPosts)
    OBVIOUS
  <2> QED
    BY <2>1 DEF Init
<1>7. /\ spc \in {"idle", "activate"} /\ event \in {"FIRST", "LAST"}
      /\ rpc \in {"idle", "enter", "loop", "confirm", "advance", "aborted"}
  BY DEF Init
<1> QED
  BY <1>1, <1>3, <1>4, <1>5, <1>6, <1>7 DEF TypeOK

(* What the first job of a queue is. *)
LEMMA FirstJob ==
    ASSUME TypeOK, serial # <<>>
    PROVE  /\ Head(serial) = serial[1] /\ 1 \in 1 .. Len(serial) /\ Len(serial) \in Nat
           /\ Head(serial) \in Jobs /\ Tail(serial) \in Seq(Jobs)
           /\ Head(serial).c \subseteq ChannelReaders
<1>1. serial \in Seq(Jobs)
  BY DEF TypeOK
<1>2. /\ Head(serial) = serial[1] /\ 1 \in 1 .. Len(serial) /\ Len(serial) \in Nat
      /\ Head(serial) \in Jobs /\ Tail(serial) \in Seq(Jobs)
  BY <1>1, SeqTypes
<1>3. Head(serial).c \subseteq ChannelReaders
  BY <1>2 DEF Jobs, ReaderLists
<1> QED
  BY <1>2, <1>3

LEMMA FirstRead ==
    ASSUME TypeOK, reads # <<>>
    PROVE  /\ Head(reads) = reads[1] /\ 1 \in 1 .. Len(reads)
           /\ Head(reads) \in ReaderLists /\ Tail(reads) \in Seq(ReaderLists)
<1>1. reads \in Seq(ReaderLists)
  BY DEF TypeOK
<1> QED
  BY <1>1, SeqTypes

(* The jobs there are. *)
LEMMA NewJobTypes ==
    ASSUME TypeOK
    PROVE  /\ \A c \in ChannelReaders : [op |-> "add", c |-> {c}] \in Jobs /\ [op |-> "remove", c |-> {c}] \in Jobs
           /\ [op |-> "run", c |-> {}] \in Jobs
           /\ crs # {} => /\ [op |-> "read", c |-> IF liveList THEN {} ELSE crs] \in Jobs
                          /\ crs \in ReaderLists
<1>1. \A c \in ChannelReaders : [op |-> "add", c |-> {c}] \in Jobs /\ [op |-> "remove", c |-> {c}] \in Jobs
  BY DEF Jobs
<1>2. [op |-> "run", c |-> {}] \in Jobs
  BY DEF Jobs
<1>3. crs # {} => crs \in ReaderLists
  <2>1. crs \subseteq ChannelReaders
    BY DEF TypeOK
  <2> QED
    BY <2>1 DEF ReaderLists
<1>4. crs # {} => [op |-> "read", c |-> IF liveList THEN {} ELSE crs] \in Jobs
  BY <1>3 DEF Jobs
<1> QED
  BY <1>1, <1>2, <1>3, <1>4

LEMMA RecordedType ==
    ASSUME TypeOK, NEW h \in [ChannelReaders -> 0 .. MaxPosts], NEW s
    PROVE  Recorded(h, s) \in [ChannelReaders -> 0 .. MaxPosts]
BY DEF Recorded, TypeOK

LEMMA TypeStep ==
    ASSUME TypeOK, [Next]_vars
    PROVE  TypeOK'
<1>t. serial \in Seq(Jobs) /\ reads \in Seq(ReaderLists)
  BY DEF TypeOK
<1>j. liveList' = liveList => Jobs' = Jobs
  BY DEF Jobs, ReaderLists
<1>1. ASSUME NEW c \in ChannelReaders, CreateChannelReader(c) \/ CloseChannelReader(c)
      PROVE  TypeOK'
  <2>1. serial' \in Seq(Jobs)
    <3>1. \E j \in Jobs : serial' = Append(serial, j)
      BY <1>1, NewJobTypes DEF CreateChannelReader, CloseChannelReader
    <3> QED
      BY <1>t, <3>1, SeqTypes
  <2>2. cstate' \in [ChannelReaders -> {"none", "open", "closed"}]
    BY <1>1 DEF CreateChannelReader, CloseChannelReader, TypeOK
  <2>3. born' \in [ChannelReaders -> 0 .. MaxPosts]
    <3>1. born \in [ChannelReaders -> 0 .. MaxPosts]
      BY DEF TypeOK
    <3>2. born' = born \/ born' = Recorded(born, {c})
      BY <1>1 DEF CreateChannelReader, CloseChannelReader
    <3> QED
      BY <3>1, <3>2, RecordedType
  <2>4. UNCHANGED <<oneQueue, liveList, end, rung, reads, spc, rpc, copy, crs, active, rpos, bpos, joined, got, event>>
    BY <1>1 DEF CreateChannelReader, CloseChannelReader, readVars, slotVars, histVars
  <2>5. ReaderLists' = ReaderLists /\ Jobs' = Jobs
    BY <1>j, <2>4 DEF ReaderLists
  <2> QED
    BY <2>1, <2>2, <2>3, <2>4, <2>5 DEF TypeOK
<1>2. CASE Post
  <2>1. end' \in 0 .. MaxPosts /\ rung' = TRUE
    BY <1>2, ReaderAssumption DEF Post, TypeOK
  <2>2. UNCHANGED <<jobVars, spc, readVars, crs, slotVars, appVars, histVars>>
    BY <1>2 DEF Post
  <2> QED
    BY <1>j, <2>1, <2>2 DEF TypeOK, jobVars, readVars, slotVars, appVars, histVars, ReaderLists
<1>3. CASE Run
  <2>1. serial' \in Seq(Jobs) /\ rung' = FALSE
    BY <1>3, <1>t, NewJobTypes, SeqTypes DEF Run
  <2>2. UNCHANGED <<oneQueue, liveList, end, reads, spc, readVars, crs, slotVars, appVars, histVars>>
    BY <1>3 DEF Run
  <2> QED
    BY <1>j, <2>1, <2>2 DEF TypeOK, readVars, slotVars, appVars, histVars, ReaderLists
<1>4. CASE AddChannelReader
  <2>1. serial # <<>> /\ serial' = Tail(serial)
    BY <1>4 DEF AddChannelReader, NextJob
  <2>2. serial' \in Seq(Jobs) /\ crs' \subseteq ChannelReaders
    BY <1>4, <2>1, FirstJob DEF AddChannelReader, TypeOK
  <2>3. joined' \in [ChannelReaders -> 0 .. MaxPosts]
    BY <1>4, RecordedType DEF AddChannelReader, TypeOK
  <2>4. spc' \in {"idle", "activate"} /\ rpos' \in Nat /\ event' \in {"FIRST", "LAST"}
    BY <1>4 DEF AddChannelReader, TypeOK
  <2>5. UNCHANGED <<oneQueue, liveList, end, rung, reads, rpc, copy, active, bpos, cstate, born, got>>
    BY <1>4 DEF AddChannelReader, readVars, appVars
  <2> QED
    BY <1>j, <2>2, <2>3, <2>4, <2>5 DEF TypeOK, ReaderLists
<1>5. CASE ActivateSlot
  <2>1. spc' = "idle" /\ bpos' \in Nat /\ active' = TRUE
    BY <1>5 DEF ActivateSlot, TypeOK
  <2>2. UNCHANGED <<end, rung, jobVars, readVars, crs, rpos, appVars, histVars>>
    BY <1>5 DEF ActivateSlot
  <2> QED
    BY <1>j, <2>1, <2>2 DEF TypeOK, jobVars, readVars, appVars, histVars, ReaderLists
<1>6. CASE RemoveChannelReader
  <2>1. serial # <<>> /\ serial' = Tail(serial)
    BY <1>6 DEF RemoveChannelReader, NextJob
  <2>2. serial' \in Seq(Jobs) /\ crs' \subseteq ChannelReaders
    BY <1>6, <2>1, FirstJob DEF RemoveChannelReader, TypeOK
  <2>3. active' \in BOOLEAN /\ event' \in {"FIRST", "LAST"}
    BY <1>6 DEF RemoveChannelReader, TypeOK
  <2>4. UNCHANGED <<oneQueue, liveList, end, rung, reads, spc, rpc, copy, rpos, bpos, cstate, born, joined, got>>
    BY <1>6 DEF RemoveChannelReader, readVars, appVars
  <2> QED
    BY <1>j, <2>2, <2>3, <2>4 DEF TypeOK, ReaderLists
<1>7. CASE RunJob
  <2>1. serial # <<>>
    BY <1>7 DEF RunJob, NextJob
  <2>2. serial' \in Seq(Jobs) /\ reads' \in Seq(ReaderLists)
    <3>1. Tail(serial) \in Seq(Jobs)
      BY <2>1, FirstJob
    <3>2. CASE serial' = Tail(serial) /\ reads' = reads
      BY <1>t, <3>1, <3>2
    <3>3. CASE /\ crs # {} /\ reads' = reads
               /\ serial' = Append(Tail(serial), [op |-> "read", c |-> IF liveList THEN {} ELSE crs])
      <4>1. [op |-> "read", c |-> IF liveList THEN {} ELSE crs] \in Jobs
        BY <3>3, NewJobTypes
      <4> QED
        BY <1>t, <3>1, <3>3, <4>1, SeqTypes
    <3>4. CASE crs # {} /\ serial' = Tail(serial) /\ reads' = Append(reads, crs)
      BY <1>t, <3>1, <3>4, NewJobTypes, SeqTypes
    <3> QED
      BY <1>7, <3>2, <3>3, <3>4 DEF RunJob
  <2>3. UNCHANGED <<oneQueue, liveList, end, rung, spc, readVars, crs, slotVars, appVars, histVars>>
    BY <1>7 DEF RunJob
  <2> QED
    BY <1>j, <2>2, <2>3 DEF TypeOK, readVars, slotVars, appVars, histVars, ReaderLists
<1>8. CASE ReadStep
  <2>1. /\ UNCHANGED <<oneQueue, liveList, end, rung, spc, crs, appVars, joined, event>>
        /\ rpc' \in {"idle", "enter", "loop", "confirm", "advance", "aborted"}
    BY <1>8 DEF ReadStep, Reads, BeginReadRmp, EnterReadEx, ReadDone, CopyMessage, Expire, Confirm, Advance
  <2>2. serial' \in Seq(Jobs) /\ reads' \in Seq(ReaderLists) /\ copy' \subseteq ChannelReaders
    <3>1. CASE BeginReadRmp
      <4>1. CASE oneQueue
        BY <1>t, <3>1, <4>1, FirstJob DEF BeginReadRmp, NextJob
      <4>2. CASE ~oneQueue
        BY <1>t, <3>1, <4>2, FirstRead DEF BeginReadRmp, ReaderLists
      <4> QED
        BY <4>1, <4>2
    <3>2. CASE ~BeginReadRmp
      <4>1. serial' = serial /\ reads' = reads
        BY <1>8, <3>2 DEF ReadStep, EnterReadEx, ReadDone, CopyMessage, Expire, Confirm, Advance, jobVars
      <4>2. copy' = copy \/ copy' = {}
        BY <1>8, <3>2 DEF ReadStep, EnterReadEx, ReadDone, CopyMessage, Expire, Confirm, Advance
      <4> QED
        BY <1>t, <4>1, <4>2 DEF TypeOK
    <3> QED
      BY <3>1, <3>2
  <2>3. active' = active /\ rpos' \in Nat /\ bpos' \in Nat
    BY <1>8 DEF ReadStep, BeginReadRmp, EnterReadEx, ReadDone, CopyMessage, Expire, Confirm, Advance, slotVars, TypeOK
  <2>4. got' \in [ChannelReaders -> Seq(-1 .. MaxPosts)]
    <3>1. CASE Confirm
      <4> DEFINE msg == IF rpos < end THEN rpos + 1 ELSE -1
      <4>1. msg \in -1 .. MaxPosts
        BY ReaderAssumption DEF TypeOK
      <4>2. \A c \in ChannelReaders : Append(got[c], msg) \in Seq(-1 .. MaxPosts) /\ got[c] \in Seq(-1 .. MaxPosts)
        BY <4>1, SeqTypes DEF TypeOK
      <4>3. got' = [c \in ChannelReaders |-> IF c \in Given THEN Append(got[c], msg) ELSE got[c]]
        BY <3>1 DEF Confirm
      <4> HIDE DEF msg
      <4> QED
        BY <4>2, <4>3
    <3>2. CASE ~Confirm
      <4>1. got' = got
        BY <1>8, <3>2 DEF ReadStep, BeginReadRmp, EnterReadEx, ReadDone, CopyMessage, Expire, Advance
      <4> QED
        BY <4>1 DEF TypeOK
    <3> QED
      BY <3>1, <3>2
  <2> QED
    BY <1>j, <2>1, <2>2, <2>3, <2>4 DEF TypeOK, appVars, ReaderLists
<1>9. CASE UNCHANGED vars
  BY <1>j, <1>9 DEF TypeOK, vars, jobVars, readVars, slotVars, appVars, histVars, ReaderLists
<1> QED
  BY <1>1, <1>2, <1>3, <1>4, <1>5, <1>6, <1>7, <1>8, <1>9 DEF Next, SerialStep

------------------------------------------------------------------------------
(* How the queues move.                                                    *)

(* t is s, less its first perhaps, with one of N behind it perhaps. *)
Moved(s, t, N) ==
    \E d \in {0, 1} : \A i \in 1 .. Len(t) :
        \/ i + d \in 1 .. Len(s) /\ t[i] = s[i + d]
        \/ i = Len(t) /\ t[i] \in N

LEMMA Moves ==
    ASSUME NEW T, NEW s \in Seq(T), NEW N
    PROVE  /\ Moved(s, s, N)
           /\ \A x \in T : x \in N => Moved(s, Append(s, x), N)
           /\ s # <<>> => Moved(s, Tail(s), N)
           /\ s # <<>> => \A x \in T : x \in N => Moved(s, Append(Tail(s), x), N)
<1>1. Moved(s, s, N)
  <2>1. \A i \in 1 .. Len(s) : i + 0 \in 1 .. Len(s) /\ s[i] = s[i + 0]
    OBVIOUS
  <2> QED
    BY <2>1 DEF Moved
<1>2. ASSUME NEW x \in T, x \in N PROVE Moved(s, Append(s, x), N)
  <2> DEFINE t == Append(s, x)
  <2>1. \A i \in 1 .. Len(t) : (i + 0 \in 1 .. Len(s) /\ t[i] = s[i + 0]) \/ (i = Len(t) /\ t[i] \in N)
    BY <1>2
  <2> QED
    BY <2>1 DEF Moved
<1>3. ASSUME s # <<>> PROVE Moved(s, Tail(s), N)
  <2>1. \A i \in 1 .. Len(Tail(s)) : i + 1 \in 1 .. Len(s) /\ Tail(s)[i] = s[i + 1]
    BY <1>3
  <2> QED
    BY <2>1 DEF Moved
<1>4. ASSUME s # <<>>, NEW x \in T, x \in N PROVE Moved(s, Append(Tail(s), x), N)
  <2> DEFINE u == Tail(s)
             t == Append(u, x)
  <2>1. u \in Seq(T) /\ Len(u) \in Nat /\ \A i \in 1 .. Len(u) : i + 1 \in 1 .. Len(s) /\ u[i] = s[i + 1]
    BY <1>4
  <2> HIDE DEF u
  <2>2. \A i \in 1 .. Len(t) : (i \in 1 .. Len(u) /\ t[i] = u[i]) \/ (i = Len(t) /\ t[i] \in N)
    BY <1>4, <2>1
  <2>3. \A i \in 1 .. Len(t) : (i + 1 \in 1 .. Len(s) /\ t[i] = s[i + 1]) \/ (i = Len(t) /\ t[i] \in N)
    BY <2>1, <2>2
  <2> QED
    BY <2>3 DEF Moved, u
<1> QED
  BY <1>1, <1>2, <1>3, <1>4

(* The jobs a step may enqueue. *)
NewJobs ==
    {j \in Job :
        /\ j.op = "add" => \E c \in ChannelReaders : j.c = {c} /\ cstate[c] = "none" /\ cstate'[c] # "none"
        /\ j.op = "remove" => SomeClosed'
        /\ j.op = "read" => /\ oneQueue /\ crs # {} /\ crs' = crs
                            /\ j.c = IF liveList THEN {} ELSE crs}

LEMMA JobsMove ==
    ASSUME TypeOK, [Next]_vars
    PROVE  Moved(serial, serial', NewJobs)
<1>t. serial \in Seq(Jobs)
  BY DEF TypeOK
<1>0. ASSUME serial' = serial \/ (serial # <<>> /\ serial' = Tail(serial))
      PROVE  Moved(serial, serial', NewJobs)
  BY <1>0, <1>t, Moves
<1>1. ASSUME NEW c \in ChannelReaders, CreateChannelReader(c)
      PROVE  Moved(serial, serial', NewJobs)
  <2> DEFINE j == [op |-> "add", c |-> {c}]
  <2>1. j \in Jobs /\ serial' = Append(serial, j)
    BY <1>1, NewJobTypes DEF CreateChannelReader
  <2>2. cstate[c] = "none" /\ cstate'[c] # "none"
    BY <1>1 DEF CreateChannelReader, TypeOK
  <2>3. j \in NewJobs
    BY <2>2 DEF NewJobs, Job
  <2> HIDE DEF j
  <2> QED
    BY <1>t, <2>1, <2>3, Moves
<1>2. ASSUME NEW c \in ChannelReaders, CloseChannelReader(c)
      PROVE  Moved(serial, serial', NewJobs)
  <2> DEFINE j == [op |-> "remove", c |-> {c}]
  <2>1. j \in Jobs /\ serial' = Append(serial, j)
    BY <1>2, NewJobTypes DEF CloseChannelReader
  <2>2. SomeClosed'
    BY <1>2 DEF CloseChannelReader, TypeOK, SomeClosed
  <2>3. j \in NewJobs
    BY <2>2 DEF NewJobs, Job
  <2> HIDE DEF j
  <2> QED
    BY <1>t, <2>1, <2>3, Moves
<1>3. CASE Post
  BY <1>0, <1>3 DEF Post, jobVars
<1>4. CASE Run
  <2> DEFINE j == [op |-> "run", c |-> {}]
  <2>1. j \in Jobs /\ serial' = Append(serial, j)
    BY <1>4, NewJobTypes DEF Run
  <2>2. j \in NewJobs
    BY DEF NewJobs, Job
  <2> HIDE DEF j
  <2> QED
    BY <1>t, <2>1, <2>2, Moves
<1>5. CASE AddChannelReader \/ RemoveChannelReader
  BY <1>0, <1>5 DEF AddChannelReader, RemoveChannelReader, NextJob
<1>6. CASE ActivateSlot
  BY <1>0, <1>6 DEF ActivateSlot, jobVars
<1>7. CASE RunJob
  <2> DEFINE j == [op |-> "read", c |-> IF liveList THEN {} ELSE crs]
  <2>1. serial # <<>> /\ crs' = crs
    BY <1>7 DEF RunJob, NextJob
  <2>2. CASE crs # {} /\ oneQueue
    <3>1. j \in Jobs /\ serial' = Append(Tail(serial), j)
      BY <1>7, <2>2, NewJobTypes DEF RunJob
    <3>2. j \in NewJobs
      BY <2>1, <2>2 DEF NewJobs, Job, TypeOK
    <3> HIDE DEF j
    <3> QED
      BY <1>t, <2>1, <3>1, <3>2, Moves
  <2>3. CASE ~(crs # {} /\ oneQueue)
    BY <1>0, <1>7, <2>1, <2>3 DEF RunJob
  <2> QED
    BY <2>2, <2>3
<1>8. CASE ReadStep
  BY <1>0, <1>8 DEF ReadStep, BeginReadRmp, NextJob, EnterReadEx, ReadDone, CopyMessage, Expire, Confirm,
     Advance, jobVars
<1>9. CASE UNCHANGED vars
  BY <1>0, <1>9 DEF vars, jobVars
<1> QED
  BY <1>1, <1>2, <1>3, <1>4, <1>5, <1>6, <1>7, <1>8, <1>9 DEF Next, SerialStep

LEMMA ReadsMove ==
    ASSUME TypeOK, [Next]_vars
    PROVE  /\ Moved(reads, reads', {crs})
           /\ reads' # reads => ~oneQueue /\ crs' = crs
<1>t. reads \in Seq(ReaderLists)
  BY DEF TypeOK
<1>1. CASE reads' = reads
  BY <1>t, <1>1, Moves
<1>2. CASE reads # <<>> /\ reads' = Tail(reads) /\ ~oneQueue /\ crs' = crs
  BY <1>t, <1>2, Moves
<1>3. CASE crs # {} /\ reads' = Append(reads, crs) /\ ~oneQueue /\ crs' = crs
  <2>1. crs \in ReaderLists
    BY <1>3, NewJobTypes
  <2> QED
    BY <1>t, <1>3, <2>1, Moves
<1>4. CASE RunJob
  BY <1>1, <1>3, <1>4 DEF RunJob
<1>5. CASE BeginReadRmp
  BY <1>1, <1>2, <1>5 DEF BeginReadRmp, Reads
<1>6. CASE ~RunJob /\ ~BeginReadRmp
  <2>1. reads' = reads
    BY <1>6 DEF Next, SerialStep, ReadStep, CreateChannelReader, CloseChannelReader, Post, Run, AddChannelReader,
       RemoveChannelReader, ActivateSlot, EnterReadEx, ReadDone, CopyMessage, Expire, Confirm, Advance, vars, jobVars
  <2> QED
    BY <1>1, <2>1
<1> QED
  BY <1>4, <1>5, <1>6

------------------------------------------------------------------------------
(* A channel reader is added once, before it is called.                    *)

(* Only AddChannelReader touches one that is not in the list. *)
LEMMA UntouchedStep ==
    ASSUME TypeOK, [Next]_vars, NEW c \in ChannelReaders, Untouched(c),
           AddChannelReader => c \notin Head(serial).c
    PROVE  Untouched(c)'
<1> USE DEF Untouched
<1>1. c \notin crs'
  <2>1. crs' \subseteq crs \cup (IF AddChannelReader THEN Head(serial).c ELSE {})
    BY DEF Next, SerialStep, ReadStep, CreateChannelReader, CloseChannelReader, Post, Run, AddChannelReader, RunJob,
       RemoveChannelReader, ActivateSlot, BeginReadRmp, EnterReadEx, ReadDone, CopyMessage, Expire, Confirm, Advance,
       Reads, vars
  <2> QED
    BY <2>1
<1>2. got'[c] = <<>>
  <2>1. CASE Confirm
    <3>1. c \notin Given
      BY DEF Given
    <3> QED
      BY <2>1, <3>1 DEF Confirm
  <2>2. CASE ~Confirm
    <3>1. got' = got
      BY <2>2 DEF Next, SerialStep, ReadStep, CreateChannelReader, CloseChannelReader, Post, Run, AddChannelReader, RunJob,
         RemoveChannelReader, ActivateSlot, BeginReadRmp, EnterReadEx, ReadDone, CopyMessage, Expire, Advance, vars,
         histVars
    <3> QED
      BY <3>1
  <2> QED
    BY <2>1, <2>2
<1>3. c \notin copy'
  <2>1. CASE BeginReadRmp /\ oneQueue
    <3>1. serial # <<>> /\ Head(serial).op = "read" /\ copy' \subseteq Head(serial).c
      BY <2>1 DEF BeginReadRmp, NextJob
    <3> QED
      BY <3>1, FirstJob
  <2>2. CASE BeginReadRmp /\ ~oneQueue
    <3>1. reads # <<>> /\ copy' \subseteq Head(reads)
      BY <2>2 DEF BeginReadRmp
    <3> QED
      BY <3>1, FirstRead
  <2>3. CASE ~BeginReadRmp
    <3>1. copy' = copy \/ copy' = {}
      BY <2>3 DEF Next, SerialStep, ReadStep, CreateChannelReader, CloseChannelReader, Post, Run, AddChannelReader, RunJob,
         RemoveChannelReader, ActivateSlot, EnterReadEx, ReadDone, CopyMessage, Expire, Confirm, Advance, vars, readVars
    <3> QED
      BY <3>1
  <2> QED
    BY <2>1, <2>2, <2>3
<1>4. \A j \in 1 .. Len(reads') : c \notin reads'[j]
  BY ReadsMove DEF Moved
<1>5. \A j \in 1 .. Len(serial') : serial'[j].op = "read" => c \notin serial'[j].c
  BY JobsMove DEF Moved, NewJobs
<1> QED
  BY <1>1, <1>2, <1>3, <1>4, <1>5

LEMMA FreshStep ==
    ASSUME TypeOK, FreshInv, [Next]_vars
    PROVE  FreshInv'
<1> SUFFICES ASSUME NEW c \in ChannelReaders
             PROVE  /\ cstate'[c] = "none" => Untouched(c)'
                    /\ \A i \in 1 .. Len(serial') : serial'[i].op = "add" /\ c \in serial'[i].c =>
                          /\ cstate'[c] # "none" /\ Untouched(c)'
                          /\ \A j \in 1 .. Len(serial') : serial'[j].op = "add" /\ c \in serial'[j].c => i = j
  BY DEF FreshInv
<1>f. /\ cstate[c] = "none" => Untouched(c)
      /\ \A i \in 1 .. Len(serial) : serial[i].op = "add" /\ c \in serial[i].c =>
            /\ cstate[c] # "none" /\ Untouched(c)
            /\ \A j \in 1 .. Len(serial) : serial[j].op = "add" /\ c \in serial[j].c => i = j
  BY DEF FreshInv
<1>1. cstate'[c] = "none" => cstate[c] = "none"
  <2>1. CASE \E x \in ChannelReaders : CreateChannelReader(x) \/ CloseChannelReader(x)
    BY <2>1 DEF CreateChannelReader, CloseChannelReader, TypeOK
  <2>2. CASE ~\E x \in ChannelReaders : CreateChannelReader(x) \/ CloseChannelReader(x)
    <3>1. cstate' = cstate
      BY <2>2 DEF Next, SerialStep, ReadStep, Post, Run, AddChannelReader, RunJob, RemoveChannelReader, ActivateSlot,
         BeginReadRmp, EnterReadEx, ReadDone, CopyMessage, Expire, Confirm, Advance, Reads, vars, appVars
    <3> QED
      BY <3>1
  <2> QED
    BY <2>1, <2>2
<1>2. AddChannelReader /\ c \in Head(serial).c =>
          /\ cstate[c] # "none" /\ 1 \in 1 .. Len(serial)
          /\ serial[1].op = "add" /\ c \in serial[1].c
  <2> SUFFICES ASSUME AddChannelReader, c \in Head(serial).c
               PROVE  /\ cstate[c] # "none" /\ 1 \in 1 .. Len(serial)
                      /\ serial[1].op = "add" /\ c \in serial[1].c
    OBVIOUS
  <2>1. serial # <<>> /\ Head(serial).op = "add"
    BY DEF AddChannelReader, NextJob
  <2>2. 1 \in 1 .. Len(serial) /\ serial[1].op = "add" /\ c \in serial[1].c
    BY <2>1, FirstJob
  <2> QED
    BY <1>f, <2>2
<1>3. cstate[c] = "none" => Untouched(c)'
  BY <1>f, <1>2, UntouchedStep
<1>4. PICK d \in {0, 1} : \A i \in 1 .. Len(serial') :
          \/ i + d \in 1 .. Len(serial) /\ serial'[i] = serial[i + d]
          \/ i = Len(serial') /\ serial'[i] \in NewJobs
  BY JobsMove DEF Moved
<1>5. ASSUME NEW i \in 1 .. Len(serial'), serial'[i].op = "add", c \in serial'[i].c,
             i + d \in 1 .. Len(serial), serial'[i] = serial[i + d]
      PROVE  cstate[c] # "none" /\ Untouched(c)'
  <2>1. cstate[c] # "none" /\ Untouched(c)
    BY <1>f, <1>5
  <2>2. ASSUME AddChannelReader PROVE c \notin Head(serial).c
    <3> SUFFICES ASSUME c \in Head(serial).c PROVE FALSE
      OBVIOUS
    <3>1. serial # <<>> /\ serial' = Tail(serial) /\ serial \in Seq(Jobs)
      BY <2>2 DEF AddChannelReader, NextJob, TypeOK
    <3>2. i + 1 \in 1 .. Len(serial) /\ serial[i + 1] = serial'[i] /\ i + 1 # 1
      BY <3>1
    <3>3. i + 1 = 1
      BY <1>2, <1>5, <1>f, <2>2, <3>2
    <3> QED
      BY <3>2, <3>3
  <2> QED
    BY <2>1, <2>2, UntouchedStep
<1>6. ASSUME NEW i \in 1 .. Len(serial'), serial'[i].op = "add", c \in serial'[i].c, serial'[i] \in NewJobs
      PROVE  cstate[c] = "none" /\ cstate'[c] # "none"
  BY <1>6 DEF NewJobs
<1>7. ASSUME NEW i \in 1 .. Len(serial'), serial'[i].op = "add", c \in serial'[i].c
      PROVE  /\ cstate'[c] # "none" /\ Untouched(c)'
             /\ \A j \in 1 .. Len(serial') : serial'[j].op = "add" /\ c \in serial'[j].c => i = j
  <2>1. cstate'[c] # "none" /\ Untouched(c)'
    BY <1>1, <1>3, <1>4, <1>5, <1>6, <1>7
  <2>2. ASSUME NEW j \in 1 .. Len(serial'), serial'[j].op = "add", c \in serial'[j].c
        PROVE  i = j
    <3>1. CASE cstate[c] = "none"
      BY <1>4, <1>5, <1>7, <2>2, <3>1
    <3>2. CASE cstate[c] # "none"
      <4>1. /\ i + d \in 1 .. Len(serial) /\ serial'[i] = serial[i + d]
            /\ j + d \in 1 .. Len(serial) /\ serial'[j] = serial[j + d]
        BY <1>4, <1>6, <1>7, <2>2, <3>2
      <4>2. i + d = j + d
        BY <1>f, <1>7, <2>2, <4>1
      <4> QED
        BY <4>2
    <3> QED
      BY <3>1, <3>2
  <2> QED
    BY <2>1, <2>2
<1> QED
  BY <1>1, <1>3, <1>7

------------------------------------------------------------------------------
(* The queues hold what their jobs rely on.                                *)

(* Nobody who was closed is opened again. *)
LEMMA ClosedStays ==
    ASSUME TypeOK, [Next]_vars
    PROVE  /\ UNCHANGED <<oneQueue, liveList>>
           /\ SomeClosed => SomeClosed'
           /\ Calm' => Calm
<1>1. UNCHANGED <<oneQueue, liveList>>
  BY DEF Next, SerialStep, ReadStep, CreateChannelReader, CloseChannelReader, Post, Run, AddChannelReader, RunJob,
     RemoveChannelReader, ActivateSlot, BeginReadRmp, EnterReadEx, ReadDone, CopyMessage, Expire, Confirm, Advance,
     Reads, vars, jobVars
<1>2. \A c \in ChannelReaders : cstate[c] = "closed" => cstate'[c] = "closed"
  <2>1. CASE \E x \in ChannelReaders : CreateChannelReader(x) \/ CloseChannelReader(x)
    BY <2>1 DEF CreateChannelReader, CloseChannelReader, TypeOK
  <2>2. CASE ~\E x \in ChannelReaders : CreateChannelReader(x) \/ CloseChannelReader(x)
    <3>1. cstate' = cstate
      BY <2>2 DEF Next, SerialStep, ReadStep, Post, Run, AddChannelReader, RunJob, RemoveChannelReader, ActivateSlot,
         BeginReadRmp, EnterReadEx, ReadDone, CopyMessage, Expire, Confirm, Advance, Reads, vars, appVars
    <3> QED
      BY <3>1
  <2> QED
    BY <2>1, <2>2
<1> QED
  BY <1>1, <1>2 DEF SomeClosed, Calm

(* The list is emptied by a job of somebody who was closed. *)
LEMMA QueueStep ==
    ASSUME TypeOK, QueueInv, [Next]_vars
    PROVE  QueueInv'
<1>1. UNCHANGED <<oneQueue, liveList>> /\ (SomeClosed => SomeClosed')
  BY ClosedStays
<1>2. oneQueue => reads' = <<>>
  BY ReadsMove DEF QueueInv
<1>3. crs' = {} => crs = {} \/ SomeClosed
  <2>1. CASE RemoveChannelReader
    <3>1. serial # <<>> /\ Head(serial).op = "remove"
      BY <2>1 DEF RemoveChannelReader, NextJob
    <3>2. SomeClosed
      BY <3>1, FirstJob DEF QueueInv
    <3> QED
      BY <3>2
  <2>2. CASE ~RemoveChannelReader
    <3>1. crs \subseteq crs'
      BY <2>2 DEF Next, SerialStep, ReadStep, CreateChannelReader, CloseChannelReader, Post, Run, AddChannelReader, RunJob,
         ActivateSlot, BeginReadRmp, EnterReadEx, ReadDone, CopyMessage, Expire, Confirm, Advance, Reads, vars
    <3> QED
      BY <3>1
  <2> QED
    BY <2>1, <2>2
<1>4. ASSUME NEW i \in 1 .. Len(serial')
      PROVE  /\ serial'[i].op = "read" => oneQueue
             /\ serial'[i].op = "remove" => SomeClosed'
             /\ serial'[i].op = "read" /\ crs' = {} => SomeClosed'
  <2>1. CASE \E k \in 1 .. Len(serial) : serial'[i] = serial[k]
    BY <1>1, <1>3, <2>1 DEF QueueInv
  <2>2. CASE serial'[i] \in NewJobs
    BY <2>2 DEF NewJobs
  <2> QED
    BY <2>1, <2>2, JobsMove DEF Moved
<1> QED
  BY <1>1, <1>2, <1>4 DEF QueueInv

------------------------------------------------------------------------------
(* The copies.                                                             *)

(* Who joins the list is in no copy. *)
LEMMA Joins ==
    ASSUME TypeOK, FreshInv, [Next]_vars, NEW c \in crs'
    PROVE  c \in crs \/ Untouched(c)
<1>1. CASE AddChannelReader
  <2>1. serial # <<>> /\ Head(serial).op = "add" /\ crs' = crs \cup Head(serial).c
    BY <1>1 DEF AddChannelReader, NextJob
  <2>2. c \in Head(serial).c => c \in ChannelReaders /\ Untouched(c)
    BY <2>1, FirstJob DEF FreshInv
  <2> QED
    BY <2>1, <2>2
<1>2. CASE ~AddChannelReader
  <2>1. crs' \subseteq crs
    BY <1>2 DEF Next, SerialStep, ReadStep, CreateChannelReader, CloseChannelReader, Post, Run, RunJob, RemoveChannelReader,
       ActivateSlot, BeginReadRmp, EnterReadEx, ReadDone, CopyMessage, Expire, Confirm, Advance, Reads, vars
  <2> QED
    BY <2>1
<1> QED
  BY <1>1, <1>2

(* What neither takes a copy nor calls a handler. *)
LEMMA CopiesKept ==
    ASSUME TypeOK, FreshInv, QueueInv, CopiesInv, ~liveList, [Next]_vars, ~BeginReadRmp, ~Confirm
    PROVE  CopiesInv'
<1>1. got' = got /\ (Reading' => Reading /\ copy' = copy)
  BY DEF Next, SerialStep, ReadStep, CreateChannelReader, CloseChannelReader, Post, Run, AddChannelReader, RunJob,
     RemoveChannelReader, ActivateSlot, EnterReadEx, ReadDone, CopyMessage, Expire, Advance, Reads, vars, readVars,
     histVars, Reading
<1>2. \A c \in crs' : c \in crs \/ Untouched(c)
  BY Joins
<1>3. PICK d \in {0, 1} : \A i \in 1 .. Len(serial') :
          \/ i + d \in 1 .. Len(serial) /\ serial'[i] = serial[i + d]
          \/ i = Len(serial') /\ serial'[i] \in NewJobs
  BY JobsMove DEF Moved
<1>4. PICK e \in {0, 1} : \A i \in 1 .. Len(reads') :
          \/ i + e \in 1 .. Len(reads) /\ reads'[i] = reads[i + e]
          \/ i = Len(reads') /\ reads'[i] = crs
  BY ReadsMove DEF Moved
<1>5. \A j \in NewJobs : j.op = "read" => j.c = crs /\ crs' = crs
  BY DEF NewJobs
<1>6. ASSUME NEW i \in 1 .. Len(serial'), NEW j \in 1 .. Len(serial'), i < j,
             serial'[i].op = "read", serial'[j].op = "read"
      PROVE  serial'[i].c \cap crs' \subseteq serial'[j].c
  <2>1. i + d \in 1 .. Len(serial) /\ serial'[i] = serial[i + d]
    BY <1>3, <1>6
  <2>2. CASE j + d \in 1 .. Len(serial) /\ serial'[j] = serial[j + d]
    <3>1. i + d < j + d
      BY <1>6
    <3>2. serial[i + d].c \cap crs \subseteq serial[j + d].c
      BY <1>6, <2>1, <2>2, <3>1 DEF CopiesInv
    <3> QED
      BY <1>2, <1>6, <2>1, <2>2, <3>2 DEF Untouched
  <2>3. CASE serial'[j] \in NewJobs
    BY <1>5, <1>6, <2>3
  <2> QED
    BY <1>3, <2>2, <2>3
<1>7. ASSUME NEW i \in 1 .. Len(reads'), NEW j \in 1 .. Len(reads'), i < j
      PROVE  reads'[i] \cap crs' \subseteq reads'[j]
  <2>1. i + e \in 1 .. Len(reads) /\ reads'[i] = reads[i + e]
    BY <1>4, <1>7
  <2>2. CASE j + e \in 1 .. Len(reads) /\ reads'[j] = reads[j + e]
    <3>1. i + e < j + e
      BY <1>7
    <3>2. reads[i + e] \cap crs \subseteq reads[j + e]
      BY <2>1, <2>2, <3>1 DEF CopiesInv
    <3> QED
      BY <1>2, <2>1, <2>2, <3>2 DEF Untouched
  <2>3. CASE reads'[j] = crs
    BY <1>2, <2>1, <2>3 DEF Untouched
  <2> QED
    BY <1>4, <2>2, <2>3
<1>8. ASSUME Reading'
      PROVE  /\ \A j \in 1 .. Len(serial') : serial'[j].op = "read" => copy' \cap crs' \subseteq serial'[j].c
             /\ \A j \in 1 .. Len(reads') : copy' \cap crs' \subseteq reads'[j]
  <2>1. Reading /\ copy' = copy /\ copy' \cap crs' \subseteq copy \cap crs
    BY <1>1, <1>2, <1>8 DEF Untouched
  <2>2. \A j \in 1 .. Len(serial) : serial[j].op = "read" => copy \cap crs \subseteq serial[j].c
    BY <2>1 DEF CopiesInv
  <2>3. \A j \in 1 .. Len(reads) : copy \cap crs \subseteq reads[j]
    BY <2>1 DEF CopiesInv
  <2>4. \A j \in 1 .. Len(serial') : serial'[j].op = "read" => copy' \cap crs' \subseteq serial'[j].c
    BY <1>3, <1>5, <2>1, <2>2
  <2>5. \A j \in 1 .. Len(reads') : copy' \cap crs' \subseteq reads'[j]
    BY <1>4, <2>1, <2>3
  <2> QED
    BY <2>4, <2>5
<1>9. ASSUME NEW c \in crs', got'[c] # <<>>
      PROVE  /\ \A j \in 1 .. Len(serial') : serial'[j].op = "read" => c \in serial'[j].c
             /\ \A j \in 1 .. Len(reads') : c \in reads'[j]
             /\ Reading' => c \in copy'
  <2>1. c \in crs /\ got[c] # <<>>
    BY <1>1, <1>2, <1>9 DEF Untouched
  <2>2. /\ \A j \in 1 .. Len(serial) : serial[j].op = "read" => c \in serial[j].c
        /\ \A j \in 1 .. Len(reads) : c \in reads[j]
        /\ Reading => c \in copy
    BY <2>1 DEF CopiesInv
  <2>3. \A j \in 1 .. Len(serial') : serial'[j].op = "read" => c \in serial'[j].c
    BY <1>3, <1>5, <2>1, <2>2
  <2>4. \A j \in 1 .. Len(reads') : c \in reads'[j]
    BY <1>4, <2>1, <2>2
  <2> QED
    BY <1>1, <2>2, <2>3, <2>4
<1> QED
  BY <1>6, <1>7, <1>8, <1>9 DEF CopiesInv

(* ReadRmp begins with the copy made first. *)
LEMMA CopiesBegin ==
    ASSUME TypeOK, QueueInv, CopiesInv, ~liveList, BeginReadRmp
    PROVE  CopiesInv'
<1>1. crs' = crs /\ got' = got
  BY DEF BeginReadRmp, Reads
<1>2. CASE oneQueue
  <2>1. serial # <<>> /\ Head(serial).op = "read" /\ serial' = Tail(serial) /\ reads' = reads /\ reads = <<>>
    BY <1>2 DEF BeginReadRmp, NextJob, QueueInv
  <2>2. serial \in Seq(Jobs)
    BY DEF TypeOK
  <2>3. \A i \in 1 .. Len(serial') : i + 1 \in 1 .. Len(serial) /\ serial'[i] = serial[i + 1] /\ 1 < i + 1
    BY <2>1, <2>2
  <2>4. 1 \in 1 .. Len(serial) /\ serial[1].op = "read" /\ (Reading' => copy' = serial[1].c)
    BY <1>2, <2>1, FirstJob DEF BeginReadRmp, Reads, Reading
  <2>5. ASSUME NEW i \in 1 .. Len(serial'), NEW j \in 1 .. Len(serial'), i < j,
               serial'[i].op = "read", serial'[j].op = "read"
        PROVE  serial'[i].c \cap crs' \subseteq serial'[j].c
    <3>1. i + 1 < j + 1
      BY <2>5
    <3> QED
      BY <1>1, <2>3, <2>5, <3>1 DEF CopiesInv
  <2>6. \A i, j \in 1 .. Len(reads') : i < j => reads'[i] \cap crs' \subseteq reads'[j]
    BY <1>1, <2>1 DEF CopiesInv
  <2>7. Reading' => \A j \in 1 .. Len(serial') : serial'[j].op = "read" => copy' \cap crs' \subseteq serial'[j].c
    BY <1>1, <2>3, <2>4 DEF CopiesInv
  <2>8. \A j \in 1 .. Len(reads') : copy' \cap crs' \subseteq reads'[j]
    BY <2>1
  <2>9. \A c \in crs' : got'[c] # <<>> =>
            /\ \A j \in 1 .. Len(serial') : serial'[j].op = "read" => c \in serial'[j].c
            /\ \A j \in 1 .. Len(reads') : c \in reads'[j]
            /\ Reading' => c \in copy'
    BY <1>1, <2>1, <2>3, <2>4 DEF CopiesInv
  <2> QED
    BY <2>5, <2>6, <2>7, <2>8, <2>9 DEF CopiesInv
<1>3. CASE ~oneQueue
  <2>1. reads # <<>> /\ reads' = Tail(reads) /\ serial' = serial
    BY <1>3 DEF BeginReadRmp
  <2>2. reads \in Seq(ReaderLists)
    BY DEF TypeOK
  <2>3. \A i \in 1 .. Len(reads') : i + 1 \in 1 .. Len(reads) /\ reads'[i] = reads[i + 1] /\ 1 < i + 1
    BY <2>1, <2>2
  <2>4. 1 \in 1 .. Len(reads) /\ (Reading' => copy' = reads[1])
    BY <1>3, <2>1, FirstRead DEF BeginReadRmp, Reads, Reading
  <2>5. \A j \in 1 .. Len(serial') : serial'[j].op # "read"
    BY <1>3, <2>1 DEF QueueInv
  <2>6. ASSUME NEW i \in 1 .. Len(reads'), NEW j \in 1 .. Len(reads'), i < j
        PROVE  reads'[i] \cap crs' \subseteq reads'[j]
    <3>1. i + 1 < j + 1
      BY <2>6
    <3> QED
      BY <1>1, <2>3, <3>1 DEF CopiesInv
  <2>7. Reading' => \A j \in 1 .. Len(reads') : copy' \cap crs' \subseteq reads'[j]
    BY <1>1, <2>3, <2>4 DEF CopiesInv
  <2>8. \A c \in crs' : got'[c] # <<>> => (\A j \in 1 .. Len(reads') : c \in reads'[j]) /\ (Reading' => c \in copy')
    BY <1>1, <2>3, <2>4 DEF CopiesInv
  <2> QED
    BY <2>5, <2>6, <2>7, <2>8 DEF CopiesInv
<1> QED
  BY <1>2, <1>3

(* Whom it calls, the copies that follow hold too. *)
LEMMA CopiesConfirm ==
    ASSUME TypeOK, CopiesInv, ~liveList, Confirm
    PROVE  CopiesInv'
<1>1. UNCHANGED <<serial, reads, crs, copy>> /\ Reading /\ Reading'
  BY DEF Confirm, Reads, jobVars, Reading
<1>2. \A c \in crs : got'[c] # <<>> => got[c] # <<>> \/ c \in copy
  BY DEF Confirm, Given, TypeOK
<1>3. \A c \in copy \cap crs :
          /\ \A j \in 1 .. Len(serial) : serial[j].op = "read" => c \in serial[j].c
          /\ \A j \in 1 .. Len(reads) : c \in reads[j]
  BY <1>1 DEF CopiesInv
<1> QED
  BY <1>1, <1>2, <1>3 DEF CopiesInv

LEMMA CopiesStep ==
    ASSUME TypeOK, FreshInv, QueueInv, ~liveList => CopiesInv, [Next]_vars
    PROVE  ~liveList' => CopiesInv'
BY CopiesKept, CopiesBegin, CopiesConfirm, ClosedStays

------------------------------------------------------------------------------
(* While it is calm.                                                       *)

LEMMA CalmStep ==
    ASSUME TypeOK, ListInv, QueueInv, CalmInv, [Next]_vars
    PROVE  CalmInv'
<1> USE DEF CalmInv
<1>c. (Calm' => Calm) /\ oneQueue' = oneQueue
  BY ClosedStays
<1>n. end \in Nat /\ rpos \in Nat
  BY DEF TypeOK
<1>1. CASE \E c \in ChannelReaders : CreateChannelReader(c) \/ CloseChannelReader(c)
  <2>1. UNCHANGED <<end, spc, rpc, active, rpos>>
    BY <1>1 DEF CreateChannelReader, CloseChannelReader, readVars, slotVars
  <2> QED
    BY <1>c, <2>1 DEF Reading
<1>2. CASE Post
  <2>1. UNCHANGED <<spc, rpc, active, rpos>> /\ end' = end + 1
    BY <1>2 DEF Post, readVars, slotVars
  <2> QED
    BY <1>c, <1>n, <2>1 DEF Reading
<1>3. CASE Run \/ RunJob \/ UNCHANGED vars
  <2>1. UNCHANGED <<end, spc, rpc, active, rpos>>
    BY <1>3 DEF Run, RunJob, vars, readVars, slotVars
  <2> QED
    BY <1>c, <2>1 DEF Reading
<1>4. CASE AddChannelReader
  <2>1. /\ spc = "idle" /\ (active <=> crs # {}) /\ (oneQueue => rpc = "idle")
        /\ UNCHANGED <<end, rpc, active>>
    BY <1>4 DEF AddChannelReader, NextJob, SerialIdle, ListInv, readVars
  <2>2. CASE crs = {}
    <3>1. spc' = "activate" /\ rpos' = end /\ ~active
      BY <1>4, <2>1, <2>2 DEF AddChannelReader
    <3> QED
      BY <1>c, <1>n, <2>1, <3>1 DEF Reading
  <2>3. CASE crs # {}
    <3>1. spc' = spc /\ rpos' = rpos
      BY <1>4, <2>3 DEF AddChannelReader
    <3> QED
      BY <1>c, <2>1, <3>1 DEF Reading
  <2> QED
    BY <2>2, <2>3
<1>5. CASE ActivateSlot
  <2>1. spc = "activate" /\ spc' = "idle" /\ UNCHANGED <<end, rpc, rpos>>
    BY <1>5 DEF ActivateSlot, readVars
  <2> QED
    BY <1>c, <2>1 DEF Reading
<1>6. CASE RemoveChannelReader
  <2>1. /\ spc = "idle" /\ (oneQueue => rpc = "idle") /\ UNCHANGED <<end, spc, rpc, rpos>>
    BY <1>6 DEF RemoveChannelReader, NextJob, SerialIdle, readVars
  <2>2. SomeClosed
    <3>1. serial # <<>> /\ Head(serial).op = "remove"
      BY <1>6 DEF RemoveChannelReader, NextJob
    <3> QED
      BY <3>1, FirstJob DEF QueueInv
  <2>3. ~Reading' \/ ~Calm'
    BY <1>c, <2>1, <2>2 DEF Calm, SomeClosed, Reading
  <2> QED
    BY <1>c, <2>1, <2>3 DEF Reading
<1>7. CASE ReadStep
  <2>1. UNCHANGED <<end, spc, active>>
    BY <1>7 DEF ReadStep, Reads, BeginReadRmp, EnterReadEx, ReadDone, CopyMessage, Expire, Confirm, Advance, slotVars
  <2>2. CASE BeginReadRmp
    <3>1. rpos' = rpos /\ rpc' \in {"aborted", "enter", "idle"} /\ (rpc' = "enter" => active)
      BY <2>2 DEF BeginReadRmp, Reads, slotVars
    <3>2. spc \in {"idle", "activate"}
      BY DEF TypeOK
    <3> QED
      BY <1>c, <2>1, <3>1, <3>2 DEF Reading
  <2>3. CASE EnterReadEx \/ ReadDone \/ Expire
    <3>1. rpos' = rpos /\ rpc' \in {"aborted", "loop", "idle"} /\ (rpc' = "loop" => Reading)
      BY <2>3 DEF EnterReadEx, ReadDone, Expire, Reads, slotVars, Reading
    <3> QED
      BY <1>c, <2>1, <3>1 DEF Reading
  <2>4. CASE CopyMessage \/ Confirm
    <3>1. rpos' = rpos /\ rpc' \in {"confirm", "advance"} /\ Reading /\ (Calm => rpos # end)
      BY <2>4, <1>n DEF CopyMessage, Confirm, Reads, slotVars, Reading
    <3> QED
      BY <1>c, <1>n, <2>1, <3>1 DEF Reading
  <2>5. CASE Advance
    <3>1. rpos' = rpos + 1 /\ rpc = "advance" /\ rpc' = "loop"
      BY <2>5 DEF Advance, Reads
    <3> QED
      BY <1>c, <1>n, <2>1, <3>1 DEF Reading
  <2> QED
    BY <1>7, <2>2, <2>3, <2>4, <2>5 DEF ReadStep
<1> QED
  BY <1>1, <1>2, <1>3, <1>4, <1>5, <1>6, <1>7 DEF Next, SerialStep

(* One more message for a handler. *)
LEMMA OneMore ==
    ASSUME NEW g \in Seq(Int), NEW n \in Nat, n > 0,
           \A i \in DOMAIN g : g[i] > 0 /\ (i > 1 => g[i] = g[i - 1] + 1),
           g # <<>> => g[Len(g)] = n - 1
    PROVE  /\ Append(g, n)[Len(Append(g, n))] = n
           /\ \A i \in DOMAIN Append(g, n) :
                  Append(g, n)[i] > 0 /\ (i > 1 => Append(g, n)[i] = Append(g, n)[i - 1] + 1)
<1> DEFINE h == Append(g, n)
<1>1. DOMAIN g = 1 .. Len(g) /\ Len(g) \in Nat /\ (Len(g) > 0 => g # <<>>)
  OBVIOUS
<1>2. /\ DOMAIN h = 1 .. Len(g) + 1 /\ Len(h) = Len(g) + 1
      /\ \A i \in 1 .. Len(g) : h[i] = g[i]
      /\ h[Len(g) + 1] = n
  OBVIOUS
<1> HIDE DEF h
<1>3. ASSUME NEW i \in 1 .. Len(g)
      PROVE  h[i] > 0 /\ (i > 1 => h[i] = h[i - 1] + 1)
  <2>1. g[i] > 0 /\ (i > 1 => g[i] = g[i - 1] + 1)
    BY <1>1
  <2>2. i > 1 => i - 1 \in 1 .. Len(g)
    BY <1>1
  <2> QED
    BY <1>2, <2>1, <2>2
<1>4. Len(g) + 1 > 1 => h[Len(g) + 1] = h[Len(g)] + 1
  BY <1>1, <1>2
<1>5. ASSUME NEW i \in DOMAIN h
      PROVE  h[i] > 0 /\ (i > 1 => h[i] = h[i - 1] + 1)
  <2>1. CASE i \in 1 .. Len(g)
    BY <1>3, <2>1
  <2>2. CASE i = Len(g) + 1
    <3>1. i - 1 = Len(g)
      BY <1>1, <2>2
    <3> QED
      BY <1>2, <1>4, <2>2, <3>1
  <2> QED
    BY <1>1, <1>2, <2>1, <2>2
<1> QED
  BY <1>2, <1>5 DEF h

(* The handlers of those in the list are called with the message after the *)
(* one they were called with last.                                         *)
LEMMA GapsStep ==
    ASSUME TypeOK, ListInv, QueueInv, FreshInv, ~liveList => CopiesInv, CalmInv, LastInv, NoGaps, [Next]_vars
    PROVE  LastInv' /\ NoGaps'
<1> SUFFICES ASSUME Calm', NEW c \in crs'
             PROVE  /\ got'[c] # <<>> => got'[c][Len(got'[c])] = IF rpc' = "advance" THEN rpos' + 1 ELSE rpos'
                    /\ \A i \in DOMAIN got'[c] : got'[c][i] > 0 /\ (i > 1 => got'[c][i] = got'[c][i - 1] + 1)
  BY DEF LastInv, NoGaps
<1>c. Calm
  BY ClosedStays
<1>u. c \in crs \/ got[c] = <<>>
  BY Joins DEF Untouched
<1>g. /\ got[c] # <<>> => got[c][Len(got[c])] = IF rpc = "advance" THEN rpos + 1 ELSE rpos
      /\ \A i \in DOMAIN got[c] : got[c][i] > 0 /\ (i > 1 => got[c][i] = got[c][i - 1] + 1)
  BY <1>c, <1>u DEF LastInv, NoGaps
<1>k. (rpc' = "advance" <=> rpc = "advance") /\ got' = got /\ (got[c] # <<>> => rpos' = rpos) =>
          /\ got'[c] # <<>> => got'[c][Len(got'[c])] = IF rpc' = "advance" THEN rpos' + 1 ELSE rpos'
          /\ \A i \in DOMAIN got'[c] : got'[c][i] > 0 /\ (i > 1 => got'[c][i] = got'[c][i - 1] + 1)
  BY <1>g
<1>1. CASE AddChannelReader
  <2>1. rpc' = rpc /\ got' = got /\ (crs # {} => rpos' = rpos)
    BY <1>1 DEF AddChannelReader, readVars
  <2>2. got[c] # <<>> => rpos' = rpos
    BY <1>u, <2>1
  <2> QED
    BY <1>k, <2>1, <2>2
<1>2. CASE Confirm
  <2>1. /\ rpc = "confirm" /\ rpc' = "advance" /\ rpos' = rpos /\ crs' = crs
        /\ got' = [x \in ChannelReaders |-> IF x \in Given THEN Append(got[x], IF rpos < end THEN rpos + 1 ELSE -1) ELSE got[x]]
    BY <1>2 DEF Confirm, Reads, slotVars
  <2>2. rpos < end /\ rpos \in Nat
    BY <1>c, <2>1 DEF CalmInv, TypeOK
  <2>3. c \in ChannelReaders /\ got[c] \in Seq(Int) /\ c \in crs
    <3>1. c \in ChannelReaders /\ c \in crs
      BY <2>1 DEF TypeOK
    <3>2. got[c] \in Seq(-1 .. MaxPosts)
      BY <3>1 DEF TypeOK
    <3>3. -1 .. MaxPosts \subseteq Int
      OBVIOUS
    <3>4. got[c] \in Seq(Int)
      BY <3>2, <3>3, SeqWider
    <3> QED
      BY <3>1, <3>4
  <2>4. CASE c \in Given
    <3> DEFINE n == rpos + 1
    <3>1. got'[c] = Append(got[c], n)
      BY <2>1, <2>2, <2>3, <2>4
    <3>2. n \in Nat /\ n > 0 /\ (got[c] # <<>> => got[c][Len(got[c])] = n - 1)
      BY <1>g, <2>1, <2>2
    <3>3. rpc' = "advance" /\ n = rpos' + 1
      BY <2>1
    <3> HIDE DEF n
    <3>4. /\ Append(got[c], n)[Len(Append(got[c], n))] = n
          /\ \A i \in DOMAIN Append(got[c], n) :
                 Append(got[c], n)[i] > 0 /\ (i > 1 => Append(got[c], n)[i] = Append(got[c], n)[i - 1] + 1)
      BY <1>g, <2>3, <3>2, OneMore
    <3> QED
      BY <3>1, <3>3, <3>4
  <2>5. CASE c \notin Given
    <3>1. got'[c] = got[c]
      BY <2>1, <2>3, <2>5
    <3>2. got[c] = <<>>
      BY <2>1, <2>3, <2>5 DEF Given, CopiesInv, Reading
    <3> QED
      BY <1>g, <3>1, <3>2
  <2> QED
    BY <2>4, <2>5
<1>3. CASE Advance
  <2>1. rpc = "advance" /\ rpc' = "loop" /\ rpos' = rpos + 1 /\ got' = got
    BY <1>3 DEF Advance, Reads
  <2> QED
    BY <1>g, <2>1
<1>4. CASE ~AddChannelReader /\ ~Confirm /\ ~Advance
  <2>1. got' = got /\ rpos' = rpos
    BY <1>4 DEF Next, SerialStep, ReadStep, CreateChannelReader, CloseChannelReader, Post, Run, RunJob, RemoveChannelReader,
       ActivateSlot, BeginReadRmp, EnterReadEx, ReadDone, CopyMessage, Expire, vars, histVars, slotVars
  <2>2. rpc' = "advance" <=> rpc = "advance"
    BY <1>4 DEF Next, SerialStep, ReadStep, CreateChannelReader, CloseChannelReader, Post, Run, RunJob, RemoveChannelReader,
       ActivateSlot, BeginReadRmp, EnterReadEx, ReadDone, CopyMessage, Expire, vars, readVars, Reads
  <2> QED
    BY <1>k, <2>1, <2>2
<1> QED
  BY <1>1, <1>2, <1>3, <1>4

(* The assertions. *)
LEMMA AssertStep ==
    ASSUME TypeOK, QueueInv, CalmInv, CalmAssertionsHold, [Next]_vars
    PROVE  CalmAssertionsHold'
<1> SUFFICES ASSUME Calm', liveList' => ~SomeClosed'
             PROVE  rpc' # "aborted"
  BY DEF CalmAssertionsHold, SomeClosed
<1>1. Calm /\ (liveList => ~SomeClosed)
  BY ClosedStays
<1>2. rpc # "aborted"
  BY <1>1 DEF CalmAssertionsHold, SomeClosed
<1>3. CASE EnterReadEx
  <2>1. active /\ rpos <= end
    BY <1>1, <1>3 DEF EnterReadEx, CalmInv, Reading
  <2> QED
    BY <1>3, <2>1 DEF EnterReadEx, Reads
<1>4. CASE BeginReadRmp
  <2>1. ~(liveList /\ crs = {})
    <3> SUFFICES ASSUME liveList, crs = {} PROVE FALSE
      OBVIOUS
    <3>1. serial # <<>> /\ Head(serial).op = "read"
      BY <1>4 DEF BeginReadRmp, NextJob, QueueInv
    <3>2. SomeClosed
      BY <3>1, FirstJob DEF QueueInv
    <3> QED
      BY <1>1, <3>2
  <2> QED
    BY <1>4, <2>1 DEF BeginReadRmp, Reads
<1>5. CASE ~EnterReadEx /\ ~BeginReadRmp
  <2>1. rpc' = rpc \/ rpc' \in {"idle", "loop", "confirm", "advance"}
    BY <1>5 DEF Next, SerialStep, ReadStep, CreateChannelReader, CloseChannelReader, Post, Run, RunJob, AddChannelReader,
       RemoveChannelReader, ActivateSlot, ReadDone, CopyMessage, Expire, Confirm, Advance, vars, readVars, Reads
  <2> QED
    BY <1>2, <2>1
<1> QED
  BY <1>3, <1>4, <1>5

------------------------------------------------------------------------------
(* Nobody listens yet. *)
LEMMA InvInit == Init => ReaderInv
<1> SUFFICES ASSUME Init PROVE ReaderInv
  OBVIOUS
<1>1. TypeOK /\ ListInv
  BY TypeInit, ListInit
<1>2. /\ serial = <<>> /\ reads = <<>> /\ crs = {} /\ copy = {} /\ spc = "idle" /\ rpc = "idle"
      /\ rpos = 0 /\ end = 0 /\ (liveList => oneQueue)
      /\ \A c \in ChannelReaders : cstate[c] = "none" /\ got[c] = <<>>
  BY DEF Init
<1>3. QueueInv
  BY <1>2 DEF QueueInv
<1>4. FreshInv
  <2>1. 1 .. Len(serial) = {} /\ 1 .. Len(reads) = {}
    BY <1>2
  <2>2. \A c \in ChannelReaders : Untouched(c)
    BY <1>2, <2>1 DEF Untouched
  <2> QED
    BY <2>1, <2>2 DEF FreshInv
<1>5. CopiesInv
  BY <1>2 DEF CopiesInv, Reading
<1>6. CalmInv /\ CalmAssertionsHold
  BY <1>2 DEF CalmInv, Reading, CalmAssertionsHold
<1>7. LastInv /\ NoGaps
  BY <1>2 DEF LastInv, NoGaps
<1> QED
  BY <1>1, <1>3, <1>4, <1>5, <1>6, <1>7 DEF ReaderInv

(* The step of the invariant. *)
LEMMA InvStep == ReaderInv /\ [Next]_vars => ReaderInv'
BY TypeStep, ListStep, QueueStep, FreshStep, CopiesStep, CalmStep, GapsStep, AssertStep DEF ReaderInv

(* The variables keep their types, and ReaderInv is an invariant.          *)
THEOREM Invariance == Spec => []ReaderInv
BY InvInit, InvStep, PTL DEF Spec

(* The jobs, the lists of channel readers and the locals keep their types, *)
(* whatever lists are copied (the class of the Java port: shared).         *)
THEOREM Typing == Spec => []TypeOK
<1>1. ReaderInv => TypeOK
  BY DEF ReaderInv
<1> QED
  BY <1>1, Invariance, PTL

(* The RMP reader is active, and the application has been told so, exactly *)
(* while there are channel readers, whatever is created and closed and     *)
(* whatever ReadRmp does meanwhile (AddChannelReader,                      *)
(* RemoveChannelReader): no slot blocks writers for nobody.                *)
THEOREM SlotFollowsList == Spec => []ActiveIffReaders
<1>1. ReaderInv => ActiveIffReaders
  BY DEF ReaderInv, ListInv, ActiveIffReaders
<1> QED
  BY <1>1, Invariance, PTL

(* The handler of a channel reader in the list is called with messages     *)
(* that follow one another, while activation and ReadRmp never run side by *)
(* side: however many Runs were asked for, whatever lists they were given  *)
(* and whoever came and went meanwhile (Run, ReadRmp).                     *)
THEOREM HandlersMissNothing == Spec => []NoGaps
<1>1. ReaderInv => NoGaps
  BY DEF ReaderInv
<1> QED
  BY <1>1, Invariance, PTL

(* And so long the assertions of ReadRmp and of ReadEx hold, that of the   *)
(* Java port as long as nobody was closed (readRmp).                       *)
THEOREM AssertionsOfReadRmp == Spec => []CalmAssertionsHold
<1>1. ReaderInv => CalmAssertionsHold
  BY DEF ReaderInv
<1> QED
  BY <1>1, Invariance, PTL
==============================================================================
