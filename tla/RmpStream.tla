------------------------------- MODULE RmpStream -------------------------------
(***************************************************************************)
(* What RMP promises, without a ring buffer: one log that all writers      *)
(* extend and that every reader follows from where it joined, each message *)
(* once and in order.  A reader can lose the log in two ways only: writers *)
(* overtake it while it is joining, or a backpressure handler decides to   *)
(* write over it.                                                          *)
(***************************************************************************)
EXTENDS Naturals, Sequences

CONSTANTS
    Readers,
    MayOverride     \* some backpressure handler may decide to write anyhow

VARIABLES
    log,        \* the messages, in the order all readers see them
    mode,       \* "out", "joining", "in" or "lost"
    next,       \* how many messages of the log are behind the reader
    delivered   \* what it was given since it joined

vars == <<log, mode, next, delivered>>

Init ==
    /\ log = <<>>
    /\ mode = [r \in Readers |-> "out"]
    /\ next = [r \in Readers |-> 0]
    /\ delivered = [r \in Readers |-> <<>>]

(* The log gains one message at its end.                                   *)
Publish ==
    /\ Len(log') = Len(log) + 1
    /\ SubSeq(log', 1, Len(log)) = log
    /\ UNCHANGED <<mode, next, delivered>>

Join(r) ==
    /\ mode[r] = "out"
    /\ mode' = [mode EXCEPT ![r] = "joining"]
    /\ next' = [next EXCEPT ![r] = Len(log)]
    /\ UNCHANGED <<log, delivered>>

(* Writers take the position of the reader into account from now on ...    *)
Joined(r) ==
    /\ mode[r] = "joining"
    /\ mode' = [mode EXCEPT ![r] = "in"]
    /\ UNCHANGED <<log, next, delivered>>

(* ... or have already gone past it.                                       *)
Missed(r) ==
    /\ mode[r] = "joining"
    /\ mode' = [mode EXCEPT ![r] = "lost"]
    /\ next' = [next EXCEPT ![r] = 0]
    /\ UNCHANGED <<log, delivered>>

(* The next message, and no other, is given to the reader ...              *)
Deliver(r) ==
    /\ mode[r] = "in" /\ next[r] < Len(log)
    /\ next' = [next EXCEPT ![r] = @ + 1]
    /\ delivered' = [delivered EXCEPT ![r] = Append(@, log[next[r] + 1])]
    /\ UNCHANGED <<log, mode>>

(* ... or declined by it.                                                  *)
Decline(r) ==
    /\ mode[r] = "in" /\ next[r] < Len(log)
    /\ next' = [next EXCEPT ![r] = @ + 1]
    /\ UNCHANGED <<log, mode, delivered>>

Leave(r) ==
    /\ mode[r] # "out"
    /\ mode' = [mode EXCEPT ![r] = "out"]
    /\ next' = [next EXCEPT ![r] = 0]
    /\ delivered' = [delivered EXCEPT ![r] = <<>>]
    /\ UNCHANGED log

(* A handler lets a write overtake some readers.                           *)
Override ==
    /\ MayOverride
    /\ \E S \in SUBSET {r \in Readers : mode[r] = "in"} :
        /\ mode' = [r \in Readers |-> IF r \in S THEN "lost" ELSE mode[r]]
        /\ next' = [r \in Readers |-> IF r \in S THEN 0 ELSE next[r]]
        /\ delivered' = [r \in Readers |-> IF r \in S THEN <<>> ELSE delivered[r]]
    /\ UNCHANGED log

Next ==
    \/ Publish
    \/ Override
    \/ \E r \in Readers :
        Join(r) \/ Joined(r) \/ Missed(r) \/ Deliver(r) \/ Decline(r) \/ Leave(r)

Spec == Init /\ [][Next]_vars
==============================================================================
