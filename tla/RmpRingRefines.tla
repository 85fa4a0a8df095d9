---------------------------- MODULE RmpRingRefines ----------------------------
(***************************************************************************)
(* The ring buffer implements the stream of RmpStream.                     *)
(***************************************************************************)
EXTENDS RmpRing, FiniteSets

Messages == {p \in Committed : frames[p].type = "MSG"}

(* The numbers of a set in ascending order: at place i is the one above    *)
(* i - 1 others.                                                           *)
Below(M, p) == {q \in M : q < p}
Place(M, i) == {p \in M : Cardinality(Below(M, p)) = i - 1}
Pick(S) == CHOOSE p \in S : TRUE
Ascending(M) == [i \in 1 .. Cardinality(M) |-> Pick(Place(M, i))]

JoiningPcs == {"loaded", "half", "active"}

ModeOf(r) ==
    IF rpc[r] \in JoiningPcs THEN "joining"
    ELSE IF Protected(r) THEN "in"
    ELSE IF rpc[r] \in Listed THEN "lost"
    ELSE "out"

(* A message is behind the reader once it was confirmed or declined.       *)
Behind(r) ==
    {p \in Messages : p < pos[r] \/ (p = pos[r] /\ rpc[r] = "advance")}

NextOf(r) == IF ModeOf(r) \in {"joining", "in"} THEN Cardinality(Behind(r)) ELSE 0

(* A message is known by its position; a torn one is none of them.         *)
Given(g) == [i \in DOMAIN g |-> IF g[i].intact THEN g[i].at ELSE -1]

GivenTo(r) == IF ModeOf(r) = "in" THEN Given(got[r]) ELSE <<>>

Stream == INSTANCE RmpStream WITH
    MayOverride <- "write" \in BpAnswers,
    log <- Ascending(Messages),
    mode <- [r \in Readers |-> ModeOf(r)],
    next <- [r \in Readers |-> NextOf(r)],
    delivered <- [r \in Readers |-> GivenTo(r)]

(* Every behaviour of writers and readers over the ring buffer is one of   *)
(* the stream: the same total order for all readers, each message once,    *)
(* whole and without a gap, for every reader that joined in time and that  *)
(* no handler chose to overtake (README: "totally ordered", "each message  *)
(* is received exactly once").                                             *)
ImplementsStream == Stream!Spec
==============================================================================
