--------------------------- MODULE SerialWorkQueue ---------------------------
(***************************************************************************)
(* SerialWorkItemQueue: one thread that executes work items in the order   *)
(* they were enqueued, until it is told to stop.                           *)
(*                                                                         *)
(* Enqueue works under the mutex.  Stop stores _stop, then _stopPolicy,    *)
(* notifies and joins: the C++ class without the mutex, the Java class     *)
(* with its monitor held for the notification.  The thread holds the mutex *)
(* in MutexHeld; it gives it up, at once with going to sleep, in wait.     *)
(***************************************************************************)
EXTENDS Naturals, Sequences, SequencesExt

CONSTANTS
    Policies,   \* the policies callers stop with: IF_EMPTY, ALWAYS
    MaxItems,   \* bound: how many items are enqueued
    MayThrow,   \* whether a work item may throw
    StopLocks   \* whether Stop holds the mutex when it notifies: FALSE for the
                \* C++ class, TRUE for the Java one

ASSUME WorkQueueAssumption ==
    /\ Policies \subseteq {"IF_EMPTY", "ALWAYS"}
    /\ MaxItems \in Nat
    /\ MayThrow \in BOOLEAN
    /\ StopLocks \subseteq BOOLEAN

VARIABLES
    stopLocks,  \* the class this behaviour is of, one of StopLocks
    queue,      \* _workItemQueue; the n-th item enqueued is n
    stop,       \* _stop
    policy,     \* _stopPolicy, zero-initialized to IF_EMPTY
    pc,         \* control of the thread
    batch,      \* its queueCopy, what is left to execute of it
    spc,        \* control of the caller of Stop
    asked,      \* the policy it passes
    count,      \* items enqueued so far (history)
    before,     \* items enqueued when Stop was called (history)
    ran,        \* items executed, in order (history)
    dropped     \* items never executed because another one threw (history)

vars == <<stopLocks, queue, stop, policy, pc, batch, spc, asked, count, before, ran, dropped>>
threadVars == <<pc, batch, ran, dropped>>
stopVars == <<stopLocks, stop, policy, spc, asked, before>>

Init ==
    /\ stopLocks \in StopLocks
    /\ queue = <<>> /\ batch = <<>> /\ ran = <<>>
    /\ stop = FALSE /\ policy = "IF_EMPTY"
    /\ pc = "check" /\ spc = "none" /\ asked = "IF_EMPTY"
    /\ count = 0 /\ before = 0 /\ dropped = {}

MutexHeld == {"check", "toSleep", "stop?", "policy?", "swap"}

(* notify_one: wakes the thread if it sleeps, is lost otherwise.           *)
Notified == IF pc = "asleep" THEN "woken" ELSE pc

------------------------------------------------------------------------------
(* Mutant: Enqueue does not notify.                                        *)
EnqueueSilent ==
    /\ pc \notin MutexHeld
    /\ count < MaxItems
    /\ count' = count + 1
    /\ queue' = Append(queue, count + 1)
    /\ UNCHANGED <<threadVars, stopVars>>

(* Callers keep enqueueing, before and after Stop.                         *)
Enqueue ==
    /\ pc \notin MutexHeld
    /\ count < MaxItems
    /\ count' = count + 1
    /\ queue' = Append(queue, count + 1)
    /\ pc' = Notified
    /\ UNCHANGED <<batch, ran, dropped, stopVars>>

(* Stop, by one caller: a second one would join the same thread.           *)
CallStop ==
    /\ spc = "none"
    /\ spc' = "called"
    /\ asked' \in Policies
    /\ before' = count
    /\ UNCHANGED <<stopLocks, queue, stop, policy, count, threadVars>>

StoreStop ==
    /\ spc = "called"
    /\ stop' = TRUE
    /\ spc' = "stored"
    /\ UNCHANGED <<stopLocks, queue, policy, asked, count, before, threadVars>>

StorePolicy ==
    /\ spc = "stored"
    /\ policy' = asked
    /\ spc' = "notify"
    /\ UNCHANGED <<stopLocks, queue, stop, asked, count, before, threadVars>>

(* Mutant: the mutex is not taken.                                         *)
NotifyStopUnlocked ==
    /\ spc = "notify"
    /\ pc' = Notified
    /\ spc' = "join"
    /\ UNCHANGED <<stopLocks, queue, stop, policy, asked, count, before, batch, ran, dropped>>

NotifyStop ==
    /\ spc = "notify"
    /\ stopLocks => pc \notin MutexHeld
    /\ pc' = Notified
    /\ spc' = "join"
    /\ UNCHANGED <<stopLocks, queue, stop, policy, asked, count, before, batch, ran, dropped>>

Join ==
    /\ spc = "join" /\ pc = "done"
    /\ spc' = "returned"
    /\ UNCHANGED <<stopLocks, queue, stop, policy, asked, count, before, threadVars>>

------------------------------------------------------------------------------
(* Run.                                                                    *)

Go(k) == pc' = k /\ UNCHANGED <<queue, batch, ran, dropped, count, stopVars>>

(* The predicate of the wait is evaluated under the mutex ...              *)
CheckPredicate == pc = "check" /\ Go(IF queue # <<>> \/ stop THEN "stop?" ELSE "toSleep")

(* ... and the thread sleeps; a notification between the two is lost.      *)
Sleep == pc = "toSleep" /\ Go("asleep")

(* It wakes when notified, or spuriously, and takes the mutex back.        *)
Wake == pc \in {"woken", "asleep"} /\ Go("check")

TestStop == pc = "stop?" /\ Go(IF stop THEN "policy?" ELSE "swap")

(* Mutant: the policy is not looked at.                                    *)
TestPolicyIgnored == pc = "policy?" /\ Go("done")

TestPolicy ==
    /\ pc = "policy?"
    /\ Go(IF policy = "ALWAYS" \/ queue = <<>> THEN "done" ELSE "swap")

(* Mutant: the queue is copied, not swapped.                               *)
SwapCopies ==
    /\ pc = "swap"
    /\ batch' = queue
    /\ pc' = "run"
    /\ UNCHANGED <<queue, ran, dropped, count, stopVars>>

SwapQueue ==
    /\ pc = "swap"
    /\ batch' = queue
    /\ queue' = <<>>
    /\ pc' = "run"
    /\ UNCHANGED <<ran, dropped, count, stopVars>>

RunItem ==
    /\ pc = "run" /\ batch # <<>>
    /\ ran' = Append(ran, Head(batch))
    /\ batch' = Tail(batch)
    /\ UNCHANGED <<queue, pc, dropped, count, stopVars>>

(* An item throws an exception: the rest of the batch goes with it.  (What *)
(* is no Exception in Java ends the thread and is left out.)               *)
ItemThrows ==
    /\ MayThrow
    /\ pc = "run" /\ batch # <<>>
    /\ ran' = Append(ran, Head(batch))
    /\ dropped' = dropped \cup ToSet(Tail(batch))
    /\ batch' = <<>>
    /\ pc' = "check"
    /\ UNCHANGED <<queue, count, stopVars>>

BatchDone == pc = "run" /\ batch = <<>> /\ Go("check")

ThreadStep ==
    \/ CheckPredicate \/ Sleep \/ TestStop \/ TestPolicy
    \/ SwapQueue \/ RunItem \/ ItemThrows \/ BatchDone

StopStep == StoreStop \/ StorePolicy \/ NotifyStop \/ Join

Next == Enqueue \/ CallStop \/ StopStep \/ ThreadStep \/ Wake

Spec == Init /\ [][Next]_vars

(* The thread is scheduled, and a caller inside Stop is; a spurious wakeup *)
(* may come but nothing makes it come.                                     *)
Fairness ==
    /\ WF_vars(ThreadStep)
    /\ WF_vars(pc = "woken" /\ Wake)
    /\ WF_vars(StopStep)

FairSpec == Spec /\ Fairness

------------------------------------------------------------------------------
ThreadPcs == MutexHeld \cup {"asleep", "woken", "run", "done"}

(* Every variable keeps its type.                                          *)
TypeOK ==
    /\ queue \in Seq(1 .. MaxItems) /\ batch \in Seq(1 .. MaxItems) /\ ran \in Seq(1 .. MaxItems)
    /\ stop \in BOOLEAN /\ stopLocks \in BOOLEAN
    /\ policy \in {"IF_EMPTY", "ALWAYS"} /\ asked \in {"IF_EMPTY", "ALWAYS"}
    /\ pc \in ThreadPcs
    /\ spc \in {"none", "called", "stored", "notify", "join", "returned"}
    /\ count \in 0 .. MaxItems /\ before \in 0 .. MaxItems
    /\ dropped \subseteq 1 .. MaxItems

(* What was executed, the rest of the batch and the queue, end to end.     *)
Items == ran \o batch \o queue

(* "executes them serially, i.e. in the same order": these are the items   *)
(* in the order they were enqueued, each once, less those that went with a *)
(* throwing item (Run).                                                    *)
SerialOrder ==
    /\ \A i, j \in 1 .. Len(Items) : i < j => Items[i] < Items[j]
    /\ ToSet(Items) = (1 .. count) \ dropped

(* After Stop(IF_EMPTY) returned, everything enqueued before the call was  *)
(* executed or went with a throwing item, even if the thread saw _stop     *)
(* before _stopPolicy was stored ("wait for wq to drain" in the tests).    *)
StopDrains ==
    spc = "returned" /\ asked = "IF_EMPTY" =>
        \A i \in 1 .. before : i \in ToSet(ran) \cup dropped

(* Every item enqueued is taken up, unless the queue is stopped.           *)
ItemsTakenUp ==
    \A i \in 1 .. MaxItems :
        count = i ~> (i \in ToSet(ran) \cup dropped \/ spc # "none")

(* Where Stop notifies with the mutex held, it returns: the thread either  *)
(* has not evaluated its predicate yet, or sleeps and is woken.            *)
LockedStopReturns == stopLocks /\ spc = "called" ~> spc = "returned"

------------------------------------------------------------------------------
(* What the documentation says and the code does not do.                   *)

(* "Stop the thread processing the queue", "Blocks until the thread        *)
(* finishes": Stop returns, in the C++ class too.                          *)
StopReturns == spc = "called" ~> spc = "returned"
==============================================================================
