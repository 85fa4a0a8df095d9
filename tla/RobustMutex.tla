----------------------------- MODULE RobustMutex -----------------------------
(***************************************************************************)
(* RobustProcMutex: a process-shared robust pthread mutex that recovers by *)
(* itself after an owner that died.                                        *)
(*                                                                         *)
(* A mutex is a record, and a call is two steps of its caller: the pthread *)
(* function, which returns a code, and SetConsistent if the code is        *)
(* EOWNERDEAD.  In between the caller owns a mutex that is not consistent: *)
(* if it died there, the next caller would be told EOWNERDEAD again; if it *)
(* unlocked there, nobody could ever lock the mutex again.                 *)
(***************************************************************************)

(* A null owner. *)
Nobody == <<"nobody", 0>>

(* RobustProcMutex(): unlocked. *)
NewMutex == [owner |-> Nobody, consistent |-> TRUE, lost |-> FALSE]

Mutexes(Procs) == [owner : Procs \cup {Nobody}, consistent : BOOLEAN, lost : BOOLEAN]

(* What pthread_mutex_trylock returns; pthread_mutex_lock waits while it   *)
(* is EBUSY.  Dead is the set of processes that have exited.               *)
LockCode(m, Dead) ==
    CASE m.lost               -> "ENOTRECOVERABLE"
      [] m.owner = Nobody     -> "0"
      [] m.owner \in Dead     -> "EOWNERDEAD"
      [] OTHER                -> "EBUSY"

(* The mutex once p was given it with that code.                           *)
Taken(m, p, code) == [m EXCEPT !.owner = p, !.consistent = (code = "0")]

(* Mutant: EOWNERDEAD is taken for success, and nothing is made consistent. *)
AfterLockAsIs(code, k) == IF code \in {"0", "EOWNERDEAD"} THEN k ELSE "aborted"

(* Lock and TryLock: on to k when p has the mutex, to "consist" when it    *)
(* has still to be made consistent, to "aborted" on any other code.        *)
AfterLock(code, k) ==
    CASE code = "0"          -> k
      [] code = "EOWNERDEAD" -> "consist"
      [] OTHER               -> "aborted"

(* SetConsistent: pthread_mutex_consistent.                                *)
MadeConsistent(m) == [m EXCEPT !.consistent = TRUE]

(* pthread_mutex_unlock: of a mutex that is not consistent it is lost.     *)
Unlocked(m) == [m EXCEPT !.owner = Nobody, !.lost = ~m.consistent]
==============================================================================
