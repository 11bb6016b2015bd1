-------------------------- MODULE EvidenceRunLock --------------------------
(***************************************************************************)
(* The lock file that serialises evidence-run invocations                  *)
(* (pipeline/evidence_run_ops.py, class EvidenceRunLock).                  *)
(*                                                                         *)
(* An invocation creates the file with O_CREAT|O_EXCL, then writes its run *)
(* id into it; leaving the context it reads the file back and unlinks it   *)
(* when the run id is its own.  The file has no expiry: an invocation that *)
(* dies leaves it behind until an operator deletes it.                     *)
(***************************************************************************)
CONSTANTS
    Procs,      \* invocations of the command, each used once
    RunIds,     \* run ids
    RunOf,      \* the run id of each invocation; several may share one
    NoProc,     \* "no invocation"
    Blank       \* content of a lock file whose payload was never written

ASSUME LockAssumption ==
    /\ RunOf \in [Procs -> RunIds]
    /\ NoProc \notin Procs
    /\ Blank \notin RunIds

VARIABLES
    lock,       \* the file: owner = NoProc when it does not exist
    lockPhase   \* where each invocation is in the lock's protocol

lockVars == <<lock, lockPhase>>

Phases == {"outside", "created", "held", "matched", "left", "crashed"}

NoLock == [owner |-> NoProc, run_id |-> Blank]

LockTypeOK ==
    /\ lock \in [owner : Procs \cup {NoProc}, run_id : RunIds \cup {Blank}]
    /\ lockPhase \in [Procs -> Phases]

LockExists == lock.owner # NoProc

(* Inside the with block, the first step of __exit__ included.             *)
Holding(p) == lockPhase[p] \in {"created", "held", "matched"}

LockInit ==
    /\ lock = NoLock
    /\ lockPhase = [p \in Procs |-> "outside"]

----------------------------------------------------------------------------
(* __enter__: os.open(O_CREAT | O_EXCL).                                   *)

CreateNotExclusive(p) ==    \* mutant: O_EXCL forgotten
    /\ lockPhase[p] = "outside"
    /\ lock' = [owner |-> p, run_id |-> Blank]
    /\ lockPhase' = [lockPhase EXCEPT ![p] = "created"]

Create(p) ==
    /\ lockPhase[p] = "outside"
    /\ ~LockExists
    /\ lock' = [owner |-> p, run_id |-> Blank]
    /\ lockPhase' = [lockPhase EXCEPT ![p] = "created"]

(* __enter__: os.write(fd, payload); the descriptor names p's own file.    *)

Stamp(p) ==
    /\ lockPhase[p] = "created"
    /\ lock' = IF lock.owner = p THEN [lock EXCEPT !.run_id = RunOf[p]] ELSE lock
    /\ lockPhase' = [lockPhase EXCEPT ![p] = "held"]

(* os.write raises: __enter__ propagates, __exit__ is never called and the *)
(* empty file stays.                                                       *)
StampFails(p) ==
    /\ lockPhase[p] = "created"
    /\ lockPhase' = [lockPhase EXCEPT ![p] = "left"]
    /\ UNCHANGED lock

(* __exit__: read the file; only a matching run id is unlinked.            *)
ReadBack(p) ==
    /\ lockPhase[p] = "held"
    /\ lockPhase' = [lockPhase EXCEPT ![p] =
                        IF lock.run_id = RunOf[p] THEN "matched" ELSE "left"]
    /\ UNCHANGED lock

(* __exit__: unlink whatever is at the path by now.                        *)
Unlink(p) ==
    /\ lockPhase[p] = "matched"
    /\ lock' = NoLock
    /\ lockPhase' = [lockPhase EXCEPT ![p] = "left"]

(* The process dies; the file system keeps the file.                       *)
Crash(p) ==
    /\ lockPhase[p] # "crashed"
    /\ lockPhase' = [lockPhase EXCEPT ![p] = "crashed"]
    /\ UNCHANGED lock

(* Environment: the operator deletes a lock whose owner is gone.           *)

RemoveStaleLock ==
    /\ LockExists
    /\ ~Holding(lock.owner)
    /\ lock' = NoLock
    /\ UNCHANGED lockPhase

LockStep(p) ==
    Create(p) \/ Stamp(p) \/ StampFails(p) \/ ReadBack(p) \/ Unlink(p) \/ Crash(p)

LockNext == RemoveStaleLock \/ \E p \in Procs : LockStep(p)

LockSpec == LockInit /\ [][LockNext]_lockVars

----------------------------------------------------------------------------
(* Two invocations are never inside the with block together, whatever      *)
(* crashes and clean-ups happen (O_EXCL in __enter__).                     *)
LockExclusive ==
    \A p, q \in Procs : Holding(p) /\ Holding(q) => p = q

(* A file on disk that belongs to a live holder is taken away by no one    *)
(* but that holder's __exit__: not by a loser, not by the clean-up.        *)
HeldLockReleasedByHolder ==
    [][\A p \in Procs :
          lock.owner = p /\ Holding(p) /\ lock'.owner # p
              => lockPhase[p] = "matched" /\ lockPhase'[p] = "left"]_lockVars

=============================================================================
