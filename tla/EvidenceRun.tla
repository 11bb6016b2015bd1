---------------------------- MODULE EvidenceRun ----------------------------
(***************************************************************************)
(* The evidence-run command (cli.py, _handle_evidence_run): several        *)
(* invocations on one operation root, each taking the lock, running the    *)
(* pipeline and the interpretation, and publishing its artifacts with the  *)
(* temp-file-and-rename writer of evidence_run_ops.py.                     *)
(*                                                                         *)
(* An artifact's content is reduced to its author and its verdict.  The    *)
(* lock file is module EvidenceRunLock; every step on it is one of that    *)
(* module's actions.                                                       *)
(***************************************************************************)
EXTENDS EvidenceRunLock, Sequences

CONSTANTS
    Reports,    \* values of --report-out; the daily script names the day
    ReportOf,   \* the value each invocation is given
    Unlocked,   \* invocations given --no-lock
    Faulty      \* invocations whose file writes may raise OSError

ASSUME RunAssumption ==
    /\ ReportOf \in [Procs -> Reports]
    /\ Unlocked \subseteq Procs /\ Faulty \subseteq Procs

VARIABLES
    pc,         \* control point of each invocation
    verdict,    \* what the invocation reports: status and reason in one
    todo,       \* artifact kinds still to write, in order
    staged,     \* the first of todo sits in its temp file, not yet renamed
    temp,       \* the temp file of every artifact path
    disk        \* the artifacts

runVars == <<pc, verdict, todo, staged, temp, disk>>
vars == <<lock, lockPhase, pc, verdict, todo, staged, temp, disk>>

----------------------------------------------------------------------------
(* Verdicts and artifacts                                                  *)

(* Status computed from the steps of a pipeline that returned.             *)
Completed == {"success", "blocked", "step_failed"}

FailedVerdicts ==
    {"step_failed", "llm_rejected", "lock_held", "error", "path_collision"}

Verdicts == Completed \cup FailedVerdicts \cup {"unknown"}

RunKinds == {"manifest", "marker"}
DayKinds == {"report", "json"}
LatestKinds == {"latest_report", "latest_json", "latest_manifest"}
Kinds == RunKinds \cup DayKinds \cup LatestKinds

(* Paths: the payload is named after the report, which all runs of one day *)
(* share, the manifest and the marker after the run id; there is one       *)
(* "latest" path for all runs.                                             *)
Paths == (RunKinds \X RunIds) \cup (DayKinds \X Reports) \cup (LatestKinds \X {"any"})
PathOf(p, kind) ==
    <<kind, IF kind \in LatestKinds THEN "any"
            ELSE IF kind \in DayKinds THEN ReportOf[p] ELSE RunOf[p]>>

Content == [by : Procs \cup {NoProc}, verdict : Verdicts]
Absent == [by |-> NoProc, verdict |-> "unknown"]
ContentOf(p) == [by |-> p, verdict |-> verdict[p]]

(* write_once: the payload and the manifest, each with its latest pointer, *)
(* and the failed marker when asked for.                                   *)
WriteOnce(v) ==
    <<"json", "latest_json", "manifest", "latest_manifest">>
        \o IF v \in FailedVerdicts THEN <<"marker">> ELSE <<>>

(* _write_evidence_run_payload_artifacts writes everything twice.          *)
PayloadWrites(v) == WriteOnce(v) \o WriteOnce(v)

(* The success path publishes the daily report first.                      *)

SuccessWritesReportLast(v) ==   \* mutant: payload announced before the report
    PayloadWrites(v) \o <<"report", "latest_report">>

SuccessWrites(v) == <<"report", "latest_report">> \o PayloadWrites(v)

----------------------------------------------------------------------------
TypeOK ==
    /\ LockTypeOK
    /\ pc \in [Procs -> {"start", "enter", "stamp", "pipeline", "interpret",
                         "publish", "leave", "report", "done", "crashed"}]
    /\ verdict \in [Procs -> Verdicts]
    /\ todo \in [Procs -> Seq(Kinds)]
    /\ staged \in [Procs -> BOOLEAN]
    /\ temp \in [Paths -> Content]
    /\ disk \in [Paths -> Content]

Init ==
    /\ LockInit
    /\ pc = [p \in Procs |-> "start"]
    /\ verdict = [p \in Procs |-> "unknown"]
    /\ todo = [p \in Procs |-> <<>>]
    /\ staged = [p \in Procs |-> FALSE]
    /\ temp = [f \in Paths |-> Absent]
    /\ disk = [f \in Paths |-> Absent]

Locked(p) == p \notin Unlocked
Goto(p, to) == pc' = [pc EXCEPT ![p] = to]
Says(p, v) == verdict' = [verdict EXCEPT ![p] = v]
Queue(p, writes) == todo' = [todo EXCEPT ![p] = writes]

----------------------------------------------------------------------------
(* Up to the lock                                                          *)

(* _validate_evidence_run_artifact_paths passes, or the configuration      *)
(* error is reported without writing anything.                             *)
Start(p) ==
    /\ pc[p] = "start"
    /\ \/ /\ Goto(p, IF Locked(p) THEN "enter" ELSE "pipeline")
          /\ UNCHANGED verdict
       \/ /\ Goto(p, "done")
          /\ Says(p, "path_collision")
    /\ UNCHANGED <<lock, lockPhase, todo, staged, temp, disk>>

Enter(p) ==
    /\ pc[p] = "enter"
    /\ Create(p)
    /\ Goto(p, "stamp")
    /\ UNCHANGED <<verdict, todo, staged, temp, disk>>

(* EvidenceRunLockError: the failure is written although another           *)
(* invocation holds the lock.                                              *)
Refused(p) ==
    /\ pc[p] = "enter"
    /\ LockExists
    /\ Says(p, "lock_held")
    /\ Queue(p, PayloadWrites("lock_held"))
    /\ Goto(p, "report")
    /\ UNCHANGED <<lock, lockPhase, staged, temp, disk>>

Stamped(p) ==
    /\ pc[p] = "stamp"
    /\ \/ /\ Stamp(p)
          /\ Goto(p, "pipeline")
          /\ UNCHANGED <<verdict, todo>>
       \/ /\ p \in Faulty
          /\ StampFails(p)
          /\ Says(p, "error")
          /\ Queue(p, PayloadWrites("error"))
          /\ Goto(p, "report")
    /\ UNCHANGED <<staged, temp, disk>>

----------------------------------------------------------------------------
(* Inside the with block                                                   *)

(* An exception leaves the with block first and is reported afterwards.    *)

RaiseWithoutExit(p) ==      \* mutant: the lock taken outside a with block
    /\ Says(p, "error")
    /\ Queue(p, PayloadWrites("error"))
    /\ staged' = [staged EXCEPT ![p] = FALSE]
    /\ Goto(p, "report")

Raise(p) ==
    /\ Says(p, "error")
    /\ Queue(p, PayloadWrites("error"))
    /\ staged' = [staged EXCEPT ![p] = FALSE]
    /\ Goto(p, IF Locked(p) THEN "leave" ELSE "report")

(* run_daily_evidence_pipeline                                             *)
RunPipeline(p) ==
    /\ pc[p] = "pipeline"
    /\ \/ \E v \in Completed :
            /\ Says(p, v)
            /\ Goto(p, "interpret")
            /\ UNCHANGED <<todo, staged>>
       \/ Raise(p)
    /\ UNCHANGED <<lock, lockPhase, temp, disk>>

(* The language model's interpretation: accepted, or rejected and          *)
(* finalised as a failure inside the with block, or the reports raise.     *)

InterpretOutsideLock(p) ==  \* mutant: artifacts written after the with block
    /\ pc[p] = "interpret"
    /\ Queue(p, SuccessWrites(verdict[p]))
    /\ Goto(p, IF Locked(p) THEN "leave" ELSE "report")
    /\ UNCHANGED <<lock, lockPhase, verdict, staged, temp, disk>>

Interpret(p) ==
    /\ pc[p] = "interpret"
    /\ \/ /\ Queue(p, SuccessWrites(verdict[p]))
          /\ Goto(p, "publish")
          /\ UNCHANGED <<verdict, staged>>
       \/ /\ Says(p, "llm_rejected")
          /\ Queue(p, PayloadWrites("llm_rejected"))
          /\ Goto(p, "publish")
          /\ UNCHANGED staged
       \/ Raise(p)
    /\ UNCHANGED <<lock, lockPhase, temp, disk>>

----------------------------------------------------------------------------
(* Writing artifacts: write_text_artifact                                  *)

Writing(p) == pc[p] \in {"publish", "report"} /\ todo[p] # <<>>
Target(p) == PathOf(p, Head(todo[p]))

(* Where control goes when nothing is left to write.                       *)
WritesDone(p) == Goto(p, IF pc[p] = "publish" /\ Locked(p) THEN "leave" ELSE "done")

(* _finalize_evidence_run_failure catches OSError and gives up; on the     *)
(* success path it is an exception like any other.                         *)
OSErrorIn(p) ==
    IF pc[p] = "report" \/ verdict[p] = "llm_rejected"
    THEN /\ Queue(p, <<>>)
         /\ staged' = [staged EXCEPT ![p] = FALSE]
         /\ WritesDone(p)
         /\ UNCHANGED verdict
    ELSE Raise(p)

(* temporary.write_text                                                    *)
Stage(p) ==
    /\ Writing(p)
    /\ ~staged[p]
    /\ \/ /\ temp' = [temp EXCEPT ![Target(p)] = ContentOf(p)]
          /\ staged' = [staged EXCEPT ![p] = TRUE]
          /\ UNCHANGED <<pc, verdict, todo>>
       \/ /\ p \in Faulty
          /\ OSErrorIn(p)
          /\ UNCHANGED temp
    /\ UNCHANGED <<lock, lockPhase, disk>>

(* os.replace: publishes whatever the temp path holds by now, and raises   *)
(* FileNotFoundError when another invocation renamed it away.              *)

ReplaceOrWait(p) ==         \* mutant: waits for a temp file that is gone
    /\ Writing(p)
    /\ staged[p]
    /\ temp[Target(p)] # Absent
    /\ disk' = [disk EXCEPT ![Target(p)] = temp[Target(p)]]
    /\ temp' = [temp EXCEPT ![Target(p)] = Absent]
    /\ staged' = [staged EXCEPT ![p] = FALSE]
    /\ Queue(p, Tail(todo[p]))
    /\ IF Tail(todo[p]) = <<>> THEN WritesDone(p) ELSE UNCHANGED pc
    /\ UNCHANGED <<lock, lockPhase, verdict>>

Replace(p) ==
    /\ Writing(p)
    /\ staged[p]
    /\ IF temp[Target(p)] # Absent
       THEN /\ disk' = [disk EXCEPT ![Target(p)] = temp[Target(p)]]
            /\ temp' = [temp EXCEPT ![Target(p)] = Absent]
            /\ staged' = [staged EXCEPT ![p] = FALSE]
            /\ Queue(p, Tail(todo[p]))
            /\ IF Tail(todo[p]) = <<>> THEN WritesDone(p) ELSE UNCHANGED pc
            /\ UNCHANGED verdict
       ELSE OSErrorIn(p) /\ UNCHANGED <<temp, disk>>
    /\ UNCHANGED <<lock, lockPhase>>

----------------------------------------------------------------------------
(* __exit__, then the pending failure if an exception is in flight.        *)
AfterLeave(p) == Goto(p, IF todo[p] = <<>> THEN "done" ELSE "report")

Leave(p) ==
    /\ pc[p] = "leave"
    /\ \/ /\ ReadBack(p)
          /\ IF lock.run_id = RunOf[p] THEN UNCHANGED pc ELSE AfterLeave(p)
       \/ Unlink(p) /\ AfterLeave(p)
    /\ UNCHANGED <<verdict, todo, staged, temp, disk>>

(* The process is killed anywhere in between.                              *)
Die(p) ==
    /\ pc[p] \notin {"start", "done", "crashed"}
    /\ Crash(p)
    /\ Goto(p, "crashed")
    /\ UNCHANGED <<verdict, todo, staged, temp, disk>>

OperatorCleanup == RemoveStaleLock /\ UNCHANGED runVars

Work(p) ==
    \/ Enter(p) \/ Refused(p) \/ Stamped(p) \/ RunPipeline(p)
    \/ Interpret(p) \/ Stage(p) \/ Replace(p) \/ Leave(p)

Next == OperatorCleanup \/ \E p \in Procs : Start(p) \/ Work(p) \/ Die(p)

Spec == Init /\ [][Next]_vars

(* The scheduler runs every live process; nothing makes a person delete a  *)
(* stale lock.                                                             *)
Fairness == \A p \in Procs : WF_vars(Work(p))

FairSpec == Spec /\ Fairness

----------------------------------------------------------------------------
(* Properties                                                              *)

InWithBlock(p) == Locked(p) /\ pc[p] \in {"stamp", "pipeline", "interpret", "publish", "leave"}

(* Two locked invocations never run the pipeline, the interpretation or    *)
(* the success path at once, so the SQLite and memory files have one       *)
(* writer among them (roadmap: different report directories still          *)
(* serialize against the same artifacts).                                  *)
PipelineExclusive ==
    \A p, q \in Procs : InWithBlock(p) /\ InWithBlock(q) => p = q

(* A payload, manifest or latest pointer that carries the verdict of a     *)
(* pipeline that returned never appears before the daily report it refers  *)
(* to is on disk, wherever a crash, a fault or a second invocation cuts    *)
(* the sequence of renames.                                                *)
ReportPrecedesVerdict ==
    \A f \in Paths :
        f[1] # "report" /\ disk[f].by # NoProc /\ disk[f].verdict \in Completed
            => disk[<<"report", ReportOf[disk[f].by]>>].by # NoProc

(* A pipeline's verdict is published only while its author is still inside *)
(* the with block (or was killed there), even when the rename that makes   *)
(* it visible is another invocation's, on the temp path they share.        *)
VerdictPublishedUnderLock ==
    [][\A f \in Paths :
          LET new == disk'[f] IN
          new # disk[f] /\ new.verdict \in Completed /\ Locked(new.by)
              => pc[new.by] \in {"publish", "crashed"}]_vars

(* Every invocation that started ends or is killed: a full cycle of        *)
(* contention, faults and failure reports never leaves one stuck.          *)
InvocationEnds ==
    \A p \in Procs : pc[p] = "enter" ~> pc[p] \in {"done", "crashed"}

(* An invocation that ends by itself takes its lock with it, whatever      *)
(* raised on the way and whoever else came and went: a lock that blocks    *)
(* later runs was left by a killed process, or by one whose payload could  *)
(* not be written (__enter__ raises after os.open, and __exit__ is never   *)
(* called).                                                                *)
EndedRunReleasesLock ==
    \A p \in Procs :
        pc[p] \in {"report", "done"} /\ lock.owner = p => lock.run_id = Blank

=============================================================================
