------------------------- MODULE EvidenceRunProofs -------------------------
(***************************************************************************)
(* Machine-checked facts about the evidence-run lock and the command that  *)
(* uses it, for every set of invocations and run ids.                      *)
(***************************************************************************)
EXTENDS EvidenceRun, SequenceTheorems, TLAPS

(* Why the file excludes: whoever is inside the with block owns the file,  *)
(* and once stamped the file carries its run id.                           *)
HolderOwnsLock ==
    \A p \in Procs :
        /\ Holding(p) => lock.owner = p
        /\ lockPhase[p] \in {"held", "matched"} => lock.run_id = RunOf[p]

LockInv == LockTypeOK /\ HolderOwnsLock

LEMMA LockInvInit == LockInit => LockInv
  BY LockAssumption DEF LockInit, LockInv, LockTypeOK, HolderOwnsLock, Holding, NoLock, Phases

LEMMA LockInvStep == LockInv /\ [LockNext]_lockVars => LockInv'
<1> SUFFICES ASSUME LockInv, [LockNext]_lockVars PROVE LockInv'
  OBVIOUS
<1> USE LockAssumption DEF LockInv, LockTypeOK, HolderOwnsLock, Holding, NoLock, Phases
<1>1. CASE UNCHANGED lockVars
  BY <1>1 DEF lockVars
<1>2. CASE RemoveStaleLock
  BY <1>2 DEF RemoveStaleLock, LockExists
<1>3. ASSUME NEW p \in Procs, Create(p) PROVE LockInv'
  BY <1>3 DEF Create, LockExists
<1>4. ASSUME NEW p \in Procs, Stamp(p) PROVE LockInv'
  BY <1>4 DEF Stamp
<1>5. ASSUME NEW p \in Procs, StampFails(p) PROVE LockInv'
  BY <1>5 DEF StampFails
<1>6. ASSUME NEW p \in Procs, ReadBack(p) PROVE LockInv'
  BY <1>6 DEF ReadBack
<1>7. ASSUME NEW p \in Procs, Unlink(p) PROVE LockInv'
  BY <1>7 DEF Unlink
<1>8. ASSUME NEW p \in Procs, Crash(p) PROVE LockInv'
  BY <1>8 DEF Crash
<1>9. QED
  BY <1>1, <1>2, <1>3, <1>4, <1>5, <1>6, <1>7, <1>8 DEF LockNext, LockStep

(* The lock protocol keeps its types and its ownership.                    *)
THEOREM LockInvariant == LockSpec => []LockInv
<1>1. QED
  BY LockInvInit, LockInvStep, PTL DEF LockSpec

(* At most one invocation is inside the with block, for any number of      *)
(* invocations, any sharing of run ids, crashes and clean-ups.             *)
THEOREM LockExclusion == LockSpec => []LockExclusive
<1>1. LockInv => LockExclusive
  BY LockAssumption DEF LockInv, HolderOwnsLock, LockExclusive
<1>2. QED
  BY <1>1, LockInvariant, PTL

(* A live holder's file disappears in one kind of step only: the unlink    *)
(* of its own __exit__.                                                    *)
THEOREM LockNotStolen == LockSpec => HeldLockReleasedByHolder
<1>1. ASSUME LockInv, [LockNext]_lockVars
      PROVE  [\A p \in Procs :
                 lock.owner = p /\ Holding(p) /\ lock'.owner # p
                     => lockPhase[p] = "matched" /\ lockPhase'[p] = "left"]_lockVars
  <2> SUFFICES ASSUME NEW p \in Procs, lock.owner = p, Holding(p), lock'.owner # p, LockNext
               PROVE  lockPhase[p] = "matched" /\ lockPhase'[p] = "left"
    BY <1>1 DEF lockVars
  <2> USE <1>1, LockAssumption DEF LockInv, LockTypeOK, HolderOwnsLock, Holding, NoLock, Phases
  <2>1. CASE RemoveStaleLock
    BY <2>1 DEF RemoveStaleLock
  <2>2. ASSUME NEW q \in Procs, LockStep(q)
        PROVE  lockPhase[p] = "matched" /\ lockPhase'[p] = "left"
    <3>1. CASE Create(q)
      BY <3>1 DEF Create, LockExists
    <3>2. CASE Stamp(q)
      BY <3>2 DEF Stamp
    <3>3. CASE StampFails(q) \/ ReadBack(q) \/ Crash(q)
      BY <3>3 DEF StampFails, ReadBack, Crash
    <3>4. CASE Unlink(q)
      BY <3>4 DEF Unlink
    <3>5. QED
      BY <2>2, <3>1, <3>2, <3>3, <3>4 DEF LockStep
  <2>3. QED
    BY <2>1, <2>2 DEF LockNext
<1>2. QED
  BY <1>1, LockInvariant, PTL DEF LockSpec, HeldLockReleasedByHolder

----------------------------------------------------------------------------
(* The command on top of the lock.                                         *)

(* What is queued for writing is a sequence of artifact kinds, and the     *)
(* success path starts with the daily report.                              *)
LEMMA WritesTyped ==
  ASSUME NEW v
  PROVE  /\ PayloadWrites(v) \in Seq(Kinds)
         /\ SuccessWrites(v) \in Seq(Kinds)
         /\ SuccessWrites(v) # <<>>
         /\ Head(SuccessWrites(v)) = "report"
<1> DEFINE once == <<"json", "latest_json", "manifest", "latest_manifest">>
<1>1. once \in Seq(Kinds) /\ <<"marker">> \in Seq(Kinds) /\ <<>> \in Seq(Kinds)
      /\ <<"report", "latest_report">> \in Seq(Kinds)
  BY DEF Kinds, RunKinds, DayKinds, LatestKinds
<1>2. WriteOnce(v) \in Seq(Kinds)
  <2>1. CASE v \in FailedVerdicts
    <3>1. WriteOnce(v) = once \o <<"marker">>
      BY <2>1 DEF WriteOnce
    <3>2. QED
      BY <1>1, <3>1, ConcatProperties
  <2>2. CASE v \notin FailedVerdicts
    <3>1. WriteOnce(v) = once \o <<>>
      BY <2>2 DEF WriteOnce
    <3>2. QED
      BY <1>1, <3>1, ConcatProperties
  <2>3. QED
    BY <2>1, <2>2
<1>3. PayloadWrites(v) \in Seq(Kinds)
  BY <1>2, ConcatProperties DEF PayloadWrites
<1>4. /\ SuccessWrites(v) \in Seq(Kinds)
      /\ Len(SuccessWrites(v)) = 2 + Len(PayloadWrites(v))
      /\ SuccessWrites(v)[1] = "report"
  <2> DEFINE first == <<"report", "latest_report">>
  <2>1. first \in Seq(Kinds) /\ Len(first) = 2 /\ first[1] = "report"
    BY <1>1
  <2>2. SuccessWrites(v) = first \o PayloadWrites(v)
    BY DEF SuccessWrites
  <2>3. Len(PayloadWrites(v)) \in Nat
    BY <1>3, LenProperties
  <2>4. /\ first \o PayloadWrites(v) \in Seq(Kinds)
        /\ Len(first \o PayloadWrites(v)) = Len(first) + Len(PayloadWrites(v))
        /\ (first \o PayloadWrites(v))[1] = first[1]
    <3> HIDE DEF first
    <3>1. 1 \in 1 .. Len(first) + Len(PayloadWrites(v)) /\ 1 <= Len(first)
      BY <2>1, <2>3
    <3>2. QED
      BY <1>3, <2>1, <3>1, ConcatProperties
  <2>5. QED
    BY <2>1, <2>2, <2>4
<1>5. Len(PayloadWrites(v)) \in Nat
  BY <1>3, LenProperties
<1>6. SuccessWrites(v) # <<>> /\ Head(SuccessWrites(v)) = SuccessWrites(v)[1]
  <2> DEFINE s == SuccessWrites(v)
  <2>1. s \in Seq(Kinds) /\ Len(s) # 0
    BY <1>4, <1>5
  <2> HIDE DEF s
  <2>2. s # <<>> /\ Head(s) = s[1]
    BY <2>1
  <2>3. QED
    BY <2>2 DEF s
<1>7. QED
  BY <1>3, <1>4, <1>6

LEMMA PathOfTyped ==
  ASSUME NEW p \in Procs, NEW k \in Kinds
  PROVE  PathOf(p, k) \in Paths
  BY LockAssumption, RunAssumption DEF PathOf, Paths, Kinds

(* Where each control point stands in the lock's protocol.                 *)
PcMatchesPhase ==
    \A p \in Procs :
        /\ pc[p] \in {"start", "enter"} => lockPhase[p] = "outside"
        /\ pc[p] = "enter" => Locked(p)
        /\ pc[p] = "stamp" => lockPhase[p] = "created" /\ Locked(p)
        /\ Locked(p) /\ pc[p] \in {"pipeline", "interpret", "publish"} => lockPhase[p] = "held"
        /\ pc[p] = "leave" => lockPhase[p] \in {"held", "matched"} /\ Locked(p)
        /\ pc[p] \in {"report", "done"} => lockPhase[p] \in {"outside", "left"}
        /\ ~Locked(p) /\ pc[p] # "crashed" => lockPhase[p] = "outside"

IInv == TypeOK /\ HolderOwnsLock /\ PcMatchesPhase

LEMMA IInvInit == Init => IInv
<1> SUFFICES ASSUME Init PROVE IInv
  OBVIOUS
<1>1. LockInv
  BY LockInvInit DEF Init
<1>2. <<>> \in Seq(Kinds) /\ Absent \in Content
  BY DEF Content, Absent, Verdicts
<1>3. TypeOK
  BY <1>1, <1>2 DEF Init, TypeOK, LockInv, Verdicts
<1>4. PcMatchesPhase
  BY DEF Init, LockInit, PcMatchesPhase
<1>5. QED
  BY <1>1, <1>3, <1>4 DEF IInv, LockInv

(* Every step of the command is a step of the lock's protocol or leaves    *)
(* the lock alone.                                                         *)
LEMMA StepIsLockStep == [Next]_vars => [LockNext]_lockVars
<1> SUFFICES ASSUME [Next]_vars PROVE LockNext \/ UNCHANGED lockVars
  BY DEF lockVars
<1>1. CASE UNCHANGED vars
  BY <1>1 DEF vars, lockVars
<1>2. CASE OperatorCleanup
  BY <1>2 DEF OperatorCleanup, LockNext
<1>3. ASSUME NEW p \in Procs, Start(p) \/ Refused(p) \/ RunPipeline(p) \/ Interpret(p)
                              \/ Stage(p) \/ Replace(p)
      PROVE  UNCHANGED lockVars
  BY <1>3 DEF Start, Refused, RunPipeline, Interpret, Stage, Replace, lockVars
<1>4. ASSUME NEW p \in Procs, Enter(p) \/ Stamped(p) \/ Leave(p) \/ Die(p)
      PROVE  LockNext
  BY <1>4 DEF Enter, Stamped, Leave, Die, LockNext, LockStep
<1>5. QED
  BY <1>1, <1>2, <1>3, <1>4 DEF Next, Work

(* What an exception or a swallowed OSError does to an invocation's own    *)
(* bookkeeping.                                                            *)
LEMMA RaiseTyped ==
  ASSUME TypeOK, NEW p \in Procs, Raise(p)
  PROVE  /\ pc' = [pc EXCEPT ![p] = IF Locked(p) THEN "leave" ELSE "report"]
         /\ verdict' \in [Procs -> Verdicts]
         /\ todo' \in [Procs -> Seq(Kinds)]
         /\ staged' \in [Procs -> BOOLEAN]
<1> "error" \in Verdicts
  BY DEF Verdicts, FailedVerdicts
<1>1. QED
  BY WritesTyped DEF TypeOK, Raise, Says, Queue, Goto

LEMMA OSErrorTyped ==
  ASSUME TypeOK, NEW p \in Procs, OSErrorIn(p)
  PROVE  /\ \E to \in {"leave", "report", "done"} :
               pc' = [pc EXCEPT ![p] = to]
         /\ verdict' \in [Procs -> Verdicts]
         /\ todo' \in [Procs -> Seq(Kinds)]
         /\ staged' \in [Procs -> BOOLEAN]
<1> <<>> \in Seq(Kinds)
  BY EmptySeq
<1>1. CASE pc[p] = "report" \/ verdict[p] = "llm_rejected"
  BY <1>1 DEF TypeOK, OSErrorIn, Queue, WritesDone, Goto
<1>2. CASE ~(pc[p] = "report" \/ verdict[p] = "llm_rejected")
  <2>1. Raise(p)
    BY <1>2 DEF OSErrorIn
  <2>2. QED
    BY <1>2, <2>1, RaiseTyped
<1>3. QED
  BY <1>1, <1>2

LEMMA TypeStep == TypeOK /\ LockTypeOK' /\ [Next]_vars => TypeOK'
<1> SUFFICES ASSUME TypeOK, LockTypeOK', [Next]_vars PROVE TypeOK'
  OBVIOUS
<1> {"lock_held", "error", "path_collision", "llm_rejected"} \cup Completed \subseteq Verdicts
  BY DEF Verdicts, FailedVerdicts
<1> <<>> \in Seq(Kinds)
  BY EmptySeq
<1>1. CASE UNCHANGED runVars
  BY <1>1 DEF runVars, TypeOK
<1>2. ASSUME NEW p \in Procs, Start(p) \/ Enter(p) \/ Leave(p) \/ Die(p)
      PROVE  TypeOK'
  BY <1>2 DEF Start, Enter, Leave, Die, TypeOK, Goto, Says, AfterLeave
<1>3. ASSUME NEW p \in Procs, Refused(p) \/ Stamped(p)
      PROVE  TypeOK'
  <2>1. PayloadWrites("lock_held") \in Seq(Kinds) /\ PayloadWrites("error") \in Seq(Kinds)
    BY WritesTyped
  <2>2. CASE Refused(p)
    BY <2>1, <2>2 DEF Refused, TypeOK, Goto, Says, Queue
  <2>3. CASE Stamped(p)
    BY <2>1, <2>3 DEF Stamped, TypeOK, Goto, Says, Queue
  <2>4. QED
    BY <1>3, <2>2, <2>3
<1>4. ASSUME NEW p \in Procs, RunPipeline(p)
      PROVE  TypeOK'
  <2>1. CASE Raise(p)
    BY <1>4, <2>1, RaiseTyped DEF RunPipeline, TypeOK
  <2>2. CASE ~Raise(p)
    BY <1>4, <2>2 DEF RunPipeline, TypeOK, Goto, Says
  <2>3. QED
    BY <2>1, <2>2
<1>5. ASSUME NEW p \in Procs, Interpret(p)
      PROVE  TypeOK'
  <2>1. CASE Raise(p)
    BY <1>5, <2>1, RaiseTyped DEF Interpret, TypeOK
  <2>2. CASE ~Raise(p)
    <3>1. SuccessWrites(verdict[p]) \in Seq(Kinds) /\ PayloadWrites("llm_rejected") \in Seq(Kinds)
      BY WritesTyped
    <3>2. QED
      BY <1>5, <2>2, <3>1 DEF Interpret, TypeOK, Goto, Says, Queue
  <2>3. QED
    BY <2>1, <2>2
<1>6. ASSUME NEW p \in Procs, Stage(p)
      PROVE  TypeOK'
  <2>1. CASE OSErrorIn(p) /\ UNCHANGED temp
    BY <1>6, <2>1, OSErrorTyped DEF Stage, TypeOK
  <2>2. CASE ~(OSErrorIn(p) /\ UNCHANGED temp)
    <3>1. ContentOf(p) \in Content
      BY DEF ContentOf, Content, TypeOK
    <3>2. QED
      BY <1>6, <2>2, <3>1 DEF Stage, TypeOK
  <2>3. QED
    BY <2>1, <2>2
<1>7. ASSUME NEW p \in Procs, Replace(p)
      PROVE  TypeOK'
  <2>1. CASE temp[Target(p)] = Absent
    BY <1>7, <2>1, OSErrorTyped DEF Replace, TypeOK
  <2>2. CASE temp[Target(p)] # Absent
    <3>1. todo[p] \in Seq(Kinds) /\ todo[p] # <<>>
      BY <1>7 DEF Replace, Writing, TypeOK
    <3>2. Tail(todo[p]) \in Seq(Kinds) /\ Head(todo[p]) \in Kinds
      BY <3>1, HeadTailProperties
    <3>3. Target(p) \in Paths
      BY <3>2, PathOfTyped DEF Target
    <3>4. Absent \in Content
      BY DEF Absent, Content, Verdicts
    <3>5. /\ temp' \in [Paths -> Content] /\ disk' \in [Paths -> Content]
          /\ todo' \in [Procs -> Seq(Kinds)] /\ staged' \in [Procs -> BOOLEAN]
          /\ verdict' \in [Procs -> Verdicts]
      BY <1>7, <2>2, <3>2, <3>3, <3>4 DEF Replace, TypeOK, Queue
    <3>6. pc' = pc \/ pc' = [pc EXCEPT ![p] = "leave"] \/ pc' = [pc EXCEPT ![p] = "done"]
      BY <1>7, <2>2 DEF Replace, WritesDone, Goto
    <3>7. QED
      BY <3>5, <3>6 DEF TypeOK
  <2>3. QED
    BY <2>1, <2>2
<1>8. QED
  BY <1>1, <1>2, <1>3, <1>4, <1>5, <1>6, <1>7
     DEF Next, Work, OperatorCleanup, vars, runVars

LEMMA PhaseStep == TypeOK /\ PcMatchesPhase /\ [Next]_vars => PcMatchesPhase'
<1> SUFFICES ASSUME TypeOK, PcMatchesPhase, [Next]_vars PROVE PcMatchesPhase'
  OBVIOUS
<1> USE DEF PcMatchesPhase, Locked
<1>1. CASE UNCHANGED <<pc, lockPhase>>
  BY <1>1
<1>2. CASE OperatorCleanup
  BY <1>2 DEF OperatorCleanup, RemoveStaleLock, runVars
<1>3. ASSUME NEW p \in Procs, Start(p) PROVE PcMatchesPhase'
  BY <1>3 DEF Start, TypeOK, LockTypeOK, Goto
<1>4. ASSUME NEW p \in Procs, Enter(p) PROVE PcMatchesPhase'
  BY <1>4 DEF Enter, Create, TypeOK, LockTypeOK, Goto
<1>5. ASSUME NEW p \in Procs, Refused(p) PROVE PcMatchesPhase'
  BY <1>5 DEF Refused, TypeOK, LockTypeOK, Goto
<1>6. ASSUME NEW p \in Procs, Stamped(p) PROVE PcMatchesPhase'
  BY <1>6 DEF Stamped, Stamp, StampFails, TypeOK, LockTypeOK, Goto
<1>7. ASSUME NEW p \in Procs, RunPipeline(p) PROVE PcMatchesPhase'
  BY <1>7 DEF RunPipeline, Raise, TypeOK, LockTypeOK, Goto
<1>8. ASSUME NEW p \in Procs, Interpret(p) PROVE PcMatchesPhase'
  BY <1>8 DEF Interpret, Raise, TypeOK, LockTypeOK, Goto
<1>9. ASSUME NEW p \in Procs, Stage(p) PROVE PcMatchesPhase'
  BY <1>9 DEF Stage, OSErrorIn, WritesDone, Writing, Raise, TypeOK, LockTypeOK, Goto
<1>10. ASSUME NEW p \in Procs, Replace(p) PROVE PcMatchesPhase'
  BY <1>10 DEF Replace, OSErrorIn, WritesDone, Writing, Raise, TypeOK, LockTypeOK, Goto
<1>11. ASSUME NEW p \in Procs, Leave(p) PROVE PcMatchesPhase'
  BY <1>11 DEF Leave, AfterLeave, ReadBack, Unlink, TypeOK, LockTypeOK, Goto
<1>12. ASSUME NEW p \in Procs, Die(p) PROVE PcMatchesPhase'
  BY <1>12 DEF Die, Crash, TypeOK, LockTypeOK, Goto
<1>13. QED
  BY <1>1, <1>2, <1>3, <1>4, <1>5, <1>6, <1>7, <1>8, <1>9, <1>10, <1>11, <1>12
     DEF Next, Work, vars

LEMMA IInvStep == IInv /\ [Next]_vars => IInv'
<1> SUFFICES ASSUME IInv, [Next]_vars PROVE IInv'
  OBVIOUS
<1>1. LockInv'
  BY StepIsLockStep, LockInvStep DEF IInv, LockInv, TypeOK
<1>2. QED
  BY <1>1, TypeStep, PhaseStep DEF IInv, LockInv

(* The strengthening that makes the command's invariants inductive.        *)
THEOREM Inductive == Spec => []IInv
<1>1. QED
  BY IInvInit, IInvStep, PTL DEF Spec

(* Every variable of the command keeps its type.                           *)
THEOREM TypeCorrect == Spec => []TypeOK
<1>1. IInv => TypeOK
  BY DEF IInv
<1>2. QED
  BY <1>1, Inductive, PTL

(* The command implements the lock protocol: the lock's theorems hold of   *)
(* it.                                                                     *)
THEOREM CommandKeepsProtocol == Spec => LockSpec
<1>1. Init => LockInit
  BY DEF Init
<1>2. QED
  BY <1>1, StepIsLockStep, PTL DEF Spec, LockSpec

(* Two locked invocations never run the pipeline, the interpretation or    *)
(* the success path at once.                                               *)
THEOREM CommandExcludes == Spec => []PipelineExclusive
<1>1. IInv => PipelineExclusive
  <2> SUFFICES ASSUME IInv, NEW p \in Procs, NEW q \in Procs, InWithBlock(p), InWithBlock(q)
               PROVE  p = q
    BY DEF PipelineExclusive
  <2>1. Holding(p) /\ Holding(q)
    BY DEF IInv, PcMatchesPhase, InWithBlock, Holding
  <2>2. QED
    BY <2>1 DEF IInv, HolderOwnsLock
<1>2. QED
  BY <1>1, Inductive, PTL

(* Whoever left the with block by itself does not own the file any more,   *)
(* unless nothing was ever written into it.                                *)
LeftLockIsBlank ==
    \A p \in Procs :
        lockPhase[p] \in {"outside", "left"} /\ lock.owner = p =>
            lockPhase[p] = "left" /\ lock.run_id = Blank

CreatedLockIsBlank ==
    \A p \in Procs : lockPhase[p] = "created" => lock.run_id = Blank

LEMMA LeftLockStep ==
    ASSUME LockInv, LeftLockIsBlank, CreatedLockIsBlank, [LockNext]_lockVars
    PROVE  LeftLockIsBlank' /\ CreatedLockIsBlank'
<1> USE LockAssumption
    DEF LockInv, LockTypeOK, HolderOwnsLock, Holding, NoLock, Phases, LeftLockIsBlank,
        CreatedLockIsBlank
<1>1. CASE UNCHANGED lockVars
  BY <1>1 DEF lockVars
<1>2. CASE RemoveStaleLock
  BY <1>2 DEF RemoveStaleLock, LockExists
<1>3. ASSUME NEW p \in Procs, Create(p) PROVE LeftLockIsBlank' /\ CreatedLockIsBlank'
  BY <1>3 DEF Create, LockExists
<1>4. ASSUME NEW p \in Procs, Stamp(p) PROVE LeftLockIsBlank' /\ CreatedLockIsBlank'
  BY <1>4 DEF Stamp
<1>5. ASSUME NEW p \in Procs, StampFails(p) PROVE LeftLockIsBlank' /\ CreatedLockIsBlank'
  BY <1>5 DEF StampFails
<1>6. ASSUME NEW p \in Procs, ReadBack(p) PROVE LeftLockIsBlank' /\ CreatedLockIsBlank'
  BY <1>6 DEF ReadBack
<1>7. ASSUME NEW p \in Procs, Unlink(p) PROVE LeftLockIsBlank' /\ CreatedLockIsBlank'
  BY <1>7 DEF Unlink
<1>8. ASSUME NEW p \in Procs, Crash(p) PROVE LeftLockIsBlank' /\ CreatedLockIsBlank'
  BY <1>8 DEF Crash
<1>9. QED
  BY <1>1, <1>2, <1>3, <1>4, <1>5, <1>6, <1>7, <1>8 DEF LockNext, LockStep

(* An invocation that ended by itself has removed its lock, unless its     *)
(* payload could not be written (EvidenceRunLock.__exit__ under            *)
(* _handle_evidence_run's exception paths).                                *)
THEOREM EndedRunsRelease == Spec => []EndedRunReleasesLock
<1>1. Init => LeftLockIsBlank /\ CreatedLockIsBlank
  BY LockAssumption DEF Init, LockInit, NoLock, LeftLockIsBlank, CreatedLockIsBlank
<1>2. LeftLockIsBlank /\ CreatedLockIsBlank /\ IInv /\ [Next]_vars
        => (LeftLockIsBlank /\ CreatedLockIsBlank)'
  BY LeftLockStep, StepIsLockStep DEF IInv, LockInv, TypeOK
<1>3. IInv /\ LeftLockIsBlank => EndedRunReleasesLock
  BY DEF IInv, PcMatchesPhase, LeftLockIsBlank, EndedRunReleasesLock
<1>4. QED
  BY <1>1, <1>2, <1>3, Inductive, PTL DEF Spec

----------------------------------------------------------------------------
(* Publication order.                                                      *)

HasReport(p) == disk[<<"report", ReportOf[p]>>].by # NoProc

(* Why the report comes first: a temp file is absent or has an author; a   *)
(* verdict of a returned pipeline, staged or published, has its author's   *)
(* report beside it; and what such an invocation has left to write starts  *)
(* with the report until the report is there.                              *)
ReportInv ==
    /\ \A f \in Paths : temp[f] = Absent \/ temp[f].by \in Procs
    /\ \A f \in Paths : f[1] # "report" /\ temp[f].verdict \in Completed => HasReport(temp[f].by)
    /\ \A f \in Paths : f[1] # "report" /\ disk[f].verdict \in Completed => HasReport(disk[f].by)
    /\ \A p \in Procs :
          verdict[p] \in Completed /\ todo[p] # <<>> => Head(todo[p]) = "report" \/ HasReport(p)
    /\ \A p \in Procs :
          pc[p] \in {"start", "enter", "stamp", "pipeline", "interpret"} => todo[p] = <<>>

(* The pipeline's verdicts are none of the failures decided elsewhere.     *)
LEMMA VerdictsApart ==
    {"lock_held", "error", "path_collision", "llm_rejected", "unknown"} \cap Completed = {}
  BY DEF Completed

LEMMA ReportInvInit == Init => ReportInv
  BY VerdictsApart DEF Init, ReportInv, Absent

(* Steps that touch neither the temp files nor the artifacts.              *)
LEMMA ReportQueueStep ==
  ASSUME TypeOK, ReportInv, UNCHANGED <<temp, disk>>, NEW p \in Procs,
         \A q \in Procs \ {p} : pc'[q] = pc[q] /\ verdict'[q] = verdict[q] /\ todo'[q] = todo[q],
         verdict'[p] \in Completed /\ todo'[p] # <<>>
             => Head(todo'[p]) = "report" \/ HasReport(p),
         pc'[p] \in {"start", "enter", "stamp", "pipeline", "interpret"} => todo'[p] = <<>>
  PROVE  ReportInv'
  BY DEF ReportInv, HasReport

(* The rename of a staged artifact.                                        *)
LEMMA ReportReplaceStep ==
  ASSUME TypeOK, ReportInv, NEW p \in Procs, Replace(p), temp[Target(p)] # Absent
  PROVE  ReportInv'
<1> DEFINE t == Target(p)
           Later(q) == disk'[<<"report", ReportOf[q]>>].by # NoProc
<1>1. /\ todo[p] # <<>> /\ todo[p] \in Seq(Kinds)
      /\ pc[p] \in {"publish", "report"}
  BY DEF Replace, Writing, TypeOK
<1>2. Head(todo[p]) \in Kinds
  BY <1>1, HeadTailProperties
<1>3. t \in Paths
  BY <1>2, PathOfTyped DEF Target
<1>4. temp[t].by \in Procs /\ temp[t].by # NoProc
  BY <1>3, LockAssumption DEF ReportInv
<1>5. /\ disk' = [disk EXCEPT ![t] = temp[t]]
      /\ temp' = [temp EXCEPT ![t] = Absent]
      /\ verdict' = verdict
      /\ todo' = [todo EXCEPT ![p] = Tail(todo[p])]
  BY DEF Replace, Queue
<1>6. pc' = pc \/ pc' = [pc EXCEPT ![p] = "leave"] \/ pc' = [pc EXCEPT ![p] = "done"]
  BY DEF Replace, WritesDone, Goto
<1> HIDE DEF t
<1>7. \A q : HasReport(q) => Later(q)
  <2> SUFFICES ASSUME NEW q, HasReport(q) PROVE disk'[<<"report", ReportOf[q]>>].by # NoProc
    BY DEF HasReport
  <2>1. CASE <<"report", ReportOf[q]>> = t
    BY <1>3, <1>4, <1>5, <2>1 DEF TypeOK
  <2>2. CASE <<"report", ReportOf[q]>> # t
    BY <1>5, <2>2 DEF TypeOK, HasReport
  <2>3. QED
    BY <2>1, <2>2
<1>8. Head(todo[p]) = "report" => Later(p)
  <2> SUFFICES ASSUME Head(todo[p]) = "report" PROVE disk'[<<"report", ReportOf[p]>>].by # NoProc
    BY DEF HasReport
  <2>1. t = <<"report", ReportOf[p]>>
    BY DEF t, Target, PathOf, LatestKinds, DayKinds
  <2>2. QED
    BY <1>3, <1>4, <1>5, <2>1 DEF TypeOK
<1>9. \A f \in Paths : temp'[f] = Absent \/ temp'[f].by \in Procs
  BY <1>5 DEF ReportInv, TypeOK
<1>10. \A f \in Paths : f[1] # "report" /\ temp'[f].verdict \in Completed
                            => Later(temp'[f].by)
  <2> SUFFICES ASSUME NEW f \in Paths, f[1] # "report", temp'[f].verdict \in Completed
               PROVE  Later(temp'[f].by)
    OBVIOUS
  <2>1. temp'[f] = temp[f]
    BY <1>5, VerdictsApart DEF Absent, TypeOK
  <2>2. QED
    BY <1>7, <2>1 DEF ReportInv, HasReport
<1>11. \A f \in Paths : f[1] # "report" /\ disk'[f].verdict \in Completed
                            => Later(disk'[f].by)
  <2> SUFFICES ASSUME NEW f \in Paths, f[1] # "report", disk'[f].verdict \in Completed
               PROVE  Later(disk'[f].by)
    OBVIOUS
  <2>1. disk'[f] = disk[f] \/ disk'[f] = temp[f]
    BY <1>5 DEF TypeOK
  <2>2. QED
    BY <1>7, <2>1 DEF ReportInv, HasReport
<1>12. \A q \in Procs :
          verdict'[q] \in Completed /\ todo'[q] # <<>>
              => Head(todo'[q]) = "report" \/ Later(q)
  BY <1>1, <1>5, <1>7, <1>8 DEF ReportInv, TypeOK
<1>13. \A q \in Procs :
          pc'[q] \in {"start", "enter", "stamp", "pipeline", "interpret"} => todo'[q] = <<>>
  BY <1>1, <1>5, <1>6 DEF ReportInv, TypeOK
<1>14. QED
  BY <1>9, <1>10, <1>11, <1>12, <1>13 DEF ReportInv, HasReport

(* The write of a temp file.                                               *)
LEMMA ReportStageStep ==
  ASSUME TypeOK, ReportInv, NEW p \in Procs, Writing(p),
         temp' = [temp EXCEPT ![Target(p)] = ContentOf(p)],
         UNCHANGED <<pc, verdict, todo, disk>>
  PROVE  ReportInv'
<1>1. \A f \in Paths : temp'[f] = temp[f] \/ (temp'[f] = ContentOf(p) /\ f = Target(p))
  BY DEF TypeOK
<1>2. ContentOf(p).by = p /\ ContentOf(p).verdict = verdict[p]
  BY DEF ContentOf
<1>3. \A f \in Paths : temp'[f] = Absent \/ temp'[f].by \in Procs
  BY <1>1, <1>2 DEF ReportInv
<1>4. Target(p)[1] = Head(todo[p])
  BY DEF Target, PathOf
<1>5. \A f \in Paths : f[1] # "report" /\ temp'[f].verdict \in Completed
                            => HasReport(temp'[f].by)
  BY <1>1, <1>2, <1>4 DEF ReportInv, Writing
<1>6. QED
  BY <1>3, <1>5 DEF ReportInv, HasReport

LEMMA ReportInvStep == IInv /\ ReportInv /\ [Next]_vars => ReportInv'
<1> SUFFICES ASSUME TypeOK, ReportInv, [Next]_vars PROVE ReportInv'
  BY DEF IInv
<1>1. CASE UNCHANGED runVars
  BY <1>1 DEF runVars, ReportInv, HasReport
<1>2. ASSUME NEW p \in Procs, Start(p) PROVE ReportInv'
  <2>1. verdict' = verdict \/ verdict'[p] = "path_collision"
    BY <1>2 DEF Start, Says, TypeOK
  <2>2. QED
    BY <1>2, <2>1, VerdictsApart, ReportQueueStep
       DEF Start, Goto, Says, ReportInv, TypeOK
<1>3. ASSUME NEW p \in Procs, Enter(p) \/ Leave(p) \/ Die(p) PROVE ReportInv'
  <2>1. UNCHANGED <<verdict, todo, temp, disk>>
    BY <1>3 DEF Enter, Leave, Die
  <2>2. CASE Enter(p)
    BY <2>1, <2>2, ReportQueueStep DEF Enter, Goto, ReportInv, TypeOK
  <2>3. CASE Leave(p) \/ Die(p)
    BY <2>1, <2>3, ReportQueueStep DEF Leave, Die, AfterLeave, Goto, ReportInv, TypeOK
  <2>4. QED
    BY <1>3, <2>2, <2>3
<1>4. ASSUME NEW p \in Procs, Refused(p) PROVE ReportInv'
  BY <1>4, VerdictsApart, ReportQueueStep DEF Refused, Goto, Says, Queue, TypeOK
<1>5. ASSUME NEW p \in Procs, Stamped(p) PROVE ReportInv'
  BY <1>5, VerdictsApart, ReportQueueStep DEF Stamped, Goto, Says, Queue, ReportInv, TypeOK
<1>6. ASSUME NEW p \in Procs, Raise(p), UNCHANGED <<temp, disk>> PROVE ReportInv'
  BY <1>6, VerdictsApart, ReportQueueStep DEF Raise, Goto, Says, Queue, TypeOK
<1>7. ASSUME NEW p \in Procs, OSErrorIn(p), Writing(p), UNCHANGED <<temp, disk>> PROVE ReportInv'
  <2>1. CASE pc[p] = "report" \/ verdict[p] = "llm_rejected"
    <3>1. todo'[p] = <<>> /\ (\A q \in Procs \ {p} : todo'[q] = todo[q]) /\ UNCHANGED verdict
      BY <1>7, <2>1 DEF OSErrorIn, Queue, TypeOK
    <3>2. \A q \in Procs \ {p} : pc'[q] = pc[q]
      BY <1>7, <2>1 DEF OSErrorIn, WritesDone, Goto, TypeOK
    <3>3. QED
      BY <1>7, <3>1, <3>2, ReportQueueStep
  <2>2. CASE Raise(p)
    BY <1>6, <1>7, <2>2
  <2>3. QED
    BY <1>7, <2>1, <2>2 DEF OSErrorIn
<1>8. ASSUME NEW p \in Procs, RunPipeline(p) PROVE ReportInv'
  <2>1. CASE Raise(p)
    BY <1>6, <1>8, <2>1 DEF RunPipeline
  <2>2. CASE ~Raise(p)
    BY <1>8, <2>2, ReportQueueStep DEF RunPipeline, Goto, Says, ReportInv, TypeOK
  <2>3. QED
    BY <2>1, <2>2
<1>9. ASSUME NEW p \in Procs, Interpret(p) PROVE ReportInv'
  <2>1. CASE Raise(p)
    BY <1>6, <1>9, <2>1 DEF Interpret
  <2>2. CASE Queue(p, SuccessWrites(verdict[p])) /\ Goto(p, "publish") /\ UNCHANGED <<verdict, staged>>
    <3>1. Head(SuccessWrites(verdict[p])) = "report"
      BY WritesTyped
    <3>2. QED
      BY <1>9, <2>2, <3>1, ReportQueueStep DEF Interpret, Goto, Queue, TypeOK
  <2>3. CASE Says(p, "llm_rejected") /\ Queue(p, PayloadWrites("llm_rejected")) /\ Goto(p, "publish")
    BY <1>9, <2>3, VerdictsApart, ReportQueueStep DEF Interpret, Goto, Says, Queue, TypeOK
  <2>4. QED
    BY <1>9, <2>1, <2>2, <2>3 DEF Interpret
<1>10. ASSUME NEW p \in Procs, Stage(p) PROVE ReportInv'
  <2>1. Writing(p) /\ UNCHANGED disk
    BY <1>10 DEF Stage
  <2>2. \/ OSErrorIn(p) /\ UNCHANGED temp
        \/ temp' = [temp EXCEPT ![Target(p)] = ContentOf(p)] /\ UNCHANGED <<pc, verdict, todo>>
    BY <1>10 DEF Stage
  <2>3. QED
    BY <1>7, <2>1, <2>2, ReportStageStep
<1>11. ASSUME NEW p \in Procs, Replace(p) PROVE ReportInv'
  <2>1. CASE temp[Target(p)] = Absent
    BY <1>7, <1>11, <2>1 DEF Replace
  <2>2. CASE temp[Target(p)] # Absent
    BY <1>11, <2>2, ReportReplaceStep
  <2>3. QED
    BY <2>1, <2>2
<1>12. QED
  BY <1>1, <1>2, <1>3, <1>4, <1>5, <1>8, <1>9, <1>10, <1>11
     DEF Next, Work, OperatorCleanup, vars, runVars

(* No payload, manifest or latest pointer carries a returned pipeline's    *)
(* verdict before that run's daily report is on disk, for any number of    *)
(* invocations, locked or not, and any crashes and write faults.           *)
THEOREM ReportFirst == Spec => []ReportPrecedesVerdict
<1>1. ReportInv => ReportPrecedesVerdict
  BY DEF ReportInv, ReportPrecedesVerdict, HasReport
<1>2. QED
  BY <1>1, Inductive, ReportInvInit, ReportInvStep, PTL DEF Spec

----------------------------------------------------------------------------
(* Publication under the lock.                                             *)

(* The temp file f holds the verdict of the pipeline of p, which locks.    *)
Carries(p, f) == temp[f].by = p /\ temp[f].verdict \in Completed /\ Locked(p)

AboutToRename(p, f) ==
    pc[p] = "publish" /\ staged[p] /\ todo[p] # <<>> /\ Target(p) = f

(* Why the verdict is published inside the with block: the author of every *)
(* temp file that carries one stands before its rename or was killed, and  *)
(* what is left to write after the with block reports a failure.           *)
PublishInv ==
    /\ \A p \in Procs, f \in Paths :
          Carries(p, f) => pc[p] = "crashed" \/ AboutToRename(p, f)
    /\ \A p \in Procs :
          pc[p] \in {"leave", "report"} /\ todo[p] # <<>> => verdict[p] \notin Completed

LEMMA PublishInvInit == Init => PublishInv
  BY VerdictsApart DEF Init, PublishInv, Carries, Absent

(* A step of p that leaves the temp files alone.                           *)
LEMMA PublishQueueStep ==
  ASSUME PublishInv, UNCHANGED temp, NEW p \in Procs,
         \A q \in Procs \ {p} : /\ pc'[q] = pc[q] /\ verdict'[q] = verdict[q]
                                /\ todo'[q] = todo[q] /\ staged'[q] = staged[q],
         (\A f \in Paths : ~Carries(p, f)) \/ pc'[p] = "crashed",
         pc'[p] \in {"leave", "report"} /\ todo'[p] # <<>> => verdict'[p] \notin Completed
  PROVE  PublishInv'
<1>1. ASSUME NEW q \in Procs, NEW f \in Paths, Carries(q, f)'
      PROVE  pc'[q] = "crashed" \/ AboutToRename(q, f)'
  <2>1. Carries(q, f)
    BY <1>1 DEF Carries, Locked
  <2>2. CASE q = p
    BY <2>1, <2>2
  <2>3. CASE q # p
    BY <2>1, <2>3 DEF PublishInv, AboutToRename, Target
  <2>4. QED
    BY <2>2, <2>3
<1>2. \A q \in Procs :
          pc'[q] \in {"leave", "report"} /\ todo'[q] # <<>> => verdict'[q] \notin Completed
  BY DEF PublishInv
<1>3. QED
  BY <1>1, <1>2 DEF PublishInv

(* Before publishing, an invocation has staged nothing; while it publishes *)
(* only what it is about to rename.                                        *)
LEMMA NothingCarried ==
  ASSUME PublishInv, NEW p \in Procs, pc[p] # "crashed",
         pc[p] # "publish" \/ ~staged[p] \/ temp[Target(p)] = Absent
  PROVE  \A f \in Paths : ~Carries(p, f)
  BY VerdictsApart DEF PublishInv, AboutToRename, Carries, Absent

(* The write of a temp file.                                               *)
LEMMA PublishStageStep ==
  ASSUME TypeOK, PublishInv, NEW p \in Procs, Writing(p), ~staged[p],
         temp' = [temp EXCEPT ![Target(p)] = ContentOf(p)],
         staged' = [staged EXCEPT ![p] = TRUE],
         UNCHANGED <<pc, verdict, todo>>
  PROVE  PublishInv'
<1>1. ASSUME NEW q \in Procs, NEW f \in Paths, Carries(q, f)'
      PROVE  pc'[q] = "crashed" \/ AboutToRename(q, f)'
  <2>1. CASE temp'[f] = temp[f]
    <3>1. Carries(q, f)
      BY <1>1, <2>1 DEF Carries, Locked
    <3>2. q # p
      BY <3>1, NothingCarried DEF Writing
    <3>3. staged'[q] = staged[q]
      BY <3>2 DEF TypeOK
    <3>4. QED
      BY <3>1, <3>3 DEF PublishInv, AboutToRename, Target
  <2>2. CASE temp'[f] # temp[f]
    <3>1. f = Target(p) /\ temp'[f] = ContentOf(p)
      BY <2>2 DEF TypeOK
    <3>2. q = p /\ verdict[p] \in Completed
      BY <1>1, <3>1 DEF Carries, ContentOf
    <3>3. pc[p] = "publish" /\ todo[p] # <<>>
      BY <3>2 DEF PublishInv, Writing
    <3>4. staged'[p] = TRUE
      BY DEF TypeOK
    <3>5. QED
      BY <3>1, <3>2, <3>3, <3>4 DEF AboutToRename, Target
  <2>3. QED
    BY <2>1, <2>2
<1>2. QED
  BY <1>1 DEF PublishInv

(* The rename, of one's own temp file or of another's on the shared path.  *)
LEMMA PublishReplaceStep ==
  ASSUME TypeOK, PublishInv, NEW p \in Procs, Replace(p), temp[Target(p)] # Absent
  PROVE  PublishInv'
<1> DEFINE t == Target(p)
<1>1. /\ temp' = [temp EXCEPT ![t] = Absent]
      /\ staged' = [staged EXCEPT ![p] = FALSE]
      /\ todo' = [todo EXCEPT ![p] = Tail(todo[p])]
      /\ verdict' = verdict
      /\ pc[p] \in {"publish", "report"} /\ todo[p] # <<>> /\ staged[p]
  BY DEF Replace, Queue, Writing
<1>2. IF Tail(todo[p]) = <<>>
      THEN pc' = [pc EXCEPT ![p] = "leave"] \/ pc' = [pc EXCEPT ![p] = "done"]
      ELSE pc' = pc
  BY DEF Replace, WritesDone, Goto
<1>3. \A q \in Procs \ {p} : pc'[q] = pc[q] /\ todo'[q] = todo[q] /\ staged'[q] = staged[q]
  BY <1>1, <1>2 DEF TypeOK
<1>4. ASSUME NEW q \in Procs, NEW f \in Paths, Carries(q, f)'
      PROVE  pc'[q] = "crashed" \/ AboutToRename(q, f)'
  <2>1. temp'[f] = temp[f] /\ f # t
    <3>1. temp'[f] # Absent
      BY <1>4, VerdictsApart DEF Carries, Absent
    <3> HIDE DEF t
    <3>2. QED
      BY <1>1, <3>1 DEF TypeOK
  <2>2. Carries(q, f)
    BY <1>4, <2>1 DEF Carries, Locked
  <2>3. q # p
    BY <1>1, <2>1, <2>2 DEF PublishInv, AboutToRename
  <2>4. QED
    BY <1>3, <2>2, <2>3 DEF PublishInv, AboutToRename, Target
<1>5. \A q \in Procs :
          pc'[q] \in {"leave", "report"} /\ todo'[q] # <<>> => verdict'[q] \notin Completed
  <2>1. todo'[p] = Tail(todo[p])
    BY <1>1 DEF TypeOK
  <2>2. todo'[p] # <<>> => pc'[p] = pc[p]
    BY <1>2, <2>1
  <2>3. QED
    BY <1>1, <1>3, <2>2 DEF PublishInv
<1>6. QED
  BY <1>4, <1>5 DEF PublishInv

(* An OSError inside a write.                                              *)
LEMMA PublishErrorStep ==
  ASSUME TypeOK, PublishInv, NEW p \in Procs, OSErrorIn(p) \/ Raise(p), UNCHANGED temp,
         \A f \in Paths : ~Carries(p, f)
  PROVE  PublishInv'
<1>1. CASE Raise(p)
  BY <1>1, VerdictsApart, PublishQueueStep DEF Raise, Goto, Says, Queue, TypeOK
<1>2. CASE OSErrorIn(p) /\ (pc[p] = "report" \/ verdict[p] = "llm_rejected")
  <2>1. /\ todo' = [todo EXCEPT ![p] = <<>>]
        /\ staged' = [staged EXCEPT ![p] = FALSE]
        /\ UNCHANGED verdict
    BY <1>2 DEF OSErrorIn, Queue
  <2>2. pc' = [pc EXCEPT ![p] = "leave"] \/ pc' = [pc EXCEPT ![p] = "done"]
    BY <1>2 DEF OSErrorIn, WritesDone, Goto
  <2>3. todo'[p] = <<>>
    BY <2>1 DEF TypeOK
  <2>4. \A q \in Procs \ {p} : /\ pc'[q] = pc[q] /\ verdict'[q] = verdict[q]
                               /\ todo'[q] = todo[q] /\ staged'[q] = staged[q]
    BY <2>1, <2>2 DEF TypeOK
  <2>5. QED
    BY <2>3, <2>4, PublishQueueStep
<1>3. QED
  BY <1>1, <1>2 DEF OSErrorIn

LEMMA PublishInvStep == TypeOK /\ ReportInv /\ PublishInv /\ [Next]_vars => PublishInv'
<1> SUFFICES ASSUME TypeOK, ReportInv, PublishInv, [Next]_vars PROVE PublishInv'
  OBVIOUS
<1>1. CASE UNCHANGED runVars
  BY <1>1 DEF runVars, PublishInv, Carries, AboutToRename, Locked, Target
<1>2. ASSUME NEW p \in Procs, Start(p) \/ Enter(p) \/ Refused(p) \/ Stamped(p)
      PROVE  PublishInv'
  <2>1. pc[p] \in {"start", "enter", "stamp"} /\ UNCHANGED <<temp, staged>> /\ todo[p] = <<>>
    BY <1>2 DEF Start, Enter, Refused, Stamped, ReportInv
  <2>2. \A f \in Paths : ~Carries(p, f)
    BY <2>1, NothingCarried
  <2>3. CASE Start(p)
    BY <2>1, <2>2, <2>3, PublishQueueStep DEF Start, Goto, Says, TypeOK
  <2>4. CASE Enter(p)
    BY <2>1, <2>2, <2>4, PublishQueueStep DEF Enter, Goto, TypeOK
  <2>5. CASE Refused(p)
    BY <2>1, <2>2, <2>5, VerdictsApart, PublishQueueStep DEF Refused, Goto, Says, Queue, TypeOK
  <2>6. CASE Stamped(p)
    BY <2>1, <2>2, <2>6, VerdictsApart, PublishQueueStep DEF Stamped, Goto, Says, Queue, TypeOK
  <2>7. QED
    BY <1>2, <2>3, <2>4, <2>5, <2>6
<1>3. ASSUME NEW p \in Procs, RunPipeline(p) \/ Interpret(p) PROVE PublishInv'
  <2>1. pc[p] \in {"pipeline", "interpret"} /\ UNCHANGED temp
    BY <1>3 DEF RunPipeline, Interpret
  <2>2. \A f \in Paths : ~Carries(p, f)
    BY <2>1, NothingCarried
  <2>3. CASE Raise(p)
    BY <2>1, <2>2, <2>3, PublishErrorStep
  <2>4. CASE ~Raise(p)
    <3>1. \A q \in Procs \ {p} : /\ pc'[q] = pc[q] /\ verdict'[q] = verdict[q]
                                 /\ todo'[q] = todo[q] /\ staged'[q] = staged[q]
      BY <1>3, <2>4 DEF RunPipeline, Interpret, Goto, Says, Queue, TypeOK
    <3>2. pc'[p] \in {"interpret", "publish"}
      BY <1>3, <2>4 DEF RunPipeline, Interpret, Goto, TypeOK
    <3>3. QED
      BY <2>1, <2>2, <3>1, <3>2, PublishQueueStep
  <2>5. QED
    BY <2>3, <2>4
<1>4. ASSUME NEW p \in Procs, Stage(p) PROVE PublishInv'
  <2>1. CASE OSErrorIn(p) /\ UNCHANGED temp
    BY <1>4, <2>1, NothingCarried, PublishErrorStep DEF Stage, Writing
  <2>2. CASE ~(OSErrorIn(p) /\ UNCHANGED temp)
    BY <1>4, <2>2, PublishStageStep DEF Stage
  <2>3. QED
    BY <2>1, <2>2
<1>5. ASSUME NEW p \in Procs, Replace(p) PROVE PublishInv'
  <2>1. CASE temp[Target(p)] = Absent
    BY <1>5, <2>1, NothingCarried, PublishErrorStep DEF Replace, Writing
  <2>2. CASE temp[Target(p)] # Absent
    BY <1>5, <2>2, PublishReplaceStep
  <2>3. QED
    BY <2>1, <2>2
<1>6. ASSUME NEW p \in Procs, Leave(p) PROVE PublishInv'
  <2>1. pc[p] = "leave" /\ UNCHANGED <<verdict, todo, staged, temp>>
    BY <1>6 DEF Leave
  <2>2. pc' = pc \/ pc' = [pc EXCEPT ![p] = IF todo[p] = <<>> THEN "done" ELSE "report"]
    BY <1>6 DEF Leave, AfterLeave, Goto
  <2>3. QED
    BY <2>1, <2>2, NothingCarried, PublishQueueStep DEF PublishInv, TypeOK
<1>7. ASSUME NEW p \in Procs, Die(p) PROVE PublishInv'
  BY <1>7, PublishQueueStep DEF Die, Goto, TypeOK
<1>8. QED
  BY <1>1, <1>2, <1>3, <1>4, <1>5, <1>6, <1>7
     DEF Next, Work, OperatorCleanup, vars, runVars

(* A pipeline's verdict becomes visible only while its author is inside    *)
(* the with block or after it was killed there, for any number of          *)
(* invocations sharing temp paths, whoever performs the rename.            *)
THEOREM PublishedUnderLock == Spec => VerdictPublishedUnderLock
<1> DEFINE Held ==
        \A f \in Paths :
          LET new == disk'[f] IN
          new # disk[f] /\ new.verdict \in Completed /\ Locked(new.by)
              => pc[new.by] \in {"publish", "crashed"}
<1>1. ASSUME TypeOK, ReportInv, PublishInv, [Next]_vars PROVE [Held]_vars
  <2> SUFFICES ASSUME NEW f \in Paths, disk'[f] # disk[f], disk'[f].verdict \in Completed,
                      Locked(disk'[f].by)
               PROVE  pc[disk'[f].by] \in {"publish", "crashed"}
    OBVIOUS
  <2>1. PICK p \in Procs : Replace(p) /\ temp[Target(p)] # Absent
    BY <1>1 DEF Next, Work, OperatorCleanup, vars, runVars, Start, Enter, Refused, Stamped,
                RunPipeline, Interpret, Stage, Replace, Leave, Die
  <2>2. disk'[f] = temp[f]
    BY <1>1, <2>1 DEF Replace, TypeOK
  <2>3. temp[f].by \in Procs
    BY <1>1, <2>2, VerdictsApart DEF ReportInv, Absent
  <2>4. Carries(temp[f].by, f)
    BY <2>2 DEF Carries
  <2>5. QED
    BY <1>1, <2>2, <2>3, <2>4 DEF PublishInv, AboutToRename
<1>2. IInv => TypeOK
  BY DEF IInv
<1>3. Spec => []ReportInv
  BY Inductive, ReportInvInit, ReportInvStep, PTL DEF Spec
<1>4. Spec => []PublishInv
  BY <1>2, <1>3, Inductive, PublishInvInit, PublishInvStep, PTL DEF Spec
<1>5. QED
  BY <1>1, <1>2, <1>3, <1>4, Inductive, PTL DEF Spec, VerdictPublishedUnderLock
=============================================================================
