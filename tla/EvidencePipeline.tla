-------------------------- MODULE EvidencePipeline --------------------------
(***************************************************************************)
(* One day's evidence pipeline (pipeline/evidence_runner.py,               *)
(* run_daily_evidence_pipeline, with the degradation markers of            *)
(* pipeline/evidence_reports.py), retried under the same run id after      *)
(* failures and crashes, while an operator may mark a family degraded.     *)
(*                                                                         *)
(* The two SQLite ledgers are replaced per family run id in one            *)
(* transaction each; the memory file is module MemoryStore.  A row or a    *)
(* record is reduced to the attempt that wrote it and its status.  That    *)
(* one pipeline runs at a time is what module EvidenceRun shows.           *)
(***************************************************************************)
EXTENDS Naturals, Sequences, Functions

CONSTANTS
    FamilyList,     \* --strategy-family, in order and without repetition
    NeedsOI,        \* families whose registry entry requires open interest
    Simulated,      \* families whose registry entry supports paper simulation
    MaxAttempts,    \* bound: attempts made at the run
    MaxMarks,       \* bound: families the operator marks by hand
    Runner, Operator, NoRecord

Families == Range(FamilyList)

ASSUME PipelineAssumption ==
    /\ FamilyList \in Seq(Families) /\ IsInjective(FamilyList)
    /\ NeedsOI \subseteq Families /\ Simulated \subseteq Families
    /\ MaxAttempts \in Nat /\ MaxMarks \in Nat
    /\ Runner # Operator

VARIABLES
    file, open, snap, undone,
    pc,         \* control point of the pipeline
    attempt,    \* number of the current or last attempt
    allow,      \* whether the attempt has --allow-stopped-family
    stopped,    \* the stopped families as read when the attempt began
    position,   \* index into FamilyList
    reread,     \* the stopped families as the family's validation re-reads them
    oiFailed,   \* families whose open interest could not be fetched
    collected,  \* the paper outcomes the attempt has gathered, by family
    todo,       \* families whose override or marker is still to be recorded
    evidence,   \* the validation ledger, by family run id
    outcomes,   \* the paper outcome ledger, by family run id
    marked,     \* history: families whose marker was ever written
    due,        \* history: the families the attempt must skip
    marks       \* markers the operator has written by hand

memVars == <<file, open, snap, undone>>
runVars == <<pc, attempt, allow, stopped, position, reread, oiFailed, collected, todo>>
ledgerVars == <<evidence, outcomes>>
historyVars == <<marked, due, marks>>
vars == <<memVars, runVars, ledgerVars, historyVars>>

----------------------------------------------------------------------------
(* Rows, records and updates                                               *)

Row == [at : 0 .. MaxAttempts,
        is : {"never", "none", "passed", "blocked", "stopped", "source_failed", "closed"}]

Never == [at |-> 0, is |-> "never"]
Written(status) == [at |-> attempt, is |-> status]
Missing(row) == row.is \in {"never", "none"}

(* Record ids; the run id they contain is the same throughout.             *)
RecordIds ==
    ({"validation", "paper", "degraded", "override"} \X Families) \cup {<<"research", "all">>}

Marker == [at |-> 0, is |-> "degraded"]

ASSUME NoRecordAssumption == NoRecord \notin Row \cup {Marker}

One(id, record) == [k \in {id} |-> record]

MarkDegraded(f) == [drop |-> {}, put |-> One(<<"degraded", f>>, Marker)]

RecordOverride(f) == [drop |-> {}, put |-> One(<<"override", f>>, Marker)]

ReplaceResearch(row) ==
    [drop |-> {<<"research", "all">>},
     put |-> IF Missing(row) THEN <<>> ELSE One(<<"research", "all">>, row)]

ReplaceValidation(f, row) ==
    [drop |-> {<<"validation", f>>},
     put |-> IF Missing(row) THEN <<>> ELSE One(<<"validation", f>>, row)]

(* rows: the outcomes gathered, whose run ids are replaced together with   *)
(* those of the active families.                                           *)
ReplacePaper(active, rows) ==
    LET present == {f \in Families : ~Missing(rows[f])} IN
    [drop |-> {<<"paper", f>> : f \in active \cup present},
     put |-> [k \in {<<"paper", f>> : f \in present} |-> rows[k[2]]]]

Updates ==
    {MarkDegraded(f) : f \in Families} \cup {RecordOverride(f) : f \in Families}
    \cup {ReplaceResearch(row) : row \in Row}
    \cup {ReplaceValidation(f, row) : f \in Families, row \in Row}
    \cup {ReplacePaper(active, rows) :
             active \in SUBSET Families,
             rows \in [Families -> {Never} \cup [at : 1 .. MaxAttempts, is : {"closed", "blocked"}]]}

Memory ==
    INSTANCE MemoryStore
        WITH Writers <- {Runner, Operator}, Keys <- RecordIds

(* load_stopped_strategy_families                                          *)
Stopped(content) == {f \in Families : content[<<"degraded", f>>] # NoRecord}

----------------------------------------------------------------------------
Points ==
    {"idle", "core", "open_interest", "family", "clear_paper", "record",
     "validation_memory", "paper", "paper_memory", "research_memory",
     "override", "review", "mark"}

(* Every variable has its type; in particular the ledgers and the memory   *)
(* file hold nothing from an attempt that has not begun.                   *)
TypeOK ==
    /\ file \in [RecordIds -> Row \cup {Marker, NoRecord}]
    /\ snap \in [{Runner, Operator} -> [RecordIds -> Row \cup {Marker, NoRecord}]]
    /\ open \subseteq {Runner, Operator}
    /\ undone \subseteq RecordIds
    /\ pc \in Points
    /\ attempt \in 0 .. MaxAttempts
    /\ allow \in BOOLEAN
    /\ position \in 1 .. Len(FamilyList) + 1
    /\ stopped \subseteq Families /\ reread \subseteq Families
    /\ oiFailed \subseteq Families /\ todo \subseteq Families
    /\ marked \subseteq Families /\ due \subseteq Families
    /\ collected \in [Families -> Row]
    /\ evidence \in [Families -> Row]
    /\ outcomes \in [Families -> Row]
    /\ marks \in 0 .. MaxMarks

NoRows == [f \in Families |-> Never]

Init ==
    /\ Memory!Init
    /\ pc = "idle" /\ attempt = 0 /\ allow = FALSE /\ position = 1
    /\ stopped = {} /\ reread = {} /\ oiFailed = {} /\ todo = {}
    /\ collected = NoRows /\ evidence = NoRows /\ outcomes = NoRows
    /\ marked = {} /\ due = {} /\ marks = 0

(* active_family_list: the loop over it passes over the other families.    *)

ActiveUnfiltered == Families    \* mutant: stopped families are not taken out

Active == IF allow THEN Families ELSE Families \ stopped

InLoop == position <= Len(FamilyList)
Current == FamilyList[position]
NextFamily == pc' = "family" /\ position' = position + 1

(* The local variables of the call are gone.                               *)
EndAttempt ==
    /\ pc' = "idle" /\ allow' = FALSE /\ position' = 1
    /\ stopped' = {} /\ reread' = {} /\ oiFailed' = {} /\ todo' = {}
    /\ collected' = NoRows
    /\ UNCHANGED attempt

----------------------------------------------------------------------------
(* The pipeline, one action per call that reads or writes shared state     *)

(* load_stopped_strategy_families reads the memory file once, up front.    *)
Begin(withOverride) ==
    /\ pc = "idle" /\ attempt < MaxAttempts
    /\ attempt' = attempt + 1
    /\ allow' = withOverride
    /\ stopped' = Stopped(file)
    /\ pc' = "core"
    /\ due' = IF withOverride THEN {} ELSE {f \in marked : <<"degraded", f>> \notin undone}
    /\ UNCHANGED <<memVars, ledgerVars, position, reread, oiFailed, collected, todo,
                   marked, marks>>

(* Without --allow-network, or when candles or funding rates could not be  *)
(* fetched, the pipeline reports that and touches neither ledger nor       *)
(* memory.                                                                 *)
CoreFails ==
    /\ pc = "core"
    /\ EndAttempt
    /\ UNCHANGED <<memVars, ledgerVars, historyVars>>

Core ==
    /\ pc = "core"
    /\ pc' = IF Active \cap NeedsOI # {} THEN "open_interest" ELSE "family"
    /\ UNCHANGED <<memVars, attempt, allow, stopped, position, reread, oiFailed,
                   collected, todo, ledgerVars, historyVars>>

OpenInterest ==
    /\ pc = "open_interest"
    /\ oiFailed' \in {{}, Active \cap NeedsOI}
    /\ pc' = "family"
    /\ UNCHANGED <<memVars, attempt, allow, stopped, position, reread, collected,
                   todo, ledgerVars, historyVars>>

PassOver ==
    /\ pc = "family" /\ InLoop /\ Current \notin Active
    /\ NextFamily
    /\ UNCHANGED <<memVars, attempt, allow, stopped, reread, oiFailed, collected,
                   todo, ledgerVars, historyVars>>

(* A family whose source failed: its evidence for the run becomes the      *)
(* failure, and the outcomes of an earlier attempt are cleared.            *)
RecordSourceFailure ==
    /\ pc = "family" /\ InLoop /\ Current \in Active \cap oiFailed
    /\ evidence' = [evidence EXCEPT ![Current] = Written("source_failed")]
    /\ pc' = "clear_paper"
    /\ UNCHANGED <<memVars, attempt, allow, stopped, position, reread, oiFailed,
                   collected, todo, outcomes, historyVars>>

ClearNothing ==     \* mutant: the outcomes of an earlier attempt stay
    /\ pc = "clear_paper"
    /\ pc' = "validation_memory"
    /\ UNCHANGED <<memVars, attempt, allow, stopped, position, reread, oiFailed,
                   collected, todo, ledgerVars, historyVars>>

ClearPaper ==
    /\ pc = "clear_paper"
    /\ outcomes' = [outcomes EXCEPT ![Current] = Written("none")]
    /\ pc' = "validation_memory"
    /\ UNCHANGED <<memVars, attempt, allow, stopped, position, reread, oiFailed,
                   collected, todo, evidence, historyVars>>

(* run_stored_research_loop reads the stopped families again,              *)
Validate ==
    /\ pc = "family" /\ InLoop /\ Current \in Active \ oiFailed
    /\ reread' = Stopped(file)
    /\ pc' = "record"
    /\ UNCHANGED <<memVars, attempt, allow, stopped, position, oiFailed, collected,
                   todo, ledgerVars, historyVars>>

(* and replaces the family's evidence by the verdict: "stopped" when a     *)
(* marker has appeared since the attempt began, "none" when the verdict is *)
(* not worth a row (_should_persist_validation_evidence).                  *)
ValidationVerdicts ==
    IF Current \in reread /\ ~allow THEN {"stopped"} ELSE {"passed", "blocked", "none"}

RecordValidation ==
    /\ pc = "record"
    /\ \E status \in ValidationVerdicts :
          evidence' = [evidence EXCEPT ![Current] = Written(status)]
    /\ pc' = "validation_memory"
    /\ UNCHANGED <<memVars, attempt, allow, stopped, position, reread, oiFailed,
                   collected, todo, outcomes, historyVars>>

(* Each update of the memory file constructs a store of its own.           *)
OpenMemory ==
    /\ pc \in {"validation_memory", "paper_memory", "research_memory", "override", "mark"}
    /\ Memory!Load(Runner)
    /\ UNCHANGED <<runVars, ledgerVars, historyVars>>

ValidationMemory ==
    /\ pc = "validation_memory"
    /\ Memory!Persist(Runner, ReplaceValidation(Current, evidence[Current]))
    /\ IF Current \in Simulated \ oiFailed
       THEN pc' = "paper" /\ UNCHANGED position
       ELSE NextFamily
    /\ UNCHANGED <<attempt, allow, stopped, reread, oiFailed, collected, todo,
                   ledgerVars, historyVars>>

(* run_paper_sim_loop replaces the family's outcomes in the ledger; the    *)
(* caller keeps them for the memory update after the loop.                 *)

SimulateWithoutLedger ==    \* mutant: persist_outcomes left out
    /\ pc = "paper"
    /\ \E status \in {"closed", "blocked"} :
          collected' = [collected EXCEPT ![Current] = Written(status)]
    /\ NextFamily
    /\ UNCHANGED <<memVars, attempt, allow, stopped, reread, oiFailed, todo,
                   ledgerVars, historyVars>>

SimulatePaper ==
    /\ pc = "paper"
    /\ \E status \in {"closed", "blocked"} :
          /\ outcomes' = [outcomes EXCEPT ![Current] = Written(status)]
          /\ collected' = [collected EXCEPT ![Current] = Written(status)]
    /\ NextFamily
    /\ UNCHANGED <<memVars, attempt, allow, stopped, reread, oiFailed, todo,
                   evidence, historyVars>>

LoopDone ==
    /\ pc = "family" /\ ~InLoop
    /\ pc' = "paper_memory"
    /\ UNCHANGED <<memVars, attempt, allow, stopped, position, reread, oiFailed,
                   collected, todo, ledgerVars, historyVars>>

PaperMemoryFor(families) ==
    /\ pc = "paper_memory"
    /\ Memory!Persist(Runner, ReplacePaper(families, collected))
    /\ pc' = "research_memory"
    /\ UNCHANGED <<attempt, allow, stopped, position, reread, oiFailed, collected,
                   todo, ledgerVars, historyVars>>

PaperMemoryOfCollected == PaperMemoryFor({})        \* mutant: run_ids not passed
PaperMemoryOfAll == PaperMemoryFor(Families)        \* mutant: family_list passed

PaperMemory == PaperMemoryFor(Active)

(* The hypotheses of the run may be none; every stopped family that the    *)
(* attempt nevertheless ran gets an override record.                       *)
ResearchMemory ==
    /\ pc = "research_memory"
    /\ \E status \in {"none", "passed"} :
          Memory!Persist(Runner, ReplaceResearch(Written(status)))
    /\ todo' = IF allow THEN stopped ELSE {}
    /\ pc' = IF todo' = {} THEN "review" ELSE "override"
    /\ UNCHANGED <<attempt, allow, stopped, position, reread, oiFailed, collected,
                   ledgerVars, historyVars>>

Override(f) ==
    /\ pc = "override" /\ f \in todo
    /\ Memory!Persist(Runner, RecordOverride(f))
    /\ todo' = todo \ {f}
    /\ pc' = IF todo' = {} THEN "review" ELSE "override"
    /\ UNCHANGED <<attempt, allow, stopped, position, reread, oiFailed, collected,
                   ledgerVars, historyVars>>

(* build_daily_evidence_report: any families with rows may turn out        *)
(* degraded; nothing to mark ends the attempt.                             *)
Degraded ==
    {f \in Families : ~Missing(evidence[f]) \/ ~Missing(outcomes[f])}

Review ==
    /\ pc = "review"
    /\ \/ EndAttempt
       \/ /\ todo' \in (SUBSET Degraded) \ {{}}
          /\ pc' = "mark"
          /\ UNCHANGED <<attempt, allow, stopped, position, reread, oiFailed, collected>>
    /\ UNCHANGED <<memVars, ledgerVars, historyVars>>

Mark(f) ==
    /\ pc = "mark" /\ f \in todo
    /\ Memory!Persist(Runner, MarkDegraded(f))
    /\ marked' = marked \cup {f}
    /\ IF todo = {f} THEN EndAttempt
       ELSE /\ todo' = todo \ {f}
            /\ UNCHANGED <<pc, attempt, allow, stopped, position, reread, oiFailed, collected>>
    /\ UNCHANGED <<ledgerVars, due, marks>>

(* An exception, which evidence-run reports, or a killed process.          *)
Abort ==
    /\ pc # "idle"
    /\ Memory!Discard(Runner)
    /\ EndAttempt
    /\ UNCHANGED <<ledgerVars, historyVars>>

----------------------------------------------------------------------------
(* docs/runbook.md has the operator mark a family by hand; the weekly      *)
(* report and the other commands that update the memory file do the same.  *)

OperatorOpens ==
    /\ marks < MaxMarks
    /\ Memory!Load(Operator)
    /\ UNCHANGED <<runVars, ledgerVars, historyVars>>

OperatorMarks(f) ==
    /\ marks < MaxMarks
    /\ Memory!Persist(Operator, MarkDegraded(f))
    /\ marked' = marked \cup {f}
    /\ marks' = marks + 1
    /\ UNCHANGED <<runVars, ledgerVars, due>>

OperatorFails ==
    /\ Operator \in open
    /\ Memory!Discard(Operator)
    /\ UNCHANGED <<runVars, ledgerVars, historyVars>>

----------------------------------------------------------------------------
Step ==
    \/ CoreFails \/ Core \/ OpenInterest
    \/ PassOver
    \/ RecordSourceFailure \/ ClearPaper
    \/ Validate \/ RecordValidation
    \/ OpenMemory \/ ValidationMemory
    \/ SimulatePaper \/ LoopDone
    \/ PaperMemory \/ ResearchMemory
    \/ \E f \in Families : Override(f)
    \/ Review
    \/ \E f \in Families : Mark(f)

Next ==
    \/ \E withOverride \in BOOLEAN : Begin(withOverride)
    \/ Step
    \/ Abort
    \/ OperatorOpens
    \/ \E f \in Families : OperatorMarks(f)
    \/ OperatorFails

Spec == Init /\ [][Next]_vars

----------------------------------------------------------------------------
(* Properties                                                              *)

(* The memory file never runs ahead of the ledgers: a validation or paper  *)
(* record in it was written to the ledger first, by the same attempt or an *)
(* earlier one than the row the ledger has now (evidence_runner.py         *)
(* replaces the ledger, then the memory).                                  *)
Behind(record, row) ==
    record # NoRecord => record.at < row.at \/ record = row

MemoryBehindLedger ==
    \A f \in Families :
        /\ Behind(file[<<"validation", f>>], evidence[f])
        /\ Behind(file[<<"paper", f>>], outcomes[f])

(* When a run reaches the daily report, the memory of every family it ran  *)
(* is what the ledgers say, whatever earlier attempts at the same run id   *)
(* had left behind or another command had taken back of their records;     *)
(* only what an overlapping update takes back of this attempt is missing.  *)
Mirrors(id, row) ==
    id \notin undone => file[id] = IF Missing(row) THEN NoRecord ELSE row

CompletedRunMemoryMatches ==
    pc = "review" =>
        \A f \in Active :
            /\ Mirrors(<<"validation", f>>, evidence[f])
            /\ Mirrors(<<"paper", f>>, outcomes[f])

(* A family whose source failed has no trade left from an earlier attempt  *)
(* once the run is complete.                                               *)
FailedSourceLeavesNoTrade ==
    pc = "review" =>
        \A f \in Active : evidence[f].is = "source_failed" => outcomes[f].is = "none"

(* A family marked degraded before an attempt began is neither validated   *)
(* nor simulated by it, unless the operator overrides (docs/runbook.md,    *)
(* "How To Stop A Degraded Family") or an update by a store constructed    *)
(* before the marker was written had taken it back.                        *)
MarkedFamilySkipped ==
    attempt > 0 =>
        \A f \in due : evidence[f].at # attempt /\ outcomes[f].at # attempt

(* Paper outcomes are never newer than the validation evidence of the same *)
(* run: a retry revalidates a family before it simulates it again.         *)
EvidenceBeforePaper ==
    \A f \in Families : outcomes[f].at <= evidence[f].at

(* What earlier attempts recorded of a family that this attempt skips      *)
(* stays as it is in the ledgers; in memory a record of it changes only    *)
(* when an update puts back what its store had read.                       *)
PutBack(id) == \E w \in open : file'[id] = snap[w][id]

SkippedFamilyUntouched ==
    [][pc # "idle" /\ ~allow =>
          \A f \in stopped :
              /\ evidence'[f] = evidence[f] /\ outcomes'[f] = outcomes[f]
              /\ \A id \in {<<"validation", f>>, <<"paper", f>>} :
                    file'[id] = file[id] \/ PutBack(id)]_vars
=============================================================================
