--------------------------- MODULE ResearchPlanning ---------------------------
(***************************************************************************)
(* The commands that ask the language model what to research next:         *)
(* plan-experiments, evidence-report --daily (which marks the degraded     *)
(* families first and ends with a summary) and iteration-cycle (which only *)
(* writes a report).  One such command runs at a time; other commands      *)
(* write to the ledger and the memory file while it waits for answers.     *)
(*                                                                         *)
(* Covered: a provider that loses posts, refuses, answers without text or  *)
(* never answers; answers of any form; crashes at any step; repetitions    *)
(* with the same inputs.  That two processes save to the memory file at    *)
(* once is left to EvidencePipeline: here the others write between the     *)
(* command's own saves, not within them.                                   *)
(***************************************************************************)
EXTENDS LLMAdapter, ExperimentPlanner

CONSTANTS
    AnswerAttempts, \* _STRUCTURED_OUTPUT_ATTEMPTS and _PLANNER_OUTPUT_ATTEMPTS
    Inputs,         \* [family, override, max] that commands are given
    Answers,        \* what the model may answer to the planner
    Batches,        \* what it may answer to the iteration controller
    OwnerRefs,      \* _OWNER_AUTONOMY_REFS
    ValidationRows, OutcomeRows, HealthRows,    \* what the ledgers may hold
    RecentLimit,    \* recent_limit of build_ai_research_context
    Recorded,       \* what the ledgers may hold at first
    Lists,          \* the families of a report that is not about one
    Others,         \* memory records that other commands write
    Remembered,     \* what the memory file may hold at first
    MaxCommands,    \* bound: commands started
    MaxOthers       \* bound: writes by other commands

ASSUME PlanningAssumption ==
    /\ AnswerAttempts \in Nat \ {0}
    /\ MaxCommands \in Nat /\ MaxOthers \in Nat
    /\ Inputs \subseteq [family : Families \cup {NoFamily}, override : BOOLEAN, max : Nat]

(* The rows of the ledgers.  losing are the families whose rows degrade.   *)
Ledgers ==
    [validations : SUBSET ValidationRows, outcomes : SUBSET OutcomeRows,
     health : SUBSET HealthRows, losing : SUBSET Families]

(* A row has its run, its family and its place in the order in which it is *)
(* read, a health row its place only.                                      *)
ASSUME LedgerAssumption ==
    /\ \A r \in ValidationRows \cup OutcomeRows : r.family \in Families
    /\ IsFiniteSet(OutcomeRows)
    /\ RecentLimit \in Nat \ {0}
    /\ Recorded \subseteq Ledgers
    /\ Lists \subseteq SUBSET Families

ASSUME AnswersAssumption == \A a \in Answers :
    /\ a.form \in {"text", "unsafe", "scalar", "sections"}
    /\ a.proposals \in Seq(Range(a.proposals)) /\ a.templates \in Seq(Range(a.templates))

(* The names of records begin with what they are: only mark_family_degraded*)
(* names one after a degraded family, and only the planner one after its   *)
(* rejected batch.                                                         *)
ASSUME NamesAssumption == \A r \in Others \cup UNION Remembered :
    /\ \A f \in Families : r.id = <<"degraded", f>> => r.family = f /\ r.params = NoParams
    /\ \A i \in Inputs : r.id \notin {<<"rejected", i>>, <<"partial-rejected", i>>}

VARIABLES
    file,       \* the records of the memory file
    ledger,     \* validations, paper outcomes, source health
    cmd,        \* the command: kind, step, inputs and what it has read
    report,     \* the iteration report: Markdown and JSON
    started, written,   \* counters for the bounds
    history     \* for the properties: what was so since the command started

planVars == <<file, ledger, cmd, report, started, written, history>>
vars == <<planVars, adapterVars>>

Kinds == {"plan-experiments", "evidence-report", "iteration-cycle"}

Steps == {"off", "health", "review", "marking", "ledgers", "trades", "memory", "context",
          "samples", "sources", "stops", "plan", "save", "summary", "iterate",
          "markdown", "json"}

NothingKnown == [evidence |-> {}, memory |-> {}, refs |-> {}, stopped |-> {}]
NoReport == [accepted |-> FALSE, candidates |-> {}, capital |-> FALSE]

Command(kind, input) ==
    [kind |-> kind, at |-> "health", input |-> input, attempt |-> 1, todo |-> {},
     know |-> NothingKnown, queue |-> <<>>, store |-> {}, batch |-> NoReport,
     exit |-> "none"]

Ended(kind, input, exit) == [Command(kind, input) EXCEPT !.at = "off", !.exit = exit]

FamiliesOf(rows) == {r.family : r \in rows}

(* The refs that the ledgers bear out: a row that is there, a sample that  *)
(* the outcomes of a family reach.                                         *)
Stands(l) ==
    {<<"validation", r.run, r.at>> : r \in l.validations}
      \cup {<<"health", r.at>> : r \in l.health}
      \cup (UNION {{<<"paper", f, n>> :
                      n \in 1..Cardinality({r \in l.outcomes : r.family = f})} : f \in Families})

Init ==
    /\ file \in Remembered
    /\ ledger \in Recorded
    /\ \E i \in Inputs : cmd = Ended("plan-experiments", i, "none")
    /\ report = [markdown |-> NoReport, json |-> NoReport]
    /\ started = 0 /\ written = 0
    /\ history = [barred |-> {}, repeated |-> {}, unsafe |-> FALSE, others |-> {},
                  stood |-> Stands(ledger)]
    /\ link = Unused /\ posts = 0

At(step) == cmd.at = step

GoTo(step) == cmd' = [cmd EXCEPT !.at = step]

CallsModel(step) == step \in {"health", "plan", "summary", "iterate"}

(* The stops in the memory when the command starts.                        *)
Barred(input) == IF input.override THEN {} ELSE Degraded(file) \cup Stopped(file)

(* allow_stopped_family is a parameter of plan_next_experiments only; a    *)
(* list of families is one of the report's, which keeps it in todo.        *)
Start(kind, input) ==
    /\ At("off")
    /\ input.override => kind = "plan-experiments"
    /\ started < MaxCommands
    /\ started' = started + 1
    /\ \E list \in IF kind # "evidence-report" THEN {{}}
                   ELSE IF input.family # NoFamily THEN {{input.family}} ELSE Lists :
         cmd' = [Command(kind, input) EXCEPT !.todo = list]
    /\ history' = [history EXCEPT !.barred = Barred(input), !.repeated = Repeated(file),
                                  !.unsafe = FALSE, !.stood = Stands(ledger)]
    /\ posts' = 0
    /\ Call
    /\ UNCHANGED <<file, ledger, report, written>>

(* The model was called and the text or the error is there.                *)
Answered(step) == At(step) /\ link = Text
Unanswered == CallsModel(cmd.at) /\ link = Error

(* The model is called again for the same answer, or the answer is taken   *)
(* and the count of posts starts anew.                                     *)
Again == Call /\ UNCHANGED posts

Taken == link' = Unused /\ posts' = 0

End(exit) ==
    /\ cmd' = Ended(cmd.kind, cmd.input, exit)
    /\ Taken

(* main, health_check: an answer that does not fit is asked for again; the *)
(* command does nothing before a healthy answer.                           *)
Healthy ==
    /\ Answered("health")
    /\ GoTo(CASE cmd.kind = "plan-experiments" -> "ledgers"
              [] cmd.kind = "evidence-report" -> "review"
              [] cmd.kind = "iteration-cycle" -> "context")
    /\ Taken
    /\ UNCHANGED <<file, ledger, report, started, written, history>>

Unhealthy ==
    /\ Answered("health")
    /\ IF cmd.attempt < AnswerAttempts
       THEN /\ cmd' = [cmd EXCEPT !.attempt = @ + 1]
            /\ Again
       ELSE End("failed")
    /\ UNCHANGED <<file, ledger, report, started, written, history>>

(* LLMProviderError ends the command.                                      *)
ProviderFails ==
    /\ Unanswered
    /\ End("failed")
    /\ UNCHANGED <<file, ledger, report, started, written, history>>

----------------------------------------------------------------------------
(* build_daily_evidence_report: the families that degrade are marked, each *)
(* with a store of its own, before the planner is called.                  *)

Found == cmd.todo \cap ledger.losing

FoundBarred == history' = [history EXCEPT !.barred = @ \cup Found]

ReviewLate ==   \* mutant: the report plans before it marks
    /\ At("review")
    /\ cmd' = [cmd EXCEPT !.at = "ledgers", !.todo = {}]
    /\ FoundBarred
    /\ UNCHANGED <<file, ledger, report, started, written, adapterVars>>

(* The families of the list are marked; the planner that follows is told   *)
(* of a family only if the list has no other.                              *)
Review ==
    /\ At("review")
    /\ cmd' = [cmd EXCEPT !.at = "marking", !.todo = Found]
    /\ FoundBarred
    /\ UNCHANGED <<file, ledger, report, started, written, adapterVars>>

Marker(f) ==
    Record(<<"degraded", f>>, f, NoParams, {"degraded_expectancy"},
           {f, "degraded", "degraded_expectancy"})

Mark ==
    /\ At("marking")
    /\ \E f \in cmd.todo :
        /\ file' = Upsert(file, Marker(f))
        /\ cmd' = [cmd EXCEPT !.todo = @ \ {f}]
    /\ UNCHANGED <<ledger, report, started, written, history, adapterVars>>

MarkingDone ==
    /\ At("marking") /\ cmd.todo = {}
    /\ GoTo("ledgers")
    /\ UNCHANGED <<file, ledger, report, started, written, history, adapterVars>>

----------------------------------------------------------------------------
(* plan_next_experiments: the reads, each on a connection of its own, the  *)
(* answers, the save.                                                      *)

(* The rows that a reader of one family or of all is given.                *)
Of(input, rows) == {r \in rows : input.family \in {NoFamily, r.family}}

ReadLedgers ==
    /\ At("ledgers")
    /\ cmd' = [cmd EXCEPT !.at = "trades",
                          !.know.evidence = FamiliesOf(Of(cmd.input, ledger.validations))]
    /\ UNCHANGED <<file, ledger, report, started, written, history, adapterVars>>

ReadTrades ==
    /\ At("trades")
    /\ cmd' = [cmd EXCEPT !.at = "memory",
                          !.know.evidence = @ \cup FamiliesOf(Of(cmd.input, ledger.outcomes))]
    /\ UNCHANGED <<file, ledger, report, started, written, history, adapterVars>>

ReadMemory ==
    /\ At("memory")
    /\ cmd' = [cmd EXCEPT !.at = "context", !.know.memory = file]
    /\ UNCHANGED <<file, ledger, report, started, written, history, adapterVars>>

(* build_ai_research_context: of its reads the refs are used.  The last    *)
(* rows are taken after those of other families have been left out.        *)
Recent(rows) == {r \in rows : Cardinality({s \in rows : s.at > r.at}) < RecentLimit}

ValidationRefs(rows) == {<<"validation", r.run, r.at>> : r \in rows}

(* aggregate_paper_evidence: one package per family, with its sample size. *)
PaperRefs(rows) ==
    {<<"paper", f, Cardinality({r \in rows : r.family = f})>> : f \in FamiliesOf(rows)}

HealthRefs(rows) == {<<"health", r.at>> : r \in rows}

ReadContext ==
    /\ At("context")
    /\ cmd' = [cmd EXCEPT !.at = "samples",
            !.know.refs = ValidationRefs(Recent(Of(cmd.input, ledger.validations)))]
    /\ UNCHANGED <<file, ledger, report, started, written, history, adapterVars>>

ReadSamples ==
    /\ At("samples")
    /\ cmd' = [cmd EXCEPT !.at = "sources",
            !.know.refs = @ \cup PaperRefs(Recent(Of(cmd.input, ledger.outcomes)))]
    /\ UNCHANGED <<file, ledger, report, started, written, history, adapterVars>>

ReadSources ==
    /\ At("sources")
    /\ cmd' = [cmd EXCEPT !.know.refs = @ \cup HealthRefs(Recent(ledger.health)),
                          !.at = IF cmd.kind = "iteration-cycle" THEN "iterate" ELSE "stops"]
    /\ IF cmd.kind = "iteration-cycle" THEN Again ELSE UNCHANGED adapterVars
    /\ UNCHANGED <<file, ledger, report, started, written, history>>

(* load_stopped_strategy_families reads the memory once more; then the     *)
(* model is asked for the first time.                                      *)
ReadStops ==
    /\ At("stops")
    /\ cmd' = [cmd EXCEPT !.at = "plan", !.attempt = 1, !.know.stopped = Stopped(file)]
    /\ Again
    /\ UNCHANGED <<file, ledger, report, started, written, history>>

OpenedBefore(know) == know.memory   \* mutant: the store that was read is kept

(* The records of MemoryStore(memory_path), opened anew for the save.      *)
Opened(know) == file

Unsafe(v) == "charter_violation" \in v.reasons

Plan(a) ==
    LET v == Judge(cmd.input, cmd.know, a)
    IN  /\ Answered("plan")
        /\ IF WorthRetry(v) /\ cmd.attempt < AnswerAttempts
           THEN /\ cmd' = [cmd EXCEPT !.attempt = @ + 1]
                /\ Again
           ELSE /\ cmd' = [cmd EXCEPT !.at = "save", !.queue = RecordsOf(cmd.input, v),
                                      !.store = Opened(cmd.know), !.know = NothingKnown]
                /\ Taken
        /\ history' = [history EXCEPT !.unsafe = @ \/ Unsafe(v)]
        /\ UNCHANGED <<file, ledger, report, started, written>>

(* One upsert: the whole file is rewritten from the store.                 *)
Save ==
    /\ At("save") /\ cmd.queue # <<>>
    /\ file' = Upsert(cmd.store, Head(cmd.queue))
    /\ cmd' = [cmd EXCEPT !.queue = Tail(@), !.store = Upsert(@, Head(cmd.queue))]
    /\ UNCHANGED <<ledger, report, started, written, history, adapterVars>>

Saved ==
    /\ At("save") /\ cmd.queue = <<>>
    /\ \/ /\ cmd.kind = "plan-experiments"
          /\ End("ok")
       \/ /\ cmd.kind = "evidence-report"
          /\ cmd' = [cmd EXCEPT !.at = "summary", !.store = {}]
          /\ Again
    /\ UNCHANGED <<file, ledger, report, started, written, history>>

(* The summary is asked for once; a rejected one ends the command.         *)
Summarize ==
    /\ Answered("summary")
    /\ \E exit \in {"ok", "failed"} : End(exit)
    /\ UNCHANGED <<file, ledger, report, started, written, history>>

----------------------------------------------------------------------------
(* build_iteration_cycle_report: one answer, not repeated; the Markdown    *)
(* report, then the JSON.                                                  *)

KnownRefs == cmd.know.refs \cup OwnerRefs

CandidateSafeForOne(c) ==   \* mutant: one known ref is enough
    /\ ~c.capital /\ c.reviewed /\ c.complete
    /\ c.refs \cap KnownRefs # {}

(* _candidate_rejection_reason is none.                                    *)
CandidateSafe(c) ==
    /\ ~c.capital /\ c.reviewed /\ c.complete
    /\ c.refs \subseteq KnownRefs

JudgeBatch(b) ==
    LET safe == {c \in b.candidates : CandidateSafe(c)}
    IN  [accepted |-> safe # {} /\ ~b.capital, candidates |-> safe, capital |-> b.capital]

Iterate ==
    /\ Answered("iterate")
    /\ \E r \in {NoReport} \cup {JudgeBatch(b) : b \in Batches} :
        cmd' = [cmd EXCEPT !.at = "markdown", !.batch = r]
    /\ Taken
    /\ UNCHANGED <<file, ledger, report, started, written, history>>

WriteMarkdown ==
    /\ At("markdown")
    /\ report' = [report EXCEPT !.markdown = cmd.batch]
    /\ GoTo("json")
    /\ UNCHANGED <<file, ledger, started, written, history, adapterVars>>

WriteJson ==
    /\ At("json")
    /\ report' = [report EXCEPT !.json = cmd.batch]
    /\ End(IF cmd.batch.accepted THEN "ok" ELSE "rejected")
    /\ UNCHANGED <<file, ledger, started, written, history>>

----------------------------------------------------------------------------
Crash ==
    /\ ~At("off")
    /\ End("crashed")
    /\ UNCHANGED <<file, ledger, report, started, written, history>>

(* A stop, and a rejection, that another command takes back by writing its *)
(* record anew need not be respected any more.                             *)
StopsLost(after) == (Degraded(file) \ Degraded(after)) \cup (Stopped(file) \ Stopped(after))

RejectionsLost(after) == Repeated(file) \ Repeated(after)

(* replace_run_evidence and replace_run_outcomes: what a run had is taken  *)
(* out, also if nothing takes its place.                                   *)
Replaced(rows, run, new) == {r \in rows : r.run # run} \cup new

OfRun(rows, run) == {r \in rows : r.run = run}

Runs == {r.run : r \in ValidationRows \cup OutcomeRows}

(* A change of a family's rows may end its degradation or begin it.        *)
Reassessed(l, touched) ==
    {[l EXCEPT !.losing = now] : now \in {s \in SUBSET FamiliesOf(l.validations \cup l.outcomes) :
                                           s \ touched = l.losing \ touched}}

Validated(run) ==
    UNION {Reassessed([ledger EXCEPT !.validations = Replaced(@, run, new)],
                      FamiliesOf(OfRun(ledger.validations, run) \cup new)) :
             new \in SUBSET OfRun(ValidationRows, run)}

Simulated(run) ==
    UNION {Reassessed([ledger EXCEPT !.outcomes = Replaced(@, run, new)],
                      FamiliesOf(OfRun(ledger.outcomes, run) \cup new)) :
             new \in SUBSET OfRun(OutcomeRows, run)}

Ingested == {[ledger EXCEPT !.health = @ \cup {r}] : r \in HealthRows}

(* Other commands: a record in the memory, a run in a ledger, the health   *)
(* of a source.  While a post is on its way the command reads none of      *)
(* them, so that it is enough that they write before or after it.          *)
Other ==
    /\ ~At("save") /\ ~Busy
    /\ written < MaxOthers
    /\ written' = written + 1
    /\ \/ \E r \in Others :
            /\ file' = Upsert(file, r)
            /\ history' = [history EXCEPT !.others = @ \cup {r.id},
                                          !.barred = @ \ StopsLost(Upsert(file, r)),
                                          !.repeated = @ \ RejectionsLost(Upsert(file, r))]
            /\ UNCHANGED ledger
       \/ /\ \/ ledger' \in Ingested
             \/ \E run \in Runs : ledger' \in Validated(run) \cup Simulated(run)
          /\ history' = [history EXCEPT !.stood = @ \cup Stands(ledger')]
          /\ UNCHANGED file
    /\ UNCHANGED <<cmd, report, started, adapterVars>>

Work ==
    \/ Post /\ UNCHANGED planVars
    \/ Healthy \/ Unhealthy \/ ProviderFails
    \/ Review \/ Mark \/ MarkingDone
    \/ ReadLedgers \/ ReadTrades \/ ReadMemory
    \/ ReadContext \/ ReadSamples \/ ReadSources \/ ReadStops
    \/ \E a \in Answers : Plan(a)
    \/ Save \/ Saved \/ Summarize
    \/ Iterate \/ WriteMarkdown \/ WriteJson

Next ==
    \/ \E kind \in Kinds, input \in Inputs : Start(kind, input)
    \/ Work
    \/ Crash
    \/ Other

(* A command that runs goes on; nothing is assumed of the others.          *)
Spec == Init /\ [][Next]_vars /\ WF_vars(Work)

----------------------------------------------------------------------------
(* Properties.                                                             *)

(* The state has its types; in particular a call of the model is under way *)
(* only where the command waits for one, and the posts are counted afresh  *)
(* for each answer.                                                        *)
PlanTypeOK ==
    /\ link \in Links /\ posts \in Nat
    /\ ledger \in Ledgers
    /\ DOMAIN cmd = DOMAIN Command("none", "none")
    /\ DOMAIN cmd.know = DOMAIN NothingKnown
    /\ cmd.kind \in Kinds /\ cmd.at \in Steps /\ cmd.input \in Inputs
    /\ cmd.attempt \in 1..AnswerAttempts
    /\ started \in 0..MaxCommands /\ written \in 0..MaxOthers
    /\ link # Unused => CallsModel(cmd.at)
    /\ link = Unused => posts = 0

(* The retries of posts, of answers without text and of answers that do    *)
(* not fit are nested; together they stay within the product: whatever the *)
(* provider does, one answer costs a bounded number of posts.              *)
PostsAreBounded ==
    posts <= IF cmd.at \in {"health", "plan"} THEN AnswerAttempts * CallBudget
             ELSE CallBudget

(* However long the answers take and however often they are asked for, no  *)
(* proposal is saved for a family whose stop was in the memory when the    *)
(* command started, or that the daily report itself finds degraded, nor    *)
(* for parameters that the memory had as rejected or blocked, unless       *)
(* another command took the stop or the rejection back meanwhile.          *)
ProposalsRespectMemory ==
    \A n \in 1..Len(cmd.queue) :
        "experiment-proposal" \in cmd.queue[n].tags /\ "accepted" \in cmd.queue[n].tags =>
            /\ cmd.queue[n].family \notin history.barred
            /\ <<cmd.queue[n].family, cmd.queue[n].params>> \notin history.repeated

(* What another command writes to the memory while the planner waits for   *)
(* an answer is still there after the planner has saved.                   *)
OthersSurvivePlanning ==
    \A id \in history.others : \E r \in file : r.id = id

(* An answer with unsafe content ends the planning: the model is not asked *)
(* again, and when the command has gone through, the memory says that its  *)
(* batch was rejected for it, fully or in part.                            *)
UnsafeAnswerIsRemembered ==
    history.unsafe =>
        /\ cmd.at # "plan"
        /\ cmd.exit = "ok" =>
             \E r \in file :
                /\ r.id \in {<<"rejected", cmd.input>>, <<"partial-rejected", cmd.input>>}
                /\ "charter_violation" \in r.reasons

(* An iteration report that is written as accepted holds a candidate, and  *)
(* each ref of its candidates is the owner's or names what the ledgers     *)
(* held at some moment since the command started: a row, or no larger a    *)
(* sample than there was; nothing of it asks for capital.  The rows may be *)
(* gone again by the time the answer is there.                             *)
Grounded(r, stood) ==
    /\ r.candidates # {} /\ ~r.capital
    /\ \A c \in r.candidates : ~c.capital /\ c.refs \subseteq stood \cup OwnerRefs

AcceptedIterationIsGrounded ==
    [][At("json") /\ cmd'.at = "off" /\ cmd'.exit = "ok"
         => Grounded(report'.json, history.stood)]_vars

(* A command that starts ends, also when the provider never answers.       *)
CommandEnds == ~At("off") ~> At("off")

=============================================================================
