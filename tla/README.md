# Crypto Research Agent: TLA+ models and proofs

The repository is an evidence machine: scheduled commands fetch public market
data, validate trading-strategy families on it, simulate paper trades, write the
results to ledgers and to a memory file, and judge them in review gates; a
separate cycle lets a language model write code and promotes what passes its
tests. Nothing trades. What can go wrong is not arithmetic on a price but the
order in which commands that share files do things, what a crash or a retry
leaves behind, and what a gate's verdict is worth when the data moved under it.
These models are about that.

- [Inventory](#inventory)
- [Modules](#modules)
- [How the models correspond to the code](#how-the-models-correspond-to-the-code)
- [Runs and bounds](#runs-and-bounds)
- [Fairness](#fairness)
- [Proofs](#proofs)
- [Findings](#findings)
- [Not modelled](#not-modelled)
- [Plan](#plan)

Paths below are relative to `src/crypto_alpha_agent/` of the repository unless
they begin with `docs/` or `ops/`.

## Inventory

| Component | State it keeps | Operations | Shared with | What is hard | What makes it correct |
|---|---|---|---|---|---|
| Evidence-run command (`cli.py`, `ops/daily-evidence-run.sh`) | none of its own | take the lock, run the pipeline, interpret, publish, report a failure | lock file, artifacts, everything the pipeline touches | several invocations, retries, kills, write faults | one pipeline at a time; every invocation ends; a verdict never without its report |
| Lock and artifact writer (`pipeline/evidence_run_ops.py`) | lock file; artifacts, each with a temp file and a latest pointer | create, stamp, read back, unlink; stage, replace | all evidence-run invocations | creation, payload and removal are separate steps; no expiry; temp names are fixed | mutual exclusion; released by its holder only, and by every holder that ends |
| Daily pipeline (`pipeline/evidence_runner.py`, `research_loop.py`, `memory.py`) | locals of one call | read stopped families, ingest, validate, simulate, update memory, mark degraded | ledgers, memory file, operator | three kinds of transaction per family, abort anywhere, retry under the same run id | memory agrees with ledgers after a complete attempt, never ahead of them before; stopped families are skipped |
| Memory file (`memory/store.py`) | JSONL file; a snapshot per open store | load, append, upsert, replace_matching | pipeline, weekly report, operator, planner, labs | read-modify-write of the whole file with no lock | what an update may take back: only what others wrote since its store was constructed |
| Evidence ledgers (`evidence/ledger.py`, `validation_ledger.py`) | two SQLite tables | replace a run's rows in one transaction, load, migrate | pipeline, reports, planner, rollout review | readers see several commits in one review; a migration of several commits | rows are those of one attempt; none lost |
| Paper simulation and cost model (`pipeline/paper_sim_loop.py`, `execution/cost_model.py`) | none | outcomes of a family's trades | outcome ledger | whole history simulated every day | one trade counts once; what is tried is what was validated |
| Rollout gate, readiness (`risk/rollout.py`, `evidence/live_readiness.py`) | none; writes an artifact | load, package, judge | ledgers, while daily runs commit | three reads, three snapshots | ready only on enough, clean and distinct evidence |
| Creation cycle (`autonomy/*`, `ops/creation-cycle.sh`) | git branches and worktrees, task directories, backlog, latest reports, flock | plan, build, verify, promote, report | other cycles | verification and merge are far apart; anything may fail or be killed | what is merged was verified as a whole; rejected work stays out; reports are true |
| Research graphs, checkpoints (`orchestrator.py`, `checkpointing.py`, `agents/*`) | pickled checkpoints | run nodes, pause for a human, resume, start over | processes sharing the checkpoint file | a dump of everything per put, after memory changed; restart | a resume continues where the run paused; an approval counts for its own run |
| Research data (`data/*`, `pipeline/historical_bootstrap.py`, `data_depth_campaign.py`) | SQLite store of rows and health rows; manifests, campaign reports | fetch, normalise, filter by window, upsert, probe, report | labs, pipeline, each other | overlapping commands, half-open windows, months, pages, faults between writes | rows only added; a report of success means the rows are there |
| Feasibility labs, screens, candidate states (`pipeline/*_feasibility.py`, `evidence_universe.py`, `candidate_screens.py`, `candidate_state_memory.py`) | candidate states in memory | read the rows three times, screen, judge, keep states | research data, memory file | rows committed between reads; doubled bars; joins that look ahead | a candidate that passes rests on clean rows known at the time |
| Strategies and validators (`strategy/*`, `validation/*`) | none | extract trades, walk forward, gate | bootstrap, pipeline | folds, alignment of funding and open interest | trades lie in the window, in one test fold, and do not look ahead |
| Planner, iteration controller (`pipeline/experiment_planner.py`, `iteration_controller.py`) | memory records, iteration report | read, ask, judge, save | memory file, ledgers, LLM | the answer takes minutes; inputs are stale by then, ledger rows replaced; nested retries | stops and rejections are respected; what others wrote stays; what is accepted cites only what the ledgers held |
| LLM runtime (`llm/*`) | metadata of the last call | post, retry, fall back, parse | every command that asks | timeouts, empty and malformed answers | bounded posts; rejected answers never used |
| Risk guardian, charter, paper gates, approvals (`risk/*`, `agents/approvals.py`) | none | decide on one record | callers | boundary values | never lets live capital through |
| Backtests, execution adapters, scheduler, configuration, logging, secrets, other scripts | files | wrap, refuse, render, copy | operators | copying a database in use | — |

Interactions: `evidence-run` holds the lock file around the pipeline and the
interpretation; the pipeline calls the ledgers and, for each update, constructs
a memory store; the report it builds marks degraded families in memory, which the
next run and the planner read first. `rollout-review` reads the ledgers without the
lock, and every command that opens the validation ledger may migrate it. Bootstrap,
campaign, ingestions and labs share the research database and take no lock at all;
labs and planner also write the memory file. `creation-cycle` shares none of these:
it reads the reports of the others.

## Modules

| Module | Extends / instantiates | Models |
|---|---|---|
| `EvidenceRunLock` | | the lock file's protocol, invocations, crashes, the operator's clean-up |
| `EvidenceRun` | `EvidenceRunLock` | the evidence-run command around it: control flow, failure paths, artifact writer |
| `MemoryStore` | | the memory file: load, rewrite by rename, discard, and which records overlapping rewrites take back |
| `EvidencePipeline` | `MemoryStore` | attempts at one day's run over the ledgers and the memory file, with an operator |
| `LedgerMigration` | | commands that open, migrate, load and replace the validation ledger |
| `RolloutGate` | | reviews that read the ledgers while daily runs commit |
| `CreationCycle` | | overlapping creation cycles, git branches, reports |
| `ResearchGraph` | | the research graphs, their runs and checkpoints, processes that share the file |
| `LLMAdapter` | | one call of the model: posts, retries, empty output, fallback |
| `ExperimentPlanner` | | what the planner reads of memory, how it judges an answer, the records it makes (operators) |
| `ResearchPlanning` | `LLMAdapter`, `ExperimentPlanner` | plan-experiments, the daily report and iteration-cycle, beside other writers |
| `ResearchRows` | | rows, ids, upserts, months, windows, the quality report (operators) |
| `ResearchSources` | `ResearchRows` | ingestions and probes, each as the step it makes a command do (operators) |
| `ResearchLabs` | `ResearchSources` | universe, screens, the multi-hypothesis lab, candidate states (operators) |
| `StrategyLabs` | `ResearchLabs` | the two labs of `strategy_feasibility.py` (operators) |
| `FundingValidators` | `StrategyLabs` | the validators that trade on funding (operators) |
| `Watchlists` | `FundingValidators` | the validators that only watch (operators) |
| `StrategyRegistry` | `Watchlists` | registered families, cost model, paper outcomes (operators) |
| `ResearchData` | `StrategyRegistry` | the commands over the research database: state and steps |
| `EvidenceRunProofs`, `EvidenceStoreProofs`, `EvidencePipelineProofs`, `RolloutGateProofs`, `CreationCycleProofs`, `ResearchGraphProofs`, `ResearchPlanningProofs`, `ResearchDataProofs` | the module named | theorems and proofs |
| `MC*` | the module named | constants for TLC |

How they compose. `EvidenceRun` composes the lock with the command: every step it
takes on the lock file is an action of `EvidenceRunLock`, and the theorem
`CommandKeepsProtocol` says so: `EvidenceRun` implements `LockSpec`, the protocol by
itself. `EvidencePipeline` composes the pipeline with the memory file in the same way,
each of its updates being an action of `MemoryStore`; that only one
pipeline runs at a time is what `EvidenceRun` shows, so `EvidencePipeline` has one
runner. `RolloutGate` reduces a daily run to the two ledger transactions it makes.
`ResearchPlanning` puts the model call of `LLMAdapter` into every step that asks and
lets other commands write ledger and memory between its steps. `ResearchData` is
one state machine of overlapping commands over the operators of the six modules it
extends: a bootstrap, for instance, runs ingestions of `ResearchSources`, then
validates with `FundingValidators` what they stored.

## How the models correspond to the code

`PROJECT.json` maps every definition to its lines. What is reduced, and why it may be:

**EvidenceRunLock, EvidenceRun.** `Create`, `Stamp`, `StampFails` are the three
outcomes of `__enter__`; `ReadBack` and `Unlink` are the two steps of `__exit__`,
separate because another invocation may act in between. The payload is reduced to
the run id, which is all that `__exit__` compares. `pc` follows
`_handle_evidence_run`; an exception inside the with block (`Raise`) first leaves
it and is then reported by `_finalize_evidence_run_failure`. An artifact is
`(author, verdict)`; `Stage` is `temporary.write_text`, `Replace` is `os.replace`,
which publishes whatever the shared temp path holds and fails when another
invocation renamed it away. Every artifact is written twice by
`_write_evidence_run_payload_artifacts`, as in the code. The manifest and the marker are named after the run id, the report and its JSON after
`--report-out` (`ReportOf`), which `ops/daily-evidence-run.sh` names after the day, so that
different runs of a day share them. `Faulty` are the invocations whose artifact writes may raise.

**MemoryStore.** A store takes the whole file into `snap` when it is constructed and
writes `snap` with the update applied, without a lock, so an update takes back what others
have written in between. The history variable `undone` names the records for which that
happened and which nobody has written since; the properties of the pipeline
are stated beside it, and nothing assumes that updates do not overlap. That a rename
replaces the file in one step is what `os.replace` gives. The operator of
`EvidencePipeline` stands for every other command that updates the
file: `docs/runbook.md` has a person mark families, and the weekly report does it
too.

**EvidencePipeline.** One action per call that reads or writes shared state. A
ledger row or memory record is reduced to the attempt that wrote it and a status;
its run id is the same throughout, because a retry has the run id of what it
retries. `FamilyList` has no repetition, which the command does not ensure
(`_normalize_strategy_families` of the runner only strips names): a family listed
twice replaces its own rows and records by equal ones. Failed and rejected statuses of a
ledger row, and manual overrides, are never written by the pipeline and are left
out. An override record is the one that `--allow-stopped-family` leaves. `due` and
`marked` are history variables for the properties: `due` is what was marked when the
attempt began, without the markers that an overlapping update had taken back.

**RolloutGate.** A validation row is its content, which is what its `evidence_id`
hashes; "not approved" stands for a missing or blocked row, which the gate treats
alike. A trade's profit is a constant; a run records the trades that the history
showed when it simulated, or some of them and a blocked outcome, or clears its outcomes
because its open interest could not be fetched (`DailyClears`). The review loads
outcomes, then evidence, and `build_strategy_evidence_package` loads outcomes
again: three actions. `weak` and `approvals` are history variables.

**CreationCycle.** A commit is the set of cycles whose work is in it. Histories of
`autonomy/active` and of a task branch are linear and each cycle commits at most
once, so the set is at once the commit's tree and its ancestry, and "is an ancestor
of" is "is a subset of". `HighestExitCode` keeps the sign of exit codes: Python
reports a command killed by signal 9 as -9. Any two cycles may draw the same task
id (the second and a digest of the context), which overstates how often they do;
`create_task` refuses the second. `Raise` is every exception that
`run_creation_cycle` does not catch and the command turns into exit code 2. `promoted`, a
history variable, holds the cycles that got as far as merging their own branch.
Git, the builder, the language model and docker are external: they succeed or fail
at any call.

**LedgerMigration.** Each statement of `_create_schema` and
`_migrate_to_run_scoped_primary_key` is an action, because each may be the last:
Python's `sqlite3` opens a transaction before INSERT and DELETE only, so `Drop` and
`Create` are committed where they stand and `Insert` commits the rows together.
`CutOff` is a kill, or a statement refused because the database stays locked. A row
is its run and its item. That SQLite may let a reader in between the two commits is
what the model adds to a reading of the `with` block.

**ResearchGraph.** A checkpoint is the run it belongs to, the node it stands before and the
values that route. The checkpointing library (langgraph, in its default durability; it is
not in the repository, and this rests on knowledge of it) runs a node, hands its
writes and then the next checkpoint to a background thread, and goes on with the next
node. So a process has a loop, at checkpoint `live`, and a `queue` of puts that
`PutNext` does; the invocation returns when they are done, and a kill loses those that
wait. `MaxAhead` bounds how far the loop runs ahead. A resume applies the writes it
finds (`Commit`) and does not run that node again. `Put` changes the process's copy and
then dumps all of it, as `put` and `put_writes` of `checkpointing.py` do; a dump that
fails leaves the copy changed. What an agent computes is an outcome of its node.
`memory` is the records that `update_llm_memory` wrote; what overlapping rewrites
of that file do is the matter of `MemoryStore`. A kill after the record and before
the answer's dump makes the resumed run ask again and leave a second record; no document
promises one, and so `AnswerWasRecorded` says that no checkpoint past the record
exists without it.

**LLMAdapter, ExperimentPlanner, ResearchPlanning.** A post ends in a usable status, a
retryable one, a refusal or nothing; the nested loops of `_post_json_with_retries`, of
the output attempts and of the planner's attempts keep their counts. An answer is a
member of a small set of shapes: text that is no batch, unsafe content, sections with
proposals that pass or fail one check each. A memory record keeps the fields that the
planner reads. Each read of a ledger or of memory is a step before the answer and
each save one step after it, so that others act between. The ledgers are sets of rows,
each with its run, its family and its place in the order of reading; another command adds
the rows of a run, replaces them or clears them, as `replace_run_evidence` and
`replace_run_outcomes` do, and which families degrade may change either way (`Other`).
A ref is a tuple: validations and health rows that may be cited are the last
`RecentLimit`, ten in the code, and a paper ref carries the sample size among the last
outcomes. The history variable `stood` collects the refs for which the ledgers held
rows at some time since the command started.

**ResearchRows to ResearchData.** Time is in bars, a month is `MonthLength` bars. A row is an
observation of a series at a bar, and its numbers are looked up (`Level`, `Volumes`):
only their order and the thresholds of `Rules` matter. `RecordId` has the fields of each
record id in the code, which decide what an upsert overwrites. `_safe_symbol` and
`_safe_component` give one spelling of a market to several; the members of `Symbols` are
markets and not spellings, each stored in one spelling by its client, so that
normalising separates what it separated before. Two markets that differ only in
case or in the place of the slash would share their ids; `RowsKeepTheirSeries` does not
cover them. Each command is a
list of steps made by the operators of `ResearchSources`; a step fetches, filters,
stores, writes its health row and notes its result, one action each. A source that
raises and a page cut at its limit are outcomes of `Fetch`; a store that raises is a
fault; `Kill` may come between any two. A lab's three reads of the database
(universe, records, screens) are three actions. Validators and labs are operators on
the rows a command has read, with returns and costs in whole basis points.

## Runs and bounds

| Run | Shows | Bounds, and why they are enough |
|---|---|---|
| `evidence_run_safety` | one pipeline at a time, release by the holder only and by every holder that ends, report before verdict, verdicts published under the lock | an invocation and its retry on one run id, so that every path is shared and the run id that `__exit__` compares is the same; faults and kills at every step |
| `evidence_run_liveness` | every invocation ends | two runs of one day, so that they share report and latest; kills, and write faults in one of the two |
| `evidence_pipeline` | memory against ledgers, stopped families, while another command updates memory | two families, one of which needs open interest and is simulated and may fail, while the other is only validated and does not; two attempts, which is one retry; one mark by hand |
| `rollout_gate` | what a ready decision is worth | two runs, two trades (a gain of 3, a loss of 2), up to two splits each, minimum 2: the minimum is reached by one run or only by both, and the sum is positive or not |
| `rollout_trades` | violation, see Findings | as above |
| `ledger_migration` | what a command finds that opens a ledger of the older schema | two processes, three openings, so that one may come after two that overlapped; one cut; tables of two runs, one with a row that cannot be moved, and an empty one |
| `ledger_migration_cut` | violation, see Findings | the same |
| `creation_cycle` | what is on `autonomy/active`, what reports say | two scripted cycles and one by hand, three task ids: all may be under way with ids of their own, or any two collide; exit codes 0, 1, -9 |
| `creation_signal` | violation, see Findings | the same |
| `research_graph` | checkpoints, resumes and approvals | two processes on one file with two threads, one of the main or the LLM graph beside one of the planner's; two runs, calls, starts and answers each; one failed dump; puts that wait while the loop goes on, one in the LLM graph more than in the others, so that an answer may be lost after its record was written; runs that need approval and loop once at the feasibility (the loop at the critique and runs without approval are covered by the proofs alone) |
| `research_data` | rows, reports, labs and validators | six bars in months of two, so that windows begin and end inside a month, at its border and across it; pages of one row; eighteen scenarios of one or two commands over two symbols, chosen so that they meet in the same rows; one fault, one kill. Looks back of 24 and 72 bars are 1 and 2, which keeps one longer than the other. ccxt candles meet the open interest of the same bars once, where the quality report's key does not tell them apart |
| `research_planning` | stale inputs, nested retries, what is remembered, what accepted answers cite | three families, of which a report is about two; two inputs (one with an override and a limit), six answers that are no batch, unsafe, accepted, or rejected by one check or another, two iteration batches; three outcomes of which the last two are read, a validation and a health row; two commands, so that the second meets the records of the first; the memory holds a blocked validation at first; one write of another command, to memory (a stop, or the validation approved) or to a ledger (rows of a run added, replaced or cleared); two attempts at each of the three levels instead of three |

Deadlock is not checked in runs whose actors are used once (invocations, cycles,
attempts, commands): the system stops when all have ended. `RolloutGate` never stops
and is checked for deadlock. Each property of a passing run has a mutated definition,
in the module and marked as such, under which TLC finds it violated.

## Fairness

`EvidenceRun` and `ResearchPlanning` have liveness properties. Each
live process is scheduled (`WF` on the steps of each invocation after it started) and
calls it makes return. A process may be killed at any step, and is then never scheduled
again. Nothing is assumed of the operator: the lock has no expiry, no command removes
another's and the repository has no procedure for it, so that after a kill the lock
may stay for ever. What the code gives is safety: an invocation that ends by itself
leaves no stamped lock (`EndedRunReleasesLock`). In `ResearchPlanning` the command that runs
goes on (`WF_vars(Work)`): a post that never answers ends with the client's timeout,
which is one of the outcomes of a post. No fairness is assumed for starting a command, for
faults, for kills or for what other commands write.

## Proofs

All theorems hold for every value of the constants; TLAPS checks them to the leaf.
Assumptions are the `ASSUME`s of the modules: finiteness of the sets of runs, trades,
symbols and months, that the "none" values are not members, that `RunOf` maps
invocations to run ids, that attempts and limits are positive, that the graphs have an
input to start on, and, of the planner, that model answers are of the listed shapes
(`AnswersAssumption`) and that only markers are named like markers (`NamesAssumption`, which
the code keeps by the way it makes its ids).

- `LockExclusion`, `LockNotStolen` (`EvidenceRunLock`): the invariant
  (`HolderOwnsLock`) says that whoever is inside the with block created the file on
  disk, and that once stamped it carries that invocation's run id. Exclusion alone
  is not inductive: a holder of a file that another created would unlink it and let
  a third in. The comparison of run ids in `__exit__` does not carry the proof,
  since a retry shares its id; that `Create` succeeds only where there is no file
  (`O_EXCL`) does.
- `EndedRunsRelease` (`EvidenceRun`): who is out of the with block by itself and still owns
  the file never wrote into it (`LeftLockIsBlank`), since a holder that reads its own file
  back finds its run id there.
- `TypeCorrect`, `CommandKeepsProtocol`, `CommandExcludes` (`EvidenceRun`): the
  invariant relates `pc` to `lockPhase`; then each step of the command is a lock step
  or leaves the lock alone, and exclusion is inherited.
- `ReportFirst`: a second invocation may rename a temp file that is
  not its own, so "my report is on disk before I stage my verdict" says nothing of
  the other's. The invariant (`ReportInv`) follows the content: a temp file is absent
  or has an author; a verdict of a pipeline that returned, staged or published, has
  the report of its author's run id beside it; and what such an invocation has left
  to write starts with the report until the report is there. It needs no lock, so it
  also covers any invocations that were given `--no-lock`.
- `PublishedUnderLock`: the rename that makes a verdict visible may be another
  invocation's, on the shared temp path, so the invariant (`PublishInv`) is about every
  temp file that carries the verdict of a returned pipeline: its author was killed or is
  still about to rename it, and what is left to write after the with block is no such
  verdict. Beside it the lock's invariant, which says that no second author is inside.
- `MigrationIsWhole`, `UndisturbedLedger` (`LedgerMigration`): the first needs only that
  the table, and what each process has selected, hold all or none of the rows that
  nobody has replaced (`WholeInv`), whatever processes overlap; it does not say which,
  and that is the second finding below. The second follows the only open call
  statement by statement: between `DROP` and `INSERT` what is due is in its hands alone
  (`UndisturbedInv`), so it holds as long as no call was cut off there and none overlapped.
- `EvidencePipelineProofs`: the invariants speak by position in the family list.
  Before it, rows are this attempt's; after it, they are whatever earlier attempts
  left (`GatherInv`); `OrderInv` says what is written where the paper ledger is about
  to be touched, `FailureInv` and `MatchInv` what is left behind of the families done
  with. All of them hold however memory updates overlap: `MarkedFamiliesAreSkipped` and
  `CompletedRunsMatch` name what is not promised, a record whose last update was taken
  back and is in `undone`, and `SkippedFamiliesStay` allows a change of memory only to
  what an open store had read. For the first, a marker once written is in the file or
  undone (`MarksInv`). `MemoryStaysBehind` also speaks of what the open stores hold
  (`BehindInv`), because any of them may be written back.
- `ReadyIsClean`, `WeakEvidenceBarsReadiness`, `ReadyOnDistinctResults` (`RolloutGate`): the ledger grows and
  shrinks between the reads; the minimum on the later read follows only from the
  comparison of sample sizes in the readiness check. For weak evidence the invariant
  (`WeakInv`) says that what the review holds was the ledger's content in a state of the
  review. For distinct results (`SplitsInv`): each approved row was recorded, what was recorded
  is never taken back, and so rows replaced between the reads add no split for
  which there is no result.
- `TipIsVerified`, `PromotedWorkOnly`, `PromotionsStay`, `ReportsAreTrue`,
  `CreationTypes` (`CreationCycle`): a cycle past its promotion with no reason code
  is Done for good; `autonomy/active` and the branches cycles work on begin as Sound
  commits (all Done, one of them verified the whole), two cycles never share a
  task, so a commit is what was verified, and a fast-forward moves active from Sound
  to Sound. A cycle that is Done has merged its own branch (`promoted`), so the work of one
  that failed or was killed before is on no branch of another. Why not the property alone: the next promotion starts from a branch made
  long ago, so the invariant must say of that branch what the property says of
  active.
- `FinalProposalsWereApproved` (`ResearchGraph`): copies of checkpoints may be as old
  as they like, in files and in processes, so the invariant is one about each
  checkpoint wherever it is: final only where its run was approved.
- `TracesArePaths`: the same way, each checkpoint by itself: what it has run is a path of
  its graph from the entry, its counters are those of the path, and its
  pending writes are those of its next node (`PathInv`). The counters bound the loops.
- `ProgressEndures`: it speaks of processes that follow each other, so the invariant
  (`AloneInv`) compares the only process with the file: its copy is level with it or, after
  a dump that failed, ahead of it, and what waits in its queue is further on, one put
  after the other. With two processes at once it is not true: the saver writes the whole
  file from its own copy.
- `AnswersAreRecorded`: each checkpoint by itself again, wherever it is, in a file, a copy, a
  loop or a queue; records are never taken away, and the step that makes a checkpoint pass
  `update_llm_memory` has written the record of the answer it holds (`RecordInv`).
- `PlanTypes`, `AnswersCostBoundedPosts`, `AcceptedIsGrounded` (`ResearchPlanning`): the
  bound on posts is not inductive; the posts of the attempts that are over are counted
  by the attempt the command is at, those of the attempt under way by the place of its
  call. For the report, what a command
  has read of the ledgers stood there when it read it (`IterationInv`); that rows are
  replaced or cleared before the answer comes does not matter, since the claim is about
  what stood.
- `StopsAreRespected`, `OthersSurvive`, `UnsafeIsRemembered` (`ResearchPlanning`): what barred
  a proposal when the command read it stays in the file until its proposals
  are saved, unless another command took it back (`RespectInv`); the planner saves through a
  store that it opens for the save, so what others wrote while the model answered is in
  that store (`StoreInv`); the rejection of an unsafe answer is the last record of the
  queue, and a command that has gone through has emptied its queue (`RememberInv`).
- `RowsKeepTheirIds`, `ReportsOfStoredRows`, `StatesComeFromOneReport`,
  `PaperRunsFollow` (`ResearchData`): the ids of the fifteen kinds of rows are distinct
  (each id read back gives its row), so an upsert only adds, so what was reported stored
  stays stored (`StoredInv`); paper runs follow validations because both are functions of the
  rows read (`FamiliesInv`).
- `QualityReported`: a hole of a series lies between two neighbours in its times, which is
  what `quality.py` looks for; and two rows with one key are the same row or a candle
  and an open interest, which needs the keys of all fifteen kinds of rows.
- `CampaignsReportTruly`: rows are of bars that the exchange lists (`ListedInv`), a
  campaign's jobs and rows are of its symbols' futures candles (`CampaignInv`), and a row
  reported stored is stored; the report at the end therefore finds its month, and
  finds no month that the exchange does not have. The history `known` of a result has
  the months that were stored when that job ended, whoever stored them: none of them is
  reported missing.
- `PassingValidationsHold`: what a passing entry holds is what the validator gives on the rows
  of its window (`EntriesInv`; a paper run that raises takes the approval away). Then it is
  about rows in the order of time: where no two share one, a row's place is the
  number of earlier rows, so a trade is entered at or after its funding and left later,
  and what the open interest says at a time depends on the rows until then alone.
- `BootstrapsAreComplete`: each step that collects a series lies ahead of the command, or has
  what it collects in the table, or has failed, and then the manifest cannot say success
  (`BootstrapInv`; a row once stored stays). That the steps cover the windows is arithmetic
  of segments and months: a listed time of a window lies in one of its segments, and
  before the limit of that segment's page.
- `PassingLabsAreOnCleanRows`: a lab's report is of the universe and the rows that it read
  (`LabInv`), and a candidate passes only where the coverage gaps are absent. Without them
  every symbol has one candle at each of the same times; each observation of each template is
  from one of these times to a later one, and cost filter and sorting add none. The two older
  labs are alike, on the times that their symbols share.
- `LabsDoNotLookAhead`: under the same invariant, the observations of a passing candidate that
  have ended by a bar are those that the rows up to that bar give. Three facts carry it: a part of
  an ordered set, in order, is what the part's places give of the whole (`PartInOrder`); the rows up
  to a bar give the first of the same candles, and the first of the same shared times
  (`MarketIsCut`, `TimesAreCut`); and each template takes the same at a place as before, but for
  the last candle, whose trade has no end yet (`TakesTheSame`, `RankedRowsAreCut`,
  `MomentumTradeIsCut`, `SignalsAreCut`). The two older labs need no clean rows for it. That
  the high of the momentum lab lies within its look back rests on
  `ShortLookback <= LongLookback`, one week and two in the code (`LabsAssumption`).

Two of these state definitions that no run checks: `PaperFollowsEvidence`
(`EvidenceBeforePaper`) and `StatesComeFromOneReport` (`StatesAreOfOneReport`).

Only model-checked: the liveness properties `InvocationEnds` and `CommandEnds`; liveness under fairness is outside the prover's reach. Every other
property of a passing run is a theorem.

`UNION` and `SUBSET` stand in parentheses before an infix operator: TLC reads `UNION A \cup B` as
`(UNION A) \cup B`, the prover as `UNION (A \cup B)`.

## Findings

Where TLC finds the code to do other than the repository says (each a `violation`
run; the lines quoted are in `PROJECT.json`):

1. One trade seen by two daily runs counts as two paper trades
   (`ReadyOnDistinctTrades`).
2. A migration of the validation ledger that is cut off after its DROP TABLE leaves a
   ledger that opens without the evidence it had (`OpenedLedgerIsComplete`).
3. A verification command killed by a signal counts as passed, and its work is
   promoted (`OnlyPassingPromoted`).

Further divergences, met while modelling; no run is kept for them:

- A degraded-family marker is erased by a memory update that overlapped it, and the
  family runs again (`docs/runbook.md:955-957` against `memory/store.py:198`). This is
  what `undone` stands for in `MarkedFamilySkipped`: counted as due all the same, such a
  family is found to run.
- A retry that the lock refuses writes its failed manifest over that of the run which
  then succeeds (`docs/runbook.md:981-983` against `cli.py:3196`).
- A refused invocation may exit 2 without its failed-run marker, when the other one
  renames the shared temp file away (`docs/roadmap.md:1014-1016` against
  `pipeline/evidence_run_ops.py:131-133`).
- A review may publish an evidence package other than the one it judged, since it reads
  the ledger again (`docs/rollout-gates.md:74-75` against `risk/rollout.py:289`).
- The backup copies the database, then the memory file, without a lock
  (`docs/vps-deployment.md:227` against `ops/backup-var.sh:22`): a run in between leaves a
  copy whose memory is ahead of its ledgers; a copy made while SQLite writes may be torn.
- Invalid funding alignment is not on the allow list of the crowding family, so that it
  does not block there (`docs/roadmap.md:1416-1417` against
  `strategy/funding_oi_crowding.py:431-443`).
- `purge_gap_bars` of the multi-hypothesis lab takes away observations, not bars
  (`pipeline/multi_hypothesis_feasibility.py:928-970`).
- Duplicate experiments are recognised among rejected records only
  (`docs/roadmap.md:1481-1482` against `pipeline/experiment_planner.py:842`).
- The planner can be told to allow a stopped family, but no command passes that on
  (`docs/runbook.md:955-958`).
- Two commands that migrate the ledger at once can erase what the other committed.
- The quality report calls a ccxt candle and the ccxt open interest of the same bar
  duplicates: its key is source, venue, symbol, period and time for both
  (`data/quality.py:276-335`). `QualityReportIsTrue` says that these are the only ones.

Not divergences, but worth knowing: an aborted attempt may leave the ledgers ahead of
memory for a family that later attempts skip; a creation cycle whose report cannot
be written after its promotion is reported failed although its work is merged; of the
records that the planner saves for a batch, those of an earlier answer to the same
inputs stay.

## Not modelled

- Agents inside their nodes, guardian, charter, feasibility and paper gates, approvals: each
  decides on one record by a list of comparisons that a definition would only repeat. Where a
  modelled command calls them, their verdict is a choice.
- The momentum and OHLCV validators; the figures of a report beside those that gate; memory search.
- Clients of exchanges and data services, HTTP, prompts, payload schemas, parsing of single
  fields, report wording, logging and redaction are input and output; where they can fail,
  the failure is a choice in the models.
- Backtests wrap other engines. The execution adapters refuse to execute; the paper account is the
  arithmetic of one object within one call.
- The argument parser, the commands of `cli.py` that only render, scheduler plans, the shell scripts
  other than those of the evidence run and the creation cycle.
- Lines of the memory file written under another version of the record's schema, and retries of a
  run with another list of families, are outside the models (hazards in `PROJECT.json`).
- Floats are whole numbers of a small unit: rounding is not modelled.

## Plan

Done: lock and command, memory file, pipeline, rollout gate, creation cycle, each with
proofs; ledger migration; research graphs with checkpoints; planner, iteration controller
and model calls; research data with bootstrap, campaign, labs, validators and
registry.

Left, in this order:

1. The gates on single records (`risk/guardian.py`, `paper_gate.py`) as operators, where a
   modelled command decides with them.
2. The degradation window of `evidence_reports.py` and the momentum validators, on the rows of
   `ResearchRows`.
