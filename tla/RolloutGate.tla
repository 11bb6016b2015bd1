---------------------------- MODULE RolloutGate ----------------------------
(***************************************************************************)
(* rollout-review of one strategy family (risk/rollout.py and              *)
(* evidence/live_readiness.py) over the ledgers that the daily runs of     *)
(* module EvidencePipeline fill, while those runs go on: the review reads  *)
(* the ledgers several times, on a connection of its own each time.        *)
(*                                                                         *)
(* Every daily run simulates the whole stored market history, so a trade   *)
(* appears under each run id that saw it.  Amounts are integers; a         *)
(* validation row is its content, which is what its evidence_id hashes.    *)
(***************************************************************************)
EXTENDS Integers, FiniteSets, FiniteSetsExt

CONSTANTS
    Runs,           \* daily run ids of the family
    Trades,         \* the trades its rule finds in the market, ever
    Pnl,            \* profit and loss of each, after costs
    MaxSplits,      \* bound: walk-forward splits of one validation
    MinTrades,      \* min_paper_trade_count, and the readiness minimum
    MinSplits,      \* min_walk_forward_splits, and the readiness minimum
    CharterLoss,    \* the charter's cap on the daily loss
    LossBudgets,    \* the --max-daily-loss-usd values that operators pass
    NoRun

ASSUME RolloutAssumption ==
    /\ IsFiniteSet(Runs) /\ IsFiniteSet(Trades)
    /\ Pnl \in [Trades -> Int]
    /\ MaxSplits \in Nat /\ MinTrades \in Nat \ {0} /\ MinSplits \in Nat \ {0}
    /\ CharterLoss \in Nat /\ LossBudgets \subseteq Nat
    /\ NoRun \notin Runs

VARIABLES
    history,    \* the trades that the stored market data shows so far
    running,    \* the run that has validated and will write outcomes, or NoRun
    closed,     \* paper ledger: the trades each run recorded as closed
    blocked,    \* paper ledger: the runs with a blocked outcome
    verdict,    \* validation ledger: the row of each run
    at,         \* control point of the review
    observed,   \* the observations that the review loaded
    splits,     \* the walk-forward splits that it loaded
    decision,   \* of the last review that ended
    approvals,  \* history: contents of all approved rows ever recorded
    weak        \* history: runs with a non-positive row since the review began

storeVars == <<history, running, closed, blocked, verdict>>
reviewVars == <<at, observed, splits, decision>>
vars == <<storeVars, reviewVars, approvals, weak>>

----------------------------------------------------------------------------
(* Rows                                                                    *)

(* An approved row has splits and no blocked reason; positive says that    *)
(* its expectancy after slippage is above the floor of zero.               *)
Approved == [approved : {TRUE}, splits : 1 .. MaxSplits, positive : BOOLEAN]
NotApproved == [approved |-> FALSE, splits |-> 0, positive |-> FALSE]  \* or no row

Contents == Approved \cup {NotApproved}

Weak(rows) == {r \in Runs : rows[r].approved /\ ~rows[r].positive}

(* paper_outcomes_to_rollout_observations: one observation per closed row. *)
(* The trade id is the outcome id, which begins with the run id, so two    *)
(* observations never have the same id.                                    *)
Observations == {o \in Runs \X Trades : o[2] \in closed[o[1]]}

(* validation_evidence_to_walk_forward_splits skips a content it has seen. *)

SplitsPerRun ==     \* mutant: every row is counted
    {<<verdict[r], i, r>> : r \in {q \in Runs : verdict[q].approved}, i \in 1 .. MaxSplits}

(* (content, index), the split ids of the code.                            *)
Splits ==
    {s \in Approved \X (1 .. MaxSplits) :
        s[2] <= s[1].splits /\ \E r \in Runs : verdict[r] = s[1]}

Net(rows) == MapThenSumSet(LAMBDA o : Pnl[o[2]], rows)

----------------------------------------------------------------------------
(* Gates                                                                   *)

(* evaluate_rollout, for the conditions that paper rows written by the     *)
(* pipeline can fail: they are closed or blocked, never failed, and carry  *)
(* no manual override.                                                     *)

EligibleUnstable(rows, evidence) ==     \* mutant: weak splits are accepted
    /\ Cardinality(rows) >= MinTrades
    /\ Cardinality(evidence) >= MinSplits
    /\ Net(rows) > 0

Eligible(rows, evidence) ==
    /\ Cardinality(rows) >= MinTrades
    /\ Cardinality(evidence) >= MinSplits
    /\ Net(rows) > 0
    /\ \A s \in evidence : s[1].positive

WithinBudget(rows, budget) == \A o \in rows : -Pnl[o[2]] <= budget

(* paper_positive_clean and sample_covers_rollout of the readiness check,  *)
(* on the evidence package: a blocked outcome counts as a failure.         *)

CoversWithBlocked(package, rows) ==     \* mutant: a blocked outcome is no failure
    /\ Net(package) > 0
    /\ Cardinality(package) >= Cardinality(rows)

Covers(package, rows) ==
    /\ blocked = {}
    /\ Net(package) > 0
    /\ Cardinality(package) >= Cardinality(rows)

----------------------------------------------------------------------------
(* The type of the state: a run that simulates is one of the runs, and     *)
(* closed rows are trades the market had shown.                            *)
TypeOK ==
    /\ history \subseteq Trades
    /\ running \in Runs \cup {NoRun}
    /\ closed \in [Runs -> SUBSET history]
    /\ blocked \subseteq Runs
    /\ verdict \in [Runs -> Contents]
    /\ at \in {"idle", "evidence", "package"}
    /\ observed \subseteq Runs \X history
    /\ splits \subseteq Approved \X (1 .. MaxSplits)
    /\ decision \in {"none", "blocked", "ready"}
    /\ approvals \subseteq Approved
    /\ weak \subseteq Runs

Init ==
    /\ history = {} /\ running = NoRun
    /\ closed = [r \in Runs |-> {}] /\ blocked = {}
    /\ verdict = [r \in Runs |-> NotApproved]
    /\ at = "idle" /\ observed = {} /\ splits = {} /\ decision = "none"
    /\ approvals = {} /\ weak = {}

(* The data store keeps every record it ingests.                           *)
MarketMoves ==
    /\ \E t \in Trades \ history : history' = history \cup {t}
    /\ UNCHANGED <<running, closed, blocked, verdict, reviewVars, approvals, weak>>

(* replace_run_evidence, for a new run id or again for an old one.         *)
DailyValidates(r) ==
    /\ running = NoRun
    /\ running' = r
    /\ \E c \in Contents : verdict' = [verdict EXCEPT ![r] = c]
    /\ approvals' = approvals \cup ({verdict'[r]} \cap Approved)
    /\ weak' = weak \cap Weak(verdict')
    /\ UNCHANGED <<history, closed, blocked, reviewVars>>

(* replace_run_outcomes: no trade, no approval or an execution that the    *)
(* cost model refuses leave a blocked outcome.                             *)

DailySimulates(r) ==
    /\ running = r
    /\ running' = NoRun
    /\ \E rows \in SUBSET history :
          /\ closed' = [closed EXCEPT ![r] = rows]
          /\ blocked' = IF rows = history /\ rows # {} THEN blocked \ {r} ELSE blocked \cup {r}
    /\ UNCHANGED <<history, verdict, reviewVars, approvals, weak>>

(* replace_run_outcomes with no outcome: the branch of a family whose open *)
(* interest could not be fetched, after its blocked validation row.        *)
DailyClears(r) ==
    /\ running = r
    /\ verdict[r] = NotApproved
    /\ running' = NoRun
    /\ closed' = [closed EXCEPT ![r] = {}]
    /\ blocked' = blocked \ {r}
    /\ UNCHANGED <<history, verdict, reviewVars, approvals, weak>>

(* The pipeline stops between the two: an exception or a killed process.   *)
DailyAborts ==
    /\ running # NoRun
    /\ running' = NoRun
    /\ UNCHANGED <<history, closed, blocked, verdict, reviewVars, approvals, weak>>

(* build_rollout_review_artifact: load_outcomes,                           *)
LoadOutcomes ==
    /\ at = "idle"
    /\ at' = "evidence"
    /\ observed' = Observations
    /\ decision' = "none"
    /\ weak' = Weak(verdict)
    /\ UNCHANGED <<storeVars, splits, approvals>>

(* load_evidence,                                                          *)
LoadEvidence ==
    /\ at = "evidence"
    /\ at' = "package"
    /\ splits' = Splits
    /\ UNCHANGED <<storeVars, observed, decision, approvals, weak>>

(* build_strategy_evidence_package, which loads the outcomes again, then   *)
(* evaluate_rollout and generate_tiny_live_readiness_artifact.             *)
Decide(budget, humanApproved) ==
    /\ at = "package"
    /\ at' = "idle"
    /\ decision' =
          IF /\ Eligible(observed, splits)
             /\ WithinBudget(Observations, budget)
             /\ Covers(Observations, observed)
             /\ humanApproved
             /\ budget <= CharterLoss
          THEN "ready" ELSE "blocked"
    /\ observed' = {} /\ splits' = {}
    /\ UNCHANGED <<storeVars, approvals, weak>>

Next ==
    \/ MarketMoves
    \/ \E r \in Runs : DailyValidates(r) \/ DailySimulates(r) \/ DailyClears(r)
    \/ DailyAborts
    \/ LoadOutcomes
    \/ LoadEvidence
    \/ \E budget \in LossBudgets, humanApproved \in BOOLEAN : Decide(budget, humanApproved)

Spec == Init /\ [][Next]_vars

----------------------------------------------------------------------------
(* Properties                                                              *)

BecomesReady == at = "package" /\ decision' = "ready"

(* Whatever the daily runs did between its reads, a review that says ready *)
(* says so of a paper ledger that has the minimum of closed rows, no       *)
(* blocked outcome of any run, a profit, and no loss beyond the charter.   *)
ReadyOnCleanLedger ==
    [][BecomesReady =>
          /\ Cardinality(Observations) >= MinTrades
          /\ blocked = {}
          /\ Net(Observations) > 0
          /\ WithinBudget(Observations, CharterLoss)]_vars

(* The splits of all validation results that were ever recorded, each      *)
(* result once.                                                            *)
RecordedSplits ==
    {s \in Approved \X (1 .. MaxSplits) : s[1] \in approvals /\ s[2] <= s[1].splits}

(* The walk-forward splits behind a ready decision come from different     *)
(* validation results: a result that several runs recorded counts once.    *)
ReadyOnDistinctEvidence == decision = "ready" => Cardinality(RecordedSplits) >= MinSplits

(* A run whose approved validation is not positive bars readiness while    *)
(* its row stays: no review during all of which it was there says ready.   *)
WeakEvidenceBars == decision = "ready" => weak = {}

(* Readiness takes the minimum of paper trades, not of records of them     *)
(* (docs/rollout-gates.md, "Minimum paper trades" and "stable trade        *)
(* identifier").                                                           *)
ReadyOnDistinctTrades == decision = "ready" => Cardinality(history) >= MinTrades

=============================================================================
