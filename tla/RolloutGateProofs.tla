------------------------- MODULE RolloutGateProofs -------------------------
(***************************************************************************)
(* What a ready decision is worth, for any number of runs, trades and      *)
(* amounts: the review judges the outcomes it loaded first, the readiness  *)
(* check a package it loads later, and only the comparison of the two      *)
(* sample sizes makes the minimum hold of the later one.                   *)
(***************************************************************************)
EXTENDS RolloutGate, FiniteSetTheorems, TLAPS

(* A review under way has not decided, and holds rows that can be counted. *)
ReviewInv ==
    /\ observed \subseteq Runs \X Trades
    /\ at \in {"evidence", "package"} => decision = "none"

LEMMA ReviewInvInit == Init => ReviewInv
  BY DEF Init, ReviewInv

LEMMA ReviewInvStep == ReviewInv /\ [Next]_vars => ReviewInv'
<1> SUFFICES ASSUME ReviewInv, [Next]_vars PROVE ReviewInv'
  OBVIOUS
<1>1. CASE LoadOutcomes
  BY <1>1 DEF LoadOutcomes, ReviewInv, Observations
<1>2. CASE LoadEvidence
  BY <1>2 DEF LoadEvidence, ReviewInv
<1>3. ASSUME NEW budget \in LossBudgets, NEW humanApproved \in BOOLEAN,
             Decide(budget, humanApproved)
      PROVE  ReviewInv'
  BY <1>3 DEF Decide, ReviewInv
<1>4. CASE UNCHANGED reviewVars
  BY <1>4 DEF reviewVars, ReviewInv
<1>5. ASSUME NEW r \in Runs, DailyValidates(r) \/ DailySimulates(r) \/ DailyClears(r)
      PROVE  UNCHANGED reviewVars
  BY <1>5 DEF DailyValidates, DailySimulates, DailyClears
<1>6. MarketMoves \/ DailyAborts => UNCHANGED reviewVars
  BY DEF MarketMoves, DailyAborts
<1>7. UNCHANGED vars => UNCHANGED reviewVars
  BY DEF vars
<1>8. QED
  BY <1>1, <1>2, <1>3, <1>4, <1>5, <1>6, <1>7 DEF Next

(* Rows of finitely many runs and trades can be counted.                   *)
LEMMA RowsAreFinite ==
    ASSUME NEW rows, rows \subseteq Runs \X Trades
    PROVE  Cardinality(rows) \in Nat
<1>1. IsFiniteSet(Runs \X Trades)
  BY RolloutAssumption, FS_Product
<1>2. QED
  BY <1>1, FS_Subset, FS_CardinalityType

(* The decision is taken in one step, on outcomes read in that step.       *)
LEMMA ReadyStep ==
    ASSUME ReviewInv, [Next]_vars, BecomesReady
    PROVE  /\ Cardinality(Observations) >= MinTrades
           /\ blocked = {}
           /\ Net(Observations) > 0
           /\ WithinBudget(Observations, CharterLoss)
<1>1. PICK budget \in LossBudgets, humanApproved \in BOOLEAN : Decide(budget, humanApproved)
  BY DEF BecomesReady, ReviewInv, Next, vars, reviewVars, MarketMoves, DailyValidates,
     DailySimulates, DailyClears, DailyAborts, LoadOutcomes, LoadEvidence
<1>2. /\ Eligible(observed, splits) /\ WithinBudget(Observations, budget)
      /\ Covers(Observations, observed) /\ budget <= CharterLoss
  BY <1>1 DEF Decide, BecomesReady
<1>3. blocked = {} /\ Net(Observations) > 0
  BY <1>2 DEF Covers
<1>4. Cardinality(Observations) >= MinTrades
  <2>1. Cardinality(observed) >= MinTrades /\ Cardinality(Observations) >= Cardinality(observed)
    BY <1>2 DEF Eligible, Covers
  <2>2. Cardinality(observed) \in Nat
    BY RowsAreFinite DEF ReviewInv
  <2>3. Cardinality(Observations) \in Nat
    BY RowsAreFinite DEF Observations
  <2>4. QED
    BY <2>1, <2>2, <2>3, RolloutAssumption
<1>5. WithinBudget(Observations, CharterLoss)
  <2> SUFFICES ASSUME NEW o \in Observations PROVE -Pnl[o[2]] <= CharterLoss
    BY DEF WithinBudget
  <2>1. Pnl[o[2]] \in Int
    BY RolloutAssumption DEF Observations
  <2>2. -Pnl[o[2]] <= budget
    BY <1>2 DEF WithinBudget
  <2>3. QED
    BY <1>2, <2>1, <2>2, RolloutAssumption
<1>6. QED
  BY <1>3, <1>4, <1>5

(* rollout-review says ready only of a ledger that at that moment has the  *)
(* minimum of rows, none blocked, a profit and no loss beyond the charter, *)
(* whatever daily runs committed between its reads.                        *)
THEOREM ReadyIsClean == Spec => ReadyOnCleanLedger
<1>1. ASSUME ReviewInv, [Next]_vars
      PROVE  [BecomesReady =>
                 /\ Cardinality(Observations) >= MinTrades
                 /\ blocked = {}
                 /\ Net(Observations) > 0
                 /\ WithinBudget(Observations, CharterLoss)]_vars
  BY <1>1, ReadyStep
<1>2. QED
  BY <1>1, ReviewInvInit, ReviewInvStep, PTL DEF Spec, ReadyOnCleanLedger

----------------------------------------------------------------------------
(* The types, and what an approved validation that is not positive leaves. *)

LEMMA RolloutTypesInit == Init => TypeOK
<1> SUFFICES ASSUME Init PROVE TypeOK
  OBVIOUS
<1>1. NotApproved \in Contents
  BY DEF Contents
<1>2. /\ closed \in [Runs -> SUBSET history]
      /\ verdict \in [Runs -> Contents]
  BY <1>1 DEF Init
<1>3. QED
  BY <1>2 DEF Init, TypeOK

LEMMA RolloutTypesStep == TypeOK /\ [Next]_vars => TypeOK'
<1> SUFFICES ASSUME TypeOK, [Next]_vars PROVE TypeOK'
  OBVIOUS
<1>1. CASE MarketMoves
  <2>1. history \subseteq history' /\ history' \subseteq Trades
    BY <1>1 DEF MarketMoves, TypeOK
  <2>2. closed' \in [Runs -> SUBSET history'] /\ observed' \subseteq Runs \X history'
    BY <1>1, <2>1 DEF MarketMoves, TypeOK, reviewVars
  <2>3. QED
    BY <1>1, <2>1, <2>2 DEF MarketMoves, TypeOK, reviewVars
<1>2. ASSUME NEW r \in Runs, DailyValidates(r) PROVE TypeOK'
  <2>1. verdict' \in [Runs -> Contents] /\ running' \in Runs \cup {NoRun}
    BY <1>2 DEF DailyValidates, TypeOK
  <2>2. approvals' \subseteq Approved /\ weak' \subseteq Runs
    BY <1>2 DEF DailyValidates, TypeOK
  <2>3. QED
    BY <1>2, <2>1, <2>2 DEF DailyValidates, TypeOK, reviewVars
<1>3. ASSUME NEW r \in Runs, DailySimulates(r) PROVE TypeOK'
  <2>1. closed' \in [Runs -> SUBSET history] /\ blocked' \subseteq Runs
    BY <1>3 DEF DailySimulates, TypeOK
  <2>2. QED
    BY <1>3, <2>1 DEF DailySimulates, TypeOK, reviewVars
<1>4. CASE DailyAborts
  BY <1>4 DEF DailyAborts, TypeOK, reviewVars
<1>5. ASSUME NEW r \in Runs, DailyClears(r) PROVE TypeOK'
  <2>1. closed' \in [Runs -> SUBSET history] /\ blocked' \subseteq Runs
    BY <1>5 DEF DailyClears, TypeOK
  <2>2. QED
    BY <1>5, <2>1 DEF DailyClears, TypeOK, reviewVars
<1>6. CASE LoadOutcomes
  <2>1. observed' \subseteq Runs \X history
    BY <1>6 DEF LoadOutcomes, Observations, TypeOK
  <2>2. weak' \subseteq Runs
    BY <1>6 DEF LoadOutcomes, Weak
  <2>3. QED
    BY <1>6, <2>1, <2>2 DEF LoadOutcomes, TypeOK, storeVars
<1>7. CASE LoadEvidence
  <2>1. splits' \subseteq Approved \X (1 .. MaxSplits)
    BY <1>7 DEF LoadEvidence, Splits
  <2>2. QED
    BY <1>7, <2>1 DEF LoadEvidence, TypeOK, storeVars
<1>8. ASSUME NEW budget \in LossBudgets, NEW humanApproved \in BOOLEAN,
             Decide(budget, humanApproved)
      PROVE  TypeOK'
  <2>1. decision' \in {"ready", "blocked"}
    BY <1>8 DEF Decide
  <2>2. QED
    BY <1>8, <2>1 DEF Decide, TypeOK, storeVars
<1>9. CASE UNCHANGED vars
  BY <1>9 DEF vars, storeVars, reviewVars, TypeOK
<1>10. QED
  BY <1>1, <1>2, <1>3, <1>4, <1>5, <1>6, <1>7, <1>8, <1>9 DEF Next

(* The weak runs are among the weak of now; once the splits are loaded one *)
(* of them is not positive for as long as such a run is left.              *)
WeakInv ==
    /\ TypeOK
    /\ at # "idle" => weak \subseteq Weak(verdict)
    /\ at = "package" /\ weak # {} => \E s \in splits : ~s[1].positive
    /\ decision = "ready" => weak = {}

LEMMA WeakLeavesSplit ==
    ASSUME TypeOK, NEW r \in Weak(verdict)
    PROVE  \E s \in Splits : ~s[1].positive
<1>1. r \in Runs /\ verdict[r].approved /\ ~verdict[r].positive /\ verdict[r] \in Contents
  BY DEF Weak, TypeOK
<1>2. verdict[r] \in Approved
  BY <1>1 DEF Contents, NotApproved
<1>3. verdict[r].splits \in 1 .. MaxSplits
  BY <1>2 DEF Approved
<1>4. 1 \in 1 .. MaxSplits /\ 1 <= verdict[r].splits
  BY <1>3, RolloutAssumption
<1>5. <<verdict[r], 1>> \in Splits
  BY <1>1, <1>2, <1>4 DEF Splits
<1>6. QED
  BY <1>1, <1>5

LEMMA WeakInvStep == WeakInv /\ [Next]_vars => WeakInv'
<1> SUFFICES ASSUME WeakInv, [Next]_vars PROVE WeakInv'
  OBVIOUS
<1>1. TypeOK /\ TypeOK'
  BY RolloutTypesStep DEF WeakInv
<1>2. ASSUME NEW r \in Runs, DailyValidates(r) PROVE WeakInv'
  BY <1>1, <1>2 DEF DailyValidates, WeakInv, reviewVars
<1>3. CASE LoadOutcomes
  BY <1>1, <1>3 DEF LoadOutcomes, WeakInv, storeVars
<1>4. CASE LoadEvidence
  <2>1. weak \subseteq Weak(verdict) /\ UNCHANGED <<weak, verdict, decision>> /\ splits' = Splits
    BY <1>4 DEF LoadEvidence, WeakInv, storeVars
  <2>2. weak # {} => \E s \in Splits : ~s[1].positive
    BY <1>1, <2>1, WeakLeavesSplit
  <2>3. QED
    BY <1>1, <1>4, <2>1, <2>2 DEF LoadEvidence, WeakInv
<1>5. ASSUME NEW budget \in LossBudgets, NEW humanApproved \in BOOLEAN,
             Decide(budget, humanApproved)
      PROVE  WeakInv'
  <2>1. at = "package" /\ at' = "idle" /\ weak' = weak
    BY <1>5 DEF Decide
  <2>2. decision' = "ready" => \A s \in splits : s[1].positive
    BY <1>5 DEF Decide, Eligible
  <2>3. QED
    BY <1>1, <2>1, <2>2 DEF WeakInv
<1>6. CASE UNCHANGED <<verdict, reviewVars, weak>>
  BY <1>1, <1>6 DEF WeakInv, reviewVars
<1>7. ASSUME NEW r \in Runs, DailySimulates(r) \/ DailyClears(r) PROVE WeakInv'
  BY <1>6, <1>7 DEF DailySimulates, DailyClears
<1>8. MarketMoves \/ DailyAborts \/ UNCHANGED vars => UNCHANGED <<verdict, reviewVars, weak>>
  BY DEF MarketMoves, DailyAborts, vars, storeVars
<1>9. QED
  BY <1>2, <1>3, <1>4, <1>5, <1>6, <1>7, <1>8 DEF Next

(* No review is ready that had an approved validation without a positive   *)
(* expectancy before it during the whole of it, in whatever order the      *)
(* daily runs replace their rows (risk/rollout.py, evaluate_rollout).      *)
THEOREM WeakEvidenceBarsReadiness == Spec => []WeakEvidenceBars
<1>1. Init => WeakInv
  BY RolloutTypesInit DEF Init, WeakInv
<1>2. WeakInv => WeakEvidenceBars
  BY DEF WeakInv, WeakEvidenceBars
<1>3. QED
  BY <1>1, <1>2, WeakInvStep, PTL DEF Spec

----------------------------------------------------------------------------
(* The splits that a review counts.  Every approved row was recorded, and  *)
(* what was recorded is never taken back, so that replacing rows between   *)
(* the reads adds no split to the review that no result stands for.        *)
SplitsInv ==
    /\ TypeOK
    /\ \A r \in Runs : verdict[r] \in approvals \cup {NotApproved}
    /\ splits \subseteq RecordedSplits
    /\ ReadyOnDistinctEvidence

LEMMA RecordedIsFinite ==
    ASSUME NEW S, S \subseteq Approved \X (1 .. MaxSplits)
    PROVE  IsFiniteSet(S)
<1> DEFINE P == (1 .. MaxSplits) \X BOOLEAN
           row == [x \in P |-> [approved |-> TRUE, splits |-> x[1], positive |-> x[2]]]
<1>1. IsFiniteSet(1 .. MaxSplits)
  BY RolloutAssumption, FS_Interval
<1>2. IsFiniteSet(BOOLEAN)
  <2>1. IsFiniteSet({TRUE}) /\ IsFiniteSet({FALSE})
    BY FS_Singleton
  <2>2. BOOLEAN = {TRUE} \cup {FALSE}
    OBVIOUS
  <2>3. QED
    BY <2>1, <2>2, FS_Union
<1>3. IsFiniteSet(P)
  BY <1>1, <1>2, FS_Product
<1>4. row \in Surjection(P, Approved)
  <2>1. row \in [P -> Approved]
    BY DEF Approved
  <2>2. ASSUME NEW c \in Approved PROVE \E x \in P : row[x] = c
    <3>1. <<c.splits, c.positive>> \in P
      BY DEF Approved
    <3>2. row[<<c.splits, c.positive>>] = c
      BY <3>1 DEF Approved
    <3>3. QED
      BY <3>1, <3>2
  <2>3. QED
    BY <2>1, <2>2 DEF Surjection
<1>5. IsFiniteSet(Approved)
  BY <1>3, <1>4, FS_Surjection
<1>6. QED
  BY <1>1, <1>5, FS_Product, FS_Subset

(* More results, no fewer splits.                                          *)
LEMMA RecordedGrows ==
    ASSUME approvals \subseteq approvals'
    PROVE  /\ RecordedSplits \subseteq RecordedSplits'
           /\ Cardinality(RecordedSplits) \in Nat /\ Cardinality(RecordedSplits') \in Nat
           /\ Cardinality(RecordedSplits) <= Cardinality(RecordedSplits')
<1>1. RecordedSplits \subseteq RecordedSplits'
  BY DEF RecordedSplits
<1>2. IsFiniteSet(RecordedSplits) /\ IsFiniteSet(RecordedSplits')
  BY RecordedIsFinite DEF RecordedSplits
<1>3. QED
  BY <1>1, <1>2, FS_Subset, FS_CardinalityType

LEMMA SplitsInvStep == SplitsInv /\ [Next]_vars => SplitsInv'
<1> SUFFICES ASSUME SplitsInv, [Next]_vars PROVE SplitsInv'
  OBVIOUS
<1>1. TypeOK /\ TypeOK'
  BY RolloutTypesStep DEF SplitsInv
<1>2. ASSUME approvals \subseteq approvals', decision' \in {decision, "none", "blocked"}
      PROVE  ReadyOnDistinctEvidence'
  <2>1. Cardinality(RecordedSplits) <= Cardinality(RecordedSplits')
    BY <1>2, RecordedGrows
  <2>2. Cardinality(RecordedSplits) \in Nat /\ Cardinality(RecordedSplits') \in Nat
    BY <1>2, RecordedGrows
  <2>3. QED
    BY <1>2, <2>1, <2>2, RolloutAssumption DEF SplitsInv, ReadyOnDistinctEvidence
<1>3. ASSUME NEW r \in Runs, DailyValidates(r) PROVE SplitsInv'
  <2>1. PICK c \in Contents : verdict' = [verdict EXCEPT ![r] = c]
    BY <1>3 DEF DailyValidates
  <2>2. verdict'[r] = c /\ approvals' = approvals \cup ({c} \cap Approved)
    BY <1>1, <1>3, <2>1 DEF DailyValidates, TypeOK
  <2>3. UNCHANGED <<splits, decision>>
    BY <1>3 DEF DailyValidates, reviewVars
  <2>4. \A q \in Runs : verdict'[q] \in approvals' \cup {NotApproved}
    BY <1>1, <2>1, <2>2 DEF SplitsInv, Contents, TypeOK
  <2>5. splits' \subseteq RecordedSplits'
    BY <2>2, <2>3, RecordedGrows DEF SplitsInv
  <2>6. QED
    BY <1>1, <1>2, <2>2, <2>3, <2>4, <2>5 DEF SplitsInv
<1>4. ASSUME UNCHANGED <<verdict, approvals>>, splits' \subseteq RecordedSplits,
             decision' \in {decision, "none", "blocked"}
      PROVE  SplitsInv'
  BY <1>1, <1>2, <1>4, RecordedGrows DEF SplitsInv
<1>5. CASE LoadOutcomes
  BY <1>4, <1>5 DEF LoadOutcomes, storeVars, SplitsInv
<1>6. CASE LoadEvidence
  <2>1. Splits \subseteq RecordedSplits
    <3> SUFFICES ASSUME NEW s \in Splits PROVE s \in RecordedSplits
      OBVIOUS
    <3>1. /\ s \in Approved \X (1 .. MaxSplits) /\ s[2] <= s[1].splits
          /\ \E r \in Runs : verdict[r] = s[1]
      BY DEF Splits
    <3>2. s[1] \in Approved /\ s[1] # NotApproved
      <4>1. s[1] \in Approved
        BY <3>1
      <4>2. s[1].splits \in 1 .. MaxSplits
        BY <4>1 DEF Approved
      <4>3. s[1].splits # 0
        BY <4>2, RolloutAssumption
      <4>4. NotApproved.splits = 0
        BY DEF NotApproved
      <4>5. QED
        BY <4>1, <4>3, <4>4
    <3>3. QED
      BY <3>1, <3>2 DEF SplitsInv, RecordedSplits
  <2>2. QED
    BY <1>4, <1>6, <2>1 DEF LoadEvidence, storeVars
<1>7. ASSUME NEW budget \in LossBudgets, NEW humanApproved \in BOOLEAN,
             Decide(budget, humanApproved)
      PROVE  SplitsInv'
  <2>1. UNCHANGED <<verdict, approvals>> /\ splits' = {}
    BY <1>7 DEF Decide, storeVars
  <2>2. CASE decision' = "blocked"
    BY <1>4, <2>1, <2>2
  <2>3. CASE decision' = "ready"
    <3>1. Cardinality(splits) >= MinSplits
      BY <1>7, <2>3 DEF Decide, Eligible
    <3>2. splits \subseteq RecordedSplits /\ RecordedSplits' = RecordedSplits
      BY <2>1 DEF SplitsInv, RecordedSplits
    <3>3. /\ Cardinality(splits) <= Cardinality(RecordedSplits)
          /\ Cardinality(splits) \in Nat /\ Cardinality(RecordedSplits) \in Nat
      BY <3>2, RecordedIsFinite, FS_Subset, FS_CardinalityType DEF RecordedSplits
    <3>4. ReadyOnDistinctEvidence'
      BY <3>1, <3>2, <3>3, RolloutAssumption DEF ReadyOnDistinctEvidence
    <3>5. QED
      BY <1>1, <2>1, <3>4 DEF SplitsInv
  <2>4. QED
    BY <1>7, <2>2, <2>3 DEF Decide
<1>8. CASE UNCHANGED <<verdict, reviewVars, approvals>>
  BY <1>4, <1>8 DEF SplitsInv, reviewVars
<1>9. ASSUME NEW r \in Runs, DailySimulates(r) \/ DailyClears(r) PROVE SplitsInv'
  BY <1>8, <1>9 DEF DailySimulates, DailyClears
<1>10. MarketMoves \/ DailyAborts \/ UNCHANGED vars => UNCHANGED <<verdict, reviewVars, approvals>>
  BY DEF MarketMoves, DailyAborts, vars, storeVars
<1>11. QED
  BY <1>3, <1>5, <1>6, <1>7, <1>8, <1>9, <1>10 DEF Next

(* A review that says ready counted splits of different validation results *)
(* only, however many runs recorded the same result, and however the rows  *)
(* were replaced while it read (risk/rollout.py,                           *)
(* validation_evidence_to_walk_forward_splits).                            *)
THEOREM ReadyOnDistinctResults == Spec => []ReadyOnDistinctEvidence
<1>1. Init => SplitsInv
  BY RolloutTypesInit DEF Init, SplitsInv, ReadyOnDistinctEvidence
<1>2. SplitsInv => ReadyOnDistinctEvidence
  BY DEF SplitsInv
<1>3. QED
  BY <1>1, <1>2, SplitsInvStep, PTL DEF Spec
=============================================================================
