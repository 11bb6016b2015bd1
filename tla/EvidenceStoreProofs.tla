------------------------ MODULE EvidenceStoreProofs ------------------------
(***************************************************************************)
(* What is proved of the validation ledger while it is migrated            *)
(* (LedgerMigration), for any constants.                                   *)
(***************************************************************************)
EXTENDS LedgerMigration, TLAPS

----------------------------------------------------------------------------
(* No reader of the ledger sees half of the migrated evidence.             *)

Old == {r \in legacy : r.run \notin replaced}

AllOrNothing(rows) == rows \cap Old \in {{}, Old}

(* Neither the table nor what a migration has read holds only some of the  *)
(* rows that nobody has replaced.                                          *)
WholeInv ==
    /\ seen = [p \in Procs |-> seen[p]]
    /\ AllOrNothing(table.rows)
    /\ \A p \in Procs : AllOrNothing(seen[p])

LEMMA EndSees ==
    ASSUME WholeInv, NEW p \in Procs, End(p), UNCHANGED <<legacy, replaced>>
    PROVE  /\ seen' = [q \in Procs |-> seen'[q]]
           /\ \A q \in Procs : AllOrNothing(seen[q])'
  BY DEF WholeInv, AllOrNothing, Old, End

LEMMA WholeStep ==
    ASSUME WholeInv, [Next]_vars PROVE WholeInv'
<1> USE DEF WholeInv, AllOrNothing, Old
<1>1. ASSUME NEW p \in Procs, NEW o \in Operations, Start(p, o) PROVE WholeInv'
  BY <1>1 DEF Start
<1>2. ASSUME NEW p \in Procs, Look(p) \/ Inspect(p) PROVE WholeInv'
  BY <1>2 DEF Look, Inspect, history
<1>3. ASSUME NEW p \in Procs, Select(p) PROVE WholeInv'
  <2>1. CASE End(p)
    BY <1>3, <2>1, EndSees DEF Select, history
  <2>2. CASE ~End(p)
    BY <1>3, <2>2 DEF Select, history
  <2>3. QED
    BY <2>1, <2>2
<1>4. ASSUME NEW p \in Procs, Drop(p) \/ Create(p) PROVE WholeInv'
  BY <1>4 DEF Drop, Create, Absent, Scoped, history
<1>5. ASSUME NEW p \in Procs, Insert(p) PROVE WholeInv'
  BY <1>5 DEF Insert, Scoped, history
<1>6. ASSUME NEW p \in Procs, Replace(p) PROVE WholeInv'
  <2> DEFINE run == op[p].run
             new == [run : {run}, item : op[p].items]
  <2>1. /\ Old' = {r \in Old : r.run # run}
        /\ table'.rows = {r \in table.rows : r.run # run} \cup new
        /\ \A r \in new : r.run = run
    BY <1>6 DEF Replace, Replaced, Scoped
  <2>2. table'.rows \cap Old' = {r \in table.rows \cap Old : r.run # run}
    BY <2>1
  <2>3. \A q \in Procs : seen'[q] \cap Old' \in {{}, {r \in seen[q] \cap Old : r.run # run}}
    BY <1>6, <2>1 DEF Replace, End
  <2>4. seen' = [q \in Procs |-> seen'[q]]
    BY <1>6 DEF Replace, End
  <2> HIDE DEF run, new
  <2>5. QED
    BY <2>1, <2>2, <2>3, <2>4
<1>7. ASSUME NEW p \in Procs, LoadEvidence(p) \/ NoSuchTable(p) \/ CutOff(p)
      PROVE  WholeInv'
  BY <1>7, EndSees DEF LoadEvidence, NoSuchTable, CutOff, history
<1>8. CASE UNCHANGED vars
  BY <1>8 DEF vars, local, history
<1>9. QED
  BY <1>1, <1>2, <1>3, <1>4, <1>5, <1>6, <1>7, <1>8 DEF Next

(* However many commands migrate at once and wherever they are cut off,    *)
(* the rows of the runs that nobody has replaced are all in the table or   *)
(* none of them (_migrate_legacy_validation_evidence_schema).              *)
THEOREM MigrationIsWhole == Spec => []MigrationIsAllOrNothing
<1>1. Init => WholeInv
  BY DEF Init, WholeInv, AllOrNothing, Old
<1>2. WholeInv => MigrationIsAllOrNothing
  BY DEF WholeInv, AllOrNothing, Old, MigrationIsAllOrNothing
<1>3. QED
  BY <1>1, <1>2, WholeStep, PTL DEF Spec

----------------------------------------------------------------------------
(* Commands that open the ledger one after the other.                      *)

(* Where the only process that has the ledger open stands in its           *)
(* migration, and what is then in the table and in its hands.              *)
Standing(p) ==
    /\ at[p] \in {"look", "inspect", "select", "use"} => table.rows = due
    /\ at[p] = "drop" => table.rows = due /\ seen[p] = due
    /\ at[p] = "create" => table = Absent /\ seen[p] = due
    /\ at[p] = "insert" => table = Scoped({}) /\ seen[p] = due

UndisturbedInv ==
    /\ at = [p \in Procs |-> at[p]] /\ seen = [p \in Procs |-> seen[p]]
    /\ \A p \in Procs :
          at[p] \in {"off", "look", "inspect", "select", "drop", "create", "insert", "use"}
    /\ ~overlapped =>
          \A p, q \in Procs : at[p] # "off" /\ at[q] # "off" => p = q
    /\ ~overlapped /\ ~severed =>
          /\ \A p \in Procs : Standing(p)
          /\ \A p \in Procs : at[p] \in {"off", "look", "inspect", "select"} => seen[p] = {}
          /\ (\A p \in Procs : at[p] = "off") => table.rows = due

(* A call that ends and leaves what it should leaves all as it should be.  *)
LEMMA EndsWell ==
    ASSUME UndisturbedInv, NEW p \in Procs, at[p] # "off", End(p), overlapped' = overlapped,
           ~overlapped /\ ~severed' => ~severed /\ table'.rows = due'
    PROVE  UndisturbedInv'
<1> USE DEF UndisturbedInv, End, GoTo
<1>1. ~overlapped => \A q \in Procs : at'[q] = "off"
  OBVIOUS
<1>2. QED
  BY <1>1 DEF Standing

(* A step of the only open call, which keeps the others where they are.    *)
LEMMA StandsWell ==
    ASSUME UndisturbedInv, NEW p \in Procs, at[p] # "off",
           NEW step \in {"look", "inspect", "select", "drop", "create", "insert", "use"},
           GoTo(p, step), NEW rows, seen' = [seen EXCEPT ![p] = rows],
           UNCHANGED <<overlapped, severed>>,
           ~overlapped /\ ~severed =>
              Standing(p)' /\ (step \in {"look", "inspect", "select"} => rows = {})
    PROVE  UndisturbedInv'
<1> USE DEF UndisturbedInv, GoTo
<1>1. ~overlapped => \A q \in Procs : q # p => at'[q] = "off" /\ seen'[q] = seen[q]
  OBVIOUS
<1>2. QED
  BY <1>1 DEF Standing

LEMMA UndisturbedStep ==
    ASSUME UndisturbedInv, [Next]_vars PROVE UndisturbedInv'
<1>1. ASSUME NEW p \in Procs, NEW o \in Operations, Start(p, o) PROVE UndisturbedInv'
  BY <1>1 DEF UndisturbedInv, Standing, Start, GoTo
<1>2. ASSUME NEW p \in Procs, Look(p) PROVE UndisturbedInv'
  <2>1. seen' = [seen EXCEPT ![p] = seen[p]]
    BY <1>2 DEF Look, UndisturbedInv
  <2>2. ~overlapped /\ ~severed => seen[p] = {} /\ table.rows = due
    BY <1>2 DEF Look, UndisturbedInv, Standing
  <2>3. ~overlapped /\ ~severed => Standing(p)'
    BY <1>2, <2>2 DEF Look, UndisturbedInv, Standing, GoTo, Absent, history
  <2>4. QED
    BY <1>2, <2>1, <2>2, <2>3, StandsWell DEF Look, history
<1>3. ASSUME NEW p \in Procs, Inspect(p) PROVE UndisturbedInv'
  <2>1. seen' = [seen EXCEPT ![p] = seen[p]]
    BY <1>3 DEF Inspect, UndisturbedInv
  <2>2. ~overlapped /\ ~severed => seen[p] = {} /\ Standing(p)'
    BY <1>3 DEF Inspect, Statement, UndisturbedInv, Standing, GoTo, history
  <2>3. QED
    BY <1>3, <2>1, <2>2, StandsWell DEF Inspect, Statement, history
<1>4. ASSUME NEW p \in Procs, Select(p) PROVE UndisturbedInv'
  <2>1. ~overlapped /\ ~severed => table.rows = due
    BY <1>4 DEF Select, Statement, UndisturbedInv, Standing
  <2>2. CASE table.rows \cap Unreadable # {}
    BY <1>4, <2>1, <2>2, EndsWell DEF Select, Statement, history
  <2>3. CASE ~(table.rows \cap Unreadable # {})
    <3>1. ~overlapped /\ ~severed => Standing(p)'
      BY <1>4, <2>1, <2>3 DEF Select, Statement, UndisturbedInv, Standing, GoTo, history
    <3>2. QED
      BY <1>4, <2>3, <3>1, StandsWell DEF Select, Statement, history
  <2>4. QED
    BY <2>2, <2>3
<1>5. ASSUME NEW p \in Procs, Drop(p) PROVE UndisturbedInv'
  <2>1. seen' = [seen EXCEPT ![p] = seen[p]]
    BY <1>5 DEF Drop, UndisturbedInv
  <2>2. ~overlapped /\ ~severed => Standing(p)'
    BY <1>5 DEF Drop, Statement, UndisturbedInv, Standing, GoTo, history
  <2>3. QED
    BY <1>5, <2>1, <2>2, StandsWell DEF Drop, Statement, history
<1>6. ASSUME NEW p \in Procs, Create(p) PROVE UndisturbedInv'
  <2>1. seen' = [seen EXCEPT ![p] = seen[p]]
    BY <1>6 DEF Create, UndisturbedInv
  <2>2. ~overlapped /\ ~severed => Standing(p)'
    BY <1>6 DEF Create, UndisturbedInv, Standing, GoTo, Scoped, history
  <2>3. QED
    BY <1>6, <2>1, <2>2, StandsWell DEF Create, history
<1>7. ASSUME NEW p \in Procs, Insert(p) PROVE UndisturbedInv'
  <2>1. seen' = [seen EXCEPT ![p] = seen[p]]
    BY <1>7 DEF Insert, UndisturbedInv
  <2>2. ~overlapped /\ ~severed => Standing(p)'
    BY <1>7 DEF Insert, Statement, UndisturbedInv, Standing, GoTo, Scoped, history
  <2>3. QED
    BY <1>7, <2>1, <2>2, StandsWell DEF Insert, Statement, history
<1>8. ASSUME NEW p \in Procs, Replace(p) PROVE UndisturbedInv'
  <2>1. ~overlapped /\ ~severed => table.rows = due
    BY <1>8 DEF Replace, Statement, UndisturbedInv, Standing
  <2>2. ~overlapped /\ ~severed => table'.rows = due'
    BY <1>8, <2>1 DEF Replace, Replaced, Scoped
  <2>3. QED
    BY <1>8, <2>2, EndsWell DEF Replace, Statement
<1>9. ASSUME NEW p \in Procs, LoadEvidence(p) PROVE UndisturbedInv'
  <2>1. ~overlapped /\ ~severed => table.rows = due
    BY <1>9 DEF LoadEvidence, Statement, UndisturbedInv, Standing
  <2>2. QED
    BY <1>9, <2>1, EndsWell DEF LoadEvidence, Statement, history
<1>10. ASSUME NEW p \in Procs, NoSuchTable(p) PROVE UndisturbedInv'
  <2>1. ~overlapped /\ ~severed => table.rows = due
    BY <1>10 DEF NoSuchTable, UndisturbedInv, Standing, Absent, Scoped
  <2>2. QED
    BY <1>10, <2>1, EndsWell DEF NoSuchTable, history
<1>11. ASSUME NEW p \in Procs, CutOff(p) PROVE UndisturbedInv'
  <2>1. ~severed' => ~severed /\ ~(at[p] \in {"create", "insert"} /\ seen[p] # {})
    BY <1>11, Zenon DEF CutOff
  <2>2. ~overlapped /\ ~severed' => table.rows = due
    <3>1. SUFFICES ASSUME ~overlapped, ~severed' PROVE table.rows = due
      OBVIOUS
    <3>2. at[p] # "off" /\ Standing(p)
      <4>1. ~severed
        BY <2>1, <3>1, Zenon
      <4>2. QED
        BY <1>11, <3>1, <4>1 DEF CutOff, UndisturbedInv
    <3>3. at[p] \in {"create", "insert"} => seen[p] = {}
      BY <2>1, <3>1, Zenon
    <3>4. Absent.rows = {} /\ Scoped({}).rows = {}
      BY DEF Absent, Scoped
    <3>5. QED
      BY <3>2, <3>3, <3>4 DEF UndisturbedInv, Standing
  <2>3. QED
    BY <1>11, <2>1, <2>2, EndsWell DEF CutOff
<1>12. CASE UNCHANGED vars
  BY <1>12 DEF UndisturbedInv, Standing, vars, local, history
<1>13. QED
  BY <1>1, <1>2, <1>3, <1>4, <1>5, <1>6, <1>7, <1>8, <1>9, <1>10, <1>11, <1>12 DEF Next

(* Commands that open the ledger one after the other, none of them cut off *)
(* between its DROP and its INSERT, find every row that is due and no      *)
(* other, for any older table (ValidationEvidenceLedger.__init__,          *)
(* replace_run_evidence).                                                  *)
THEOREM UndisturbedLedger == Spec => []UndisturbedLedgerIsComplete
<1>1. Init => UndisturbedInv
  BY DEF Init, UndisturbedInv, Standing
<1>2. UndisturbedInv => UndisturbedLedgerIsComplete
  BY DEF UndisturbedInv, Standing, UndisturbedLedgerIsComplete, Opened
<1>3. QED
  BY <1>1, <1>2, UndisturbedStep, PTL DEF Spec
=============================================================================
