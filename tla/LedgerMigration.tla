-------------------------- MODULE LedgerMigration --------------------------
(***************************************************************************)
(* Opening the validation ledger (evidence/validation_ledger.py): every    *)
(* constructor looks at the schema and moves a table of the older schema,  *)
(* whose key was the evidence id alone, to the one whose key begins with   *)
(* the run id; then the caller loads, or replaces the rows of its run.     *)
(*                                                                         *)
(* Covered: commands that open the ledger at once (the evidence-run lock   *)
(* binds no other command), kills, and statements that SQLite refuses      *)
(* because the database stays locked.  Python's sqlite3 opens a            *)
(* transaction before INSERT and DELETE only: DROP TABLE and CREATE TABLE  *)
(* are committed on their own, although they stand in one with block.      *)
(***************************************************************************)
EXTENDS Naturals

CONSTANTS
    Procs,
    Runs, Items,    \* run ids and evidence ids
    Legacies,       \* what the older table may hold
    Unreadable,     \* rows whose payload names another run
    MaxStarts,      \* bound: ledgers opened
    MaxCuts         \* bound: kills and locked databases

Rows == [run : Runs, item : Items]

ASSUME MigrationAssumption ==
    /\ Legacies \subseteq SUBSET Rows /\ Unreadable \subseteq Rows
    /\ \A rows \in Legacies : \A r, s \in rows : r.item = s.item => r = s  \* its PRIMARY KEY
    /\ MaxStarts \in Nat /\ MaxCuts \in Nat

VARIABLES
    table,      \* the table validation_evidence
    at, op,     \* control point and operation of each process
    seen,       \* the rows that its migration has read
    starts, cuts,
    legacy,     \* history: the rows of the older table
    due,        \* history: the rows that the replacements so far leave
    replaced,   \* history: the runs that have been replaced
    severed,    \* history: a migration was cut after its DROP
    overlapped  \* history: a ledger was opened while another was in use

local == <<at, op, seen>>
history == <<legacy, due, replaced, severed, overlapped>>
vars == <<table, local, starts, cuts, history>>

Absent == [schema |-> "none", rows |-> {}]
Scoped(rows) == [schema |-> "scoped", rows |-> rows]

Load == [kind |-> "load"]
Operations == {Load} \cup [kind : {"replace"}, run : Runs, items : SUBSET Items]

Init ==
    /\ legacy \in Legacies
    /\ table = [schema |-> "legacy", rows |-> legacy]
    /\ at = [p \in Procs |-> "off"]
    /\ op = [p \in Procs |-> Load]
    /\ seen = [p \in Procs |-> {}]
    /\ starts = 0 /\ cuts = 0
    /\ due = legacy /\ replaced = {} /\ severed = FALSE /\ overlapped = FALSE

GoTo(p, step) == at' = [at EXCEPT ![p] = step]

(* The call returns or raises.                                             *)
End(p) == GoTo(p, "off") /\ seen' = [seen EXCEPT ![p] = {}]

(* A statement on the table: it fails when the table is not there.         *)
Statement(p, step) == at[p] = step /\ table # Absent

Start(p, o) ==
    /\ at[p] = "off" /\ starts < MaxStarts
    /\ starts' = starts + 1
    /\ GoTo(p, "look")
    /\ op' = [op EXCEPT ![p] = o]
    /\ overlapped' = (overlapped \/ \E q \in Procs : at[q] # "off")
    /\ UNCHANGED <<table, seen, cuts, legacy, due, replaced, severed>>

(* _validation_evidence_table_exists.                                      *)
Look(p) ==
    /\ at[p] = "look"
    /\ GoTo(p, IF table = Absent THEN "create" ELSE "inspect")
    /\ UNCHANGED <<table, op, seen, starts, cuts, history>>

(* _missing_required_columns and _has_run_scoped_primary_key.              *)
Inspect(p) ==
    /\ Statement(p, "inspect")
    /\ GoTo(p, IF table.schema = "legacy" THEN "select" ELSE "use")
    /\ UNCHANGED <<table, op, seen, starts, cuts, history>>

(* All rows are read and validated before anything is changed.             *)
Select(p) ==
    /\ Statement(p, "select")
    /\ IF table.rows \cap Unreadable # {}
       THEN End(p)
       ELSE seen' = [seen EXCEPT ![p] = table.rows] /\ GoTo(p, "drop")
    /\ UNCHANGED <<table, op, starts, cuts, history>>

Drop(p) ==
    /\ Statement(p, "drop")
    /\ table' = Absent
    /\ GoTo(p, "create")
    /\ UNCHANGED <<op, seen, starts, cuts, history>>

(* CREATE TABLE IF NOT EXISTS.                                             *)
Create(p) ==
    /\ at[p] = "create"
    /\ table' = IF table = Absent THEN Scoped({}) ELSE table
    /\ GoTo(p, IF seen[p] = {} THEN "use" ELSE "insert")
    /\ UNCHANGED <<op, seen, starts, cuts, history>>

InsertRowByRow(p) ==    \* mutant: a commit after each row
    /\ Statement(p, "insert")
    /\ \E r \in seen[p] :
          /\ table' = Scoped(table.rows \cup {r})
          /\ seen' = [seen EXCEPT ![p] = @ \ {r}]
          /\ GoTo(p, IF seen[p] = {r} THEN "use" ELSE "insert")
    /\ UNCHANGED <<op, starts, cuts, history>>

(* INSERT OR REPLACE of all rows, committed at the end of the with block.  *)
Insert(p) ==
    /\ Statement(p, "insert")
    /\ table' = Scoped(table.rows \cup seen[p])
    /\ GoTo(p, "use")
    /\ UNCHANGED <<op, seen, starts, cuts, history>>

ReplacedOfAll(rows, run, items) ==   \* mutant: DELETE without WHERE
    [run : {run}, item : items]

(* replace_run_evidence: DELETE and INSERT in one transaction.             *)
Replaced(rows, run, items) ==
    {r \in rows : r.run # run} \cup [run : {run}, item : items]

Replace(p) ==
    /\ Statement(p, "use") /\ op[p].kind = "replace"
    /\ table' = Scoped(Replaced(table.rows, op[p].run, op[p].items))
    /\ due' = {r \in due : r.run # op[p].run} \cup [run : {op[p].run}, item : op[p].items]
    /\ replaced' = replaced \cup {op[p].run}
    /\ End(p)
    /\ UNCHANGED <<op, starts, cuts, legacy, severed, overlapped>>

LoadEvidence(p) ==
    /\ Statement(p, "use") /\ op[p].kind = "load"
    /\ End(p)
    /\ UNCHANGED <<table, op, starts, cuts, history>>

(* OperationalError: another process has dropped the table.                *)
NoSuchTable(p) ==
    /\ at[p] \notin {"off", "look", "create"} /\ table = Absent
    /\ End(p)
    /\ UNCHANGED <<table, op, starts, cuts, history>>

(* The process is killed, or its statement meets a locked database.        *)
CutOff(p) ==
    /\ at[p] # "off" /\ cuts < MaxCuts
    /\ cuts' = cuts + 1
    /\ severed' = (severed \/ (at[p] \in {"create", "insert"} /\ seen[p] # {}))
    /\ End(p)
    /\ UNCHANGED <<table, op, starts, legacy, due, replaced, overlapped>>

Next ==
    \E p \in Procs :
        \/ \E o \in Operations : Start(p, o)
        \/ Look(p) \/ Inspect(p) \/ Select(p) \/ Drop(p) \/ Create(p) \/ Insert(p)
        \/ Replace(p) \/ LoadEvidence(p) \/ NoSuchTable(p) \/ CutOff(p)

Spec == Init /\ [][Next]_vars

----------------------------------------------------------------------------
Opened == \E p \in Procs : at[p] = "use"

(* test_validation_evidence_ledger.py: whoever opens the ledger on a table *)
(* of the older schema loads the evidence that was in it.                  *)
OpenedLedgerIsComplete == Opened => due \subseteq table.rows

(* Commands that open the ledger one after the other, none of them cut off *)
(* in its migration, find every row that no replacement removed, and none  *)
(* that one did.                                                           *)
UndisturbedLedgerIsComplete ==
    ~overlapped /\ ~severed /\ Opened => table.rows = due

(* No reader sees half of the migrated evidence, whoever is cut off and    *)
(* however many migrate at once: the rows of the runs that nobody has      *)
(* replaced are all in the table or none of them.                          *)
MigrationIsAllOrNothing ==
    LET old == {r \in legacy : r.run \notin replaced}
    IN table.rows \cap old \in {{}, old}

=============================================================================
