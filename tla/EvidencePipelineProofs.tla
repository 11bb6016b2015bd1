----------------------- MODULE EvidencePipelineProofs -----------------------
(***************************************************************************)
(* What the ledgers and the memory file say of a day's run, however often  *)
(* it is retried, for any families and any number of attempts.             *)
(*                                                                         *)
(* The order of the calls is not enough for that: an attempt may end       *)
(* between any two of them and the next one begins anew, with the rows the *)
(* last one left.  The invariants say, by the position in the family list, *)
(* what the attempt under way has done: which rows are still those of      *)
(* earlier attempts (GatherInv), what it has written where it is about to  *)
(* touch the paper ledger (OrderInv), and what it has left behind of the   *)
(* families it is done with (FailureInv, MatchInv).  Only what concerns    *)
(* the memory file as a whole needs its callers not to overlap.            *)
(***************************************************************************)
EXTENDS EvidencePipeline, TLAPS

Records == Row \cup {Marker, NoRecord}

LEMMA RowsAreTyped ==
    /\ Never \in Row
    /\ NoRows \in [Families -> Row]
<1>1. 0 \in 0 .. MaxAttempts
  BY PipelineAssumption
<1>2. Never \in Row
  BY <1>1 DEF Never, Row
<1>3. QED
  BY <1>2 DEF NoRows

LEMMA WrittenIsRow ==
    ASSUME attempt \in 0 .. MaxAttempts,
           NEW s \in {"none", "passed", "blocked", "stopped", "source_failed", "closed"}
    PROVE  Written(s) \in Row /\ Written(s).at = attempt
  BY DEF Written, Row

(* An update that puts records into a table of records leaves one.         *)
LEMMA AppliedIsTyped ==
    ASSUME NEW u, NEW content \in [RecordIds -> Records],
           \A k \in DOMAIN u.put : u.put[k] \in Records
    PROVE  Memory!Applied(u, content) \in [RecordIds -> Records]
<1>1. NoRecord \in Records
  BY DEF Records
<1>2. QED
  BY <1>1 DEF Memory!Applied

Puts(u) == \A k \in DOMAIN u.put : u.put[k] \in Records

LEMMA OneRecord ==
    ASSUME NEW k, NEW r \in Records, NEW j \in DOMAIN One(k, r)
    PROVE  One(k, r)[j] \in Records
  BY DEF One

LEMMA UpdatesAreTyped ==
    /\ \A f : Puts(MarkDegraded(f)) /\ Puts(RecordOverride(f))
    /\ \A row \in Row : Puts(ReplaceResearch(row)) /\ \A f : Puts(ReplaceValidation(f, row))
    /\ \A active : \A rows \in [Families -> Row] : Puts(ReplacePaper(active, rows))
<1>1. Marker \in Records
  BY DEF Records
<1>2. ASSUME NEW f PROVE Puts(MarkDegraded(f)) /\ Puts(RecordOverride(f))
  BY <1>1, OneRecord DEF Puts, MarkDegraded, RecordOverride
<1>3. ASSUME NEW row \in Row, NEW k, NEW dropped,
             NEW j \in DOMAIN (IF Missing(row) THEN <<>> ELSE One(k, row))
      PROVE  (IF Missing(row) THEN <<>> ELSE One(k, row))[j] \in Records
  <2>1. CASE Missing(row)
    BY <1>3, <2>1
  <2>2. CASE ~Missing(row)
    <3>1. row \in Records
      BY DEF Records
    <3>2. QED
      BY <1>3, <2>2, <3>1, OneRecord
  <2>3. QED
    BY <2>1, <2>2
<1>4. ASSUME NEW row \in Row, NEW f
      PROVE  Puts(ReplaceResearch(row)) /\ Puts(ReplaceValidation(f, row))
  BY <1>3 DEF Puts, ReplaceResearch, ReplaceValidation
<1>5. ASSUME NEW active, NEW rows \in [Families -> Row] PROVE Puts(ReplacePaper(active, rows))
  <2> DEFINE present == {f \in Families : ~Missing(rows[f])}
  <2>1. ReplacePaper(active, rows).put = [k \in {<<"paper", f>> : f \in present} |-> rows[k[2]]]
    BY DEF ReplacePaper
  <2>2. \A k \in {<<"paper", f>> : f \in present} : rows[k[2]] \in Records
    BY DEF Records
  <2>3. QED
    BY <2>1, <2>2 DEF Puts
<1>6. QED
  BY <1>2, <1>4, <1>5

LEMMA MemoryTypes ==
    ASSUME TypeOK, NEW w \in {Runner, Operator},
           \/ Memory!Load(w)
           \/ Memory!Discard(w)
           \/ \E u : Puts(u) /\ Memory!Persist(w, u)
    PROVE  /\ file' \in [RecordIds -> Row \cup {Marker, NoRecord}]
           /\ snap' \in [{Runner, Operator} -> [RecordIds -> Row \cup {Marker, NoRecord}]]
           /\ open' \subseteq {Runner, Operator} /\ undone' \subseteq RecordIds
<1> USE DEF TypeOK
<1>1. Memory!Empty \in [RecordIds -> Row \cup {Marker, NoRecord}]
  BY DEF Memory!Empty
<1>2. CASE Memory!Load(w)
  BY <1>2 DEF Memory!Load
<1>3. CASE Memory!Discard(w)
  BY <1>1, <1>3 DEF Memory!Discard
<1>4. ASSUME NEW u, Puts(u), Memory!Persist(w, u)
      PROVE  /\ file' \in [RecordIds -> Row \cup {Marker, NoRecord}]
             /\ snap' \in [{Runner, Operator} -> [RecordIds -> Row \cup {Marker, NoRecord}]]
             /\ open' \subseteq {Runner, Operator} /\ undone' \subseteq RecordIds
  <2>1. file' = Memory!Applied(u, snap[w]) /\ snap[w] \in [RecordIds -> Records]
    BY <1>4 DEF Memory!Persist, Records
  <2>2. file' \in [RecordIds -> Records]
    BY <1>4, <2>1, AppliedIsTyped DEF Puts
  <2>3. QED
    BY <1>1, <1>4, <2>2 DEF Memory!Persist, Records
<1>5. QED
  BY <1>2, <1>3, <1>4

----------------------------------------------------------------------------
(* Types.                                                                  *)

LEMMA ListIsFinite ==
    /\ Len(FamilyList) \in Nat
    /\ \A i \in 1 .. Len(FamilyList) : FamilyList[i] \in Families
    /\ \A i, j \in 1 .. Len(FamilyList) : FamilyList[i] = FamilyList[j] => i = j
    /\ \A f \in Families : \E i \in 1 .. Len(FamilyList) : FamilyList[i] = f
<1>1. FamilyList \in Seq(Families)
  BY PipelineAssumption
<1>2. Len(FamilyList) \in Nat /\ DOMAIN FamilyList = 1 .. Len(FamilyList)
  BY <1>1
<1>3. \A i \in 1 .. Len(FamilyList) : FamilyList[i] \in Families
  BY <1>1
<1>4. \A i, j \in 1 .. Len(FamilyList) : FamilyList[i] = FamilyList[j] => i = j
  BY <1>2, PipelineAssumption DEF IsInjective
<1>5. \A f \in Families : \E i \in 1 .. Len(FamilyList) : FamilyList[i] = f
  BY <1>2 DEF Families, Range
<1>6. QED
  BY <1>2, <1>3, <1>4, <1>5

LEMMA PipelineTypesInit == Init => TypeOK
<1> SUFFICES ASSUME Init PROVE TypeOK
  OBVIOUS
<1>1. Memory!Empty \in [RecordIds -> Row \cup {Marker, NoRecord}]
  BY DEF Memory!Empty
<1>2. /\ file \in [RecordIds -> Row \cup {Marker, NoRecord}]
      /\ snap \in [{Runner, Operator} -> [RecordIds -> Row \cup {Marker, NoRecord}]]
      /\ open \subseteq {Runner, Operator} /\ undone \subseteq RecordIds
  BY <1>1 DEF Init, Memory!Init
<1>3. 1 \in 1 .. Len(FamilyList) + 1
  BY ListIsFinite
<1>4. attempt \in 0 .. MaxAttempts /\ marks \in 0 .. MaxMarks
  BY PipelineAssumption DEF Init
<1>5. pc \in Points /\ allow \in BOOLEAN /\ position \in 1 .. Len(FamilyList) + 1
  BY <1>3 DEF Init, Points
<1>6. /\ collected \in [Families -> Row] /\ evidence \in [Families -> Row]
      /\ outcomes \in [Families -> Row]
  BY RowsAreTyped DEF Init
<1>7. QED
  BY <1>2, <1>4, <1>5, <1>6 DEF Init, TypeOK

(* What an attempt keeps to itself.                                        *)
LocalTypes ==
    /\ pc \in Points /\ attempt \in 0 .. MaxAttempts /\ allow \in BOOLEAN
    /\ position \in 1 .. Len(FamilyList) + 1
    /\ stopped \subseteq Families /\ reread \subseteq Families
    /\ oiFailed \subseteq Families /\ todo \subseteq Families
    /\ collected \in [Families -> Row]

(* Inside the loop the family is one that the attempt runs.                *)
LoopPoints == {"clear_paper", "record", "validation_memory", "paper"}

InFamily == pc \in LoopPoints => InLoop /\ Current \in Active

LEMMA EndIsTyped == TypeOK /\ EndAttempt => LocalTypes'
<1> SUFFICES ASSUME TypeOK, EndAttempt PROVE LocalTypes'
  OBVIOUS
<1>1. 1 \in 1 .. Len(FamilyList) + 1
  BY ListIsFinite
<1>2. collected' \in [Families -> Row]
  BY RowsAreTyped DEF EndAttempt
<1>3. pc' \in Points /\ attempt' \in 0 .. MaxAttempts /\ allow' \in BOOLEAN
  BY DEF EndAttempt, TypeOK, Points
<1>4. QED
  BY <1>1, <1>2, <1>3 DEF EndAttempt, LocalTypes

LEMMA NextIsTyped == TypeOK /\ InLoop /\ NextFamily => position' \in 1 .. Len(FamilyList) + 1
  BY ListIsFinite DEF TypeOK, InLoop, NextFamily

LEMMA LocalStep ==
    ASSUME TypeOK, InFamily, [Next]_vars
    PROVE  LocalTypes'
<1> USE DEF TypeOK, LocalTypes, Points
<1>1. ASSUME NEW o \in BOOLEAN, Begin(o) PROVE LocalTypes'
  BY <1>1, PipelineAssumption DEF Begin, Stopped
<1>2. CASE CoreFails
  BY <1>2, EndIsTyped DEF CoreFails
<1>3. CASE Core \/ RecordSourceFailure \/ ClearPaper \/ LoopDone
  BY <1>3 DEF Core, RecordSourceFailure, ClearPaper, LoopDone
<1>4. CASE OpenInterest
  <2>1. Active \cap NeedsOI \subseteq Families
    BY PipelineAssumption
  <2>2. QED
    BY <1>4, <2>1 DEF OpenInterest
<1>5. CASE Validate
  BY <1>5 DEF Validate, Stopped
<1>6. CASE RecordValidation
  BY <1>6 DEF RecordValidation
<1>7. CASE OpenMemory
  BY <1>7 DEF OpenMemory, runVars
<1>8. CASE ValidationMemory
  BY <1>8, NextIsTyped DEF ValidationMemory, NextFamily, InFamily, LoopPoints
<1>9. CASE SimulatePaper
  <2>1. PICK s \in {"closed", "blocked"} : collected' = [collected EXCEPT ![Current] = Written(s)]
    BY <1>9 DEF SimulatePaper
  <2>2. collected' \in [Families -> Row]
    BY <2>1, WrittenIsRow
  <2>3. QED
    BY <1>9, <2>2, NextIsTyped DEF SimulatePaper, NextFamily, InFamily, LoopPoints
<1>10. CASE PaperMemory
  BY <1>10 DEF PaperMemory, PaperMemoryFor
<1>11. CASE ResearchMemory
  BY <1>11 DEF ResearchMemory
<1>12. ASSUME NEW f \in Families, Override(f) PROVE LocalTypes'
  BY <1>12 DEF Override
<1>13. CASE Review
  BY <1>13, EndIsTyped DEF Review, Degraded
<1>14. ASSUME NEW f \in Families, Mark(f) PROVE LocalTypes'
  BY <1>14, EndIsTyped DEF Mark
<1>15. CASE Abort
  BY <1>15, EndIsTyped DEF Abort
<1>16. OperatorOpens \/ OperatorFails \/ (\E f \in Families : OperatorMarks(f)) \/ UNCHANGED vars
         => UNCHANGED runVars
  BY DEF OperatorOpens, OperatorFails, OperatorMarks, vars
<1>17. CASE UNCHANGED runVars
  BY <1>17 DEF runVars
<1>18. CASE PassOver
  BY <1>18, NextIsTyped DEF PassOver, NextFamily
<1>19. QED
  BY <1>1, <1>2, <1>3, <1>4, <1>5, <1>6, <1>7, <1>8, <1>9, <1>10, <1>11, <1>12, <1>13, <1>14,
     <1>15, <1>16, <1>17, <1>18 DEF Next, Step

(* The ledgers change where a family is recorded, and nowhere else.        *)
LEMMA LedgerStep ==
    ASSUME [Next]_vars
    PROVE  \/ UNCHANGED ledgerVars
           \/ RecordSourceFailure \/ RecordValidation \/ ClearPaper \/ SimulatePaper
<1>1. CASE CoreFails \/ Core \/ OpenInterest \/ Validate \/ OpenMemory \/ ValidationMemory
             \/ LoopDone \/ PaperMemory \/ ResearchMemory \/ Review \/ Abort \/ PassOver
  BY <1>1 DEF CoreFails, Core, OpenInterest, Validate, OpenMemory, ValidationMemory, LoopDone,
     PaperMemory, PaperMemoryFor, ResearchMemory, Review, Abort, PassOver
<1>2. ASSUME NEW f \in Families, Override(f) \/ Mark(f) \/ OperatorMarks(f) PROVE UNCHANGED ledgerVars
  BY <1>2 DEF Override, Mark, OperatorMarks
<1>3. ASSUME NEW o \in BOOLEAN, Begin(o) PROVE UNCHANGED ledgerVars
  BY <1>3 DEF Begin
<1>4. OperatorOpens \/ OperatorFails \/ UNCHANGED vars => UNCHANGED ledgerVars
  BY DEF OperatorOpens, OperatorFails, vars
<1>5. QED
  BY <1>1, <1>2, <1>3, <1>4 DEF Next, Step

LEMMA LedgerTypes ==
    ASSUME TypeOK, [Next]_vars
    PROVE  evidence' \in [Families -> Row] /\ outcomes' \in [Families -> Row]
<1> USE DEF TypeOK
<1>1. CASE RecordSourceFailure \/ ClearPaper
  BY <1>1, WrittenIsRow DEF RecordSourceFailure, ClearPaper
<1>2. CASE RecordValidation
  <2>1. PICK s \in ValidationVerdicts :
           evidence' = [evidence EXCEPT ![Current] = Written(s)]
    BY <1>2 DEF RecordValidation
  <2>2. s \in {"none", "passed", "blocked", "stopped"}
    BY DEF ValidationVerdicts
  <2>3. QED
    BY <1>2, <2>1, <2>2, WrittenIsRow DEF RecordValidation
<1>3. CASE SimulatePaper
  <2>1. PICK s \in {"closed", "blocked"} : outcomes' = [outcomes EXCEPT ![Current] = Written(s)]
    BY <1>3 DEF SimulatePaper
  <2>2. QED
    BY <1>3, <2>1, WrittenIsRow DEF SimulatePaper
<1>4. CASE UNCHANGED ledgerVars
  BY <1>4 DEF ledgerVars
<1>5. QED
  BY <1>1, <1>2, <1>3, <1>4, LedgerStep

LEMMA FileTypes ==
    ASSUME TypeOK, InFamily, [Next]_vars
    PROVE  /\ file' \in [RecordIds -> Row \cup {Marker, NoRecord}]
           /\ snap' \in [{Runner, Operator} -> [RecordIds -> Row \cup {Marker, NoRecord}]]
           /\ open' \subseteq {Runner, Operator} /\ undone' \subseteq RecordIds
<1> DEFINE Goal == /\ file' \in [RecordIds -> Row \cup {Marker, NoRecord}]
                   /\ snap' \in [{Runner, Operator} -> [RecordIds -> Row \cup {Marker, NoRecord}]]
                   /\ open' \subseteq {Runner, Operator} /\ undone' \subseteq RecordIds
<1>1. CASE UNCHANGED memVars
  BY <1>1 DEF memVars, TypeOK
<1>2. CASE OpenMemory \/ OperatorOpens \/ Abort \/ OperatorFails
  BY <1>2, MemoryTypes DEF OpenMemory, OperatorOpens, Abort, OperatorFails
<1>3. CASE ValidationMemory
  <2>1. evidence[Current] \in Row
    BY <1>3, ListIsFinite DEF ValidationMemory, InFamily, LoopPoints, InLoop, Current, TypeOK
  <2>2. Puts(ReplaceValidation(Current, evidence[Current]))
    BY <2>1, UpdatesAreTyped
  <2>3. QED
    BY <1>3, <2>2, MemoryTypes DEF ValidationMemory
<1>4. CASE PaperMemory
  <2>1. Puts(ReplacePaper(Active, collected))
    BY UpdatesAreTyped DEF TypeOK
  <2>2. QED
    BY <1>4, <2>1, MemoryTypes DEF PaperMemory, PaperMemoryFor
<1>5. CASE ResearchMemory
  <2>1. PICK s \in {"none", "passed"} : Memory!Persist(Runner, ReplaceResearch(Written(s)))
    BY <1>5 DEF ResearchMemory
  <2>2. Puts(ReplaceResearch(Written(s)))
    BY WrittenIsRow, UpdatesAreTyped DEF TypeOK
  <2>3. QED
    BY <2>1, <2>2, MemoryTypes
<1>6. ASSUME NEW f \in Families, Override(f) \/ Mark(f) \/ OperatorMarks(f) PROVE Goal
  <2>1. Puts(RecordOverride(f)) /\ Puts(MarkDegraded(f))
    BY UpdatesAreTyped
  <2>2. QED
    BY <1>6, <2>1, MemoryTypes DEF Override, Mark, OperatorMarks
<1>7. (\E o \in BOOLEAN : Begin(o)) \/ CoreFails \/ Core \/ OpenInterest \/ PassOver
        \/ RecordSourceFailure \/ ClearPaper \/ Validate \/ RecordValidation \/ SimulatePaper
        \/ LoopDone \/ Review \/ UNCHANGED vars => UNCHANGED memVars
  BY DEF Begin, CoreFails, Core, OpenInterest, PassOver, RecordSourceFailure, ClearPaper,
     Validate, RecordValidation, SimulatePaper, LoopDone, Review, vars
<1>8. QED
  BY <1>1, <1>2, <1>3, <1>4, <1>5, <1>6, <1>7 DEF Next, Step

LEMMA HistoryTypes ==
    ASSUME TypeOK, [Next]_vars
    PROVE  marked' \subseteq Families /\ due' \subseteq Families /\ marks' \in 0 .. MaxMarks
<1> USE DEF TypeOK
<1>1. UNCHANGED historyVars \/ UNCHANGED vars =>
         marked' \subseteq Families /\ due' \subseteq Families /\ marks' \in 0 .. MaxMarks
  BY DEF historyVars, vars
<1>2. ASSUME NEW o \in BOOLEAN, Begin(o)
      PROVE  marked' \subseteq Families /\ due' \subseteq Families /\ marks' \in 0 .. MaxMarks
  BY <1>2 DEF Begin
<1>3. ASSUME NEW f \in Families, Mark(f)
      PROVE  marked' \subseteq Families /\ due' \subseteq Families /\ marks' \in 0 .. MaxMarks
  BY <1>3 DEF Mark
<1>4. ASSUME NEW f \in Families, OperatorMarks(f)
      PROVE  marked' \subseteq Families /\ due' \subseteq Families /\ marks' \in 0 .. MaxMarks
  BY <1>4, PipelineAssumption DEF OperatorMarks
<1>5. CASE \/ CoreFails \/ Core \/ OpenInterest \/ PassOver \/ RecordSourceFailure \/ ClearPaper
           \/ Validate \/ RecordValidation \/ OpenMemory \/ ValidationMemory \/ SimulatePaper
           \/ LoopDone \/ PaperMemory \/ ResearchMemory \/ (\E f \in Families : Override(f))
           \/ Review \/ Abort \/ OperatorOpens \/ OperatorFails
  <2>1. UNCHANGED historyVars
    BY <1>5 DEF CoreFails, Core, OpenInterest, PassOver, RecordSourceFailure, ClearPaper, Validate,
       RecordValidation, OpenMemory, ValidationMemory, SimulatePaper, LoopDone, PaperMemory,
       PaperMemoryFor, ResearchMemory, Override, Review, Abort, OperatorOpens, OperatorFails
  <2>2. QED
    BY <1>1, <2>1
<1>6. QED
  BY <1>1, <1>2, <1>3, <1>4, <1>5 DEF Next, Step

(* A pipeline's variables have their types, and inside the loop the family *)
(* is one of those the attempt runs.                                       *)
TypeInv == TypeOK /\ InFamily

LEMMA InFamilyStep ==
    ASSUME TypeInv, [Next]_vars
    PROVE  InFamily'
<1> USE DEF LoopPoints
<1>1. CASE pc' \notin LoopPoints
  BY <1>1 DEF InFamily
<1>2. CASE RecordSourceFailure \/ ClearPaper \/ Validate \/ RecordValidation
  BY <1>2 DEF RecordSourceFailure, ClearPaper, Validate, RecordValidation, TypeInv, InFamily, InLoop,
     Current, Active
<1>3. CASE OpenMemory
  BY <1>3 DEF OpenMemory, runVars, TypeInv, InFamily, InLoop, Current, Active
<1>4. CASE ValidationMemory
  BY <1>4 DEF ValidationMemory, NextFamily, TypeInv, InFamily, InLoop, Current, Active
<1>5. CASE UNCHANGED runVars
  BY <1>5 DEF runVars, TypeInv, InFamily, InLoop, Current, Active
<1>6. OperatorOpens \/ OperatorFails \/ (\E f \in Families : OperatorMarks(f)) \/ UNCHANGED vars
         => UNCHANGED runVars
  BY DEF OperatorOpens, OperatorFails, OperatorMarks, vars
<1>7. (\E o \in BOOLEAN : Begin(o)) \/ CoreFails \/ Core \/ OpenInterest \/ PassOver
        \/ SimulatePaper \/ LoopDone \/ PaperMemory \/ ResearchMemory
        \/ (\E f \in Families : Override(f)) \/ Review \/ Abort
        => pc' \notin LoopPoints
  BY DEF Begin, CoreFails, Core, OpenInterest, PassOver, SimulatePaper, NextFamily, LoopDone,
     PaperMemory, PaperMemoryFor, ResearchMemory, Override, Review, Abort, EndAttempt
<1>8. ASSUME NEW f \in Families, Mark(f) PROVE pc' \notin LoopPoints
  BY <1>8 DEF Mark, EndAttempt
<1>9. QED
  BY <1>1, <1>2, <1>3, <1>4, <1>5, <1>6, <1>7, <1>8 DEF Next, Step

LEMMA TypesHold == Spec => []TypeInv
<1>1. Init => TypeInv
  BY PipelineTypesInit DEF TypeInv, InFamily, LoopPoints, Init
<1>2. TypeInv /\ [Next]_vars => TypeInv'
  <2> SUFFICES ASSUME TypeInv, [Next]_vars PROVE TypeInv'
    OBVIOUS
  <2>1. LocalTypes'
    BY LocalStep DEF TypeInv
  <2>2. InFamily'
    BY InFamilyStep
  <2>3. QED
    BY <2>1, <2>2, LedgerTypes, FileTypes, HistoryTypes DEF TypeInv, TypeOK, LocalTypes
<1>3. QED
  BY <1>1, <1>2, PTL DEF Spec

(* The ledgers, the memory file and the attempt hold what their types say, *)
(* whatever attempts, crashes and marks came before.                       *)
THEOREM PipelineTypes == Spec => []TypeOK
  BY TypesHold, PTL DEF TypeInv

----------------------------------------------------------------------------
(* What the attempt under way has written of a family.                     *)

LEMMA CurrentIsAFamily == TypeInv /\ pc \in LoopPoints => Current \in Families
  BY ListIsFinite DEF TypeInv, TypeOK, InFamily, InLoop, Current

(* Where the paper ledger is about to be touched, the evidence of the      *)
(* family is of this attempt.                                              *)
Judged ==
    pc \in {"clear_paper", "validation_memory", "paper"} => evidence[Current].at = attempt

NotOfALaterAttempt == \A f \in Families : evidence[f].at \in 0 .. attempt

OrderInv == NotOfALaterAttempt /\ EvidenceBeforePaper /\ Judged

LEMMA OrderInvInit == Init => OrderInv
  BY DEF Init, OrderInv, NotOfALaterAttempt, EvidenceBeforePaper, Judged, NoRows, Never

LEMMA AttemptStep ==
    ASSUME TypeOK, [Next]_vars
    PROVE  attempt' = attempt \/ (attempt' = attempt + 1 /\ pc = "idle" /\ pc' = "core")
<1>1. ASSUME NEW o \in BOOLEAN, Begin(o) PROVE attempt' = attempt + 1 /\ pc = "idle" /\ pc' = "core"
  BY <1>1 DEF Begin
<1>2. ASSUME NEW f \in Families, Override(f) \/ Mark(f) \/ OperatorMarks(f) PROVE UNCHANGED attempt
  BY <1>2 DEF Override, Mark, OperatorMarks, EndAttempt, runVars
<1>3. CoreFails \/ Core \/ OpenInterest \/ PassOver \/ RecordSourceFailure \/ ClearPaper \/ Validate
        \/ RecordValidation \/ OpenMemory \/ ValidationMemory \/ SimulatePaper \/ LoopDone
        \/ PaperMemory \/ ResearchMemory \/ Review \/ Abort => UNCHANGED attempt
  BY DEF CoreFails, Core, OpenInterest, PassOver, RecordSourceFailure, ClearPaper, Validate,
     RecordValidation, OpenMemory, runVars, ValidationMemory, SimulatePaper, LoopDone, PaperMemory,
     PaperMemoryFor, ResearchMemory, Review, Abort, EndAttempt
<1>4. OperatorOpens \/ OperatorFails \/ UNCHANGED vars => UNCHANGED attempt
  BY DEF OperatorOpens, OperatorFails, runVars, vars
<1>5. QED
  BY <1>1, <1>2, <1>3, <1>4 DEF Next, Step

LEMMA JudgedStep ==
    ASSUME TypeInv, Judged, [Next]_vars
    PROVE  Judged'
<1>1. CASE pc' \notin {"clear_paper", "validation_memory", "paper"}
  BY <1>1 DEF Judged
<1>2. CASE RecordSourceFailure
  BY <1>2, CurrentIsAFamily DEF RecordSourceFailure, Judged, Current, Written, TypeInv, TypeOK, InLoop, Active
<1>3. CASE RecordValidation
  <2>1. PICK s \in ValidationVerdicts :
           evidence' = [evidence EXCEPT ![Current] = Written(s)]
    BY <1>3 DEF RecordValidation
  <2>2. Current \in Families
    BY <1>3, CurrentIsAFamily DEF RecordValidation, LoopPoints
  <2>3. evidence'[Current].at = attempt
    BY <2>1, <2>2 DEF Written, TypeInv, TypeOK
  <2>4. QED
    BY <1>3, <2>3 DEF RecordValidation, Judged, Current
<1>4. CASE ClearPaper \/ ValidationMemory
  BY <1>4 DEF ClearPaper, ValidationMemory, NextFamily, Judged, Current, ledgerVars
<1>5. CASE OpenMemory
  BY <1>5 DEF OpenMemory, runVars, ledgerVars, Judged, Current
<1>6. OperatorOpens \/ OperatorFails \/ (\E f \in Families : OperatorMarks(f)) \/ UNCHANGED vars
         => UNCHANGED <<runVars, ledgerVars>>
  BY DEF OperatorOpens, OperatorFails, OperatorMarks, vars
<1>7. CASE UNCHANGED <<runVars, ledgerVars>>
  BY <1>7 DEF runVars, ledgerVars, Judged, Current
<1>8. (\E o \in BOOLEAN : Begin(o)) \/ CoreFails \/ Core \/ OpenInterest \/ PassOver \/ Validate
        \/ SimulatePaper \/ LoopDone \/ PaperMemory \/ ResearchMemory
        \/ (\E f \in Families : Override(f)) \/ Review \/ Abort
        => pc' \notin {"clear_paper", "validation_memory", "paper"}
  BY DEF Begin, CoreFails, Core, OpenInterest, PassOver, Validate, SimulatePaper, NextFamily, LoopDone,
     PaperMemory, PaperMemoryFor, ResearchMemory, Override, Review, Abort, EndAttempt
<1>9. ASSUME NEW f \in Families, Mark(f) PROVE pc' \notin {"clear_paper", "validation_memory", "paper"}
  BY <1>9 DEF Mark, EndAttempt
<1>10. QED
  BY <1>1, <1>2, <1>3, <1>4, <1>5, <1>6, <1>7, <1>8, <1>9 DEF Next, Step

(* How a step changes the ledgers: one row of the current family.          *)
LEMMA RowStep ==
    ASSUME TypeInv, [Next]_vars
    PROVE  \/ UNCHANGED ledgerVars
           \/ /\ UNCHANGED <<attempt, allow, stopped, collected>> /\ Current \in Families /\ Current \in Active
              /\ UNCHANGED <<position, outcomes>> /\ pc \in {"family", "record"} /\ InLoop
              /\ \E s \in {"none", "passed", "blocked", "stopped", "source_failed"} :
                    /\ evidence' = [evidence EXCEPT ![Current] = Written(s)]
                    /\ s = "source_failed" => Current \in oiFailed
           \/ /\ UNCHANGED <<attempt, allow, stopped, evidence>> /\ Current \in Families /\ Current \in Active
              /\ pc \in {"clear_paper", "paper"} /\ InLoop
              /\ \E s \in {"none", "closed", "blocked"} :
                    /\ outcomes' = [outcomes EXCEPT ![Current] = Written(s)]
                    /\ pc = "clear_paper" => s = "none" /\ UNCHANGED <<position, collected>>
<1>1. CASE UNCHANGED ledgerVars
  BY <1>1
<1>2. CASE RecordSourceFailure
  BY <1>2, ListIsFinite DEF RecordSourceFailure, InLoop, Current, TypeInv, TypeOK
<1>3. CASE RecordValidation
  <2>1. PICK s \in ValidationVerdicts :
           evidence' = [evidence EXCEPT ![Current] = Written(s)]
    BY <1>3 DEF RecordValidation
  <2>2. s \in {"none", "passed", "blocked", "stopped"}
    BY DEF ValidationVerdicts
  <2>3. pc = "record" /\ UNCHANGED <<attempt, allow, stopped, collected, position, outcomes>>
    BY <1>3 DEF RecordValidation
  <2>4. Current \in Families /\ Current \in Active /\ InLoop
    BY <2>3, CurrentIsAFamily DEF LoopPoints, TypeInv, InFamily
  <2>5. QED
    BY <2>1, <2>2, <2>3, <2>4
<1>4. CASE ClearPaper
  BY <1>4, CurrentIsAFamily DEF ClearPaper, LoopPoints, TypeInv, InFamily
<1>5. CASE SimulatePaper
  BY <1>5, CurrentIsAFamily DEF SimulatePaper, LoopPoints, TypeInv, InFamily
<1>6. QED
  BY <1>1, <1>2, <1>3, <1>4, <1>5, LedgerStep

LEMMA OrderInvStep ==
    ASSUME TypeInv, OrderInv, [Next]_vars
    PROVE  OrderInv'
<1> USE DEF OrderInv, TypeInv, TypeOK
<1>1. attempt' = attempt \/ attempt' = attempt + 1
  BY AttemptStep
<1>2. CASE UNCHANGED ledgerVars
  <2>1. NotOfALaterAttempt' /\ EvidenceBeforePaper'
    BY <1>1, <1>2, PipelineAssumption DEF ledgerVars, NotOfALaterAttempt, EvidenceBeforePaper
  <2>2. QED
    BY <2>1, JudgedStep
<1>3. ASSUME NEW s, evidence' = [evidence EXCEPT ![Current] = Written(s)],
             UNCHANGED <<attempt, outcomes>>
      PROVE  OrderInv'
  <2>1. \A f \in Families : evidence'[f].at = attempt \/ evidence'[f] = evidence[f]
    BY <1>3 DEF Written
  <2>2. \A f \in Families : outcomes[f].at <= evidence[f].at /\ evidence[f].at \in 0 .. attempt
                              /\ outcomes[f].at \in Nat
    BY PipelineAssumption DEF EvidenceBeforePaper, NotOfALaterAttempt, Row
  <2>3. NotOfALaterAttempt' /\ EvidenceBeforePaper'
    BY <1>3, <2>1, <2>2, PipelineAssumption DEF NotOfALaterAttempt, EvidenceBeforePaper
  <2>4. QED
    BY <2>3, JudgedStep
<1>4. ASSUME NEW s, outcomes' = [outcomes EXCEPT ![Current] = Written(s)],
             UNCHANGED <<attempt, evidence>>, pc \in {"clear_paper", "paper"}, Current \in Families
      PROVE  OrderInv'
  <2>1. evidence[Current].at = attempt
    BY <1>4 DEF Judged
  <2>2. \A f \in Families : outcomes'[f] = outcomes[f] \/ (f = Current /\ outcomes'[f].at = attempt)
    BY <1>4 DEF Written
  <2>3. NotOfALaterAttempt' /\ EvidenceBeforePaper'
    BY <1>4, <2>1, <2>2, PipelineAssumption DEF NotOfALaterAttempt, EvidenceBeforePaper
  <2>4. QED
    BY <2>3, JudgedStep
<1>5. QED
  BY <1>2, <1>3, <1>4, RowStep

(* No paper outcome is newer than the validation evidence of its family,   *)
(* wherever an attempt was cut short.                                      *)
THEOREM PaperFollowsEvidence == Spec => []EvidenceBeforePaper
<1>1. TypeInv /\ OrderInv /\ [Next]_vars => OrderInv'
  BY OrderInvStep
<1>2. OrderInv => EvidenceBeforePaper
  BY DEF OrderInv
<1>3. QED
  BY <1>1, <1>2, OrderInvInit, TypesHold, PTL DEF Spec

----------------------------------------------------------------------------
(* What the attempt has left behind of the families it is done with.       *)

Settled(f) == evidence[f].is = "source_failed" => outcomes[f].is = "none"

DoneAreSettled ==
    \A i \in 1 .. Len(FamilyList) :
        i < position /\ FamilyList[i] \in Active => Settled(FamilyList[i])

AfterLoop == {"paper_memory", "research_memory", "override", "review", "mark"}

CurrentIsSettling ==
    /\ pc = "idle" => position = 1
    /\ pc = "clear_paper" => Current \in oiFailed
    /\ pc = "record" => Current \notin oiFailed
    /\ pc = "validation_memory" =>
          Settled(Current) /\ (Current \notin oiFailed => evidence[Current].is # "source_failed")
    /\ pc = "paper" => evidence[Current].is # "source_failed"
    /\ pc \in AfterLoop => ~InLoop

FailureInv == DoneAreSettled /\ CurrentIsSettling

(* Recording the current family leaves those before it as they are.        *)
LEMMA OthersStaySettled ==
    ASSUME TypeInv, DoneAreSettled, InLoop, UNCHANGED <<position, allow, stopped>>,
           \A f \in Families \ {Current} : evidence'[f] = evidence[f] /\ outcomes'[f] = outcomes[f]
    PROVE  DoneAreSettled'
<1> SUFFICES ASSUME NEW i \in 1 .. Len(FamilyList), i < position, FamilyList[i] \in Active
             PROVE  Settled(FamilyList[i])'
  BY DEF DoneAreSettled, Active
<1>1. FamilyList[i] \in Families \ {Current}
  BY ListIsFinite DEF TypeInv, TypeOK, InLoop, Current
<1>2. QED
  BY <1>1 DEF DoneAreSettled, Settled

LEMMA FailureInvStep ==
    ASSUME TypeInv, FailureInv, [Next]_vars
    PROVE  FailureInv'
<1> USE DEF FailureInv
<1>1. ASSUME EndAttempt PROVE FailureInv'
  BY <1>1, ListIsFinite DEF EndAttempt, DoneAreSettled, CurrentIsSettling, AfterLoop
<1>2. ASSUME NEW o \in BOOLEAN, Begin(o) PROVE FailureInv'
  BY <1>2, ListIsFinite DEF Begin, DoneAreSettled, CurrentIsSettling, AfterLoop
<1>3. CASE CoreFails
  BY <1>1, <1>3 DEF CoreFails
<1>4. CASE Core \/ OpenInterest \/ LoopDone
  <2>1. DoneAreSettled'
    BY <1>4 DEF Core, OpenInterest, LoopDone, ledgerVars, DoneAreSettled, Settled, Active
  <2>2. CurrentIsSettling'
    BY <1>4 DEF Core, OpenInterest, LoopDone, CurrentIsSettling, AfterLoop, InLoop
  <2>3. QED
    BY <2>1, <2>2
<1>5. ASSUME NextFamily, UNCHANGED <<allow, stopped, evidence>>,
             \A f \in Families \ {Current} : outcomes'[f] = outcomes[f],
             InLoop, Current \in Active =>
                (evidence'[Current].is = "source_failed" => outcomes'[Current].is = "none")
      PROVE  FailureInv'
  <2>1. ASSUME NEW i \in 1 .. Len(FamilyList), i < position + 1, FamilyList[i] \in Active
        PROVE  Settled(FamilyList[i])'
    <3>1. CASE i = position
      BY <1>5, <2>1, <3>1 DEF Current, NextFamily, Settled
    <3>2. CASE i < position
      <4>1. FamilyList[i] \in Families \ {Current}
        BY <1>5, <3>2, ListIsFinite DEF TypeInv, TypeOK, InLoop, Current
      <4>2. QED
        BY <1>5, <2>1, <3>2, <4>1 DEF DoneAreSettled, Settled
    <3>3. QED
      BY <2>1, <3>1, <3>2 DEF TypeInv, TypeOK
  <2>2. DoneAreSettled'
    BY <1>5, <2>1 DEF DoneAreSettled, NextFamily, Active
  <2>3. CurrentIsSettling'
    BY <1>5 DEF NextFamily, CurrentIsSettling, AfterLoop
  <2>4. QED
    BY <2>2, <2>3
<1>6. CASE PassOver
  BY <1>5, <1>6 DEF PassOver, ledgerVars
<1>7. CASE RecordSourceFailure
  <2>1. DoneAreSettled'
    BY <1>7, OthersStaySettled DEF RecordSourceFailure, TypeInv, TypeOK
  <2>2. CurrentIsSettling'
    BY <1>7 DEF RecordSourceFailure, CurrentIsSettling, AfterLoop, Current
  <2>3. QED
    BY <2>1, <2>2
<1>8. CASE ClearPaper
  <2>1. Current \in Families /\ InLoop
    BY <1>8, CurrentIsAFamily DEF ClearPaper, LoopPoints, TypeInv, InFamily
  <2>2. DoneAreSettled'
    BY <1>8, <2>1, OthersStaySettled DEF ClearPaper, TypeInv, TypeOK
  <2>3. CurrentIsSettling'
    BY <1>8, <2>1 DEF ClearPaper, CurrentIsSettling, AfterLoop, Current, Settled, Written, TypeInv, TypeOK
  <2>4. QED
    BY <2>2, <2>3
<1>9. CASE Validate
  <2>1. DoneAreSettled'
    BY <1>9 DEF Validate, ledgerVars, DoneAreSettled, Settled, Active
  <2>2. CurrentIsSettling'
    BY <1>9 DEF Validate, CurrentIsSettling, AfterLoop, Current
  <2>3. QED
    BY <2>1, <2>2
<1>10. CASE RecordValidation
  <2>1. PICK s \in ValidationVerdicts :
           evidence' = [evidence EXCEPT ![Current] = Written(s)]
    BY <1>10 DEF RecordValidation
  <2>2. s # "source_failed"
    BY DEF ValidationVerdicts
  <2>3. Current \in Families /\ InLoop
    BY <1>10, CurrentIsAFamily DEF RecordValidation, LoopPoints, TypeInv, InFamily
  <2>4. DoneAreSettled'
    BY <1>10, <2>1, <2>3, OthersStaySettled DEF RecordValidation, TypeInv, TypeOK
  <2>5. evidence'[Current].is # "source_failed"
    BY <2>1, <2>2, <2>3 DEF Written, TypeInv, TypeOK
  <2>6. CurrentIsSettling'
    BY <1>10, <2>5 DEF RecordValidation, CurrentIsSettling, AfterLoop, Current, Settled
  <2>7. QED
    BY <2>4, <2>6
<1>11. ASSUME UNCHANGED <<runVars, ledgerVars>> PROVE FailureInv'
  BY <1>11 DEF runVars, ledgerVars, DoneAreSettled, Settled, Active, CurrentIsSettling, InLoop, Current
<1>12. OpenMemory \/ OperatorOpens \/ OperatorFails \/ (\E f \in Families : OperatorMarks(f))
         \/ UNCHANGED vars => UNCHANGED <<runVars, ledgerVars>>
  BY DEF OpenMemory, OperatorOpens, OperatorFails, OperatorMarks, vars
<1>13. CASE ValidationMemory
  <2>1. UNCHANGED <<attempt, allow, stopped, oiFailed, evidence, outcomes>> /\ pc = "validation_memory"
    BY <1>13 DEF ValidationMemory, ledgerVars
  <2>2. CASE NextFamily
    <3>1. InLoop /\ (evidence'[Current].is = "source_failed" => outcomes'[Current].is = "none")
      BY <2>1, <2>2 DEF TypeInv, InFamily, LoopPoints, CurrentIsSettling, Settled
    <3>2. QED
      BY <1>5, <2>1, <2>2, <3>1
  <2>3. CASE Current \notin oiFailed /\ pc' = "paper" /\ UNCHANGED position
    BY <2>1, <2>3 DEF CurrentIsSettling, AfterLoop, Current, DoneAreSettled, Settled, Active
  <2>4. QED
    BY <1>13, <2>2, <2>3 DEF ValidationMemory
<1>14. CASE SimulatePaper
  <2>1. InLoop /\ evidence'[Current].is # "source_failed"
    BY <1>14 DEF SimulatePaper, TypeInv, InFamily, LoopPoints, CurrentIsSettling, Settled
  <2>2. \A f \in Families \ {Current} : outcomes'[f] = outcomes[f]
    BY <1>14 DEF SimulatePaper, TypeInv, TypeOK
  <2>3. QED
    BY <1>5, <1>14, <2>1, <2>2 DEF SimulatePaper
<1>15. ASSUME UNCHANGED <<position, allow, stopped, ledgerVars>>, pc \in AfterLoop, pc' \in AfterLoop
       PROVE  FailureInv'
  BY <1>15 DEF ledgerVars, DoneAreSettled, Settled, Active, CurrentIsSettling, InLoop, AfterLoop
<1>16. CASE PaperMemory \/ ResearchMemory
  BY <1>15, <1>16 DEF PaperMemory, PaperMemoryFor, ResearchMemory, AfterLoop
<1>17. ASSUME NEW f \in Families, Override(f) PROVE FailureInv'
  BY <1>15, <1>17 DEF Override, AfterLoop
<1>18. CASE Review
  BY <1>1, <1>15, <1>18 DEF Review, AfterLoop
<1>19. ASSUME NEW f \in Families, Mark(f) PROVE FailureInv'
  BY <1>1, <1>15, <1>19 DEF Mark, AfterLoop
<1>20. CASE Abort
  BY <1>1, <1>20 DEF Abort
<1>21. QED
  BY <1>2, <1>3, <1>4, <1>6, <1>7, <1>8, <1>9, <1>10, <1>11, <1>12, <1>13, <1>14, <1>16, <1>17,
     <1>18, <1>19, <1>20 DEF Next, Step

(* A family whose source failed has no trade left from an earlier attempt  *)
(* once the run is complete.                                               *)
THEOREM FailedSourcesLeaveNoTrade == Spec => []FailedSourceLeavesNoTrade
<1>1. Init => FailureInv
  BY ListIsFinite DEF Init, FailureInv, DoneAreSettled, CurrentIsSettling, AfterLoop
<1>2. TypeInv /\ FailureInv /\ [Next]_vars => FailureInv'
  BY FailureInvStep
<1>3. TypeInv /\ FailureInv => FailedSourceLeavesNoTrade
  <2> SUFFICES ASSUME TypeInv, FailureInv, pc = "review", NEW f \in Active PROVE Settled(f)
    BY DEF FailedSourceLeavesNoTrade, Settled
  <2>1. PICK i \in 1 .. Len(FamilyList) : FamilyList[i] = f
    BY ListIsFinite DEF Active
  <2>2. i < position
    BY ListIsFinite DEF FailureInv, CurrentIsSettling, AfterLoop, InLoop, TypeInv, TypeOK
  <2>3. QED
    BY <2>1, <2>2 DEF FailureInv, DoneAreSettled
<1>4. QED
  BY <1>1, <1>2, <1>3, TypesHold, PTL DEF Spec

----------------------------------------------------------------------------
(* What the memory file holds.                                             *)

(* The updates the steps make.                                             *)
Update(u) ==
    \/ \E f \in Families : u = MarkDegraded(f) \/ u = RecordOverride(f)
    \/ \E s \in {"none", "passed"} : u = ReplaceResearch(Written(s))
    \/ pc = "validation_memory" /\ u = ReplaceValidation(Current, evidence[Current])
    \/ pc = "paper_memory" /\ u = ReplacePaper(Active, collected)

LEMMA MemoryStep ==
    ASSUME [Next]_vars
    PROVE  \/ UNCHANGED memVars
           \/ /\ UNCHANGED ledgerVars
              /\ \E w \in {Runner, Operator} : Memory!Load(w) \/ Memory!Discard(w)
           \/ /\ UNCHANGED ledgerVars
              /\ \E w \in {Runner, Operator} : \E u : Update(u) /\ Memory!Persist(w, u)
<1>1. CASE OpenMemory \/ OperatorOpens \/ Abort \/ OperatorFails
  BY <1>1 DEF OpenMemory, OperatorOpens, Abort, OperatorFails
<1>2. CASE ValidationMemory
  BY <1>2 DEF ValidationMemory, Update
<1>3. CASE PaperMemory
  BY <1>3 DEF PaperMemory, PaperMemoryFor, Update
<1>4. CASE ResearchMemory
  BY <1>4 DEF ResearchMemory, Update
<1>5. ASSUME NEW f \in Families, Override(f) \/ Mark(f) \/ OperatorMarks(f)
      PROVE  /\ UNCHANGED ledgerVars
             /\ \E w \in {Runner, Operator} : \E u : Update(u) /\ Memory!Persist(w, u)
  BY <1>5 DEF Override, Mark, OperatorMarks, Update
<1>6. (\E o \in BOOLEAN : Begin(o)) \/ CoreFails \/ Core \/ OpenInterest \/ PassOver
        \/ RecordSourceFailure \/ ClearPaper \/ Validate \/ RecordValidation \/ SimulatePaper
        \/ LoopDone \/ Review \/ UNCHANGED vars => UNCHANGED memVars
  BY DEF Begin, CoreFails, Core, OpenInterest, PassOver, RecordSourceFailure, ClearPaper,
     Validate, RecordValidation, SimulatePaper, LoopDone, Review, vars
<1>7. QED
  BY <1>1, <1>2, <1>3, <1>4, <1>5, <1>6 DEF Next, Step

(* What an update may leave under the ids of a family, and what it does    *)
(* leave under those it is for.                                            *)
Untouched(u, id, content, after) == id \notin Memory!Touched(u) /\ after[id] = content[id]

MayTouch(u, f, content, after) ==
    /\ \/ Untouched(u, <<"validation", f>>, content, after)
       \/ /\ pc = "validation_memory" /\ f = Current
          /\ after[<<"validation", f>>] = IF Missing(evidence[f]) THEN NoRecord ELSE evidence[f]
    /\ \/ Untouched(u, <<"paper", f>>, content, after)
       \/ /\ pc = "paper_memory"
          /\ f \in Active \/ ~Missing(collected[f])
          /\ after[<<"paper", f>>] = IF Missing(collected[f]) THEN NoRecord ELSE collected[f]
    /\ \/ Untouched(u, <<"degraded", f>>, content, after)
       \/ after[<<"degraded", f>>] = Marker

DoesTouch(u, f, after) ==
    /\ u = MarkDegraded(f) => after[<<"degraded", f>>] = Marker
    /\ f = Current /\ u = ReplaceValidation(Current, evidence[Current]) =>
          after[<<"validation", f>>] = IF Missing(evidence[f]) THEN NoRecord ELSE evidence[f]
    /\ f \in Active /\ u = ReplacePaper(Active, collected) =>
          after[<<"paper", f>>] = IF Missing(collected[f]) THEN NoRecord ELSE collected[f]

LEMMA UpdateEffect ==
    ASSUME NEW u, Update(u), NEW content, NEW f \in Families
    PROVE  /\ MayTouch(u, f, content, Memory!Applied(u, content))
           /\ DoesTouch(u, f, Memory!Applied(u, content))
<1> DEFINE after == Memory!Applied(u, content)
           Same(id) == Untouched(u, id, content, after)
<1>1. /\ <<"validation", f>> \in RecordIds /\ <<"paper", f>> \in RecordIds
      /\ <<"degraded", f>> \in RecordIds
  BY DEF RecordIds
<1>2. \A k \in RecordIds : after[k] = IF k \in DOMAIN u.put THEN u.put[k]
                                      ELSE IF k \in u.drop THEN NoRecord ELSE content[k]
  BY DEF Memory!Applied
<1> USE DEF Untouched, Memory!Touched
<1>3. ASSUME NEW g \in Families, u = MarkDegraded(g) \/ u = RecordOverride(g)
      PROVE  /\ Same(<<"validation", f>>)
             /\ Same(<<"paper", f>>)
             /\ (Same(<<"degraded", f>>) \/ after[<<"degraded", f>>] = Marker)
             /\ u = MarkDegraded(f) => after[<<"degraded", f>>] = Marker
  BY <1>1, <1>2, <1>3 DEF MarkDegraded, RecordOverride, One
<1>4. ASSUME NEW row, u = ReplaceResearch(row)
      PROVE  /\ Same(<<"validation", f>>)
             /\ Same(<<"paper", f>>)
             /\ Same(<<"degraded", f>>)
  <2>1. u.drop = {<<"research", "all">>} /\ DOMAIN u.put \subseteq {<<"research", "all">>}
    BY <1>4 DEF ReplaceResearch, One
  <2>2. QED
    BY <1>1, <1>2, <2>1
<1>5. ASSUME u = ReplaceValidation(Current, evidence[Current])
      PROVE  /\ \/ f # Current /\ Same(<<"validation", f>>)
                \/ /\ f = Current
                   /\ after[<<"validation", f>>] = IF Missing(evidence[f]) THEN NoRecord ELSE evidence[f]
             /\ Same(<<"paper", f>>)
             /\ Same(<<"degraded", f>>)
  <2>1. u.drop = {<<"validation", Current>>}
    BY <1>5 DEF ReplaceValidation
  <2>2. CASE Missing(evidence[Current])
    <3>1. DOMAIN u.put = {}
      BY <1>5, <2>2 DEF ReplaceValidation
    <3>2. QED
      BY <1>1, <1>2, <2>1, <2>2, <3>1
  <2>3. CASE ~Missing(evidence[Current])
    <3>1. u.put = One(<<"validation", Current>>, evidence[Current])
      BY <1>5, <2>3 DEF ReplaceValidation
    <3>2. QED
      BY <1>1, <1>2, <2>1, <2>3, <3>1 DEF One
  <2>4. QED
    BY <2>2, <2>3
<1>6. ASSUME u = ReplacePaper(Active, collected)
      PROVE  /\ \/ /\ f \notin Active /\ Missing(collected[f])
                   /\ Same(<<"paper", f>>)
                \/ /\ f \in Active \/ ~Missing(collected[f])
                   /\ after[<<"paper", f>>] = IF Missing(collected[f]) THEN NoRecord ELSE collected[f]
             /\ Same(<<"validation", f>>)
             /\ Same(<<"degraded", f>>)
  <2> DEFINE present == {g \in Families : ~Missing(collected[g])}
  <2>1. /\ u.drop = {<<"paper", g>> : g \in Active \cup present}
        /\ u.put = [k \in {<<"paper", g>> : g \in present} |-> collected[k[2]]]
    BY <1>6 DEF ReplacePaper
  <2>2. /\ <<"validation", f>> \notin u.drop \cup DOMAIN u.put
        /\ <<"degraded", f>> \notin u.drop \cup DOMAIN u.put
    BY <2>1
  <2>3. CASE f \in present
    <3>1. <<"paper", f>> \in DOMAIN u.put /\ u.put[<<"paper", f>>] = collected[f]
      BY <2>1, <2>3
    <3>2. QED
      BY <1>1, <1>2, <2>2, <2>3, <3>1
  <2>4. CASE f \notin present
    <3>1. <<"paper", f>> \notin DOMAIN u.put
      BY <2>1, <2>4
    <3>2. <<"paper", f>> \in u.drop <=> f \in Active
      BY <2>1, <2>4
    <3>3. QED
      BY <1>1, <1>2, <2>2, <2>4, <3>1, <3>2
  <2>5. QED
    BY <2>3, <2>4
<1>7. MayTouch(u, f, content, after)
  BY <1>3, <1>4, <1>5, <1>6 DEF Update, MayTouch
<1>8. DoesTouch(u, f, after)
  BY <1>3, <1>5, <1>6 DEF DoesTouch
<1>9. QED
  BY <1>7, <1>8

(* The families still ahead of the attempt have rows of earlier attempts   *)
(* only; what it has gathered of the others is in the ledger.              *)
ToValidate(i) ==
    i > position \/ (i = position /\ pc \in {"core", "open_interest", "family", "record"})

ToSimulate(i) ==
    \/ ToValidate(i)
    \/ i = position /\ pc \in {"clear_paper", "paper"}
    \/ i = position /\ pc = "validation_memory" /\ Current \notin oiFailed

RowsAhead ==
    pc # "idle" =>
        \A i \in 1 .. Len(FamilyList) :
            /\ ToValidate(i) => evidence[FamilyList[i]].at < attempt
            /\ ToSimulate(i) => outcomes[FamilyList[i]].at < attempt
            /\ i >= position => Missing(collected[FamilyList[i]])

CollectedInLedger ==
    /\ pc \in {"idle", "core", "open_interest"} => collected = NoRows
    /\ \A f \in Families :
          ~Missing(collected[f]) =>
             /\ f \in Active /\ collected[f] = outcomes[f]
             /\ collected[f].at > 0 /\ collected[f].is \in {"closed", "blocked"}
    /\ \A f \in Families : Missing(collected[f]) => collected[f] = Never
    /\ pc # "idle" => attempt > 0

GatherInv == RowsAhead /\ CollectedInLedger

LEMMA GatherInvStep ==
    ASSUME TypeInv, OrderInv, FailureInv, GatherInv, [Next]_vars
    PROVE  GatherInv'
<1> USE DEF GatherInv
<1>1. ASSUME EndAttempt PROVE GatherInv'
  BY <1>1 DEF EndAttempt, RowsAhead, CollectedInLedger, NoRows, Never, Missing
<1>2. ASSUME NEW o \in BOOLEAN, Begin(o) PROVE GatherInv'
  <2>1. pc = "idle" /\ pc' = "core" /\ collected = NoRows /\ attempt' = attempt + 1
        /\ UNCHANGED <<evidence, outcomes, collected, position>>
    BY <1>2 DEF Begin, ledgerVars, CollectedInLedger
  <2>2. \A f \in Families : evidence[f].at <= attempt /\ outcomes[f].at <= attempt
                            /\ evidence[f].at \in Nat /\ outcomes[f].at \in Nat
    BY PipelineAssumption DEF OrderInv, NotOfALaterAttempt, EvidenceBeforePaper, TypeInv, TypeOK, Row
  <2>3. RowsAhead'
    BY <2>1, <2>2, ListIsFinite DEF RowsAhead, NoRows, Never, Missing, TypeInv, TypeOK
  <2>4. CollectedInLedger'
    BY <2>1 DEF CollectedInLedger, NoRows, Never, Missing, TypeInv, TypeOK
  <2>5. QED
    BY <2>3, <2>4
<1>3. CASE CoreFails \/ Abort
  BY <1>1, <1>3 DEF CoreFails, Abort
(* A step that touches no row.                                             *)
<1>4. ASSUME pc # "idle", pc' # "idle", UNCHANGED <<attempt, allow, stopped, collected, ledgerVars>>,
             pc' \in {"core", "open_interest"} => pc \in {"core", "open_interest"},
             \A i \in 1 .. Len(FamilyList) :
                /\ ToValidate(i)' => ToValidate(i)
                /\ ToSimulate(i)' => ToSimulate(i)
                /\ i >= position' => i >= position
      PROVE  GatherInv'
  <2>1. RowsAhead'
    BY <1>4 DEF RowsAhead, ledgerVars
  <2>2. CollectedInLedger'
    BY <1>4 DEF CollectedInLedger, ledgerVars, Active
  <2>3. QED
    BY <2>1, <2>2
<1>5. ASSUME NEW p \in {"open_interest", "family", "record"}, pc' = p,
             pc \in {"core", "open_interest", "family"},
             p = "open_interest" => pc \in {"core", "open_interest"},
             UNCHANGED <<attempt, allow, stopped, collected, position, ledgerVars>>
      PROVE  GatherInv'
  BY <1>4, <1>5 DEF ToValidate, ToSimulate
<1>6. CASE Core \/ OpenInterest \/ Validate
  BY <1>5, <1>6 DEF Core, OpenInterest, Validate
<1>7. CASE LoopDone
  BY <1>4, <1>7 DEF LoopDone, ToValidate, ToSimulate
<1>8. CASE PassOver
  <2>1. position' = position + 1 /\ position \in Nat
    BY <1>8, ListIsFinite DEF PassOver, NextFamily, TypeInv, TypeOK
  <2>2. QED
    BY <1>4, <1>8, <2>1, ListIsFinite DEF PassOver, NextFamily, ToValidate, ToSimulate
<1>9. CASE ValidationMemory
  <2>1. position \in Nat /\ pc = "validation_memory"
        /\ UNCHANGED <<attempt, allow, stopped, collected, oiFailed, ledgerVars>>
    BY <1>9, ListIsFinite DEF ValidationMemory, TypeInv, TypeOK
  <2>2. CASE NextFamily
    BY <1>4, <2>1, <2>2, ListIsFinite DEF NextFamily, ToValidate, ToSimulate
  <2>3. CASE Current \notin oiFailed /\ pc' = "paper" /\ UNCHANGED position
    BY <1>4, <2>1, <2>3 DEF ToValidate, ToSimulate, Current
  <2>4. QED
    BY <1>9, <2>2, <2>3 DEF ValidationMemory
<1>10. ASSUME UNCHANGED <<pc, attempt, allow, stopped, position, oiFailed, collected, ledgerVars>>
       PROVE  GatherInv'
  BY <1>10 DEF RowsAhead, CollectedInLedger, ledgerVars, ToValidate, ToSimulate, Current, Active
<1>11. OpenMemory \/ OperatorOpens \/ OperatorFails \/ (\E f \in Families : OperatorMarks(f))
         \/ UNCHANGED vars
         => UNCHANGED <<pc, attempt, allow, stopped, position, oiFailed, collected, ledgerVars>>
  BY DEF OpenMemory, OperatorOpens, OperatorFails, OperatorMarks, runVars, vars
(* A step that records the current family.                                 *)
<1>12. CASE RecordSourceFailure \/ RecordValidation
  <2>1. /\ UNCHANGED <<attempt, allow, stopped, collected, position, outcomes, oiFailed>>
        /\ Current \in Families /\ InLoop
        /\ pc \in {"family", "record"} /\ pc' \in {"clear_paper", "validation_memory"}
        /\ \A f \in Families \ {Current} : evidence'[f] = evidence[f]
    <3>1. CASE RecordSourceFailure
      BY <3>1, ListIsFinite DEF RecordSourceFailure, InLoop, Current, TypeInv, TypeOK
    <3>2. CASE RecordValidation
      BY <3>2, CurrentIsAFamily DEF RecordValidation, LoopPoints, TypeInv, TypeOK, InFamily
    <3>3. QED
      BY <1>12, <3>1, <3>2
  <2>2. \A i \in 1 .. Len(FamilyList) : i > position => FamilyList[i] \in Families \ {Current}
    BY <2>1, ListIsFinite DEF TypeInv, TypeOK, InLoop, Current
  <2>3. \A i \in 1 .. Len(FamilyList) :
           /\ ToValidate(i)' => ToValidate(i) /\ i > position
           /\ ToSimulate(i)' => ToSimulate(i)
    BY <2>1 DEF ToValidate, ToSimulate
  <2>4. RowsAhead'
    BY <2>1, <2>2, <2>3 DEF RowsAhead
  <2>5. CollectedInLedger'
    BY <2>1 DEF CollectedInLedger, Active
  <2>6. QED
    BY <2>4, <2>5
<1>13. CASE ClearPaper
  <2>1. /\ UNCHANGED <<attempt, allow, stopped, collected, position, evidence, oiFailed>>
        /\ Current \in Families /\ InLoop /\ Current \in oiFailed
        /\ pc = "clear_paper" /\ pc' = "validation_memory"
        /\ \A f \in Families \ {Current} : outcomes'[f] = outcomes[f]
    BY <1>13, CurrentIsAFamily DEF ClearPaper, LoopPoints, TypeInv, TypeOK, InFamily, FailureInv,
       CurrentIsSettling
  <2>2. \A i \in 1 .. Len(FamilyList) : i > position => FamilyList[i] \in Families \ {Current}
    BY <2>1, ListIsFinite DEF TypeInv, TypeOK, InLoop, Current
  <2>3. \A i \in 1 .. Len(FamilyList) :
           /\ ToValidate(i)' => ToValidate(i) /\ i > position
           /\ ToSimulate(i)' => ToSimulate(i) /\ i > position
    BY <2>1 DEF ToValidate, ToSimulate, Current
  <2>4. RowsAhead'
    BY <2>1, <2>2, <2>3 DEF RowsAhead
  <2>5. Missing(collected[Current])
    BY <2>1, ListIsFinite DEF RowsAhead, InLoop, Current, TypeInv, TypeOK
  <2>6. CollectedInLedger'
    BY <2>1, <2>5 DEF CollectedInLedger, Active
  <2>7. QED
    BY <2>4, <2>6
<1>14. CASE SimulatePaper
  <2>1. /\ UNCHANGED <<attempt, allow, stopped, evidence, oiFailed>>
        /\ Current \in Families /\ InLoop /\ Current \in Active
        /\ position' = position + 1 /\ position \in Nat
        /\ pc = "paper" /\ pc' = "family"
    BY <1>14, CurrentIsAFamily, ListIsFinite DEF SimulatePaper, NextFamily, LoopPoints, TypeInv,
       TypeOK, InFamily
  <2>2. PICK s \in {"closed", "blocked"} :
           /\ outcomes' = [outcomes EXCEPT ![Current] = Written(s)]
           /\ collected' = [collected EXCEPT ![Current] = Written(s)]
    BY <1>14 DEF SimulatePaper
  <2>3. \A f \in Families \ {Current} : outcomes'[f] = outcomes[f] /\ collected'[f] = collected[f]
    BY <2>2 DEF TypeInv, TypeOK
  <2>4. \A i \in 1 .. Len(FamilyList) : i > position => FamilyList[i] \in Families \ {Current}
    BY <2>1, ListIsFinite DEF TypeInv, TypeOK, InLoop, Current
  <2>5. \A i \in 1 .. Len(FamilyList) :
           /\ ToValidate(i)' => ToValidate(i) /\ i > position
           /\ ToSimulate(i)' => ToSimulate(i) /\ i > position
           /\ i >= position' => i > position
    BY <2>1, ListIsFinite DEF ToValidate, ToSimulate
  <2>6. RowsAhead'
    BY <2>1, <2>3, <2>4, <2>5 DEF RowsAhead, Missing
  <2>7. /\ collected'[Current] = outcomes'[Current]
        /\ collected'[Current].at = attempt /\ collected'[Current].is = s
    BY <2>1, <2>2 DEF TypeInv, TypeOK, Written
  <2>8. CollectedInLedger'
    BY <2>1, <2>3, <2>7 DEF CollectedInLedger, Active, Missing
  <2>9. QED
    BY <2>6, <2>8
<1>15. ASSUME pc \in AfterLoop, pc' \in AfterLoop,
              UNCHANGED <<attempt, allow, stopped, position, oiFailed, collected, ledgerVars>>
       PROVE  GatherInv'
  BY <1>4, <1>15 DEF AfterLoop, ToValidate, ToSimulate
<1>16. CASE PaperMemory \/ ResearchMemory
  BY <1>15, <1>16 DEF PaperMemory, PaperMemoryFor, ResearchMemory, AfterLoop
<1>17. ASSUME NEW f \in Families, Override(f) PROVE GatherInv'
  BY <1>15, <1>17 DEF Override, AfterLoop
<1>18. CASE Review
  BY <1>1, <1>15, <1>18 DEF Review, AfterLoop
<1>19. ASSUME NEW f \in Families, Mark(f) PROVE GatherInv'
  BY <1>1, <1>15, <1>19 DEF Mark, AfterLoop
<1>20. QED
  BY <1>2, <1>3, <1>6, <1>7, <1>8, <1>9, <1>10, <1>11, <1>12, <1>13, <1>14, <1>16, <1>17, <1>18,
     <1>19 DEF Next, Step

(* Rows only get newer.                                                    *)
LEMMA RowsGetNewer ==
    ASSUME TypeInv, GatherInv, [Next]_vars, NEW f \in Families
    PROVE  /\ evidence'[f] = evidence[f] \/ evidence[f].at < evidence'[f].at
           /\ outcomes'[f] = outcomes[f] \/ outcomes[f].at < outcomes'[f].at
<1> USE DEF GatherInv
<1>1. CASE UNCHANGED ledgerVars
  BY <1>1 DEF ledgerVars
<1>2. ASSUME UNCHANGED <<outcomes>>, Current \in Families, pc \in {"family", "record"}, InLoop,
             NEW s, evidence' = [evidence EXCEPT ![Current] = Written(s)]
      PROVE  /\ evidence'[f] = evidence[f] \/ evidence[f].at < evidence'[f].at
             /\ outcomes'[f] = outcomes[f]
  <2>1. evidence[Current].at < attempt
    BY <1>2, ListIsFinite DEF RowsAhead, ToValidate, InLoop, Current, TypeInv, TypeOK
  <2>2. QED
    BY <1>2, <2>1 DEF TypeInv, TypeOK, Written
<1>3. ASSUME UNCHANGED <<evidence>>, Current \in Families, pc \in {"clear_paper", "paper"}, InLoop,
             NEW s, outcomes' = [outcomes EXCEPT ![Current] = Written(s)]
      PROVE  /\ evidence'[f] = evidence[f]
             /\ outcomes'[f] = outcomes[f] \/ outcomes[f].at < outcomes'[f].at
  <2>1. outcomes[Current].at < attempt
    BY <1>3, ListIsFinite DEF RowsAhead, ToSimulate, InLoop, Current, TypeInv, TypeOK
  <2>2. QED
    BY <1>3, <2>1 DEF TypeInv, TypeOK, Written
<1>4. QED
  BY <1>1, <1>2, <1>3, RowStep

LEMMA GatherInvHolds == Spec => [](TypeInv /\ OrderInv /\ FailureInv /\ GatherInv)
<1>1. Init => OrderInv /\ FailureInv /\ GatherInv
  <2>1. Init => FailureInv
    BY ListIsFinite DEF Init, FailureInv, DoneAreSettled, CurrentIsSettling, AfterLoop
  <2>2. Init => GatherInv
    BY DEF Init, GatherInv, RowsAhead, CollectedInLedger, NoRows, Never, Missing
  <2>3. QED
    BY <2>1, <2>2, OrderInvInit
<1>2. TypeInv /\ OrderInv /\ FailureInv /\ GatherInv /\ [Next]_vars
        => OrderInv' /\ FailureInv' /\ GatherInv'
  BY OrderInvStep, FailureInvStep, GatherInvStep
<1>3. QED
  BY <1>1, <1>2, TypesHold, PTL DEF Spec

(* The stores in use are behind the ledgers as well, since any of them may *)
(* be what the next update is computed from.                               *)
ContentBehind(content) ==
    \A f \in Families :
        /\ Behind(content[<<"validation", f>>], evidence[f])
        /\ Behind(content[<<"paper", f>>], outcomes[f])

BehindInv == ContentBehind(file) /\ \A w \in {Runner, Operator} : ContentBehind(snap[w])

LEMMA EmptyIsBehind == ContentBehind(Memory!Empty)
  BY DEF ContentBehind, Behind, Memory!Empty, RecordIds

LEMMA NewerStaysBehind ==
    ASSUME NEW record \in Records, NEW row \in Row, NEW newer \in Row, Behind(record, row),
           newer = row \/ row.at < newer.at
    PROVE  Behind(record, newer)
<1>1. row.at \in Nat /\ newer.at \in Nat
  BY PipelineAssumption DEF Row
<1>2. CASE record # NoRecord
  <2>1. record.at \in Nat
    BY <1>2, PipelineAssumption DEF Records, Row, Marker
  <2>2. QED
    BY <1>1, <1>2, <2>1 DEF Behind
<1>3. QED
  BY <1>2 DEF Behind

LEMMA BehindInvStep ==
    ASSUME TypeInv, GatherInv, BehindInv, [Next]_vars
    PROVE  BehindInv'
<1>1. file \in [RecordIds -> Records] /\ \A w \in {Runner, Operator} : snap[w] \in [RecordIds -> Records]
  BY DEF TypeInv, TypeOK, Records
<1>2. ASSUME NEW content \in [RecordIds -> Records], ContentBehind(content)
      PROVE  \A f \in Families :
                /\ Behind(content[<<"validation", f>>], evidence'[f])
                /\ Behind(content[<<"paper", f>>], outcomes'[f])
  <2> SUFFICES ASSUME NEW f \in Families
               PROVE  /\ Behind(content[<<"validation", f>>], evidence'[f])
                      /\ Behind(content[<<"paper", f>>], outcomes'[f])
    OBVIOUS
  <2>1. /\ content[<<"validation", f>>] \in Records /\ content[<<"paper", f>>] \in Records
        /\ Behind(content[<<"validation", f>>], evidence[f])
        /\ Behind(content[<<"paper", f>>], outcomes[f])
    BY <1>2 DEF ContentBehind, RecordIds
  <2>2. evidence'[f] \in Row /\ outcomes'[f] \in Row /\ evidence[f] \in Row /\ outcomes[f] \in Row
    BY LedgerTypes DEF TypeInv, TypeOK
  <2>3. QED
    BY <2>1, <2>2, RowsGetNewer, NewerStaysBehind
<1>3. CASE UNCHANGED memVars
  <2>1. ContentBehind(file)'
    BY <1>1, <1>2, <1>3 DEF memVars, BehindInv, ContentBehind
  <2>2. ASSUME NEW w \in {Runner, Operator} PROVE ContentBehind(snap[w])'
    BY <1>1, <1>2, <1>3 DEF memVars, BehindInv, ContentBehind
  <2>3. QED
    BY <2>1, <2>2 DEF BehindInv
<1>4. ASSUME UNCHANGED ledgerVars, NEW w \in {Runner, Operator}, Memory!Load(w) \/ Memory!Discard(w)
      PROVE  BehindInv'
  <2>1. \A content : ContentBehind(content) => ContentBehind(content)'
    BY <1>4 DEF ContentBehind, ledgerVars
  <2>2. file' = file /\ \A v \in {Runner, Operator} : snap'[v] \in {snap[v], file, Memory!Empty}
    BY <1>4 DEF Memory!Load, Memory!Discard, TypeInv, TypeOK
  <2>3. QED
    BY <1>4, <2>2, EmptyIsBehind DEF BehindInv, ContentBehind, ledgerVars
<1>5. ASSUME UNCHANGED ledgerVars, NEW w \in {Runner, Operator}, NEW u, Update(u), Memory!Persist(w, u)
      PROVE  BehindInv'
  <2>1. file' = Memory!Applied(u, snap[w])
        /\ \A v \in {Runner, Operator} : snap'[v] \in {snap[v], Memory!Empty}
    BY <1>5 DEF Memory!Persist, TypeInv, TypeOK
  <2>2. ASSUME NEW f \in Families
        PROVE  /\ Behind(file'[<<"validation", f>>], evidence[f])
               /\ Behind(file'[<<"paper", f>>], outcomes[f])
    <3>1. /\ Behind(snap[w][<<"validation", f>>], evidence[f])
          /\ Behind(snap[w][<<"paper", f>>], outcomes[f])
      BY DEF BehindInv, ContentBehind
    <3>2. ~Missing(collected[f]) => collected[f] = outcomes[f]
      BY DEF GatherInv, CollectedInLedger
    <3>3. MayTouch(u, f, snap[w], file')
      BY <1>5, <2>1, UpdateEffect
    <3>4. QED
      BY <3>1, <3>2, <3>3 DEF Behind, MayTouch, Untouched
  <2>3. QED
    BY <1>5, <2>1, <2>2, EmptyIsBehind DEF BehindInv, ContentBehind, ledgerVars
<1>6. QED
  BY <1>3, <1>4, <1>5, MemoryStep

(* The memory file never runs ahead of the ledgers, not even when the      *)
(* operator overwrites what the pipeline has just stored.                  *)
THEOREM MemoryStaysBehind == Spec => []MemoryBehindLedger
<1>1. Init => BehindInv
  <2> SUFFICES ASSUME Init PROVE BehindInv
    OBVIOUS
  <2>1. file = Memory!Empty /\ \A w \in {Runner, Operator} : snap[w] = Memory!Empty
    BY DEF Init, Memory!Init
  <2>2. QED
    BY <2>1, EmptyIsBehind DEF BehindInv
<1>2. TypeInv /\ GatherInv /\ BehindInv /\ [Next]_vars => BehindInv'
  BY BehindInvStep
<1>3. BehindInv => MemoryBehindLedger
  BY DEF BehindInv, ContentBehind, MemoryBehindLedger
<1>4. QED
  BY <1>1, <1>2, <1>3, GatherInvHolds, PTL DEF Spec

----------------------------------------------------------------------------
(* What an overlapping update leaves.                                      *)

(* A record that no update has taken back after a step is what the step    *)
(* made of it, or was not taken back before and is as it was.              *)
Lasts(id) == id \notin undone /\ file'[id] = file[id]

Kept(f) ==
    /\ <<"validation", f>> \notin undone' =>
          \/ Lasts(<<"validation", f>>)
          \/ /\ pc = "validation_memory" /\ f = Current
             /\ file'[<<"validation", f>>] = IF Missing(evidence[f]) THEN NoRecord ELSE evidence[f]
    /\ <<"paper", f>> \notin undone' =>
          \/ Lasts(<<"paper", f>>)
          \/ /\ pc = "paper_memory"
             /\ file'[<<"paper", f>>] = IF Missing(collected[f]) THEN NoRecord ELSE collected[f]
    /\ <<"degraded", f>> \notin undone' =>
          \/ Lasts(<<"degraded", f>>)
          \/ file'[<<"degraded", f>>] = Marker

LEMMA FileStep ==
    ASSUME [Next]_vars
    PROVE  \/ file' = file /\ undone' = undone
           \/ /\ UNCHANGED ledgerVars
              /\ \E w \in {Runner, Operator} : \E u : Update(u) /\ Memory!Persist(w, u)
<1>1. ASSUME NEW w, Memory!Load(w) \/ Memory!Discard(w) PROVE file' = file /\ undone' = undone
  BY <1>1 DEF Memory!Load, Memory!Discard
<1>2. QED
  BY <1>1, MemoryStep DEF memVars

LEMMA UpdateKeeps ==
    ASSUME [Next]_vars, NEW f \in Families
    PROVE  /\ Kept(f)
           /\ (file' = file /\ undone' = undone) \/ UNCHANGED ledgerVars
<1>1. ASSUME NEW w \in {Runner, Operator}, NEW u, Update(u), Memory!Persist(w, u) PROVE Kept(f)
  <2>1. MayTouch(u, f, snap[w], file')
    BY <1>1, UpdateEffect DEF Memory!Persist
  <2>2. ASSUME NEW id \in RecordIds, id \notin undone', Untouched(u, id, snap[w], file')
        PROVE  Lasts(id)
    BY <1>1, <2>2 DEF Memory!Persist, Untouched, Lasts
  <2>3. /\ <<"validation", f>> \in RecordIds /\ <<"paper", f>> \in RecordIds
        /\ <<"degraded", f>> \in RecordIds
    BY DEF RecordIds
  <2>4. QED
    BY <2>1, <2>2, <2>3 DEF MayTouch, Kept
<1>2. ASSUME file' = file, undone' = undone PROVE Kept(f)
  BY <1>2 DEF Kept, Lasts
<1>3. QED
  BY <1>1, <1>2, FileStep

(* What earlier attempts recorded of a family that this attempt skips      *)
(* stays as it is in the ledgers; in memory only an update that puts back  *)
(* what its store had read changes it (run_daily_evidence_pipeline,        *)
(* replace_paper_outcome_memory).                                          *)
THEOREM SkippedFamiliesStay == Spec => SkippedFamilyUntouched
<1> DEFINE Left(id) == file'[id] = file[id] \/ PutBack(id)
           Skipped == pc # "idle" /\ ~allow =>
                           \A f \in stopped :
                              /\ evidence'[f] = evidence[f] /\ outcomes'[f] = outcomes[f]
                              /\ \A id \in {<<"validation", f>>, <<"paper", f>>} : Left(id)
<1>1. TypeInv /\ GatherInv /\ [Next]_vars => Skipped
  <2> SUFFICES ASSUME TypeInv, GatherInv, [Next]_vars, ~allow, NEW f \in stopped
               PROVE  /\ evidence'[f] = evidence[f] /\ outcomes'[f] = outcomes[f]
                      /\ Left(<<"validation", f>>) /\ Left(<<"paper", f>>)
    OBVIOUS
  <2>1. f \in Families /\ f \notin Active
    BY DEF TypeInv, TypeOK, Active
  <2>2. evidence'[f] = evidence[f] /\ outcomes'[f] = outcomes[f]
    BY <2>1, RowStep DEF ledgerVars, TypeInv, TypeOK
  <2>3. Missing(collected[f])
    BY <2>1 DEF GatherInv, CollectedInLedger
  <2>4. pc = "validation_memory" => Current \in Active
    BY DEF TypeInv, InFamily, LoopPoints
  <2>5. ASSUME NEW w \in {Runner, Operator}, NEW u, Update(u), Memory!Persist(w, u)
        PROVE  Left(<<"validation", f>>) /\ Left(<<"paper", f>>)
    <3>1. MayTouch(u, f, snap[w], file') /\ w \in open
      BY <2>1, <2>5, UpdateEffect DEF Memory!Persist
    <3>2. QED
      BY <2>1, <2>3, <2>4, <3>1 DEF MayTouch, Untouched, PutBack
  <2>6. QED
    BY <2>2, <2>5, FileStep
<1>2. QED
  BY <1>1, GatherInvHolds, PTL DEF Spec, SkippedFamilyUntouched

(* A marker that was ever written and not taken back is still there, and   *)
(* the attempt that began after it leaves its family alone.                *)
MarksStay == \A f \in marked : <<"degraded", f>> \notin undone => f \in Stopped(file)

DueAreStopped ==
    /\ pc # "idle" => due \subseteq stopped
    /\ pc # "idle" /\ allow => due = {}

MarksInv == MarksStay /\ DueAreStopped /\ MarkedFamilySkipped

LEMMA MarksStayStep ==
    ASSUME TypeInv, MarksStay, [Next]_vars
    PROVE  MarksStay'
<1>1. \A f \in marked : f \in Families /\ <<"degraded", f>> \in RecordIds
                           /\ (<<"degraded", f>> \notin undone => file[<<"degraded", f>>] # NoRecord)
  BY DEF MarksStay, Stopped, RecordIds, TypeInv, TypeOK
<1>2. ASSUME NEW f \in marked, <<"degraded", f>> \notin undone' PROVE file'[<<"degraded", f>>] # NoRecord
  BY <1>1, <1>2, UpdateKeeps, NoRecordAssumption DEF Kept, Lasts
<1>3. marked' = marked
        \/ \E w \in {Runner, Operator} : \E f \in Families :
              marked' = marked \cup {f} /\ Memory!Persist(w, MarkDegraded(f))
  <2>1. ASSUME NEW f \in Families, Mark(f) \/ OperatorMarks(f)
        PROVE  \E w \in {Runner, Operator} :
                  marked' = marked \cup {f} /\ Memory!Persist(w, MarkDegraded(f))
    BY <2>1 DEF Mark, OperatorMarks
  <2>2. ASSUME NEW o \in BOOLEAN, Begin(o) PROVE marked' = marked
    BY <2>2 DEF Begin
  <2>3. CoreFails \/ Core \/ OpenInterest \/ PassOver \/ RecordSourceFailure \/ ClearPaper \/ Validate
          \/ RecordValidation \/ OpenMemory \/ ValidationMemory \/ SimulatePaper \/ LoopDone
          \/ PaperMemory \/ ResearchMemory \/ (\E f \in Families : Override(f)) \/ Review \/ Abort
          \/ OperatorOpens \/ OperatorFails \/ UNCHANGED vars => marked' = marked
    BY DEF CoreFails, Core, OpenInterest, PassOver, RecordSourceFailure, ClearPaper, Validate,
       RecordValidation, OpenMemory, ValidationMemory, SimulatePaper, LoopDone, PaperMemory,
       PaperMemoryFor, ResearchMemory, Override, Review, Abort, OperatorOpens, OperatorFails,
       historyVars, vars
  <2>4. QED
    BY <2>1, <2>2, <2>3 DEF Next, Step
<1>4. ASSUME NEW w \in {Runner, Operator}, NEW f \in Families, Memory!Persist(w, MarkDegraded(f))
      PROVE  file'[<<"degraded", f>>] # NoRecord
  <2>1. Update(MarkDegraded(f))
    BY DEF Update
  <2>2. file'[<<"degraded", f>>] = Marker
    <3>1. file' = Memory!Applied(MarkDegraded(f), snap[w])
      BY <1>4 DEF Memory!Persist
    <3>2. DoesTouch(MarkDegraded(f), f, file')
      BY <2>1, <3>1, UpdateEffect
    <3>3. QED
      BY <3>2 DEF DoesTouch
  <2>3. QED
    BY <2>2, NoRecordAssumption
<1>5. ASSUME NEW f \in marked', <<"degraded", f>> \notin undone'
      PROVE  f \in Families /\ file'[<<"degraded", f>>] # NoRecord
  BY <1>1, <1>2, <1>3, <1>4, <1>5
<1>6. QED
  BY <1>5 DEF MarksStay, Stopped

(* Within an attempt its number and what it may run stay.                  *)
LEMMA AttemptUnderWay ==
    ASSUME [Next]_vars
    PROVE  \/ \E o \in BOOLEAN : Begin(o)
           \/ /\ UNCHANGED <<attempt, due>>
              /\ pc' # "idle" => pc # "idle" /\ UNCHANGED <<allow, stopped>>
<1>1. EndAttempt => UNCHANGED attempt /\ pc' = "idle"
  BY DEF EndAttempt
<1>2. CoreFails \/ Core \/ OpenInterest \/ PassOver \/ RecordSourceFailure \/ ClearPaper \/ Validate
        \/ RecordValidation \/ OpenMemory \/ ValidationMemory \/ SimulatePaper \/ LoopDone
        \/ PaperMemory \/ ResearchMemory \/ Review \/ Abort
        => /\ UNCHANGED <<attempt, due>>
           /\ pc' # "idle" => pc # "idle" /\ UNCHANGED <<allow, stopped>>
  BY <1>1 DEF CoreFails, Core, OpenInterest, PassOver, RecordSourceFailure, ClearPaper, Validate,
     RecordValidation, OpenMemory, runVars, ValidationMemory, SimulatePaper, LoopDone, PaperMemory,
     PaperMemoryFor, ResearchMemory, Review, Abort, historyVars
<1>3. ASSUME NEW f \in Families, Override(f) \/ Mark(f) \/ OperatorMarks(f)
      PROVE  /\ UNCHANGED <<attempt, due>>
             /\ pc' # "idle" => pc # "idle" /\ UNCHANGED <<allow, stopped>>
  BY <1>1, <1>3 DEF Override, Mark, OperatorMarks, historyVars, runVars
<1>4. OperatorOpens \/ OperatorFails \/ UNCHANGED vars
        => /\ UNCHANGED <<attempt, due>>
           /\ pc' # "idle" => pc # "idle" /\ UNCHANGED <<allow, stopped>>
  BY DEF OperatorOpens, OperatorFails, runVars, historyVars, vars
<1>5. QED
  BY <1>2, <1>3, <1>4 DEF Next, Step

LEMMA MarksInvStep ==
    ASSUME TypeInv, OrderInv, MarksInv, [Next]_vars
    PROVE  MarksInv'
<1>1. MarksStay'
  BY MarksStayStep DEF MarksInv
<1>2. ASSUME NEW o \in BOOLEAN, Begin(o) PROVE DueAreStopped' /\ MarkedFamilySkipped'
  <2>1. DueAreStopped'
    BY <1>2 DEF Begin, DueAreStopped, MarksInv, MarksStay
  <2>2. ASSUME NEW f \in Families PROVE evidence[f].at < attempt + 1 /\ outcomes[f].at < attempt + 1
    BY PipelineAssumption DEF OrderInv, NotOfALaterAttempt, EvidenceBeforePaper, TypeInv, TypeOK, Row
  <2>3. due' \subseteq Families
    BY HistoryTypes DEF TypeInv
  <2>4. MarkedFamilySkipped'
    BY <1>2, <2>2, <2>3 DEF Begin, ledgerVars, MarkedFamilySkipped, TypeInv, TypeOK
  <2>5. QED
    BY <2>1, <2>4
<1>3. ASSUME UNCHANGED <<attempt, due>>,
             pc' # "idle" => pc # "idle" /\ UNCHANGED <<allow, stopped>>
      PROVE  DueAreStopped' /\ MarkedFamilySkipped'
  <2>1. DueAreStopped'
    BY <1>3 DEF DueAreStopped, MarksInv
  <2>2. ASSUME NEW f \in due, ~UNCHANGED ledgerVars PROVE f # Current
    <3>1. Current \in Active /\ pc # "idle"
      BY <2>2, RowStep
    <3>2. QED
      BY <3>1 DEF MarksInv, DueAreStopped, Active
  <2>3. \A f \in due : evidence'[f] = evidence[f] /\ outcomes'[f] = outcomes[f]
    BY <2>2, RowStep DEF ledgerVars, TypeInv, TypeOK
  <2>4. MarkedFamilySkipped'
    BY <1>3, <2>3 DEF MarksInv, MarkedFamilySkipped
  <2>5. QED
    BY <2>1, <2>4
<1>4. QED
  BY <1>1, <1>2, <1>3, AttemptUnderWay DEF MarksInv

(* A family marked degraded before an attempt began is neither validated   *)
(* nor simulated by it, unless the operator overrides or an update by a    *)
(* store constructed before the marker was written had taken it back       *)
(* (load_stopped_strategy_families).                                       *)
THEOREM MarkedFamiliesAreSkipped == Spec => []MarkedFamilySkipped
<1>1. Init => MarksInv
  BY DEF Init, MarksInv, MarksStay, DueAreStopped, MarkedFamilySkipped
<1>2. TypeInv /\ OrderInv /\ MarksInv /\ [Next]_vars => MarksInv'
  BY MarksInvStep
<1>3. MarksInv => MarkedFamilySkipped
  BY DEF MarksInv
<1>4. QED
  BY <1>1, <1>2, <1>3, GatherInvHolds, PTL DEF Spec

----------------------------------------------------------------------------
(* What the attempt has left in memory of the families it is done with.    *)

ValidationMatches(f) == Mirrors(<<"validation", f>>, evidence[f])
PaperMatches(f) == Mirrors(<<"paper", f>>, outcomes[f])

WillMirror(id, row) ==
    id \notin undone' => file'[id] = IF Missing(row) THEN NoRecord ELSE row

DoneMatch ==
    \A i \in 1 .. Len(FamilyList) :
        i < position /\ FamilyList[i] \in Active =>
            /\ ValidationMatches(FamilyList[i])
            /\ Missing(collected[FamilyList[i]]) => Missing(outcomes[FamilyList[i]])

CurrentMatches ==
    /\ pc = "paper" => Current \in Simulated /\ ValidationMatches(Current)
    /\ pc = "validation_memory" /\ Current \in oiFailed => Missing(outcomes[Current])
    /\ pc \in AfterLoop \ {"paper_memory"} => \A f \in Active : PaperMatches(f)

OnlySimulatedTrade == \A f \in Families \ Simulated : Missing(outcomes[f])

MatchInv == DoneMatch /\ CurrentMatches /\ OnlySimulatedTrade

LEMMA MatchStays ==
    ASSUME [Next]_vars, NEW f \in Families
    PROVE  /\ ValidationMatches(f) /\ evidence'[f] = evidence[f] => ValidationMatches(f)'
           /\ PaperMatches(f) /\ outcomes'[f] = outcomes[f] /\ pc # "paper_memory" => PaperMatches(f)'
  BY UpdateKeeps DEF Kept, Lasts, ValidationMatches, PaperMatches, Mirrors, ledgerVars

LEMMA OnlySimulatedTradeStep ==
    ASSUME TypeInv, MatchInv, [Next]_vars
    PROVE  OnlySimulatedTrade'
<1>1. CASE UNCHANGED outcomes
  BY <1>1 DEF MatchInv, OnlySimulatedTrade
<1>2. CASE ClearPaper
  BY <1>2 DEF ClearPaper, MatchInv, OnlySimulatedTrade, Written, Missing, TypeInv, TypeOK
<1>3. CASE SimulatePaper
  <2>1. Current \in Simulated
    BY <1>3 DEF SimulatePaper, MatchInv, CurrentMatches
  <2>2. QED
    BY <1>3, <2>1 DEF SimulatePaper, MatchInv, OnlySimulatedTrade, TypeInv, TypeOK
<1>4. QED
  BY <1>1, <1>2, <1>3, LedgerStep DEF ledgerVars, RecordSourceFailure, RecordValidation

(* The families before the current one are left as they are.               *)
LEMMA OthersStayMatched ==
    ASSUME TypeInv, DoneMatch, [Next]_vars,
           NEW i \in 1 .. Len(FamilyList), i < position, FamilyList[i] \in Active,
           InLoop =>
              \A f \in Families \ {Current} :
                 evidence'[f] = evidence[f] /\ outcomes'[f] = outcomes[f] /\ collected'[f] = collected[f],
           ~InLoop => UNCHANGED <<ledgerVars, collected>>
    PROVE  /\ ValidationMatches(FamilyList[i])'
           /\ Missing(collected'[FamilyList[i]]) => Missing(outcomes'[FamilyList[i]])
<1>1. FamilyList[i] \in Families
  BY ListIsFinite
<1>2. InLoop => FamilyList[i] # Current
  BY ListIsFinite DEF TypeInv, TypeOK, InLoop, Current
<1>3. /\ evidence'[FamilyList[i]] = evidence[FamilyList[i]]
      /\ outcomes'[FamilyList[i]] = outcomes[FamilyList[i]]
      /\ collected'[FamilyList[i]] = collected[FamilyList[i]]
  BY <1>1, <1>2 DEF ledgerVars
<1>4. QED
  BY <1>1, <1>3, MatchStays DEF DoneMatch

LEMMA MatchInvStep ==
    ASSUME TypeInv, FailureInv, GatherInv, MatchInv, [Next]_vars
    PROVE  MatchInv'
<1> USE DEF MatchInv
<1>1. ASSUME DoneMatch', CurrentMatches' PROVE MatchInv'
  BY <1>1, OnlySimulatedTradeStep
<1>2. ASSUME EndAttempt PROVE MatchInv'
  <2>1. DoneMatch' /\ CurrentMatches'
    BY <1>2, ListIsFinite DEF EndAttempt, DoneMatch, CurrentMatches, AfterLoop
  <2>2. QED
    BY <1>1, <2>1
<1>3. ASSUME NEW o \in BOOLEAN, Begin(o) PROVE MatchInv'
  <2>1. DoneMatch' /\ CurrentMatches'
    BY <1>3, ListIsFinite DEF Begin, DoneMatch, CurrentMatches, AfterLoop, FailureInv, CurrentIsSettling
  <2>2. QED
    BY <1>1, <2>1
<1>4. CASE CoreFails \/ Abort
  BY <1>2, <1>4 DEF CoreFails, Abort
(* The position stays.                                                     *)
<1>5. ASSUME UNCHANGED <<position, allow, stopped, collected>>,
             \/ UNCHANGED ledgerVars
             \/ /\ InLoop
                /\ \A f \in Families \ {Current} : evidence'[f] = evidence[f] /\ outcomes'[f] = outcomes[f]
      PROVE  DoneMatch'
  <2> SUFFICES ASSUME NEW i \in 1 .. Len(FamilyList), i < position, FamilyList[i] \in Active
               PROVE  /\ ValidationMatches(FamilyList[i])'
                      /\ Missing(collected'[FamilyList[i]]) => Missing(outcomes'[FamilyList[i]])
    BY <1>5 DEF DoneMatch, Active
  <2>1. QED
    BY <1>5, OthersStayMatched DEF ledgerVars
<1>6. CASE Core \/ OpenInterest \/ LoopDone \/ Validate
  <2>1. /\ UNCHANGED <<position, allow, stopped, collected>> /\ UNCHANGED ledgerVars
        /\ pc' \in {"open_interest", "family", "paper_memory", "record"}
    BY <1>6 DEF Core, OpenInterest, LoopDone, Validate
  <2>2. CurrentMatches'
    BY <2>1 DEF CurrentMatches, AfterLoop
  <2>3. QED
    BY <1>1, <1>5, <2>1, <2>2
<1>7. CASE RecordSourceFailure \/ RecordValidation \/ ClearPaper
  <2>1. /\ UNCHANGED <<position, allow, stopped, collected, oiFailed>> /\ InLoop /\ Current \in Families
        /\ \A f \in Families \ {Current} : evidence'[f] = evidence[f] /\ outcomes'[f] = outcomes[f]
        /\ pc' \in {"clear_paper", "validation_memory"}
    <3>1. CASE RecordSourceFailure
      BY <3>1, ListIsFinite DEF RecordSourceFailure, InLoop, Current, TypeInv, TypeOK
    <3>2. CASE RecordValidation
      BY <3>2, CurrentIsAFamily DEF RecordValidation, LoopPoints, TypeInv, TypeOK, InFamily
    <3>3. CASE ClearPaper
      BY <3>3, CurrentIsAFamily DEF ClearPaper, LoopPoints, TypeInv, TypeOK, InFamily
    <3>4. QED
      BY <1>7, <3>1, <3>2, <3>3
  <2>2. CurrentMatches'
    <3>1. CASE RecordSourceFailure
      BY <3>1 DEF RecordSourceFailure, CurrentMatches, AfterLoop
    <3>2. CASE RecordValidation
      BY <2>1, <3>2 DEF RecordValidation, CurrentMatches, AfterLoop, FailureInv, CurrentIsSettling, Current
    <3>3. CASE ClearPaper
      BY <2>1, <3>3 DEF ClearPaper, CurrentMatches, AfterLoop, Current, Written, Missing, TypeInv, TypeOK
    <3>4. QED
      BY <1>7, <3>1, <3>2, <3>3
  <2>3. QED
    BY <1>1, <1>5, <2>1, <2>2
(* The step moves on to the next family.                                   *)
<1>8. ASSUME NextFamily, InLoop, UNCHANGED <<allow, stopped>>,
             \A f \in Families \ {Current} :
                evidence'[f] = evidence[f] /\ outcomes'[f] = outcomes[f] /\ collected'[f] = collected[f],
             Current \in Active =>
                /\ WillMirror(<<"validation", Current>>, evidence'[Current])
                /\ Missing(collected'[Current]) => Missing(outcomes'[Current])
      PROVE  MatchInv'
  <2>1. ASSUME NEW i \in 1 .. Len(FamilyList), i < position + 1, FamilyList[i] \in Active
        PROVE  /\ ValidationMatches(FamilyList[i])'
               /\ Missing(collected'[FamilyList[i]]) => Missing(outcomes'[FamilyList[i]])
    <3>1. CASE i = position
      BY <1>8, <2>1, <3>1 DEF Current, ValidationMatches, Mirrors, WillMirror
    <3>2. CASE i < position
      BY <1>8, <2>1, <3>2, OthersStayMatched
    <3>3. QED
      BY <2>1, <3>1, <3>2 DEF TypeInv, TypeOK
  <2>2. DoneMatch'
    BY <1>8, <2>1 DEF DoneMatch, NextFamily, Active
  <2>3. CurrentMatches'
    BY <1>8 DEF NextFamily, CurrentMatches, AfterLoop
  <2>4. QED
    BY <1>1, <2>2, <2>3
<1>9. CASE PassOver
  BY <1>8, <1>9 DEF PassOver, ledgerVars
<1>10. CASE ValidationMemory
  <2>1. /\ UNCHANGED <<allow, stopped, oiFailed, collected, evidence, outcomes>>
        /\ Current \in Families /\ InLoop /\ pc = "validation_memory"
    BY <1>10, CurrentIsAFamily DEF ValidationMemory, ledgerVars, LoopPoints, TypeInv, InFamily
  <2>2. WillMirror(<<"validation", Current>>, evidence[Current])
    <3>1. Update(ReplaceValidation(Current, evidence[Current]))
      BY <2>1 DEF Update
    <3>2. file' = Memory!Applied(ReplaceValidation(Current, evidence[Current]), snap[Runner])
      BY <1>10 DEF ValidationMemory, Memory!Persist
    <3>3. DoesTouch(ReplaceValidation(Current, evidence[Current]), Current, file')
      BY <2>1, <3>1, <3>2, UpdateEffect
    <3>4. QED
      BY <3>3 DEF DoesTouch, WillMirror
  <2>3. CASE NextFamily /\ (Current \notin Simulated \/ Current \in oiFailed)
    <3>1. Missing(outcomes[Current])
      BY <2>1, <2>3 DEF CurrentMatches, OnlySimulatedTrade
    <3>2. QED
      BY <1>8, <2>1, <2>2, <2>3, <3>1
  <2>4. CASE Current \in Simulated /\ pc' = "paper" /\ UNCHANGED position
    <3>1. CurrentMatches'
      BY <2>1, <2>2, <2>4 DEF CurrentMatches, AfterLoop, Current, ValidationMatches, Mirrors, WillMirror
    <3>2. QED
      BY <1>1, <1>5, <2>1, <2>4, <3>1 DEF ledgerVars
  <2>5. QED
    BY <1>10, <2>3, <2>4 DEF ValidationMemory
<1>11. CASE SimulatePaper
  <2>1. /\ UNCHANGED <<file, undone, allow, stopped, evidence>> /\ NextFamily
        /\ Current \in Families /\ InLoop /\ pc = "paper"
    BY <1>11, CurrentIsAFamily DEF SimulatePaper, memVars, LoopPoints, TypeInv, InFamily
  <2>2. PICK s \in {"closed", "blocked"} :
           /\ outcomes' = [outcomes EXCEPT ![Current] = Written(s)]
           /\ collected' = [collected EXCEPT ![Current] = Written(s)]
    BY <1>11 DEF SimulatePaper
  <2>3. \A f \in Families \ {Current} : outcomes'[f] = outcomes[f] /\ collected'[f] = collected[f]
    BY <2>2 DEF TypeInv, TypeOK
  <2>4. ~Missing(collected'[Current])
    BY <2>1, <2>2 DEF TypeInv, TypeOK, Written, Missing
  <2>5. WillMirror(<<"validation", Current>>, evidence'[Current])
    BY <2>1 DEF CurrentMatches, ValidationMatches, Mirrors, WillMirror
  <2>6. QED
    BY <1>8, <2>1, <2>3, <2>4, <2>5
(* After the loop.                                                         *)
<1>12. CASE PaperMemory
  <2>1. /\ UNCHANGED <<position, allow, stopped, collected>> /\ UNCHANGED ledgerVars
        /\ pc = "paper_memory" /\ pc' = "research_memory"
    BY <1>12 DEF PaperMemory, PaperMemoryFor
  <2>2. ASSUME NEW f \in Active PROVE PaperMatches(f)'
    <3>1. PICK i \in 1 .. Len(FamilyList) : FamilyList[i] = f
      BY ListIsFinite DEF Active
    <3>2. i < position
      BY <2>1, ListIsFinite DEF FailureInv, CurrentIsSettling, AfterLoop, InLoop, TypeInv, TypeOK
    <3>3. Missing(collected[f]) => Missing(outcomes[f])
      BY <3>1, <3>2 DEF DoneMatch
    <3>4. ~Missing(collected[f]) => collected[f] = outcomes[f]
      BY DEF GatherInv, CollectedInLedger, Active
    <3>5. DoesTouch(ReplacePaper(Active, collected), f, file')
      <4>1. Update(ReplacePaper(Active, collected))
        BY <2>1 DEF Update
      <4>2. file' = Memory!Applied(ReplacePaper(Active, collected), snap[Runner])
        BY <1>12 DEF PaperMemory, PaperMemoryFor, Memory!Persist
      <4>3. f \in Families
        BY DEF Active
      <4>4. QED
        BY <4>1, <4>2, <4>3, UpdateEffect
    <3>6. QED
      BY <2>1, <3>3, <3>4, <3>5 DEF DoesTouch, PaperMatches, Mirrors, ledgerVars
  <2>3. CurrentMatches'
    BY <2>1, <2>2 DEF CurrentMatches, Active
  <2>4. QED
    BY <1>1, <1>5, <2>1, <2>3
<1>13. ASSUME pc \in AfterLoop \ {"paper_memory"}, pc' \in AfterLoop \ {"paper_memory"},
              UNCHANGED <<position, allow, stopped, collected>>, UNCHANGED ledgerVars
       PROVE  MatchInv'
  <2>1. \A f \in Active : PaperMatches(f)'
    BY <1>13, MatchStays DEF CurrentMatches, Active, ledgerVars
  <2>2. CurrentMatches'
    BY <1>13, <2>1 DEF CurrentMatches, AfterLoop, Active
  <2>3. QED
    BY <1>1, <1>5, <1>13, <2>2
<1>14. CASE ResearchMemory
  BY <1>13, <1>14 DEF ResearchMemory, AfterLoop
<1>15. ASSUME NEW f \in Families, Override(f) PROVE MatchInv'
  BY <1>13, <1>15 DEF Override, AfterLoop
<1>16. CASE Review
  BY <1>2, <1>13, <1>16 DEF Review, AfterLoop
<1>17. ASSUME NEW f \in Families, Mark(f) PROVE MatchInv'
  BY <1>2, <1>13, <1>17 DEF Mark, AfterLoop
(* Steps of the operator, and those that only open a store.                *)
<1>18. ASSUME UNCHANGED <<pc, position, allow, stopped, oiFailed, collected>>, UNCHANGED ledgerVars
       PROVE  MatchInv'
  <2>1. CurrentMatches'
    <3>1. pc = "paper" => ValidationMatches(Current)'
      BY <1>18, CurrentIsAFamily, MatchStays DEF CurrentMatches, LoopPoints, ledgerVars, Current
    <3>2. pc \in AfterLoop \ {"paper_memory"} => \A f \in Active : PaperMatches(f)'
      BY <1>18, MatchStays DEF CurrentMatches, Active, ledgerVars
    <3>3. QED
      BY <1>18, <3>1, <3>2 DEF CurrentMatches, Active, Current, ledgerVars
  <2>2. QED
    BY <1>1, <1>5, <1>18, <2>1
<1>19. OpenMemory \/ OperatorOpens \/ OperatorFails \/ (\E f \in Families : OperatorMarks(f))
         \/ UNCHANGED vars
         => UNCHANGED <<pc, position, allow, stopped, oiFailed, collected>> /\ UNCHANGED ledgerVars
  BY DEF OpenMemory, OperatorOpens, OperatorFails, OperatorMarks, runVars, vars
<1>20. QED
  BY <1>3, <1>4, <1>6, <1>7, <1>9, <1>10, <1>11, <1>12, <1>14, <1>15, <1>16, <1>17, <1>18, <1>19
     DEF Next, Step

(* When a run reaches the daily report, the memory of every family it ran  *)
(* is what the ledgers say, whatever earlier attempts had left behind and  *)
(* whichever of their records an overlapping update had taken back; only   *)
(* what is taken back of this attempt may be missing.                      *)
THEOREM CompletedRunsMatch == Spec => []CompletedRunMemoryMatches
<1>1. Init => MatchInv
  BY ListIsFinite DEF Init, MatchInv, DoneMatch, CurrentMatches, OnlySimulatedTrade, AfterLoop, NoRows,
     Never, Missing
<1>2. TypeInv /\ FailureInv /\ GatherInv /\ MatchInv /\ [Next]_vars => MatchInv'
  BY MatchInvStep
<1>3. TypeInv /\ FailureInv /\ MatchInv => CompletedRunMemoryMatches
  <2> SUFFICES ASSUME TypeInv, FailureInv, MatchInv, pc = "review", NEW f \in Active
               PROVE  ValidationMatches(f) /\ PaperMatches(f)
    BY DEF CompletedRunMemoryMatches, ValidationMatches, PaperMatches
  <2>1. PICK i \in 1 .. Len(FamilyList) : FamilyList[i] = f
    BY ListIsFinite DEF Active
  <2>2. i < position
    BY ListIsFinite DEF FailureInv, CurrentIsSettling, AfterLoop, InLoop, TypeInv, TypeOK
  <2>3. QED
    BY <2>1, <2>2 DEF MatchInv, DoneMatch, CurrentMatches, AfterLoop
<1>4. QED
  BY <1>1, <1>2, <1>3, GatherInvHolds, PTL DEF Spec
=============================================================================
