------------------------ MODULE CreationCycleProofs ------------------------
(***************************************************************************)
(* What reaches autonomy/active, for any number of cycles, task ids and    *)
(* exit codes.                                                             *)
(*                                                                         *)
(* A cycle that merged its branch and was never rejected is Done, and      *)
(* stays so, with the tree it verified.  The invariant says that active is *)
(* Sound: made of Done cycles, one of which verified exactly that tree;    *)
(* that every branch a cycle works on began as such a commit; and that no  *)
(* two cycles share a task, so that what a cycle verified is what it       *)
(* commits.  A fast-forward then moves active from Sound to Sound.         *)
(***************************************************************************)
EXTENDS CreationCycle, TLAPS

Done(d) ==
    /\ pc[d] \in {"report", "backlog", "unlink", "json", "accepted", "rejected", "failed", "dead"}
    /\ ~rejected[d]
    /\ d \in promoted

Sound(T) ==
    /\ T \in SUBSET Cycles
    /\ \A d \in T : Done(d)
    /\ T # {} => \E d \in T : verified[d] = T

(* Tasks belong to one cycle, which has one as long as it works on it.     *)
TasksOwned ==
    /\ \A c \in Cycles :
          /\ pc[c] \in {"start", "plan"} => task[c] = NoTask
          /\ pc[c] \in {"worktree", "build", "verify", "patch", "commit", "merge"} => task[c] \in taskDirs
          /\ task[c] # NoTask => task[c] \in taskDirs
    /\ \A c, d \in Cycles : task[c] = task[d] /\ task[c] # NoTask => c = d

(* Nothing is left of a task that was never created.                       *)
FreshTasks ==
    \A id \in TaskIds \ taskDirs : branch[id] = NoCommit /\ dirty[id] = {} /\ id \notin worktrees

(* The worktree of c at each of its control points.                        *)
WorkOf(c) ==
    LET id == task[c] IN
    /\ pc[c] = "worktree" => branch[id] = NoCommit /\ dirty[id] = {} /\ id \notin worktrees
    /\ pc[c] = "build" /\ id \in worktrees => Sound(branch[id]) /\ dirty[id] = {}
    /\ pc[c] \in {"verify", "patch", "commit"} => Sound(branch[id]) /\ dirty[id] \subseteq {c}
    /\ pc[c] \in {"patch", "commit"} => verified[c] = Tree(id)
    /\ pc[c] \in {"commit", "merge"} => ~rejected[c]
    /\ pc[c] = "merge" =>
          /\ branch[id] \in SUBSET Cycles
          /\ verified[c] = branch[id]
          /\ \A d \in branch[id] \ {c} : Done(d)
          /\ c \notin branch[id] => Sound(branch[id])

IInv ==
    /\ TypeOK
    /\ TasksOwned
    /\ FreshTasks
    /\ Sound(active)
    /\ \A c \in Cycles : WorkOf(c)

----------------------------------------------------------------------------
(* A cycle that is Done stays Done, with the tree it verified.             *)
LEMMA DoneStays ==
    ASSUME TypeOK, NEW c \in Cycles, CycleStep(c), NEW d \in Cycles, Done(d)
    PROVE  Done(d)' /\ verified'[d] = verified[d]
<1>1. CASE c = d
  BY <1>1 DEF TypeOK, Done, CycleStep, Start, Raise, Plan, CreateWorktree, Build, Verify, Patch,
     PromotionFails, Commit, Merge, WriteReport, AppendBacklog, UnlinkJson, WriteJson, Die,
     Exit, Goto, Reject, Running, Ended, gitVars
<1>2. CASE c # d
  BY <1>2 DEF TypeOK, Done, CycleStep, Start, Raise, Plan, CreateWorktree, Build, Verify, Patch,
     PromotionFails, Commit, Merge, WriteReport, AppendBacklog, UnlinkJson, WriteJson, Die,
     Exit, Goto, Reject, Running, Ended, gitVars
<1>3. QED
  BY <1>1, <1>2

LEMMA SoundStays ==
    ASSUME TypeOK, NEW c \in Cycles, CycleStep(c), NEW T, Sound(T)
    PROVE  Sound(T)'
  BY DoneStays DEF Sound

(* The same of the content of a variable that keeps its value.             *)
LEMMA SoundBranchStays ==
    ASSUME TypeOK, NEW c \in Cycles, CycleStep(c), NEW id \in TaskIds,
           branch'[id] = branch[id], Sound(branch[id])
    PROVE  Sound(branch[id])'
<1>1. PICK T : T = branch[id]
  OBVIOUS
<1>2. Sound(T)
  BY <1>1
<1>3. Sound(T)'
  BY <1>2, SoundStays
<1>4. QED
  BY <1>1, <1>3 DEF Sound

LEMMA SoundActiveStays ==
    ASSUME TypeOK, NEW c \in Cycles, CycleStep(c), active' = active, Sound(active)
    PROVE  Sound(active)'
<1>1. PICK T : T = active
  OBVIOUS
<1>2. Sound(T)'
  BY <1>1, SoundStays
<1>3. QED
  BY <1>1, <1>2 DEF Sound

----------------------------------------------------------------------------
LEMMA IInvInit == Init => IInv
<1> SUFFICES ASSUME Init PROVE IInv
  OBVIOUS
<1>1. TypeOK
  BY CreationAssumption DEF Init, TypeOK, Points
<1>2. TasksOwned /\ FreshTasks
  BY DEF Init, TasksOwned, FreshTasks
<1>3. Sound(active)
  BY DEF Init, Sound
<1>4. \A c \in Cycles : WorkOf(c)
  BY DEF Init, WorkOf
<1>5. QED
  BY <1>1, <1>2, <1>3, <1>4 DEF IInv

LEMMA TypeStep ==
    ASSUME IInv, NEW c \in Cycles, CycleStep(c)
    PROVE  TypeOK'
<1> USE CreationAssumption DEF IInv, TypeOK, TasksOwned, Points, Exit, Goto, Reject, cycleVars, gitVars, fileVars
<1>1. CASE Start(c)
  BY <1>1 DEF Start
<1>2. CASE Raise(c)
  BY <1>2 DEF Raise
<1>3. ASSUME NEW id \in TaskIds, Plan(c, id) PROVE TypeOK'
  <2>1. CASE id \in taskDirs
    BY <1>3, <2>1 DEF Plan
  <2>2. CASE id \notin taskDirs
    <3>1. PICK runCommands \in BOOLEAN :
             /\ rejected' = [rejected EXCEPT ![c] = @ \/ ~runCommands]
             /\ pc' = [pc EXCEPT ![c] = IF runCommands THEN "worktree" ELSE "build"]
      BY <1>3, <2>2 DEF Plan
    <3>2. rejected' \in [Cycles -> BOOLEAN] /\ pc' \in [Cycles -> Points]
      BY <3>1
    <3>3. taskDirs' \subseteq TaskIds /\ worktrees' \subseteq taskDirs'
      BY <1>3, <2>2 DEF Plan
    <3>4. task' \in [Cycles -> TaskIds \cup {NoTask}]
      BY <1>3, <2>2 DEF Plan
    <3>5. QED
      BY <1>3, <2>2, <3>2, <3>3, <3>4 DEF Plan
  <2>3. QED
    BY <2>1, <2>2
<1>4. CASE CreateWorktree(c)
  <2>1. task[c] \in taskDirs
    BY <1>4 DEF CreateWorktree
  <2>2. branch' \in [TaskIds -> (SUBSET Cycles) \cup {NoCommit}]
    BY <1>4, <2>1 DEF CreateWorktree
  <2>3. worktrees' \subseteq taskDirs'
    BY <1>4, <2>1 DEF CreateWorktree
  <2>4. pc' \in [Cycles -> Points] /\ rejected' \in [Cycles -> BOOLEAN]
    <3>1. pc' = [pc EXCEPT ![c] = "build"] \/ pc' = [pc EXCEPT ![c] = "report"]
      BY <1>4 DEF CreateWorktree
    <3>2. rejected' = rejected \/ rejected' = [rejected EXCEPT ![c] = @ \/ TRUE]
      BY <1>4 DEF CreateWorktree
    <3>3. pc' \in [Cycles -> Points]
      BY <3>1
    <3>4. CASE rejected' = [rejected EXCEPT ![c] = @ \/ TRUE]
      BY <3>4, <3>3
    <3>5. QED
      BY <3>2, <3>3, <3>4
  <2>5. UNCHANGED <<holder, task, verified, passed, dirty, active, promoted, fileVars>>
    BY <1>4 DEF CreateWorktree
  <2>6. QED
    BY <2>2, <2>3, <2>4, <2>5
<1>5. CASE Build(c)
  BY <1>5 DEF Build
<1>6. CASE Verify(c)
  <2>1. Tree(task[c]) \in SUBSET Cycles
    BY <1>6 DEF Verify, WorkOf, Sound, Tree
  <2>2. QED
    BY <1>6, <2>1 DEF Verify
<1>7. CASE Patch(c)
  BY <1>7 DEF Patch
<1>8. CASE PromotionFails(c)
  BY <1>8 DEF PromotionFails
<1>9. CASE Commit(c)
  <2>1. Tree(task[c]) \in SUBSET Cycles
    BY <1>9 DEF Commit, WorkOf, Sound, Tree
  <2>2. QED
    BY <1>9, <2>1 DEF Commit
<1>10. CASE Merge(c)
  BY <1>10 DEF Merge, WorkOf
<1>11. CASE WriteReport(c) \/ AppendBacklog(c) \/ UnlinkJson(c) \/ WriteJson(c)
  BY <1>11 DEF WriteReport, AppendBacklog, UnlinkJson, WriteJson
<1>12. CASE Die(c)
  BY <1>12 DEF Die
<1>13. QED
  BY <1>1, <1>2, <1>3, <1>4, <1>5, <1>6, <1>7, <1>8, <1>9, <1>10, <1>11, <1>12 DEF CycleStep

LEMMA TasksStep ==
    ASSUME TypeOK, TasksOwned, NEW c \in Cycles, CycleStep(c)
    PROVE  TasksOwned'
<1> USE CreationAssumption DEF TypeOK, Exit, Goto, Reject
<1>1. ASSUME NEW id \in TaskIds, Plan(c, id) PROVE TasksOwned'
  <2>1. CASE id \in taskDirs
    BY <1>1, <2>1 DEF Plan, TasksOwned
  <2>2. CASE id \notin taskDirs
    <3>1. task' = [task EXCEPT ![c] = id] /\ taskDirs' = taskDirs \cup {id}
      BY <1>1, <2>2 DEF Plan
    <3>2. \A d \in Cycles \ {c} : pc'[d] = pc[d] /\ task'[d] = task[d]
      BY <1>1, <2>2 DEF Plan
    <3>3. pc'[c] \in {"worktree", "build"}
      BY <1>1, <2>2 DEF Plan
    <3>4. \A d \in Cycles \ {c} : task[d] # id
      BY <2>2 DEF TasksOwned
    <3>5. QED
      BY <3>1, <3>2, <3>3, <3>4 DEF TasksOwned
  <2>3. QED
    BY <2>1, <2>2
<1>2. ASSUME ~ \E id \in TaskIds : Plan(c, id) PROVE TasksOwned'
  <2>1. task' = task /\ taskDirs' = taskDirs
    BY <1>2 DEF CycleStep, Start, Raise, CreateWorktree, Build, Verify, Patch, PromotionFails,
       Commit, Merge, WriteReport, AppendBacklog, UnlinkJson, WriteJson, Die, fileVars
  <2>2. \A d \in Cycles \ {c} : pc'[d] = pc[d]
    BY <1>2 DEF CycleStep, Start, Raise, CreateWorktree, Build, Verify, Patch, PromotionFails,
       Commit, Merge, WriteReport, AppendBacklog, UnlinkJson, WriteJson, Die
  <2>3. /\ pc'[c] \in {"start", "plan"} => pc[c] \in {"start", "plan"}
        /\ pc'[c] \in {"worktree", "build", "verify", "patch", "commit", "merge"}
              => pc[c] \in {"worktree", "build", "verify", "patch", "commit", "merge"}
    BY <1>2 DEF CycleStep, Start, Raise, CreateWorktree, Build, Verify, Patch, PromotionFails,
       Commit, Merge, WriteReport, AppendBacklog, UnlinkJson, WriteJson, Die
  <2>4. QED
    BY <2>1, <2>2, <2>3 DEF TasksOwned
<1>3. QED
  BY <1>1, <1>2

(* A step of c changes the branch and worktree of its own task only.       *)
LEMMA OwnTaskOnly ==
    ASSUME TypeOK, NEW c \in Cycles, CycleStep(c), NEW id \in TaskIds, id # task[c]
    PROVE  /\ branch'[id] = branch[id] /\ dirty'[id] = dirty[id]
           /\ id \in worktrees' <=> id \in worktrees
<1> USE DEF TypeOK
<1>1. CASE CreateWorktree(c)
  BY <1>1 DEF CreateWorktree
<1>2. CASE Build(c)
  BY <1>2 DEF Build
<1>3. CASE Commit(c)
  BY <1>3 DEF Commit
<1>4. CASE ~CreateWorktree(c) /\ ~Build(c) /\ ~Commit(c)
  <2>1. UNCHANGED <<branch, dirty, worktrees>>
    BY <1>4 DEF CycleStep, Start, Raise, Plan, Verify, Patch, PromotionFails,
       Merge, WriteReport, AppendBacklog, UnlinkJson, WriteJson, Die, gitVars
  <2>2. QED
    BY <2>1
<1>5. QED
  BY <1>1, <1>2, <1>3, <1>4

LEMMA FreshStep ==
    ASSUME TypeOK, TasksOwned, FreshTasks, NEW c \in Cycles, CycleStep(c)
    PROVE  FreshTasks'
<1> SUFFICES ASSUME NEW id \in TaskIds, id \notin taskDirs'
             PROVE  (branch[id] = NoCommit /\ dirty[id] = {} /\ id \notin worktrees)'
  BY DEF FreshTasks
<1>1. id \notin taskDirs
  BY DEF CycleStep, Start, Raise, Plan, CreateWorktree, Build, Verify, Patch, PromotionFails,
     Commit, Merge, WriteReport, AppendBacklog, UnlinkJson, WriteJson, Die, fileVars
<1>2. CASE id # task[c]
  BY <1>1, <1>2, OwnTaskOnly DEF FreshTasks, NoCommit
<1>3. CASE id = task[c]
  BY <1>1, <1>3, CreationAssumption DEF TasksOwned
<1>4. QED
  BY <1>2, <1>3

LEMMA ActiveStep ==
    ASSUME IInv, NEW c \in Cycles, CycleStep(c)
    PROVE  Sound(active)'
<1>1. CASE Merge(c) /\ FastForward(c)
  <2> DEFINE id == task[c]
  <2>1. PICK T : T = branch[id]
    OBVIOUS
  <2>2. /\ active' = T /\ pc' = [pc EXCEPT ![c] = "report"]
        /\ rejected' = rejected /\ verified' = verified /\ c \in promoted'
    BY <1>1, <2>1 DEF Merge, Goto
  <2>3. /\ T \in SUBSET Cycles /\ verified[c] = T /\ ~rejected[c]
        /\ \A d \in T \ {c} : Done(d)
        /\ c \notin T => Sound(T)
    BY <1>1, <2>1 DEF Merge, IInv, WorkOf
  <2>4. pc'[c] = "report" /\ ~rejected'[c]
    BY <2>2, <2>3 DEF IInv, TypeOK
  <2>5. Done(c)'
    BY <2>2, <2>4 DEF Done
  <2>6. \A d \in T : Done(d)'
    BY <2>3, <2>5, DoneStays DEF IInv
  <2>7. CASE c \in T
    BY <2>2, <2>3, <2>6, <2>7 DEF Sound
  <2>8. CASE c \notin T
    BY <2>2, <2>3, <2>6, <2>8 DEF Sound
  <2>9. QED
    BY <2>7, <2>8
<1>2. CASE ~(Merge(c) /\ FastForward(c))
  <2>1. active' = active
    BY <1>2 DEF CycleStep, Start, Raise, Plan, CreateWorktree, Build, Verify, Patch,
       PromotionFails, Commit, Merge, WriteReport, AppendBacklog, UnlinkJson, WriteJson, Die, gitVars
  <2>2. QED
    BY <2>1, SoundActiveStays DEF IInv
<1>3. QED
  BY <1>1, <1>2

----------------------------------------------------------------------------
(* The work of every cycle, when c takes a step: the others',              *)
LEMMA OthersWork ==
    ASSUME IInv, NEW c \in Cycles, CycleStep(c), NEW d \in Cycles, d # c
    PROVE  WorkOf(d)'
<1> USE DEF IInv
<1>1. /\ pc'[d] = pc[d] /\ task'[d] = task[d]
      /\ rejected'[d] = rejected[d] /\ verified'[d] = verified[d]
  BY DEF TypeOK, CycleStep, Start, Raise, Plan, CreateWorktree, Build, Verify, Patch,
     PromotionFails, Commit, Merge, WriteReport, AppendBacklog, UnlinkJson, WriteJson, Die,
     Exit, Goto, Reject
<1>2. CASE pc[d] \notin {"worktree", "build", "verify", "patch", "commit", "merge"}
  BY <1>1, <1>2 DEF WorkOf
<1>3. CASE pc[d] \in {"worktree", "build", "verify", "patch", "commit", "merge"}
  <2>1. PICK id : id = task[d]
    OBVIOUS
  <2>2. id \in TaskIds /\ id # task[c]
    BY <1>3, <2>1, CreationAssumption DEF TypeOK, TasksOwned
  <2>3. branch'[id] = branch[id] /\ dirty'[id] = dirty[id] /\ (id \in worktrees' <=> id \in worktrees)
    BY <2>2, OwnTaskOnly
  <2>4. Sound(branch[id]) => Sound(branch[id])'
    BY <2>2, <2>3, SoundBranchStays
  <2>5. \A e \in Cycles : Done(e) => Done(e)'
    BY DoneStays
  <2>6. WorkOf(d)
    OBVIOUS
  <2>7. task'[d] = id
    BY <1>1, <2>1
  <2>8. Sound(branch[id])' <=> Sound(branch[task[d]])'
    BY <2>7
  <2>9. QED
    BY <1>1, <2>1, <2>3, <2>4, <2>5, <2>6, <2>7, <2>8 DEF WorkOf, Tree
<1>4. QED
  BY <1>2, <1>3

(* and its own.                                                            *)
LEMMA OwnWork ==
    ASSUME IInv, NEW c \in Cycles, CycleStep(c)
    PROVE  WorkOf(c)'
<1> USE DEF IInv, Exit, Goto
<1> DEFINE id == task[c]
<1>1. ASSUME NEW i \in TaskIds, Plan(c, i) PROVE WorkOf(c)'
  BY <1>1 DEF Plan, TypeOK, FreshTasks, WorkOf, gitVars
<1>2. CASE CreateWorktree(c)
  <2>1. id \in TaskIds
    BY <1>2 DEF CreateWorktree, TypeOK, TasksOwned
  <2>2. CASE pc'[c] = "build"
    <3>1. branch'[id] = active /\ dirty'[id] = {} /\ task' = task
      <4>1. /\ branch[id] = NoCommit /\ dirty[id] = {}
            /\ dirty' = dirty /\ task' = task
            /\ branch \in [TaskIds -> (SUBSET Cycles) \cup {NoCommit}]
        BY <1>2 DEF CreateWorktree, TypeOK, WorkOf
      <4>2. pc'[c] # "report"
        BY <2>2
      <4>3. branch' = [branch EXCEPT ![id] = IF @ = NoCommit THEN active ELSE @]
        BY <1>2, <4>2 DEF CreateWorktree, TypeOK
      <4>4. QED
        BY <2>1, <4>1, <4>3
    <3>2. PICK T : T = active
      OBVIOUS
    <3>3. Sound(T)'
      BY <3>2, SoundStays
    <3>4. Sound(branch[task[c]])'
      BY <3>1, <3>2, <3>3 DEF Sound
    <3>5. QED
      BY <2>2, <3>1, <3>4 DEF WorkOf
  <2>3. CASE pc'[c] = "report"
    BY <2>3 DEF WorkOf
  <2>4. QED
    BY <1>2, <2>2, <2>3 DEF CreateWorktree, TypeOK
<1>3. CASE Build(c)
  <2>1. CASE id \in worktrees
    <3>1. id \in TaskIds
      BY <2>1 DEF TypeOK
    <3>2. branch' = branch /\ task' = task /\ pc'[c] = "verify" /\ dirty'[id] \subseteq {c}
      BY <1>3, <2>1, <3>1 DEF Build, TypeOK, WorkOf
    <3>3. Sound(branch[id])
      BY <1>3, <2>1 DEF Build, WorkOf
    <3>4. Sound(branch[task[c]])'
      BY <3>1, <3>2, <3>3, SoundBranchStays DEF Sound
    <3>5. QED
      BY <3>2, <3>4 DEF WorkOf
  <2>2. CASE id \notin worktrees
    BY <1>3, <2>2 DEF Build, TypeOK, WorkOf
  <2>3. QED
    BY <2>1, <2>2
<1>4. CASE Verify(c) \/ Patch(c)
  <2>1. id \in TaskIds /\ branch' = branch /\ dirty' = dirty /\ task' = task /\ Sound(branch[id])
    BY <1>4 DEF Verify, Patch, TypeOK, TasksOwned, WorkOf, gitVars
  <2>2. Sound(branch[task[c]])'
    BY <2>1, SoundBranchStays DEF Sound
  <2>3. dirty[id] \subseteq {c}
    BY <1>4 DEF Verify, Patch, WorkOf
  <2>4. CASE Verify(c)
    <3>1. pc'[c] = "patch" /\ verified'[c] = Tree(task[c])
      BY <2>4 DEF Verify, TypeOK
    <3>2. QED
      BY <2>1, <2>2, <2>3, <3>1 DEF WorkOf, Tree
  <2>5. CASE Patch(c)
    <3>1. pc'[c] \in {"report", "commit"} /\ (pc'[c] = "commit" => ~rejected'[c])
      BY <2>5 DEF Patch, TypeOK
    <3>2. verified' = verified /\ verified[c] = Tree(task[c])
      BY <2>5 DEF Patch, WorkOf
    <3>3. QED
      BY <2>1, <2>2, <2>3, <3>1, <3>2 DEF WorkOf, Tree
  <2>6. QED
    BY <1>4, <2>4, <2>5
<1>5. CASE Commit(c)
  <2>1. id \in TaskIds
    BY <1>5 DEF Commit, TypeOK, TasksOwned
  <2>2. /\ task' = task /\ pc'[c] = "merge" /\ rejected' = rejected /\ verified' = verified
        /\ branch'[id] = Tree(id) /\ ~rejected[c] /\ verified[c] = Tree(id)
    BY <1>5, <2>1 DEF Commit, TypeOK, WorkOf
  <2>3. Sound(branch[id]) /\ dirty[id] \subseteq {c}
    BY <1>5 DEF Commit, WorkOf
  <2>4. Tree(id) \in SUBSET Cycles /\ \A d \in Tree(id) \ {c} : Done(d)'
    BY <2>3, DoneStays DEF Sound, Tree
  <2>5. CASE c \in Tree(id)
    BY <2>2, <2>4, <2>5 DEF WorkOf
  <2>6. CASE c \notin Tree(id)
    <3>1. branch'[id] = branch[id]
      BY <2>2, <2>3, <2>6 DEF Tree
    <3>2. Sound(branch[task[c]])'
      BY <2>1, <2>2, <2>3, <3>1, SoundBranchStays DEF Sound
    <3>3. QED
      BY <2>2, <2>4, <3>2 DEF WorkOf
  <2>7. QED
    BY <2>5, <2>6
<1>6. CASE /\ ~(\E i \in TaskIds : Plan(c, i)) /\ ~CreateWorktree(c) /\ ~Build(c)
           /\ ~Verify(c) /\ ~Patch(c) /\ ~Commit(c)
  <2>1. pc'[c] \notin {"worktree", "build", "verify", "patch", "commit", "merge"}
    BY <1>6 DEF CycleStep, Start, Raise, PromotionFails, Merge, WriteReport, AppendBacklog,
       UnlinkJson, WriteJson, Die, TypeOK
  <2>2. QED
    BY <2>1 DEF WorkOf
<1>7. QED
  BY <1>1, <1>2, <1>3, <1>4, <1>5, <1>6

LEMMA IInvStep == IInv /\ [Next]_vars => IInv'
<1> SUFFICES ASSUME IInv, [Next]_vars PROVE IInv'
  OBVIOUS
<1>1. ASSUME NEW c \in Cycles, CycleStep(c) PROVE IInv'
  <2>1. \A d \in Cycles : WorkOf(d)'
    BY <1>1, OwnWork, OthersWork
  <2>2. QED
    BY <1>1, <2>1, TypeStep, TasksStep, FreshStep, ActiveStep DEF IInv
<1>2. CASE UNCHANGED vars
  BY <1>2 DEF vars, cycleVars, gitVars, fileVars, IInv, TypeOK, TasksOwned, FreshTasks, WorkOf,
     Sound, Done, Tree
<1>3. QED
  BY <1>1, <1>2 DEF Next

THEOREM CreationInductive == Spec => []IInv
  BY IInvInit, IInvStep, PTL DEF Spec

(* Every variable of the creation cycle keeps its type.                    *)
THEOREM CreationTypes == Spec => []TypeOK
<1>1. IInv => TypeOK
  BY DEF IInv
<1>2. QED
  BY <1>1, CreationInductive, PTL

(* Whatever cycles overlap, fail or are killed, autonomy/active is the     *)
(* owner's HEAD or a tree that one cycle verified as a whole.              *)
THEOREM TipIsVerified == Spec => []ActiveTipVerified
<1>1. IInv => ActiveTipVerified
  BY DEF IInv, Sound, ActiveTipVerified
<1>2. QED
  BY <1>1, CreationInductive, PTL

(* Whatever is on autonomy/active, the cycle that made it merged it and    *)
(* was not rejected: what other cycles leave behind stays off it.          *)
THEOREM PromotedWorkOnly == Spec => []OnlyPromotedOnActive
<1>1. IInv => OnlyPromotedOnActive
  BY DEF IInv, Sound, Done, OnlyPromotedOnActive
<1>2. QED
  BY <1>1, CreationInductive, PTL

(* Promotions are never undone: no step of any cycle takes work off        *)
(* autonomy/active.                                                        *)
THEOREM PromotionsStay == Spec => ActiveOnlyGrows
<1>1. ASSUME [Next]_vars PROVE [active \subseteq active']_active
  BY <1>1 DEF Next, CycleStep, vars, Start, Raise, Plan, CreateWorktree, Build, Verify, Patch,
     PromotionFails, Commit, Merge, FastForward, WriteReport, AppendBacklog, UnlinkJson, WriteJson,
     Die, cycleVars, gitVars, fileVars
<1>2. QED
  BY <1>1, PTL DEF Spec, ActiveOnlyGrows

----------------------------------------------------------------------------
(* Reports.  A cycle that gets to its report without a reason code has     *)
(* merged: one without a worktree has a reason code from the start.        *)
Reporting(c) ==
    \/ pc[c] \in {"report", "backlog", "unlink", "json", "accepted"}
    \/ \E k \in {"md", "json"} : latest[k] = c

ReportInv ==
    /\ \A c \in Cycles :
          /\ pc[c] = "build" /\ task[c] \notin worktrees => rejected[c]
          /\ Reporting(c) /\ ~rejected[c] => verified[c] \subseteq active
          /\ pc[c] \in {"unlink", "json"} => c \in backlog
          /\ \A k \in {"md", "json"} :
                latest[k] = c => pc[c] \in {"backlog", "unlink", "json"} \cup Ended
    /\ latest["json"] # NoCycle => latest["json"] \in backlog

LEMMA ReportInvInit == Init => ReportInv
  BY CreationAssumption DEF Init, ReportInv, Reporting

(* Neither the backlog nor active loses anything, worktrees stay.          *)
LEMMA OnlyGrow ==
    ASSUME TypeOK, NEW c \in Cycles, CycleStep(c)
    PROVE  active \subseteq active' /\ backlog \subseteq backlog' /\ worktrees \subseteq worktrees'
  BY DEF CycleStep, Start, Raise, Plan, CreateWorktree, Build, Verify, Patch,
     PromotionFails, Commit, Merge, FastForward, WriteReport, AppendBacklog, UnlinkJson, WriteJson,
     Die, gitVars, fileVars

LEMMA ReportInvStep ==
    ASSUME IInv, ReportInv, NEW c \in Cycles, CycleStep(c)
    PROVE  ReportInv'
<1> USE DEF IInv
<1>1. ASSUME NEW d \in Cycles, d # c
      PROVE  /\ pc'[d] = pc[d] /\ task'[d] = task[d]
             /\ rejected'[d] = rejected[d] /\ verified'[d] = verified[d]
             /\ \A k \in {"md", "json"} : latest'[k] = d => latest[k] = d
  BY <1>1, CreationAssumption DEF TypeOK, CycleStep, Start, Raise, Plan, CreateWorktree, Build,
     Verify, Patch, PromotionFails, Commit, Merge, WriteReport, AppendBacklog, UnlinkJson,
     WriteJson, Die, Exit, Goto, Reject, fileVars
<1>2. ASSUME NEW d \in Cycles, d # c
      PROVE  /\ pc'[d] = "build" /\ task'[d] \notin worktrees' => rejected'[d]
             /\ Reporting(d)' /\ ~rejected'[d] => verified'[d] \subseteq active'
             /\ pc'[d] \in {"unlink", "json"} => d \in backlog'
             /\ \A k \in {"md", "json"} :
                   latest'[k] = d => pc'[d] \in {"backlog", "unlink", "json"} \cup Ended
  BY <1>1, <1>2, OnlyGrow DEF ReportInv, Reporting, Ended
<1>3. pc'[c] = "build" /\ task'[c] \notin worktrees' => rejected'[c]
  <2>1. ASSUME NEW id \in TaskIds, Plan(c, id), pc'[c] = "build" PROVE rejected'[c]
    BY <2>1 DEF Plan, TypeOK, Exit, Goto, Reject
  <2>2. CASE CreateWorktree(c)
    BY <2>2 DEF CreateWorktree, TypeOK, Goto
  <2>3. CASE ~CreateWorktree(c) /\ ~\E id \in TaskIds : Plan(c, id)
    BY <2>3 DEF CycleStep, Start, Raise, Build, Verify, Patch, PromotionFails, Commit, Merge,
       WriteReport, AppendBacklog, UnlinkJson, WriteJson, Die, TypeOK, Exit, Goto
  <2>4. QED
    BY <2>1, <2>2, <2>3
<1>4. Reporting(c)' /\ ~rejected'[c] => verified'[c] \subseteq active'
  <2> SUFFICES ASSUME Reporting(c)', ~rejected'[c] PROVE verified'[c] \subseteq active'
    OBVIOUS
  <2>1. CASE Merge(c)
    <3>1. verified'[c] = branch[task[c]]
      BY <2>1 DEF Merge, WorkOf
    <3>2. QED
      BY <2>1, <3>1 DEF Merge, FastForward, UpToDate
  <2>2. CASE ~Merge(c) /\ Reporting(c)
    <3>1. pc[c] \in {"report", "backlog", "unlink", "json"} \cup Ended
      BY <2>2 DEF Reporting, ReportInv, Ended
    <3>2. rejected'[c] = rejected[c] /\ verified'[c] = verified[c]
      BY <3>1 DEF Ended, CycleStep, Start, Raise, Plan, CreateWorktree, Build, Verify, Patch,
         PromotionFails, Commit, Merge, WriteReport, AppendBacklog, UnlinkJson, WriteJson, Die
    <3>3. QED
      BY <2>2, <3>2, OnlyGrow DEF ReportInv
  <2>3. CASE ~Merge(c) /\ ~Reporting(c)
    <3>1. CASE Build(c)
      BY <3>1, <2>3 DEF Build, ReportInv, Reporting, TypeOK, Goto, Reject, fileVars
    <3>2. CASE Patch(c)
      BY <3>2, <2>3 DEF Patch, Reporting, TypeOK, Goto, fileVars
    <3>3. CASE CreateWorktree(c)
      BY <3>3, <2>3 DEF CreateWorktree, Reporting, TypeOK, Goto, Reject, fileVars
    <3>4. CASE PromotionFails(c)
      BY <3>4, <2>3 DEF PromotionFails, Reporting, TypeOK, Goto, Reject, fileVars
    <3>5. CASE ~Build(c) /\ ~Patch(c) /\ ~CreateWorktree(c) /\ ~PromotionFails(c)
      BY <3>5, <2>3 DEF CycleStep, Start, Raise, Plan, Verify, Commit, WriteReport, AppendBacklog,
         UnlinkJson, WriteJson, Die, Reporting, TypeOK, Exit, Goto, fileVars
    <3>6. QED
      BY <3>1, <3>2, <3>3, <3>4, <3>5
  <2>4. QED
    BY <2>1, <2>2, <2>3
<1>5. pc'[c] \in {"unlink", "json"} => c \in backlog'
  BY OnlyGrow DEF ReportInv, CycleStep, Start, Raise, Plan, CreateWorktree, Build, Verify, Patch,
     PromotionFails, Commit, Merge, WriteReport, AppendBacklog, UnlinkJson, WriteJson, Die, TypeOK,
     Exit, Goto
<1>6. \A k \in {"md", "json"} : latest'[k] = c => pc'[c] \in {"backlog", "unlink", "json"} \cup Ended
  <2>1. CASE WriteReport(c) \/ UnlinkJson(c) \/ WriteJson(c) \/ AppendBacklog(c)
    BY <2>1 DEF WriteReport, UnlinkJson, WriteJson, AppendBacklog, TypeOK, Exit, Goto, Ended
  <2>2. CASE ~WriteReport(c) /\ ~UnlinkJson(c) /\ ~WriteJson(c) /\ ~AppendBacklog(c)
    <3>1. latest' = latest
      BY <2>2 DEF CycleStep, Start, Raise, Plan, CreateWorktree, Build, Verify, Patch,
         PromotionFails, Commit, Merge, Die, fileVars
    <3>2. pc[c] \in {"backlog", "unlink", "json"} \cup Ended
             => pc'[c] \in {"backlog", "unlink", "json"} \cup Ended
      BY <2>2 DEF CycleStep, Start, Raise, Plan, CreateWorktree, Build, Verify, Patch,
         PromotionFails, Commit, Merge, Die, TypeOK, Exit, Goto, Running, Ended
    <3>3. QED
      BY <3>1, <3>2 DEF ReportInv
  <2>3. QED
    BY <2>1, <2>2
<1>7. latest'["json"] # NoCycle => latest'["json"] \in backlog'
  <2>1. latest'["json"] \in {latest["json"], NoCycle} \/ (latest'["json"] = c /\ pc[c] = "json")
    BY DEF CycleStep, Start, Raise, Plan, CreateWorktree, Build, Verify, Patch,
       PromotionFails, Commit, Merge, WriteReport, AppendBacklog, UnlinkJson, WriteJson, Die,
       TypeOK, fileVars
  <2>2. QED
    BY <2>1, OnlyGrow DEF ReportInv
<1>8. QED
  BY <1>2, <1>3, <1>4, <1>5, <1>6, <1>7 DEF ReportInv

(* A latest report that says accepted is about work on autonomy/active,    *)
(* whoever else promotes, fails or is killed meanwhile.                    *)
THEOREM ReportsAreTrue == Spec => []LatestReportsAreTrue
<1>1. ASSUME IInv, ReportInv, [Next]_vars PROVE ReportInv'
  <2>1. CASE UNCHANGED vars
    BY <1>1, <2>1 DEF vars, cycleVars, gitVars, fileVars, ReportInv, Reporting
  <2>2. QED
    BY <1>1, <2>1, ReportInvStep DEF Next
<1>2. IInv /\ ReportInv => LatestReportsAreTrue
  BY DEF IInv, TypeOK, ReportInv, Reporting, LatestReportsAreTrue
<1>3. QED
  BY <1>1, <1>2, CreationInductive, ReportInvInit, PTL DEF Spec
=============================================================================
