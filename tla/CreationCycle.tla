--------------------------- MODULE CreationCycle ---------------------------
(***************************************************************************)
(* creation-cycle (autonomy/cycle.py, worktrees.py, store.py, the command  *)
(* in cli.py and ops/creation-cycle.sh): a model writes code on a branch   *)
(* of its own, pytest verifies the worktree, and what passes is merged     *)
(* into the branch autonomy/active, from which the next cycle starts and   *)
(* whose code it runs.                                                     *)
(*                                                                         *)
(* A commit is the set of the cycles whose work is in it: that is at once  *)
(* its tree and its history, so that one commit is an ancestor of another  *)
(* when it is a subset.  autonomy/active begins as the empty set, the      *)
(* owner's HEAD.  Files that tests leave in a worktree are part of the     *)
(* cycle's work.                                                           *)
(***************************************************************************)
EXTENDS Integers, FiniteSets, FiniteSetsExt

CONSTANTS
    Cycles,     \* runs of the command, each used once
    Scripted,   \* those that ops/creation-cycle.sh started, under its flock
    TaskIds,    \* task ids: the second and a digest of the context
    ExitCodes,  \* exit codes of a verification command; negative is a signal
    NoCycle, NoTask

ASSUME CreationAssumption ==
    /\ IsFiniteSet(Cycles) /\ Scripted \subseteq Cycles
    /\ ExitCodes \subseteq Int /\ IsFiniteSet(ExitCodes) /\ ExitCodes # {}
    /\ NoCycle \notin Cycles /\ NoTask \notin TaskIds

NoCommit == {NoCycle}   \* a branch that does not exist, a tree not verified

VARIABLES
    holder,     \* the cycle that holds the flock
    pc,         \* control point of each cycle
    task,       \* its task id
    rejected,   \* whether it has a rejected_reason_code
    verified,   \* the tree on which its verification ran
    passed,     \* history: every command of its verification exited with 0
    taskDirs,   \* task directories that exist
    branch,     \* the commit of the branch autonomy/task/<id>
    dirty,      \* uncommitted work in the task's worktree
    worktrees,  \* the tasks that have a worktree
    active,     \* the commit of autonomy/active
    promoted,   \* history: the cycles that got as far as merging their own branch
    backlog,    \* the creations recorded in backlog.jsonl
    latest      \* the cycle that wrote latest.md, and latest.json

cycleVars == <<pc, task, rejected, verified, passed>>
gitVars == <<branch, dirty, worktrees, active, promoted>>
fileVars == <<taskDirs, backlog, latest>>
vars == <<holder, cycleVars, gitVars, fileVars>>

Points ==
    {"start", "plan", "worktree", "build", "verify", "patch", "commit", "merge",
     "report", "backlog", "unlink", "json", "accepted", "rejected", "failed", "dead"}

Ended == {"accepted", "rejected", "failed", "dead"}
Running(c) == pc[c] \notin Ended \cup {"start"}

TypeOK ==
    /\ holder \in Scripted \cup {NoCycle}
    /\ pc \in [Cycles -> Points]
    /\ task \in [Cycles -> TaskIds \cup {NoTask}]
    /\ rejected \in [Cycles -> BOOLEAN]
    /\ verified \in [Cycles -> (SUBSET Cycles) \cup {NoCommit}]
    /\ passed \in [Cycles -> BOOLEAN]
    /\ taskDirs \subseteq TaskIds /\ worktrees \subseteq taskDirs
    /\ branch \in [TaskIds -> (SUBSET Cycles) \cup {NoCommit}]
    /\ dirty \in [TaskIds -> SUBSET Cycles]
    /\ active \subseteq Cycles /\ promoted \subseteq Cycles /\ backlog \subseteq Cycles
    /\ latest \in [{"md", "json"} -> Cycles \cup {NoCycle}]

Init ==
    /\ holder = NoCycle
    /\ pc = [c \in Cycles |-> "start"]
    /\ task = [c \in Cycles |-> NoTask]
    /\ rejected = [c \in Cycles |-> FALSE]
    /\ verified = [c \in Cycles |-> NoCommit]
    /\ passed = [c \in Cycles |-> FALSE]
    /\ taskDirs = {} /\ worktrees = {}
    /\ branch = [i \in TaskIds |-> NoCommit]
    /\ dirty = [i \in TaskIds |-> {}]
    /\ active = {} /\ promoted = {} /\ backlog = {}
    /\ latest = [k \in {"md", "json"} |-> NoCycle]

Goto(c, to) == pc' = [pc EXCEPT ![c] = to]
Reject(c, reason) == rejected' = [rejected EXCEPT ![c] = @ \/ reason]
Tree(id) == branch[id] \cup dirty[id]

(* The process ends; the kernel drops its flock.                           *)
Exit(c, with) ==
    /\ Goto(c, with)
    /\ holder' = IF holder = c THEN NoCycle ELSE holder

----------------------------------------------------------------------------
(* ops/creation-cycle.sh takes the flock or gives up at once; the command  *)
(* run by hand takes none.                                                 *)

Start(c) ==
    /\ pc[c] = "start"
    /\ IF c \in Scripted
       THEN IF holder = NoCycle
            THEN holder' = c /\ Goto(c, "plan")
            ELSE Goto(c, "failed") /\ UNCHANGED holder
       ELSE Goto(c, "plan") /\ UNCHANGED holder
    /\ UNCHANGED <<task, rejected, verified, passed, gitVars, fileVars>>

(* An exception that run_creation_cycle does not catch: the health check,  *)
(* the language model, an artifact or a report that cannot be written, a   *)
(* path that is no worktree.  The command prints the failure and exits 2.  *)
Raise(c) ==
    /\ pc[c] \in {"plan", "worktree", "build", "verify", "patch", "report",
                  "backlog", "unlink", "json"}
    /\ Exit(c, "failed")
    /\ UNCHANGED <<task, rejected, verified, passed, gitVars, fileVars>>

(* create_task: two cycles whose ids are equal meet at mkdir, which        *)
(* refuses the second.                                                     *)

PlanExistOk(c, id) ==   \* mutant: exist_ok=True
    /\ pc[c] = "plan"
    /\ taskDirs' = taskDirs \cup {id}
    /\ task' = [task EXCEPT ![c] = id]
    /\ Goto(c, "worktree")
    /\ UNCHANGED <<holder, rejected, verified, passed, gitVars, backlog, latest>>

Plan(c, id) ==
    /\ pc[c] = "plan"
    /\ IF id \in taskDirs
       THEN Exit(c, "failed") /\ UNCHANGED <<task, rejected, taskDirs>>
       ELSE /\ taskDirs' = taskDirs \cup {id}
            /\ task' = [task EXCEPT ![c] = id]
            /\ \E runCommands \in BOOLEAN :
                  /\ Reject(c, ~runCommands)
                  /\ Goto(c, IF runCommands THEN "worktree" ELSE "build")
            /\ UNCHANGED holder
    /\ UNCHANGED <<verified, passed, gitVars, backlog, latest>>

(* create_task_worktree: the branch, from what active is now, and its      *)
(* worktree; or git fails after either and the cycle reports that.         *)
CreateWorktree(c) ==
    LET id == task[c] IN
    /\ pc[c] = "worktree"
    /\ \/ /\ branch' = [branch EXCEPT ![id] = IF @ = NoCommit THEN active ELSE @]
          /\ worktrees' = worktrees \cup {id}
          /\ Goto(c, "build")
          /\ UNCHANGED rejected
       \/ /\ \/ UNCHANGED branch
             \/ branch' = [branch EXCEPT ![id] = IF @ = NoCommit THEN active ELSE @]
          /\ Reject(c, TRUE)
          /\ Goto(c, "report")
          /\ UNCHANGED worktrees
    /\ UNCHANGED <<holder, task, verified, passed, dirty, active, promoted, fileVars>>

(* exec_prompt: the builder may change nothing, and may change something   *)
(* and still fail or time out.                                             *)
Build(c) ==
    /\ pc[c] = "build"
    /\ \E failed \in BOOLEAN : Reject(c, failed)
    /\ IF task[c] \in worktrees
       THEN /\ \E work \in SUBSET {c} : dirty' = [dirty EXCEPT ![task[c]] = @ \cup work]
            /\ Goto(c, "verify")
       ELSE Goto(c, "report") /\ UNCHANGED dirty
    /\ UNCHANGED <<holder, task, verified, passed, branch, worktrees, active, promoted, fileVars>>

(* _run_verification: the highest of 0 and the exit codes.                 *)
HighestExitCode(codes) == Max(codes \cup {0})

Verify(c) ==
    /\ pc[c] = "verify"
    /\ verified' = [verified EXCEPT ![c] = Tree(task[c])]
    /\ \E codes \in (SUBSET ExitCodes) \ {{}} :
          /\ passed' = [passed EXCEPT ![c] = codes = {0}]
          /\ Reject(c, HighestExitCode(codes) # 0)
    /\ Goto(c, "patch")
    /\ UNCHANGED <<holder, task, gitVars, fileVars>>

(* _write_patch, then the decision whether to promote.                     *)

Patch(c) ==
    /\ pc[c] = "patch"
    /\ \E failed \in BOOLEAN : Reject(c, failed)
    /\ Goto(c, IF rejected'[c] THEN "report" ELSE "commit")
    /\ UNCHANGED <<holder, task, verified, passed, gitVars, fileVars>>

----------------------------------------------------------------------------
(* promote_task: any exception in it is the reason promotion_failed.       *)

PromotionFails(c) ==
    /\ pc[c] \in {"commit", "merge"}
    /\ Reject(c, TRUE)
    /\ Goto(c, "report")
    /\ UNCHANGED <<holder, task, verified, passed, gitVars, fileVars>>

(* git add -A, and a commit when that staged anything.                     *)
Commit(c) ==
    LET id == task[c] IN
    /\ pc[c] = "commit"
    /\ branch' = [branch EXCEPT ![id] = Tree(id)]
    /\ dirty' = [dirty EXCEPT ![id] = {}]
    /\ Goto(c, "merge")
    /\ UNCHANGED <<holder, task, rejected, verified, passed, worktrees, active, promoted,
                   fileVars>>

FastForward(c) == active \subseteq branch[task[c]]
UpToDate(c) == branch[task[c]] \subseteq active

MergeTrees(c) ==        \* mutant: git merge without --ff-only
    /\ pc[c] = "merge"
    /\ active' = active \cup branch[task[c]]
    /\ promoted' = promoted \cup {c}
    /\ Goto(c, "report")
    /\ UNCHANGED <<holder, task, rejected, verified, passed, branch, dirty, worktrees, fileVars>>

ResetActive(c) ==       \* mutant: autonomy/active is reset to the task branch
    /\ pc[c] = "merge"
    /\ active' = branch[task[c]]
    /\ promoted' = promoted \cup {c}
    /\ Goto(c, "report")
    /\ UNCHANGED <<holder, task, rejected, verified, passed, branch, dirty, worktrees, fileVars>>

MergeUnreported(c) ==   \* mutant: a merge that git refuses is not an error
    /\ pc[c] = "merge"
    /\ active' = IF FastForward(c) THEN branch[task[c]] ELSE active
    /\ promoted' = promoted \cup {c}
    /\ Goto(c, "report")
    /\ UNCHANGED <<holder, task, rejected, verified, passed, branch, dirty, worktrees, fileVars>>

(* git merge --ff-only: refused (PromotionFails) once the two diverge.     *)
Merge(c) ==
    /\ pc[c] = "merge"
    /\ FastForward(c) \/ UpToDate(c)
    /\ active' = IF FastForward(c) THEN branch[task[c]] ELSE active
    /\ promoted' = promoted \cup {c}
    /\ Goto(c, "report")
    /\ UNCHANGED <<holder, task, rejected, verified, passed, branch, dirty, worktrees, fileVars>>

----------------------------------------------------------------------------
(* write_latest_report, append_backlog, and the command's own latest.json, *)
(* which it unlinks before it writes it.                                   *)

WriteReport(c) ==
    /\ pc[c] = "report"
    /\ latest' = [latest EXCEPT !["md"] = c]
    /\ Goto(c, "backlog")
    /\ UNCHANGED <<holder, task, rejected, verified, passed, gitVars, taskDirs, backlog>>

AppendBacklog(c) ==
    /\ pc[c] = "backlog"
    /\ backlog' = backlog \cup {c}
    /\ Goto(c, "unlink")
    /\ UNCHANGED <<holder, task, rejected, verified, passed, gitVars, taskDirs, latest>>

UnlinkJson(c) ==
    /\ pc[c] = "unlink"
    /\ latest' = [latest EXCEPT !["json"] = NoCycle]
    /\ Goto(c, "json")
    /\ UNCHANGED <<holder, task, rejected, verified, passed, gitVars, taskDirs, backlog>>

WriteJson(c) ==
    /\ pc[c] = "json"
    /\ latest' = [latest EXCEPT !["json"] = c]
    /\ Exit(c, IF rejected[c] THEN "rejected" ELSE "accepted")
    /\ UNCHANGED <<task, rejected, verified, passed, gitVars, taskDirs, backlog>>

(* Killed: its task, branch and worktree stay behind.                      *)
Die(c) ==
    /\ Running(c)
    /\ Exit(c, "dead")
    /\ UNCHANGED <<task, rejected, verified, passed, gitVars, fileVars>>

CycleStep(c) ==
    \/ Start(c) \/ Raise(c)
    \/ \E id \in TaskIds : Plan(c, id)
    \/ CreateWorktree(c) \/ Build(c) \/ Verify(c) \/ Patch(c)
    \/ PromotionFails(c) \/ Commit(c) \/ Merge(c)
    \/ WriteReport(c) \/ AppendBacklog(c) \/ UnlinkJson(c) \/ WriteJson(c)
    \/ Die(c)

Next == \E c \in Cycles : CycleStep(c)

Spec == Init /\ [][Next]_vars

----------------------------------------------------------------------------
(* Properties                                                              *)

(* What autonomy/active points at is always, as a whole, a tree on which   *)
(* some cycle ran its verification: cycles that overlap never combine into *)
(* code that nobody tested (merge --ff-only in promote_task).              *)
ActiveTipVerified == active # {} => \E c \in active : verified[c] = active

(* Work is on autonomy/active only when the cycle that made it merged it   *)
(* itself and reported no reason code.  What a cycle left that was         *)
(* rejected, failed or was killed before its merge, no other cycle brings  *)
(* there (create_task, and the branches of create_task_worktree).          *)
OnlyPromotedOnActive == \A c \in active : c \in promoted /\ ~rejected[c]

(* No cycle undoes the promotion of another.                               *)
ActiveOnlyGrows == [][active \subseteq active']_active

(* A latest report that says accepted is about work that is on             *)
(* autonomy/active, and the creation of a latest.json is in the backlog.   *)
LatestReportsAreTrue ==
    /\ \A k \in {"md", "json"} :
          latest[k] # NoCycle /\ ~rejected[latest[k]] => verified[latest[k]] \subseteq active
    /\ latest["json"] # NoCycle => latest["json"] \in backlog

(* docs/roadmap.md: the cycle "promotes passing task worktrees".           *)
OnlyPassingPromoted == \A c \in active : passed[c]
=============================================================================
