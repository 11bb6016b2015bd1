---------------------------- MODULE ResearchGraph ----------------------------
(***************************************************************************)
(* The research graphs (orchestrator.py) run by processes that keep their  *)
(* checkpoints in one file (checkpointing.py), with the pause for a human. *)
(*                                                                         *)
(* A process loads the whole file when it creates its saver and rewrites   *)
(* it whole after every put; each put changes its own copy first.  The     *)
(* library runs a node, hands its writes and then the next checkpoint to a *)
(* background thread that puts them, and goes on to the next node; it      *)
(* waits for the puts when the invocation ends, pauses or raises, and a    *)
(* kill loses those that wait.  A resume applies the writes it finds and   *)
(* does not run that node again.  Covered: crashes at any step, dumps that *)
(* fail, processes that overlap, nodes that raise.  A rename is atomic; a  *)
(* torn file is not modelled, since the dump goes to a temporary file of a *)
(* fresh name.                                                             *)
(***************************************************************************)
EXTENDS Integers, Sequences, SequencesExt, FiniteSets

CONSTANTS
    Procs, Threads,
    Deployments,    \* which graph's invocations use each thread
    Inputs,         \* initial states that callers give
    MaxRuns,        \* bound: invocations with an input, per thread
    MaxCalls,       \* bound: invocations, with an input or without
    MaxStarts,      \* bound: processes started
    MaxFaults,      \* bound: dumps that fail
    MaxAnswers,     \* bound: answers asked of the language model
    MaxAhead,       \* bound: puts that wait when a node of a graph starts
    NoThread, NoCheckpoint, NoValues

Graphs == {"main", "llm", "planner"}

ASSUME GraphAssumption ==
    /\ Deployments \subseteq [Threads -> Graphs]
    /\ Inputs \subseteq [needs : BOOLEAN, reject : BOOLEAN, revise : BOOLEAN] /\ Inputs # {}
    /\ NoThread \notin Threads

----------------------------------------------------------------------------
(* The graphs: nodes, what each does to the state, and the edges.          *)

MainNodes ==
    {"scan_market", "detect_anomaly", "generate_hypothesis", "score_feasibility",
     "code_strategy", "backtest", "critique", "update_memory", "risk_guard",
     "human_checkpoint", "proposal_finalize"}

LLMNodes ==
    {"llm_research", "create_validation_request", "llm_critique",
     "update_llm_memory", "llm_human_checkpoint"}

Nodes == MainNodes \cup LLMNodes \cup {"experiment_planner"}

EntryNode(g) ==
    CASE g = "main" -> "scan_market"
      [] g = "llm" -> "llm_research"
      [] g = "planner" -> "experiment_planner"

AsksModel(n) == n \in {"llm_research", "experiment_planner"}

(* Nodes that decide something; the others leave placeholders.             *)
RejectUncounted(v) == [v EXCEPT !.verdict = IF v.input.reject THEN "rejected" ELSE "accepted"]
                                \* mutant: the rejection is not counted

ScoreFeasibility(v) ==
    IF v.input.reject /\ v.rejections = 0
    THEN [v EXCEPT !.verdict = "rejected", !.rejections = @ + 1]
    ELSE [v EXCEPT !.verdict = "accepted"]

Critique(v) ==
    IF v.input.revise /\ v.revisions = 0
    THEN [v EXCEPT !.verdict = "revise", !.revisions = @ + 1]
    ELSE [v EXCEPT !.verdict = "approved"]

HumanCheckpoint(v) == [v EXCEPT !.required = v.input.needs /\ ~v.approved]

(* What a node leaves in the state; a is the proposal that the language    *)
(* model's answer holds, if any, and whether the guard accepted it.        *)
Effect(n, v, a) ==
    LET w == [v EXCEPT !.trace = Append(@, n)]
    IN CASE n = "score_feasibility" -> ScoreFeasibility(w)
         [] n = "critique" -> Critique(w)
         [] n = "human_checkpoint" -> HumanCheckpoint(w)
         [] n = "proposal_finalize" -> [w EXCEPT !.final = TRUE]
         [] AsksModel(n) -> [w EXCEPT !.answer = a.id, !.accepted = a.accepted]
         [] n = "llm_human_checkpoint" -> [w EXCEPT !.required = w.input.needs]
         [] OTHER -> w

(* Edges and routing functions: the node after n, given what n left.       *)
Edges ==
    {<<"scan_market", "detect_anomaly">>, <<"detect_anomaly", "generate_hypothesis">>,
     <<"generate_hypothesis", "score_feasibility">>, <<"code_strategy", "backtest">>,
     <<"backtest", "critique">>, <<"update_memory", "risk_guard">>,
     <<"risk_guard", "human_checkpoint">>, <<"create_validation_request", "llm_critique">>,
     <<"llm_critique", "update_llm_memory">>}

RouteFeasibility(v) == IF v.verdict = "rejected" THEN "generate_hypothesis" ELSE "code_strategy"
RouteCritique(v) == IF v.verdict = "revise" THEN "code_strategy" ELSE "update_memory"
RouteHumanCheckpoint(v) == IF v.required THEN "end" ELSE "proposal_finalize"
RouteAfterResearch(v) ==
    IF v.accepted THEN "create_validation_request" ELSE "update_llm_memory"
RouteAfterMemory(v) ==
    IF v.input.needs /\ v.accepted THEN "llm_human_checkpoint" ELSE "end"

NextNode(n, v) ==
    CASE n = "score_feasibility" -> RouteFeasibility(v)
      [] n = "critique" -> RouteCritique(v)
      [] n = "human_checkpoint" -> RouteHumanCheckpoint(v)
      [] n = "llm_research" -> RouteAfterResearch(v)
      [] n = "update_llm_memory" -> RouteAfterMemory(v)
      [] \E e \in Edges : e[1] = n -> (CHOOSE e \in Edges : e[1] = n)[2]
      [] OTHER -> "end"

----------------------------------------------------------------------------
(* The state that the nodes read and write, and a thread's checkpoint: the *)
(* node it stands before and, while that node's writes are not yet applied *)
(* to the values, those.                                                   *)
GraphState ==
    [input : Inputs, approved : BOOLEAN, rejections : 0 .. 1, revisions : 0 .. 1,
     verdict : {"none", "rejected", "accepted", "revise", "approved"}, required : BOOLEAN,
     final : BOOLEAN, answer : Nat, accepted : BOOLEAN, trace : Seq(Nodes)]

Checkpoints ==
    [run : Nat, next : Nodes \cup {"end"}, values : GraphState,
     writes : GraphState \cup {NoValues}]

ASSUME CheckpointAssumption == NoCheckpoint \notin Checkpoints /\ NoValues \notin GraphState

VARIABLES
    graphOf,    \* the deployment
    disk,       \* the checkpoint file: the latest checkpoint of each thread
    mem,        \* what each process's saver holds
    up,         \* processes with a saver
    stops,      \* those whose graph was built with interrupt_before
    at,         \* the thread a process is invoking
    live,       \* the checkpoint that invocation has reached, until it leaves
    queue,      \* its checkpoints that are still to be put
    resumed,    \* whether that invocation has just resumed
    memory,     \* records that update_llm_memory wrote to the memory file
    runs,       \* history: invocations with an input, of each thread
    approvals,  \* history: the runs of a thread that a human approved
    starts, calls, faults, answers,     \* counters for the bounds
    overlapped  \* history: two processes were up at once

fileVars == <<graphOf, disk, memory>>
procVars == <<mem, up, stops, at, live, queue, resumed>>
historyVars == <<runs, approvals, starts, calls, faults, answers, overlapped>>
vars == <<fileVars, procVars, historyVars>>

Empty == [t \in Threads |-> NoCheckpoint]

Init ==
    /\ graphOf \in Deployments
    /\ disk = Empty /\ mem = [p \in Procs |-> Empty]
    /\ up = {} /\ stops = {} /\ at = [p \in Procs |-> NoThread]
    /\ live = [p \in Procs |-> NoCheckpoint] /\ queue = [p \in Procs |-> <<>>]
    /\ resumed = [p \in Procs |-> FALSE]
    /\ memory = {} /\ runs = [t \in Threads |-> 0] /\ approvals = {}
    /\ starts = 0 /\ calls = 0 /\ faults = 0 /\ answers = 0 /\ overlapped = FALSE

----------------------------------------------------------------------------
(* The saver.                                                              *)

StartEmpty(p) ==                \* mutant: a new process does not load the file
    /\ mem' = [mem EXCEPT ![p] = Empty]

Load(p) ==
    /\ mem' = [mem EXCEPT ![p] = disk]

(* create_checkpointer(path) and the graph built on it.                    *)
Start(p) ==
    /\ p \notin up /\ starts < MaxStarts
    /\ Load(p)
    /\ up' = up \cup {p}
    /\ \/ stops' = stops
       \/ (\E t \in Threads : graphOf[t] = "main") /\ stops' = stops \cup {p}
    /\ starts' = starts + 1
    /\ overlapped' = (overlapped \/ up # {})
    /\ UNCHANGED <<fileVars, at, live, queue, resumed, runs, approvals, calls, faults, answers>>

Leave(p) == live' = [live EXCEPT ![p] = NoCheckpoint]

Crash(p) ==
    /\ p \in up
    /\ up' = up \ {p} /\ stops' = stops \ {p}
    /\ mem' = [mem EXCEPT ![p] = Empty]
    /\ at' = [at EXCEPT ![p] = NoThread]
    /\ Leave(p) /\ queue' = [queue EXCEPT ![p] = <<>>]
    /\ resumed' = [resumed EXCEPT ![p] = FALSE]
    /\ UNCHANGED <<fileVars, historyVars>>

(* put and put_writes: the copy in memory first, then the dump of all of   *)
(* it, which may fail.                                                     *)
Put(p, t, c) ==
    /\ mem' = [mem EXCEPT ![p][t] = c]
    /\ \/ disk' = mem'[p] /\ UNCHANGED faults
       \/ faults < MaxFaults /\ faults' = faults + 1 /\ disk' = disk

(* The background thread.  Only put waits for the put before it; a         *)
(* put_writes that comes early or late shows when its neighbour is put.    *)
(* What a put raised is raised when the invocation ends, and the puts      *)
(* after it are still done.                                                *)
PutNext(p) ==
    /\ queue[p] # <<>>
    /\ Put(p, at[p], Head(queue[p]))
    /\ queue' = [queue EXCEPT ![p] = Tail(@)]
    /\ UNCHANGED <<graphOf, memory, up, stops, at, live, resumed, runs, approvals, starts, calls,
                   answers, overlapped>>

(* The invocation has left its loop; it returns or raises after the puts.  *)
Return(p) ==
    /\ at[p] # NoThread /\ live[p] = NoCheckpoint /\ queue[p] = <<>>
    /\ at' = [at EXCEPT ![p] = NoThread]
    /\ resumed' = [resumed EXCEPT ![p] = FALSE]
    /\ UNCHANGED <<fileVars, mem, up, stops, live, queue, historyVars>>

Idle(p) == p \in up /\ at[p] = NoThread

----------------------------------------------------------------------------
(* Invocations.                                                            *)

FirstValues(in) ==
    [input |-> in, approved |-> FALSE, rejections |-> 0, revisions |-> 0, verdict |-> "none",
     required |-> FALSE, final |-> FALSE, answer |-> 0, accepted |-> FALSE, trace |-> <<>>]

(* The planner reads none of the flags.                                    *)
InputsOf(g) == IF g = "planner" THEN {CHOOSE in \in Inputs : TRUE} ELSE Inputs

FirstMerged(t, run, in) ==      \* mutant: the input leaves an earlier approval as it is
    [run |-> run, next |-> EntryNode(graphOf[t]), writes |-> NoValues,
     values |-> [FirstValues(in) EXCEPT !.approved =
                    disk[t] # NoCheckpoint /\ disk[t].values.approved]]

First(t, run, in) ==
    [run |-> run, next |-> EntryNode(graphOf[t]), values |-> FirstValues(in), writes |-> NoValues]

(* The loop hands checkpoints to the background thread and goes on from    *)
(* the last, c.                                                            *)
Reach(p, before, c) ==
    /\ live' = [live EXCEPT ![p] = IF c.next = "end" THEN NoCheckpoint ELSE c]
    /\ queue' = [queue EXCEPT ![p] = @ \o Append(before, c)]

(* invoke(input): a new run of the thread, whatever the old one had left.  *)
Invoke(p, t, in) ==
    /\ Idle(p) /\ runs[t] < MaxRuns /\ calls < MaxCalls
    /\ calls' = calls + 1
    /\ runs' = [runs EXCEPT ![t] = @ + 1]
    /\ Reach(p, <<>>, First(t, runs[t] + 1, in))
    /\ at' = [at EXCEPT ![p] = t]
    /\ UNCHANGED <<fileVars, mem, up, stops, resumed, approvals, starts, faults, answers, overlapped>>

(* invoke(None) on a thread that is not at its end.                        *)
Resume(p, t) ==
    /\ Idle(p) /\ mem[p][t] # NoCheckpoint /\ mem[p][t].next # "end"
    /\ calls < MaxCalls /\ calls' = calls + 1
    /\ at' = [at EXCEPT ![p] = t]
    /\ live' = [live EXCEPT ![p] = mem[p][t]]
    /\ resumed' = [resumed EXCEPT ![p] = TRUE]
    /\ UNCHANGED <<fileVars, mem, up, stops, queue, runs, approvals, starts, faults, answers,
                   overlapped>>

(* The loop is about to run the next node of its checkpoint.               *)
AtNode(p) == live[p] # NoCheckpoint /\ live[p].writes = NoValues

Paused(p) ==
    /\ live[p].next = "human_checkpoint"
    /\ p \in stops /\ ~resumed[p]

Pause(p) ==
    /\ AtNode(p) /\ Paused(p)
    /\ Leave(p)
    /\ UNCHANGED <<fileVars, mem, up, stops, at, queue, resumed, historyVars>>

RememberOnce(t, c) ==           \* mutant: a run that has a record writes no other
    IF c.next = "update_llm_memory" /\ ~\E m \in memory : m.thread = t /\ m.run = c.run
    THEN memory \cup {[thread |-> t, run |-> c.run, id |-> c.values.answer]}
    ELSE memory

(* update_llm_memory: record id llm:<proposal>, or one id for the run when *)
(* the answer held no valid proposal (answer 0).                           *)
Remember(t, c) ==
    IF c.next = "update_llm_memory"
    THEN memory \cup {[thread |-> t, run |-> c.run, id |-> c.values.answer]}
    ELSE memory

(* The writes become the next checkpoint.                                  *)
NextCheckpoint(c) ==
    [run |-> c.run, next |-> NextNode(c.next, c.writes), values |-> c.writes, writes |-> NoValues]

(* The checkpoint with the writes that its node leaves; a is the answer.   *)
WithWrites(c, a) == [c EXCEPT !.writes = Effect(c.next, c.values, a)]

(* A node runs; its writes and the next checkpoint are handed over.        *)
RunNode(p) ==
    LET c == live[p]
    IN /\ AtNode(p) /\ ~Paused(p) /\ Len(queue[p]) <= MaxAhead[graphOf[at[p]]]
       /\ \E valid, ok \in BOOLEAN :
             /\ AsksModel(c.next) => answers < MaxAnswers
             /\ ok => valid
             /\ ~AsksModel(c.next) => ok
             /\ answers' = IF AsksModel(c.next) THEN answers + 1 ELSE answers
             /\ LET w == WithWrites(c, [id |-> IF valid THEN answers' ELSE 0, accepted |-> ok])
                IN Reach(p, <<w>>, NextCheckpoint(w))
       /\ memory' = Remember(at[p], c)
       /\ resumed' = [resumed EXCEPT ![p] = FALSE]
       /\ UNCHANGED <<graphOf, disk, mem, up, stops, at, runs, approvals, starts, calls, faults,
                      overlapped>>

(* The provider, the memory file or a guard raises inside a node.          *)
NodeRaises(p) ==
    /\ AtNode(p)
    /\ AsksModel(live[p].next) \/ live[p].next = "update_llm_memory"
    /\ Leave(p)
    /\ UNCHANGED <<fileVars, mem, up, stops, at, queue, resumed, historyVars>>

(* A resume applies the writes that it found.                              *)
Commit(p) ==
    /\ live[p] # NoCheckpoint /\ live[p].writes # NoValues
    /\ Reach(p, <<>>, NextCheckpoint(live[p]))
    /\ resumed' = [resumed EXCEPT ![p] = FALSE]
    /\ UNCHANGED <<fileVars, mem, up, stops, at, historyVars>>

(* update_state(config, values with human_approved) at the pause: it puts  *)
(* before it returns.                                                      *)
Approve(p, t) ==
    LET c == mem[p][t]
    IN /\ Idle(p) /\ c # NoCheckpoint /\ c.next = "human_checkpoint"
       /\ c.writes = NoValues /\ ~c.values.approved
       /\ Put(p, t, [c EXCEPT !.values.approved = TRUE])
       /\ approvals' = approvals \cup {<<t, c.run>>}
       /\ UNCHANGED <<graphOf, memory, up, stops, at, live, queue, resumed, runs, starts, calls,
                      answers, overlapped>>

Work(p) == Pause(p) \/ RunNode(p) \/ Commit(p) \/ NodeRaises(p) \/ PutNext(p) \/ Return(p)

Next ==
    \E p \in Procs :
        \/ Start(p) \/ Crash(p) \/ Work(p)
        \/ \E t \in Threads :
              Resume(p, t) \/ Approve(p, t) \/ \E in \in InputsOf(graphOf[t]) : Invoke(p, t, in)

Spec == Init /\ [][Next]_vars

----------------------------------------------------------------------------
(* The checkpoints of a thread: in the file, in a process, reached by a    *)
(* loop, or waiting to be put.                                             *)
CheckpointsOf(t) ==
    {disk[t]} \cup {mem[p][t] : p \in Procs} \cup {live[p] : p \in {q \in Procs : at[q] = t}}
        \cup UNION {ToSet(queue[p]) : p \in {q \in Procs : at[q] = t}}

After(n) ==
    CASE n = "score_feasibility" -> {"generate_hypothesis", "code_strategy"}
      [] n = "critique" -> {"code_strategy", "update_memory"}
      [] n = "human_checkpoint" -> {"proposal_finalize", "end"}
      [] n = "llm_research" -> {"create_validation_request", "update_llm_memory"}
      [] n = "update_llm_memory" -> {"llm_human_checkpoint", "end"}
      [] OTHER -> {NextNode(n, NoValues)}

(* What a checkpoint says was run is a path through its graph from the     *)
(* entry to the node it stands before, with no loop taken twice: crashes,  *)
(* resumes, failed dumps and other processes make no node run again or be  *)
(* left out.                                                               *)
TraceIsPath ==
    \A t \in Threads : \A c \in CheckpointsOf(t) \ {NoCheckpoint} :
        LET path == Append(c.values.trace, c.next)
        IN /\ path[1] = EntryNode(graphOf[t])
           /\ \A i \in 1 .. Len(path) - 1 : path[i + 1] \in After(path[i])
           /\ \A n \in ToSet(c.values.trace) : Cardinality({i \in DOMAIN path : path[i] = n}) <=
                IF n \in {"code_strategy", "backtest", "critique", "generate_hypothesis",
                          "score_feasibility"} THEN 2 ELSE 1

(* A proposal that needs a human is finalised only in a run that a human   *)
(* approved: the approval of an earlier run of the thread does not count.  *)
FinalizedWasApproved ==
    \A t \in Threads : \A c \in CheckpointsOf(t) \ {NoCheckpoint} :
        c.values.final /\ c.values.input.needs => <<t, c.run>> \in approvals

(* With one process at a time, the file only moves forward: a crash, a     *)
(* failed dump or a restart never takes a thread back to an earlier node   *)
(* or loses it ("durable workflow checkpoints").                           *)
ProgressIsDurable ==
    [][\A t \in Threads :
          ~overlapped' /\ disk[t] # NoCheckpoint =>
              /\ disk'[t] # NoCheckpoint
              /\ \/ disk'[t].run > disk[t].run
                 \/ /\ disk'[t].run = disk[t].run
                    /\ IsPrefix(disk[t].values.trace, disk'[t].values.trace)]_vars

(* A checkpoint that is past update_llm_memory, in the file, in a process  *)
(* or on its way, was made after the record of the answer it holds was     *)
(* written: also where a kill lost an answer whose record was written, and *)
(* the run asked again.                                                    *)
AnswerWasRecorded ==
    \A t \in Threads : \A c \in CheckpointsOf(t) \ {NoCheckpoint} :
        Contains(c.values.trace, "update_llm_memory")
            => [thread |-> t, run |-> c.run, id |-> c.values.answer] \in memory
=============================================================================
