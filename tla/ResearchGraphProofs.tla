------------------------ MODULE ResearchGraphProofs ------------------------
(***************************************************************************)
(* What is proved of the research graphs, for any number of processes on   *)
(* one checkpoint file, of threads and of runs, and whatever crashes,      *)
(* failed dumps and overwritten checkpoints there are.                     *)
(*                                                                         *)
(* A copy of a checkpoint, in a file or in a process, may be as old as it  *)
(* likes.  So what holds while processes overlap, that a final proposal    *)
(* was approved, that a trace is a path and that the answer's record was   *)
(* written, follows from invariants about each checkpoint, wherever it is, *)
(* and from the ways a step makes one of another.  What holds of one       *)
(* process at a time relates its copies to the file.                       *)
(***************************************************************************)
EXTENDS ResearchGraph, SequenceTheorems, FiniteSetTheorems, TLAPS

Fields == DOMAIN FirstValues("none")

Answers == [id : Nat, accepted : BOOLEAN]

(* The flag of the values is there only where a human approved the run,    *)
(* and a final proposal has it when it needs one.                          *)
ValuesSafe(approved, t, run, v) ==
    /\ DOMAIN v = Fields
    /\ v.approved => <<t, run>> \in approved
    /\ v.final /\ v.input.needs => v.approved

(* A checkpoint before the last node has passed the human checkpoint, and  *)
(* the writes of that node ask for a human where one is needed.            *)
CheckpointSafe(approved, t, c) ==
    /\ DOMAIN c = {"run", "next", "values", "writes"}
    /\ ValuesSafe(approved, t, c.run, c.values)
    /\ c.next = "proposal_finalize" /\ c.values.input.needs => c.values.approved
    /\ c.writes # NoValues =>
          /\ ValuesSafe(approved, t, c.run, c.writes)
          /\ c.next = "human_checkpoint" /\ c.writes.input.needs /\ ~c.writes.approved
                => c.writes.required

----------------------------------------------------------------------------
----------------------------------------------------------------------------
(* Nodes and edges.                                                        *)

LEMMA FieldsOfFirst == \A in : DOMAIN FirstValues(in) = Fields
  BY DEF Fields, FirstValues

LEMMA FieldsNamed ==
    {"input", "approved", "rejections", "revisions", "verdict", "required", "final",
     "answer", "accepted", "trace"} = Fields
  BY DEF Fields, FirstValues

(* No node changes the input or the flag, one only makes a proposal final, *)
(* and the human checkpoint asks for a human where one is needed.          *)
LEMMA EffectKeeps ==
    ASSUME NEW n, NEW v, NEW a, DOMAIN v = Fields
    PROVE  LET w == Effect(n, v, a)
           IN /\ DOMAIN w = Fields
              /\ w.input = v.input
              /\ w.approved = v.approved
              /\ n # "proposal_finalize" => w.final = v.final
              /\ n = "human_checkpoint" /\ w.input.needs /\ ~w.approved => w.required
<1> DEFINE u == [v EXCEPT !.trace = Append(@, n)]
           scored == ScoreFeasibility(u)
           criticised == Critique(u)
           checked == HumanCheckpoint(u)
           finalised == [u EXCEPT !.final = TRUE]
           answered == [u EXCEPT !.answer = a.id, !.accepted = a.accepted]
           asked == [u EXCEPT !.required = u.input.needs]
           same(w) == w.input = v.input /\ w.approved = v.approved /\ DOMAIN w = Fields
<1>1. same(u) /\ u.final = v.final
  BY FieldsNamed
<1>2. same(scored) /\ scored.final = v.final
  BY <1>1, FieldsNamed DEF ScoreFeasibility
<1>3. same(criticised) /\ criticised.final = v.final
  BY <1>1, FieldsNamed DEF Critique
<1>4. /\ same(checked) /\ checked.final = v.final
      /\ checked.input.needs /\ ~checked.approved => checked.required
  BY <1>1, FieldsNamed DEF HumanCheckpoint
<1>5. same(finalised)
  BY <1>1, FieldsNamed
<1>6. same(answered) /\ answered.final = v.final
  BY <1>1, FieldsNamed
<1>7. same(asked) /\ asked.final = v.final
  BY <1>1, FieldsNamed
<1>8. Effect(n, v, a) =
        CASE n = "score_feasibility" -> scored
          [] n = "critique" -> criticised
          [] n = "human_checkpoint" -> checked
          [] n = "proposal_finalize" -> finalised
          [] AsksModel(n) -> answered
          [] n = "llm_human_checkpoint" -> asked
          [] OTHER -> u
  BY DEF Effect
<1> HIDE DEF u, scored, criticised, checked, finalised, answered, asked
<1>9. \/ n # "human_checkpoint" /\ Effect(n, v, a) \in {scored, criticised, answered, asked, u}
      \/ n = "human_checkpoint" /\ Effect(n, v, a) = checked
      \/ n = "proposal_finalize" /\ Effect(n, v, a) = finalised
  BY <1>8 DEF AsksModel
<1>10. QED
  BY <1>1, <1>2, <1>3, <1>4, <1>5, <1>6, <1>7, <1>9

(* Only the human checkpoint leads to the last node of the main graph.     *)
LEMMA OnlyFromCheckpoint ==
    ASSUME NEW n, NEW v, NextNode(n, v) = "proposal_finalize"
    PROVE  n = "human_checkpoint" /\ ~v.required
<1> DEFINE others == {"generate_hypothesis", "code_strategy", "update_memory",
                      "create_validation_request", "update_llm_memory",
                      "llm_human_checkpoint", "end"}
           feasible == RouteFeasibility(v)
           critiqued == RouteCritique(v)
           checked == RouteHumanCheckpoint(v)
           researched == RouteAfterResearch(v)
           remembered == RouteAfterMemory(v)
           edge == (CHOOSE e \in Edges : e[1] = n)[2]
<1>1. {feasible, critiqued, researched, remembered} \subseteq others
  BY DEF RouteFeasibility, RouteCritique, RouteAfterResearch, RouteAfterMemory
<1>2. (\E e \in Edges : e[1] = n) => edge # "proposal_finalize"
  <2> SUFFICES ASSUME \E e \in Edges : e[1] = n PROVE edge # "proposal_finalize"
    OBVIOUS
  <2>1. (CHOOSE e \in Edges : e[1] = n) \in Edges
    OBVIOUS
  <2>2. \A e \in Edges : e[2] # "proposal_finalize"
    BY DEF Edges
  <2>3. QED
    BY <2>1, <2>2
<1>3. NextNode(n, v) =
        CASE n = "score_feasibility" -> feasible
          [] n = "critique" -> critiqued
          [] n = "human_checkpoint" -> checked
          [] n = "llm_research" -> researched
          [] n = "update_llm_memory" -> remembered
          [] \E e \in Edges : e[1] = n -> edge
          [] OTHER -> "end"
  BY DEF NextNode
<1>4. checked = "proposal_finalize" => ~v.required
  BY DEF RouteHumanCheckpoint
<1> HIDE DEF feasible, critiqued, checked, researched, remembered, edge
<1>5. \/ n = "human_checkpoint" /\ NextNode(n, v) = checked
      \/ NextNode(n, v) \in {feasible, critiqued, researched, remembered, "end"}
      \/ (\E e \in Edges : e[1] = n) /\ NextNode(n, v) = edge
  BY <1>3
<1>6. QED
  BY <1>1, <1>2, <1>4, <1>5

(* No edge leads to a node that asks the model: those are entries only.    *)
LEMMA NeverAskedAgain ==
    ASSUME NEW n, NEW v
    PROVE  ~AsksModel(NextNode(n, v))
<1> DEFINE others == {"generate_hypothesis", "code_strategy", "update_memory", "proposal_finalize",
                      "create_validation_request", "update_llm_memory",
                      "llm_human_checkpoint", "end"}
           feasible == RouteFeasibility(v)
           critiqued == RouteCritique(v)
           checked == RouteHumanCheckpoint(v)
           researched == RouteAfterResearch(v)
           remembered == RouteAfterMemory(v)
           edge == (CHOOSE e \in Edges : e[1] = n)[2]
<1>1. {feasible, critiqued, checked, researched, remembered} \subseteq others
  BY DEF RouteFeasibility, RouteCritique, RouteHumanCheckpoint, RouteAfterResearch, RouteAfterMemory
<1>2. ASSUME \E e \in Edges : e[1] = n PROVE ~AsksModel(edge)
  <2>1. (CHOOSE e \in Edges : e[1] = n) \in Edges
    BY <1>2
  <2>2. \A e \in Edges : ~AsksModel(e[2])
    BY DEF Edges, AsksModel
  <2>3. QED
    BY <2>1, <2>2
<1>3. NextNode(n, v) =
        CASE n = "score_feasibility" -> feasible
          [] n = "critique" -> critiqued
          [] n = "human_checkpoint" -> checked
          [] n = "llm_research" -> researched
          [] n = "update_llm_memory" -> remembered
          [] \E e \in Edges : e[1] = n -> edge
          [] OTHER -> "end"
  BY DEF NextNode
<1>4. \A m \in others : ~AsksModel(m)
  BY DEF AsksModel
<1> HIDE DEF feasible, critiqued, checked, researched, remembered, edge
<1>5. \/ NextNode(n, v) \in {feasible, critiqued, checked, researched, remembered, "end"}
      \/ (\E e \in Edges : e[1] = n) /\ NextNode(n, v) = edge
  BY <1>3
<1>6. QED
  BY <1>1, <1>2, <1>4, <1>5

----------------------------------------------------------------------------
(* Safe checkpoints.                                                       *)

(* What is safe stays safe when more runs are approved.                    *)
LEMMA MoreApprovals ==
    ASSUME NEW A, NEW B, A \subseteq B, NEW t, NEW c, CheckpointSafe(A, t, c)
    PROVE  CheckpointSafe(B, t, c)
  BY DEF CheckpointSafe, ValuesSafe

LEMMA FirstIsSafe ==
    ASSUME NEW A, NEW t, NEW run, NEW g \in Graphs, NEW in
    PROVE  CheckpointSafe(A, t, [run |-> run, next |-> EntryNode(g),
                                 values |-> FirstValues(in), writes |-> NoValues])
<1>1. EntryNode(g) # "proposal_finalize"
  BY DEF EntryNode, Graphs
<1>2. ValuesSafe(A, t, run, FirstValues(in))
  <2>1. ~FirstValues(in).approved /\ ~FirstValues(in).final
    BY DEF FirstValues
  <2>2. QED
    BY <2>1, FieldsOfFirst DEF ValuesSafe
<1>3. QED
  BY <1>1, <1>2 DEF CheckpointSafe

LEMMA WritesAreSafe ==
    ASSUME NEW A, NEW t, NEW c, NEW a, CheckpointSafe(A, t, c)
    PROVE  CheckpointSafe(A, t, WithWrites(c, a))
<1> DEFINE w == Effect(c.next, c.values, a)
           v == c.values
           d == [c EXCEPT !.writes = w]
<1> SUFFICES CheckpointSafe(A, t, d)
  BY DEF WithWrites
<1>1. /\ DOMAIN d = {"run", "next", "values", "writes"}
      /\ d.run = c.run /\ d.next = c.next /\ d.values = v /\ d.writes = w
  BY DEF CheckpointSafe
<1>2. DOMAIN v = Fields
  BY DEF CheckpointSafe, ValuesSafe
<1>3. /\ DOMAIN w = Fields /\ w.input = v.input /\ w.approved = v.approved
      /\ c.next # "proposal_finalize" => w.final = v.final
      /\ c.next = "human_checkpoint" /\ w.input.needs /\ ~w.approved => w.required
  BY <1>2, EffectKeeps
<1>4. ValuesSafe(A, t, c.run, w)
  BY <1>3 DEF CheckpointSafe, ValuesSafe
<1> HIDE DEF w, d
<1>5. QED
  BY <1>1, <1>3, <1>4 DEF CheckpointSafe, ValuesSafe

LEMMA NextIsSafe ==
    ASSUME NEW A, NEW t, NEW c, CheckpointSafe(A, t, c), c.writes # NoValues
    PROVE  CheckpointSafe(A, t, NextCheckpoint(c))
<1> DEFINE next == NextNode(c.next, c.writes)
           d == NextCheckpoint(c)
<1>1. next = "proposal_finalize" => c.next = "human_checkpoint" /\ ~c.writes.required
  BY OnlyFromCheckpoint
<1>2. /\ DOMAIN d = {"run", "next", "values", "writes"}
      /\ d.run = c.run /\ d.next = next /\ d.values = c.writes /\ d.writes = NoValues
  BY DEF NextCheckpoint
<1> HIDE DEF d, next
<1>3. QED
  BY <1>1, <1>2 DEF CheckpointSafe, d

LEMMA ApprovedIsSafe ==
    ASSUME NEW A, NEW t, NEW c, CheckpointSafe(A, t, c), c.next = "human_checkpoint",
           c.writes = NoValues, <<t, c.run>> \in A
    PROVE  CheckpointSafe(A, t, [c EXCEPT !.values.approved = TRUE])
<1> DEFINE v == c.values
           d == [c EXCEPT !.values.approved = TRUE]
<1>1. /\ DOMAIN d = {"run", "next", "values", "writes"}
      /\ d.run = c.run /\ d.next = c.next /\ d.writes = c.writes
      /\ d.values = [v EXCEPT !.approved = TRUE]
  BY DEF CheckpointSafe
<1>2. DOMAIN v = Fields
  BY DEF CheckpointSafe, ValuesSafe
<1>3. DOMAIN d.values = Fields /\ d.values.approved
  BY <1>1, <1>2, FieldsNamed
<1> HIDE DEF d, v
<1>4. QED
  BY <1>1, <1>3 DEF CheckpointSafe, ValuesSafe, d

----------------------------------------------------------------------------
(* The path that a checkpoint has taken.                                   *)

(* A numbering that grows along the edges, but for the two loops.          *)
Place(n) ==
    CASE n = "scan_market" -> 1
      [] n = "detect_anomaly" -> 2
      [] n = "generate_hypothesis" -> 3
      [] n = "score_feasibility" -> 4
      [] n = "code_strategy" -> 5
      [] n = "backtest" -> 6
      [] n = "critique" -> 7
      [] n = "update_memory" -> 8
      [] n = "risk_guard" -> 9
      [] n = "human_checkpoint" -> 10
      [] n = "proposal_finalize" -> 11
      [] n = "llm_research" -> 12
      [] n = "create_validation_request" -> 13
      [] n = "llm_critique" -> 14
      [] n = "update_llm_memory" -> 15
      [] n = "llm_human_checkpoint" -> 16
      [] n = "experiment_planner" -> 17
      [] OTHER -> 18

(* How often the loop that n is in has been taken.                         *)
Loops(n, v) ==
    IF n \in {"generate_hypothesis", "score_feasibility"} THEN v.rejections
    ELSE IF n \in {"code_strategy", "backtest", "critique"} THEN v.revisions ELSE 0

Visits(path, n) == Cardinality({i \in DOMAIN path : path[i] = n})

PathOf(v, next) == Append(v.trace, next)

IsPath(g, path) ==
    /\ path[1] = EntryNode(g)
    /\ \A i \in 1 .. Len(path) - 1 : path[i + 1] \in After(path[i])

(* A node has been visited once for each round of its loop, and once more  *)
(* if the path is now at or behind it.                                     *)
Counted(v, next) ==
    \A n \in Nodes :
        Visits(PathOf(v, next), n) <= Loops(n, v) + IF Place(n) <= Place(next) THEN 1 ELSE 0

(* The writes of a node extend the trace, and count the round that they    *)
(* send the graph on.                                                      *)
WritesFollow(c) ==
    /\ c.next # "end"
    /\ c.writes.trace = Append(c.values.trace, c.next)
    /\ c.values.rejections <= c.writes.rejections
    /\ c.values.revisions <= c.writes.revisions
    /\ c.next = "score_feasibility" /\ c.writes.verdict = "rejected"
          => c.values.rejections < c.writes.rejections
    /\ c.next = "critique" /\ c.writes.verdict = "revise"
          => c.values.revisions < c.writes.revisions

CheckpointFollows(g, c) ==
    /\ c \in Checkpoints
    /\ IsPath(g, PathOf(c.values, c.next))
    /\ Counted(c.values, c.next)
    /\ c.writes # NoValues => WritesFollow(c)

LEMMA VisitsOfAppend ==
    ASSUME NEW S, NEW s \in Seq(S), NEW x \in S, NEW n
    PROVE  /\ Visits(s, n) \in Nat
           /\ Visits(Append(s, x), n) = Visits(s, n) + IF x = n THEN 1 ELSE 0
<1> DEFINE old == {i \in DOMAIN s : s[i] = n}
           new == {i \in DOMAIN Append(s, x) : Append(s, x)[i] = n}
           k == Len(s) + 1
<1>1. /\ Len(s) \in Nat /\ DOMAIN s = 1 .. Len(s)
      /\ DOMAIN Append(s, x) = 1 .. k
      /\ \A i \in 1 .. Len(s) : Append(s, x)[i] = s[i]
      /\ Append(s, x)[k] = x
  OBVIOUS
<1>2. IsFiniteSet(old) /\ Cardinality(old) \in Nat
  <2>1. IsFiniteSet(1 .. Len(s)) /\ old \in SUBSET (1 .. Len(s))
    BY <1>1, FS_Interval
  <2>2. IsFiniteSet(old)
    BY <2>1, FS_Subset
  <2>3. QED
    BY <2>2, FS_CardinalityType
<1>3. k \notin old
  BY <1>1
<1>4. new = IF x = n THEN old \cup {k} ELSE old
  BY <1>1
<1> HIDE DEF old, new, k
<1>5. Cardinality(new) = Cardinality(old) + IF x = n THEN 1 ELSE 0
  <2>1. CASE x = n
    BY <1>2, <1>3, <1>4, <2>1, FS_AddElement
  <2>2. CASE x # n
    BY <1>2, <1>4, <2>2
  <2>3. QED
    BY <2>1, <2>2
<1>6. QED
  BY <1>2, <1>5 DEF Visits, old, new

LEMMA PlacesAreNumbers == \A n : Place(n) \in Nat
  BY DEF Place

LEMMA EdgesLeadOn ==
    /\ \A e \in Edges :
          e[1] \in Nodes /\ e[2] \in Nodes /\ Place(e[1]) < Place(e[2])
    /\ \A n \in Nodes : Place(n) < Place("end")
<1>1. \A e \in Edges : e[1] \in Nodes /\ e[2] \in Nodes
  BY DEF Edges, Nodes, MainNodes, LLMNodes
<1>2. \A e \in Edges : Place(e[1]) < Place(e[2])
  BY DEF Edges, Place
<1>3. \A n \in Nodes : Place(n) < Place("end")
  BY DEF Nodes, MainNodes, LLMNodes, Place
<1>4. QED
  BY <1>1, <1>2, <1>3

(* A step of a graph goes to a later node, but for the two loops.          *)
LEMMA NextNodeFollows ==
    ASSUME NEW n \in Nodes, NEW v
    PROVE  LET m == NextNode(n, v)
           IN /\ m \in Nodes \cup {"end"} /\ m \in After(n)
              /\ \/ Place(n) < Place(m)
                 \/ n = "score_feasibility" /\ v.verdict = "rejected" /\ m = "generate_hypothesis"
                 \/ n = "critique" /\ v.verdict = "revise" /\ m = "code_strategy"
              /\ n \in {"update_llm_memory", "llm_human_checkpoint"} =>
                    m \in {"llm_human_checkpoint", "end"}
<1> DEFINE edge == (CHOOSE e \in Edges : e[1] = n)[2]
           routed == {"score_feasibility", "critique", "human_checkpoint", "llm_research",
                      "update_llm_memory"}
           forked == {"update_llm_memory", "llm_human_checkpoint"}
<1>0. NextNode(n, v) =
      CASE n = "score_feasibility" -> RouteFeasibility(v)
          [] n = "critique" -> RouteCritique(v)
          [] n = "human_checkpoint" -> RouteHumanCheckpoint(v)
          [] n = "llm_research" -> RouteAfterResearch(v)
          [] n = "update_llm_memory" -> RouteAfterMemory(v)
          [] \E e \in Edges : e[1] = n -> edge
          [] OTHER -> "end"
  BY DEF NextNode
<1>a. n \in routed => ~ \E e \in Edges : e[1] = n
  BY DEF Edges
<1> HIDE DEF edge
<1>1. CASE n = "score_feasibility"
  <2>1. NextNode(n, v) = RouteFeasibility(v)
    BY <1>0, <1>a, <1>1
  <2>2. After(n) = {"generate_hypothesis", "code_strategy"}
    BY <1>1 DEF After
  <2>3. Place("score_feasibility") = 4 /\ Place("generate_hypothesis") = 3 /\ Place("code_strategy") = 5
    BY DEF Place
  <2>4. After(n) \subseteq Nodes \cup {"end"}
    BY <2>2 DEF Nodes, MainNodes, LLMNodes
  <2>5. QED
    BY <1>1, <2>1, <2>2, <2>3, <2>4 DEF RouteFeasibility
<1>2. CASE n = "critique"
  <2>1. NextNode(n, v) = RouteCritique(v)
    BY <1>0, <1>a, <1>2
  <2>2. After(n) = {"code_strategy", "update_memory"}
    BY <1>2 DEF After
  <2>3. Place("critique") = 7 /\ Place("code_strategy") = 5 /\ Place("update_memory") = 8
    BY DEF Place
  <2>4. After(n) \subseteq Nodes \cup {"end"}
    BY <2>2 DEF Nodes, MainNodes, LLMNodes
  <2>5. QED
    BY <1>2, <2>1, <2>2, <2>3, <2>4 DEF RouteCritique
<1>3. CASE n = "human_checkpoint"
  <2>1. NextNode(n, v) = RouteHumanCheckpoint(v)
    BY <1>0, <1>a, <1>3
  <2>2. After(n) = {"proposal_finalize", "end"}
    BY <1>3 DEF After
  <2>3. Place("human_checkpoint") = 10 /\ Place("proposal_finalize") = 11 /\ Place("end") = 18
    BY DEF Place
  <2>4. After(n) \subseteq Nodes \cup {"end"}
    BY <2>2 DEF Nodes, MainNodes, LLMNodes
  <2>5. QED
    BY <1>3, <2>1, <2>2, <2>3, <2>4 DEF RouteHumanCheckpoint
<1>4. CASE n = "llm_research"
  <2>1. NextNode(n, v) = RouteAfterResearch(v)
    BY <1>0, <1>a, <1>4
  <2>2. After(n) = {"create_validation_request", "update_llm_memory"}
    BY <1>4 DEF After
  <2>3. Place("llm_research") = 12 /\ Place("create_validation_request") = 13 /\ Place("update_llm_memory") = 15
    BY DEF Place
  <2>4. After(n) \subseteq Nodes \cup {"end"}
    BY <2>2 DEF Nodes, MainNodes, LLMNodes
  <2>5. QED
    BY <1>4, <2>1, <2>2, <2>3, <2>4 DEF RouteAfterResearch
<1>5. CASE n = "update_llm_memory"
  <2>1. NextNode(n, v) = RouteAfterMemory(v)
    BY <1>0, <1>a, <1>5
  <2>2. After(n) = {"llm_human_checkpoint", "end"}
    BY <1>5 DEF After
  <2>3. Place("update_llm_memory") = 15 /\ Place("llm_human_checkpoint") = 16 /\ Place("end") = 18
    BY DEF Place
  <2>4. After(n) \subseteq Nodes \cup {"end"}
    BY <2>2 DEF Nodes, MainNodes, LLMNodes
  <2>5. QED
    BY <1>5, <2>1, <2>2, <2>3, <2>4 DEF RouteAfterMemory
<1>6. CASE n \notin routed
  <2>1. /\ NextNode(n, v) = IF \E e \in Edges : e[1] = n THEN edge ELSE "end"
        /\ NextNode(n, NoValues) = NextNode(n, v)
    <3>1. NextNode(n, v) = IF \E e \in Edges : e[1] = n THEN edge ELSE "end"
      BY <1>0, <1>6
    <3>2. NextNode(n, NoValues) = IF \E e \in Edges : e[1] = n THEN edge ELSE "end"
      BY <1>6 DEF NextNode, edge
    <3>3. QED
      BY <3>1, <3>2
  <2>2. After(n) = {NextNode(n, NoValues)}
    BY <1>6 DEF After
  <2>3. CASE \E e \in Edges : e[1] = n
    <3>1. PICK e \in Edges : e[1] = n /\ NextNode(n, v) = e[2]
      BY <2>1, <2>3 DEF edge
    <3>2. n \notin forked
      BY <3>1 DEF Edges
    <3>3. QED
      BY <2>1, <2>2, <3>1, <3>2, EdgesLeadOn
  <2>4. CASE ~ \E e \in Edges : e[1] = n
    BY <2>1, <2>2, <2>4, EdgesLeadOn
  <2>5. QED
    BY <2>3, <2>4
<1>7. QED
  BY <1>1, <1>2, <1>3, <1>4, <1>5, <1>6

(* What a node writes has the state's type, extends the trace and counts   *)
(* the rounds; only a node that asks the model changes the answer.         *)
LEMMA EffectFollows ==
    ASSUME NEW n \in Nodes, NEW v \in GraphState, NEW a \in [id : Nat, accepted : BOOLEAN]
    PROVE  LET w == Effect(n, v, a)
           IN /\ w \in GraphState
              /\ w.trace = Append(v.trace, n)
              /\ v.rejections <= w.rejections /\ v.revisions <= w.revisions
              /\ n = "score_feasibility" /\ w.verdict = "rejected" => v.rejections < w.rejections
              /\ n = "critique" /\ w.verdict = "revise" => v.revisions < w.revisions
              /\ ~AsksModel(n) => w.answer = v.answer
<1> DEFINE u == [v EXCEPT !.trace = Append(@, n)]
           scored == ScoreFeasibility(u)
           criticised == Critique(u)
           checked == HumanCheckpoint(u)
           finalised == [u EXCEPT !.final = TRUE]
           answered == [u EXCEPT !.answer = a.id, !.accepted = a.accepted]
           asked == [u EXCEPT !.required = u.input.needs]
           grown(w) == w.trace = u.trace /\ u.rejections <= w.rejections /\ u.revisions <= w.revisions
<1>1. /\ u \in GraphState /\ u.trace = Append(v.trace, n)
      /\ u.rejections = v.rejections /\ u.revisions = v.revisions /\ u.answer = v.answer
      /\ u.input.needs \in BOOLEAN
  <2> DEFINE longer == Append(v.trace, n)
  <2>1. longer \in Seq(Nodes)
    BY DEF GraphState
  <2>2. u = [v EXCEPT !.trace = longer]
    BY DEF GraphState
  <2> HIDE DEF longer, u
  <2>3. u \in GraphState
    BY <2>1, <2>2 DEF GraphState
  <2>4. /\ u.trace = longer /\ u.rejections = v.rejections /\ u.revisions = v.revisions
        /\ u.answer = v.answer
    BY <2>2 DEF GraphState
  <2>5. u.input \in Inputs
    BY <2>3 DEF GraphState
  <2>6. QED
    BY <2>3, <2>4, <2>5, GraphAssumption DEF longer
<1> HIDE DEF u
<1>0. u.rejections \in 0 .. 1 /\ u.revisions \in 0 .. 1
  BY <1>1 DEF GraphState
<1>2. /\ scored \in GraphState /\ grown(scored) /\ scored.answer = u.answer
      /\ scored.verdict = "rejected" => u.rejections < scored.rejections
  <2> DEFINE rejected == [u EXCEPT !.verdict = "rejected", !.rejections = @ + 1]
             accepted == [u EXCEPT !.verdict = "accepted"]
  <2>1. u.rejections = 0 => /\ rejected \in GraphState /\ rejected.trace = u.trace
                            /\ rejected.answer = u.answer /\ rejected.revisions = u.revisions
                            /\ rejected.rejections = 1
    <3>1. u.rejections = 0 => rejected = [u EXCEPT !.verdict = "rejected", !.rejections = 1]
      OBVIOUS
    <3>2. 1 \in 0 .. 1
      OBVIOUS
    <3> HIDE DEF rejected
    <3>3. QED
      BY <1>1, <3>1, <3>2 DEF GraphState
  <2>2. /\ accepted \in GraphState /\ accepted.trace = u.trace /\ accepted.answer = u.answer
        /\ accepted.revisions = u.revisions /\ accepted.rejections = u.rejections
        /\ accepted.verdict = "accepted"
    BY <1>1 DEF GraphState
  <2>3. (u.rejections = 0 /\ scored = rejected) \/ scored = accepted
    BY DEF ScoreFeasibility
  <2> HIDE DEF scored, rejected, accepted
  <2>4. QED
    BY <1>0, <2>1, <2>2, <2>3
<1>3. /\ criticised \in GraphState /\ grown(criticised) /\ criticised.answer = u.answer
      /\ criticised.verdict = "revise" => u.revisions < criticised.revisions
  <2> DEFINE revised == [u EXCEPT !.verdict = "revise", !.revisions = @ + 1]
             approved == [u EXCEPT !.verdict = "approved"]
  <2>1. u.revisions = 0 => /\ revised \in GraphState /\ revised.trace = u.trace
                           /\ revised.answer = u.answer /\ revised.rejections = u.rejections
                           /\ revised.revisions = 1
    <3>1. u.revisions = 0 => revised = [u EXCEPT !.verdict = "revise", !.revisions = 1]
      OBVIOUS
    <3>2. 1 \in 0 .. 1
      OBVIOUS
    <3> HIDE DEF revised
    <3>3. QED
      BY <1>1, <3>1, <3>2 DEF GraphState
  <2>2. /\ approved \in GraphState /\ approved.trace = u.trace /\ approved.answer = u.answer
        /\ approved.revisions = u.revisions /\ approved.rejections = u.rejections
        /\ approved.verdict = "approved"
    BY <1>1 DEF GraphState
  <2>3. (u.revisions = 0 /\ criticised = revised) \/ criticised = approved
    BY DEF Critique
  <2> HIDE DEF criticised, revised, approved
  <2>4. QED
    BY <1>0, <2>1, <2>2, <2>3
<1>4. checked \in GraphState /\ grown(checked) /\ checked.answer = u.answer
  <2> DEFINE b == u.input.needs /\ ~u.approved
  <2>1. b \in BOOLEAN /\ checked = [u EXCEPT !.required = b]
    BY DEF HumanCheckpoint
  <2> HIDE DEF b, checked
  <2>2. QED
    BY <1>0, <1>1, <2>1 DEF GraphState
<1>5. finalised \in GraphState /\ grown(finalised) /\ finalised.answer = u.answer
  <2>1. ASSUME NEW b \in BOOLEAN, NEW w, w = [u EXCEPT !.final = b]
        PROVE  w \in GraphState /\ grown(w) /\ w.answer = u.answer
    BY <1>0, <1>1, <2>1 DEF GraphState
  <2>2. TRUE \in BOOLEAN
    OBVIOUS
  <2>3. QED
    BY <2>1, <2>2
<1>6. answered \in GraphState /\ grown(answered)
  <2> DEFINE id == a.id
             accepted == a.accepted
  <2>1. id \in Nat /\ accepted \in BOOLEAN
    OBVIOUS
  <2> DEFINE z == [u EXCEPT !.answer = id]
  <2>2. answered = [z EXCEPT !.accepted = accepted]
    BY <1>1 DEF GraphState
  <2> HIDE DEF id, accepted, answered
  <2>3. z \in GraphState /\ grown(z)
    BY <1>0, <1>1, <2>1 DEF GraphState
  <2> HIDE DEF z
  <2>4. QED
    BY <1>0, <2>1, <2>2, <2>3 DEF GraphState
<1>7. asked \in GraphState /\ grown(asked) /\ asked.answer = u.answer
  <2> DEFINE b == u.input.needs
  <2>1. b \in BOOLEAN /\ asked = [u EXCEPT !.required = b]
    BY <1>1
  <2> HIDE DEF b, asked
  <2>2. QED
    BY <1>0, <1>1, <2>1 DEF GraphState
<1>8. grown(u)
  BY <1>0, <1>1 DEF GraphState
<1>9. Effect(n, v, a) =
        CASE n = "score_feasibility" -> scored
          [] n = "critique" -> criticised
          [] n = "human_checkpoint" -> checked
          [] n = "proposal_finalize" -> finalised
          [] AsksModel(n) -> answered
          [] n = "llm_human_checkpoint" -> asked
          [] OTHER -> u
  BY DEF Effect, u
<1> HIDE DEF scored, criticised, checked, finalised, answered, asked
<1>10. \/ n = "score_feasibility" /\ Effect(n, v, a) = scored
       \/ n = "critique" /\ Effect(n, v, a) = criticised
       \/ n \notin {"score_feasibility", "critique"} /\ Effect(n, v, a) \in {checked, finalised, asked, u}
       \/ /\ n \notin {"score_feasibility", "critique"} /\ AsksModel(n)
          /\ Effect(n, v, a) = answered
  BY <1>9 DEF AsksModel
<1>11. QED
  BY <1>1, <1>2, <1>3, <1>4, <1>5, <1>6, <1>7, <1>8, <1>10

(* A node that is passed is visited once more, and a loop that is taken    *)
(* allows one more visit of each of its nodes.                             *)
LEMMA CountedStep ==
    ASSUME NEW c \in Checkpoints, c.writes \in GraphState, Counted(c.values, c.next),
           WritesFollow(c)
    PROVE  Counted(c.writes, NextNode(c.next, c.writes))
<1> DEFINE old == PathOf(c.values, c.next)
           m == NextNode(c.next, c.writes)
           w == c.writes
           v == c.values
<1>1. /\ v \in GraphState /\ w \in GraphState /\ c.next \in Nodes
      /\ w.trace = old /\ v.trace \in Seq(Nodes)
  BY DEF Checkpoints, GraphState, WritesFollow, PathOf
<1>2. old \in Seq(Nodes)
  BY <1>1 DEF PathOf
<1>3. /\ m \in Nodes \cup {"end"}
      /\ \/ Place(c.next) < Place(m)
         \/ c.next = "score_feasibility" /\ w.verdict = "rejected" /\ m = "generate_hypothesis"
         \/ c.next = "critique" /\ w.verdict = "revise" /\ m = "code_strategy"
  BY <1>1, NextNodeFollows
<1>4. /\ {v.rejections, v.revisions, w.rejections, w.revisions} \subseteq 0 .. 1
      /\ v.rejections <= w.rejections /\ v.revisions <= w.revisions
      /\ c.next = "score_feasibility" /\ w.verdict = "rejected" => v.rejections < w.rejections
      /\ c.next = "critique" /\ w.verdict = "revise" => v.revisions < w.revisions
  BY <1>1 DEF GraphState, WritesFollow
<1>5. old \in Seq(Nodes \cup {"end"})
  BY <1>2, SeqMonotonic
<1>6. /\ \A n : Visits(old, n) \in Nat
      /\ \A n : Visits(Append(old, m), n) = Visits(old, n) + IF m = n THEN 1 ELSE 0
  <2> DEFINE S == Nodes \cup {"end"}
  <2>1. old \in Seq(S) /\ m \in S
    BY <1>3, <1>5
  <2> HIDE DEF old, m, S
  <2>2. QED
    BY <2>1, VisitsOfAppend
<1> HIDE DEF old, m, w, v
<1> SUFFICES ASSUME NEW n \in Nodes
             PROVE  Visits(Append(old, m), n)
                       <= Loops(n, w) + IF Place(n) <= Place(m) THEN 1 ELSE 0
  BY <1>1 DEF Counted, PathOf, m, w
<1>7. Visits(old, n) <= Loops(n, v) + IF Place(n) <= Place(c.next) THEN 1 ELSE 0
  BY DEF Counted, old, v
<1>8. Loops(n, v) \in 0 .. 1 /\ Loops(n, w) \in 0 .. 1 /\ Loops(n, v) <= Loops(n, w)
  BY <1>4 DEF Loops
<1>9. Place(n) \in Nat /\ Place(m) \in Nat /\ Place(c.next) \in Nat
  BY PlacesAreNumbers
<1>10. CASE Place(c.next) < Place(m)
  BY <1>6, <1>7, <1>8, <1>9, <1>10
<1>11. CASE c.next = "score_feasibility" /\ w.verdict = "rejected" /\ m = "generate_hypothesis"
  <2>1. v.rejections = 0 /\ w.rejections = 1
    BY <1>4, <1>11
  <2>2. CASE n \in {"generate_hypothesis", "score_feasibility"}
    <3>1. Loops(n, v) = 0 /\ Loops(n, w) = 1
      BY <2>1, <2>2 DEF Loops
    <3>2. n = "generate_hypothesis" => Place(n) <= Place(m)
      BY <1>9, <1>11
    <3>3. QED
      BY <1>6, <1>7, <1>11, <2>2, <3>1, <3>2
  <2>3. CASE n \notin {"generate_hypothesis", "score_feasibility"}
    <3>1. Place(n) <= Place(c.next) => Place(n) <= Place(m)
      <4>1. Place(c.next) = 4 /\ Place(m) = 3
        BY <1>11 DEF Place
      <4>2. Place(n) # 4
        BY <2>3 DEF Place
      <4>3. QED
        BY <1>9, <4>1, <4>2
    <3>2. QED
      BY <1>6, <1>7, <1>8, <1>11, <2>3, <3>1
  <2>4. QED
    BY <2>2, <2>3
<1>12. CASE c.next = "critique" /\ w.verdict = "revise" /\ m = "code_strategy"
  <2>1. v.revisions = 0 /\ w.revisions = 1
    BY <1>4, <1>12
  <2>2. CASE n \in {"code_strategy", "backtest", "critique"}
    <3>1. Loops(n, v) = 0 /\ Loops(n, w) = 1
      BY <2>1, <2>2 DEF Loops
    <3>2. n = "code_strategy" => Place(n) <= Place(m)
      BY <1>9, <1>12
    <3>3. QED
      BY <1>6, <1>7, <1>12, <2>2, <3>1, <3>2
  <2>3. CASE n \notin {"code_strategy", "backtest", "critique"}
    <3>1. Place(n) <= Place(c.next) => Place(n) <= Place(m)
      <4>1. Place(c.next) = 7 /\ Place(m) = 5
        BY <1>12 DEF Place
      <4>2. Place(n) \notin {6, 7}
        BY <2>3 DEF Place
      <4>3. QED
        BY <1>9, <4>1, <4>2
    <3>2. QED
      BY <1>6, <1>7, <1>8, <1>12, <2>3, <3>1
  <2>4. QED
    BY <2>2, <2>3
<1>13. QED
  BY <1>3, <1>10, <1>11, <1>12

LEMMA PathStep ==
    ASSUME NEW g, NEW S, NEW path \in Seq(S), path # <<>>, IsPath(g, path),
           NEW m \in S, m \in After(path[Len(path)])
    PROVE  IsPath(g, Append(path, m))
<1>1. /\ Len(path) \in Nat /\ Len(path) >= 1 /\ Len(Append(path, m)) = Len(path) + 1
      /\ \A i \in 1 .. Len(path) : Append(path, m)[i] = path[i]
      /\ Append(path, m)[Len(path) + 1] = m
  BY EmptySeq
<1>2. ASSUME NEW i \in 1 .. Len(Append(path, m)) - 1
      PROVE  Append(path, m)[i + 1] \in After(Append(path, m)[i])
  <2>1. CASE i = Len(path)
    BY <1>1, <2>1
  <2>2. CASE i \in 1 .. Len(path) - 1
    BY <1>1, <2>2 DEF IsPath
  <2>3. QED
    BY <1>1, <2>1, <2>2
<1>3. QED
  BY <1>1, <1>2 DEF IsPath

LEMMA FirstFollows ==
    ASSUME NEW g \in Graphs, NEW run \in Nat, NEW in \in Inputs
    PROVE  CheckpointFollows(g, [run |-> run, next |-> EntryNode(g),
                                 values |-> FirstValues(in), writes |-> NoValues])
<1> DEFINE n == EntryNode(g)
           v == FirstValues(in)
           path == PathOf(v, n)
<1>1. n \in Nodes
  BY DEF EntryNode, Graphs, Nodes, MainNodes, LLMNodes
<1>2. v \in GraphState /\ v.trace = <<>> /\ v.rejections = 0 /\ v.revisions = 0
  BY DEF FirstValues, GraphState
<1>3. <<>> \in Seq(Nodes) /\ path = Append(<<>>, n)
  BY <1>2 DEF PathOf
<1>4. path[1] = n /\ Len(path) = 1
  BY <1>1, <1>3
<1>5. IsPath(g, path)
  BY <1>4 DEF IsPath
<1>6. Counted(v, n)
  <2> SUFFICES ASSUME NEW k \in Nodes
               PROVE  Visits(path, k) <= Loops(k, v) + IF Place(k) <= Place(n) THEN 1 ELSE 0
    BY DEF Counted
  <2>1. Visits(<<>>, k) = 0
    BY FS_EmptySet DEF Visits
  <2>2. Visits(path, k) = IF n = k THEN 1 ELSE 0
    <3> DEFINE s == <<>>
    <3>1. s \in Seq(Nodes) /\ path = Append(s, n) /\ Visits(s, k) = 0
      BY <1>3, <2>1
    <3> HIDE DEF s, n, v, path
    <3>2. QED
      BY <1>1, <3>1, VisitsOfAppend
  <2>3. Loops(k, v) = 0
    BY <1>2 DEF Loops
  <2>4. Place(k) \in Nat /\ Place(n) \in Nat
    BY PlacesAreNumbers
  <2> HIDE DEF path, n, v
  <2>5. QED
    BY <2>2, <2>3, <2>4
<1>7. [run |-> run, next |-> n, values |-> v, writes |-> NoValues] \in Checkpoints
  BY <1>1, <1>2 DEF Checkpoints
<1> HIDE DEF n, v
<1>8. QED
  BY <1>5, <1>6, <1>7 DEF CheckpointFollows, n, v

LEMMA WritesFollowValues ==
    ASSUME NEW g, NEW c, CheckpointFollows(g, c), c.next # "end",
           NEW a \in Answers
    PROVE  CheckpointFollows(g, WithWrites(c, a))
<1> DEFINE w == Effect(c.next, c.values, a)
           d == [c EXCEPT !.writes = w]
<1>1. c \in Checkpoints /\ c.next \in Nodes /\ c.values \in GraphState
  BY DEF CheckpointFollows, Checkpoints
<1>2. /\ w \in GraphState /\ w.trace = Append(c.values.trace, c.next)
      /\ c.values.rejections <= w.rejections /\ c.values.revisions <= w.revisions
      /\ c.next = "score_feasibility" /\ w.verdict = "rejected" => c.values.rejections < w.rejections
      /\ c.next = "critique" /\ w.verdict = "revise" => c.values.revisions < w.revisions
  BY <1>1, EffectFollows DEF Answers
<1> HIDE DEF w
<1>3. /\ d \in Checkpoints /\ d.next = c.next /\ d.values = c.values /\ d.writes = w
  BY <1>1, <1>2 DEF Checkpoints
<1> HIDE DEF d
<1>4. QED
  BY <1>2, <1>3 DEF CheckpointFollows, WritesFollow, WithWrites, Answers, d, w

LEMMA NextFollows ==
    ASSUME NEW g, NEW c, CheckpointFollows(g, c), c.writes # NoValues
    PROVE  CheckpointFollows(g, NextCheckpoint(c))
<1> DEFINE m == NextNode(c.next, c.writes)
           d == [run |-> c.run, next |-> m, values |-> c.writes, writes |-> NoValues]
           path == PathOf(c.values, c.next)
<1>1. /\ c \in Checkpoints /\ c.writes \in GraphState /\ WritesFollow(c) /\ c.next \in Nodes
      /\ c.run \in Nat /\ c.values.trace \in Seq(Nodes)
  BY DEF CheckpointFollows, Checkpoints, WritesFollow, GraphState
<1>2. m \in Nodes \cup {"end"} /\ m \in After(c.next)
  BY <1>1, NextNodeFollows
<1>3. /\ path \in Seq(Nodes) /\ path # <<>> /\ path[Len(path)] = c.next
      /\ c.writes.trace = path
  BY <1>1 DEF PathOf, WritesFollow
<1>4. path \in Seq(Nodes \cup {"end"}) /\ IsPath(g, path)
  BY <1>3, SeqMonotonic DEF CheckpointFollows
<1> HIDE DEF path, m
<1>5. IsPath(g, PathOf(c.writes, m))
  BY <1>2, <1>3, <1>4, PathStep DEF PathOf
<1>6. Counted(c.writes, m)
  BY <1>1, CountedStep DEF CheckpointFollows, m
<1>7. d \in Checkpoints
  BY <1>1, <1>2 DEF Checkpoints
<1>8. QED
  BY <1>5, <1>6, <1>7 DEF CheckpointFollows, NextCheckpoint, m

LEMMA ApprovedFollows ==
    ASSUME NEW g, NEW c, CheckpointFollows(g, c), c.writes = NoValues
    PROVE  CheckpointFollows(g, [c EXCEPT !.values.approved = TRUE])
<1> DEFINE d == [c EXCEPT !.values.approved = TRUE]
<1>1. /\ c \in Checkpoints /\ c.values \in GraphState
  BY DEF CheckpointFollows, Checkpoints
<1>2. /\ d \in Checkpoints /\ d.next = c.next /\ d.writes = NoValues
      /\ d.values.trace = c.values.trace
      /\ d.values.rejections = c.values.rejections /\ d.values.revisions = c.values.revisions
  BY <1>1 DEF Checkpoints, GraphState
<1> HIDE DEF d
<1>3. \A n : Loops(n, d.values) = Loops(n, c.values)
  BY <1>2 DEF Loops
<1>4. QED
  BY <1>2, <1>3 DEF CheckpointFollows, Counted, PathOf, d

----------------------------------------------------------------------------
(* What a step makes of the checkpoints.                                   *)

MaybeCheckpoints == Checkpoints \cup {NoCheckpoint}

(* A process that invokes a thread is up; no other has a loop or a queue.  *)
Shape ==
    /\ graphOf \in [Threads -> Graphs] /\ runs \in [Threads -> Nat] /\ answers \in Nat
    /\ disk \in [Threads -> MaybeCheckpoints]
    /\ mem \in [Procs -> [Threads -> MaybeCheckpoints]]
    /\ at \in [Procs -> Threads \cup {NoThread}]
    /\ live \in [Procs -> MaybeCheckpoints]
    /\ queue \in [Procs -> Seq(Checkpoints)]
    /\ \A p \in Procs :
          /\ at[p] # NoThread => p \in up
          /\ at[p] = NoThread => live[p] = NoCheckpoint /\ queue[p] = <<>>
          /\ live[p] # NoCheckpoint => live[p].next # "end"

(* Where the checkpoints of a thread are.                                  *)
Held(t, c) ==
    \/ c = disk[t]
    \/ \E p \in Procs : c = mem[p][t]
    \/ \E p \in Procs : at[p] = t /\ c = live[p]
    \/ \E p \in Procs : at[p] = t /\ \E i \in 1 .. Len(queue[p]) : c = queue[p][i]

LEMMA HeldIsMember == Shape => \A t \in Threads : \A c \in CheckpointsOf(t) : Held(t, c)
<1> SUFFICES ASSUME Shape, NEW t \in Threads, NEW c \in CheckpointsOf(t)
             PROVE  Held(t, c)
  OBVIOUS
<1>1. CASE \E p \in {q \in Procs : at[q] = t} : c \in ToSet(queue[p])
  <2>1. PICK p \in Procs : at[p] = t /\ c \in ToSet(queue[p])
    BY <1>1
  <2>2. queue[p] \in Seq(Checkpoints)
    BY DEF Shape
  <2>3. \E i \in 1 .. Len(queue[p]) : c = queue[p][i]
    BY <2>1, <2>2 DEF ToSet
  <2>4. QED
    BY <2>1, <2>3 DEF Held
<1>2. QED
  BY <1>1 DEF CheckpointsOf, Held

LEMMA HeldTyped ==
    ASSUME Shape, NEW t \in Threads, NEW c, Held(t, c), c # NoCheckpoint
    PROVE  c \in Checkpoints
<1>1. ASSUME NEW p \in Procs, NEW i \in 1 .. Len(queue[p]), c = queue[p][i]
      PROVE  c \in Checkpoints
  <2>1. queue[p] \in Seq(Checkpoints)
    BY DEF Shape
  <2>2. QED
    BY <1>1, <2>1, ElementOfSeq
<1>2. QED
  BY <1>1 DEF Held, Shape, MaybeCheckpoints

(* A run begins, or a node runs on a checkpoint, its writes are applied,   *)
(* or a human approves it.                                                 *)
Begun(t, d) ==
    runs'[t] = runs[t] + 1 /\ \E in \in Inputs : d = First(t, runs[t] + 1, in)

Ran(t, c, d) ==
    /\ c.writes = NoValues /\ c.next # "end" /\ Remember(t, c) \subseteq memory'
    /\ \E a \in Answers : d = WithWrites(c, a) \/ d = NextCheckpoint(WithWrites(c, a))

Applied(c, d) == c.writes # NoValues /\ c.next # "end" /\ d = NextCheckpoint(c)

Approved(t, c, d) ==
    /\ c.writes = NoValues /\ c.next = "human_checkpoint" /\ <<t, c.run>> \in approvals'
    /\ d = [c EXCEPT !.values.approved = TRUE]

Grown(t, c, d) == Ran(t, c, d) \/ Applied(c, d) \/ Approved(t, c, d)

Made(t, d) ==
    Held(t, d) \/ Begun(t, d) \/ \E c \in Checkpoints : Held(t, c) /\ Grown(t, c, d)

(* What no step takes back.                                                *)
Kept ==
    /\ graphOf' = graphOf /\ approvals \subseteq approvals' /\ memory \subseteq memory'
    /\ runs' \in [Threads -> Nat] /\ \A t \in Threads : runs[t] <= runs'[t]

Makes == \A t \in Threads : \A d \in Checkpoints : Held(t, d)' => Made(t, d)

LEMMA FirstTyped ==
    ASSUME Shape, NEW t \in Threads, NEW in \in Inputs
    PROVE  First(t, runs[t] + 1, in) \in Checkpoints
<1>1. graphOf[t] \in Graphs /\ runs[t] + 1 \in Nat
  BY DEF Shape
<1>2. QED
  BY <1>1, FirstFollows DEF First, CheckpointFollows

LEMMA WritesTyped ==
    ASSUME NEW c \in Checkpoints, c.next # "end", NEW a \in Answers
    PROVE  LET w == WithWrites(c, a)
           IN /\ w \in Checkpoints /\ w.writes \in GraphState
              /\ w.run = c.run /\ w.next = c.next /\ w.values = c.values
              /\ w.writes = Effect(c.next, c.values, a)
<1> DEFINE e == Effect(c.next, c.values, a)
<1>1. c.next \in Nodes /\ c.values \in GraphState
  BY DEF Checkpoints
<1>2. e \in GraphState
  BY <1>1, EffectFollows DEF Answers
<1> HIDE DEF e
<1>3. QED
  BY <1>2 DEF WithWrites, Checkpoints, e

LEMMA NextTyped ==
    ASSUME NEW c \in Checkpoints, c.next # "end", c.writes \in GraphState
    PROVE  NextCheckpoint(c) \in Checkpoints
<1>1. c.next \in Nodes /\ c.run \in Nat
  BY DEF Checkpoints
<1>2. NextNode(c.next, c.writes) \in Nodes \cup {"end"}
  BY <1>1, NextNodeFollows
<1>3. QED
  BY <1>1, <1>2 DEF NextCheckpoint, Checkpoints

LEMMA ApprovedTyped ==
    ASSUME NEW c \in Checkpoints
    PROVE  [c EXCEPT !.values.approved = TRUE] \in Checkpoints
  BY DEF Checkpoints, GraphState

LEMMA ShapeInit == Init => Shape
<1> SUFFICES ASSUME Init PROVE Shape
  OBVIOUS
<1>1. Empty \in [Threads -> MaybeCheckpoints]
  BY DEF Empty, MaybeCheckpoints
<1>2. <<>> \in Seq(Checkpoints)
  OBVIOUS
<1>3. QED
  BY <1>1, <1>2, GraphAssumption DEF Init, Shape, MaybeCheckpoints

(* A put changes one thread of one process's copy, and perhaps the file.   *)
LEMMA PutChanges ==
    ASSUME Shape, NEW p \in Procs, NEW t \in Threads, NEW c \in Checkpoints, Put(p, t, c)
    PROVE  /\ mem' \in [Procs -> [Threads -> MaybeCheckpoints]]
           /\ disk' \in [Threads -> MaybeCheckpoints]
           /\ mem'[p][t] = c
           /\ \A u \in Threads : u # t => mem'[p][u] = mem[p][u]
           /\ \A q \in Procs : q # p => mem'[q] = mem[q]
           /\ disk' = disk \/ disk' = mem'[p]
<1>1. /\ mem \in [Procs -> [Threads -> MaybeCheckpoints]]
      /\ disk \in [Threads -> MaybeCheckpoints] /\ c \in MaybeCheckpoints
      /\ mem' = [mem EXCEPT ![p][t] = c]
  BY DEF Shape, Put, MaybeCheckpoints
<1>2. disk' = disk \/ disk' = mem'[p]
  BY DEF Put
<1>3. QED
  BY <1>1, <1>2

(* A sequence with more behind it.                                         *)
LEMMA Extended ==
    ASSUME NEW S, NEW s \in Seq(S), NEW before \in Seq(S), NEW c \in S
    PROVE  LET r == s \o Append(before, c)
           IN /\ r \in Seq(S) /\ Len(r) = Len(s) + Len(before) + 1
              /\ \A i \in 1 .. Len(s) : r[i] = s[i]
              /\ \A i \in 1 .. Len(before) : r[Len(s) + i] = before[i]
              /\ r[Len(r)] = c
<1> DEFINE more == Append(before, c)
           r == s \o more
<1>1. /\ more \in Seq(S) /\ Len(more) = Len(before) + 1 /\ Len(before) \in Nat
      /\ \A i \in 1 .. Len(before) : more[i] = before[i]
      /\ more[Len(before) + 1] = c
  OBVIOUS
<1> HIDE DEF more
<1>2. /\ r \in Seq(S) /\ Len(r) = Len(s) + Len(more) /\ Len(s) \in Nat
      /\ \A i \in 1 .. Len(s) + Len(more) : r[i] = IF i <= Len(s) THEN s[i] ELSE more[i - Len(s)]
  BY <1>1, ConcatProperties, LenProperties
<1> HIDE DEF r
<1>3. \A i \in 1 .. Len(s) : r[i] = s[i]
  BY <1>1, <1>2
<1>4. ASSUME NEW i \in 1 .. Len(before) PROVE r[Len(s) + i] = before[i]
  <2> DEFINE j == Len(s) + i
  <2>1. j \in 1 .. Len(s) + Len(more) /\ ~(j <= Len(s)) /\ j - Len(s) = i
    BY <1>1, <1>2
  <2>2. QED
    BY <1>1, <1>2, <2>1
<1>5. r[Len(r)] = c
  BY <1>1, <1>2
<1>6. QED
  BY <1>1, <1>2, <1>3, <1>4, <1>5 DEF r, more

(* A loop that hands checkpoints over.                                     *)
LEMMA ReachChanges ==
    ASSUME Shape, NEW p \in Procs, NEW before \in Seq(Checkpoints), NEW c \in Checkpoints,
           Reach(p, before, c)
    PROVE  /\ live' \in [Procs -> MaybeCheckpoints]
           /\ queue' \in [Procs -> Seq(Checkpoints)]
           /\ \A q \in Procs : q # p => live'[q] = live[q] /\ queue'[q] = queue[q]
           /\ live'[p] \in {c, NoCheckpoint}
           /\ live'[p] # NoCheckpoint => live'[p].next # "end"
           /\ queue[p] \in Seq(Checkpoints)
           /\ queue'[p] = queue[p] \o Append(before, c)
           /\ Len(queue'[p]) = Len(queue[p]) + Len(before) + 1
           /\ \A i \in 1 .. Len(queue[p]) : queue'[p][i] = queue[p][i]
           /\ \A i \in 1 .. Len(before) : queue'[p][Len(queue[p]) + i] = before[i]
           /\ queue'[p][Len(queue'[p])] = c
<1> DEFINE waiting == queue[p]
           longer == waiting \o Append(before, c)
           l == IF c.next = "end" THEN NoCheckpoint ELSE c
<1>1. /\ live \in [Procs -> MaybeCheckpoints] /\ queue \in [Procs -> Seq(Checkpoints)]
      /\ live' = [live EXCEPT ![p] = l] /\ queue' = [queue EXCEPT ![p] = longer]
  BY DEF Shape, Reach
<1>2. l \in {c, NoCheckpoint} /\ l \in MaybeCheckpoints /\ (l # NoCheckpoint => l.next # "end")
  BY DEF MaybeCheckpoints
<1>3. waiting \in Seq(Checkpoints)
  BY <1>1
<1> HIDE DEF waiting
<1>4. /\ longer \in Seq(Checkpoints) /\ Len(longer) = Len(waiting) + Len(before) + 1
      /\ \A i \in 1 .. Len(waiting) : longer[i] = waiting[i]
      /\ \A i \in 1 .. Len(before) : longer[Len(waiting) + i] = before[i]
      /\ longer[Len(longer)] = c
  BY <1>3, Extended
<1> HIDE DEF l, longer
<1>5. live' \in [Procs -> MaybeCheckpoints] /\ queue' \in [Procs -> Seq(Checkpoints)]
  BY <1>1, <1>2, <1>4
<1>6. /\ live'[p] = l /\ queue'[p] = longer
      /\ \A q \in Procs : q # p => live'[q] = live[q] /\ queue'[q] = queue[q]
  BY <1>1
<1>7. QED
  BY <1>2, <1>3, <1>4, <1>5, <1>6 DEF longer, waiting

(* A step adds at most these checkpoints, of this thread.                  *)
AddsOnly(t, before, c) ==
    \A u \in Threads : \A d \in Checkpoints :
        Held(u, d)' =>
            \/ Held(u, d)
            \/ u = t /\ (d = c \/ \E i \in 1 .. Len(before) : d = before[i])

(* What a loop holds after it handed checkpoints over.                     *)
LEMMA ReachHolds ==
    ASSUME Shape, NEW p \in Procs, NEW t \in Threads, p \in up,
           NEW before \in Seq(Checkpoints), NEW c \in Checkpoints, Reach(p, before, c),
           at[p] = NoThread \/ at[p] = t,
           at' = [at EXCEPT ![p] = t],
           UNCHANGED <<graphOf, disk, mem, up>>, runs' \in [Threads -> Nat], answers' \in Nat
    PROVE  Shape' /\ AddsOnly(t, before, c)
<1>1. /\ live' \in [Procs -> MaybeCheckpoints]
      /\ queue' \in [Procs -> Seq(Checkpoints)]
      /\ \A q \in Procs : q # p => live'[q] = live[q] /\ queue'[q] = queue[q]
      /\ live'[p] \in {c, NoCheckpoint}
      /\ live'[p] # NoCheckpoint => live'[p].next # "end"
      /\ Len(queue'[p]) = Len(queue[p]) + Len(before) + 1
      /\ \A i \in 1 .. Len(queue[p]) : queue'[p][i] = queue[p][i]
      /\ \A i \in 1 .. Len(before) : queue'[p][Len(queue[p]) + i] = before[i]
      /\ queue'[p][Len(queue'[p])] = c
  BY ReachChanges
<1>2. /\ at' \in [Procs -> Threads \cup {NoThread}] /\ at'[p] = t
      /\ \A q \in Procs : q # p => at'[q] = at[q]
  BY DEF Shape
<1>3. t # NoThread
  BY GraphAssumption
<1>4. Shape'
  BY <1>1, <1>2, <1>3 DEF Shape
<1>5. ASSUME NEW i \in 1 .. Len(queue'[p]), at[p] = t \/ queue[p] = <<>>
      PROVE  \/ at[p] = t /\ \E j \in 1 .. Len(queue[p]) : queue'[p][i] = queue[p][j]
             \/ queue'[p][i] = c
             \/ \E j \in 1 .. Len(before) : queue'[p][i] = before[j]
  <2>1. Len(queue[p]) \in Nat /\ Len(before) \in Nat
    BY DEF Shape
  <2>2. CASE i \in 1 .. Len(queue[p])
    BY <1>1, <1>5, <2>1, <2>2
  <2>3. CASE i = Len(queue'[p])
    BY <1>1, <2>3
  <2>4. CASE i > Len(queue[p]) /\ i # Len(queue'[p])
    <3>1. /\ i - Len(queue[p]) \in 1 .. Len(before)
          /\ i = Len(queue[p]) + (i - Len(queue[p]))
      BY <1>1, <2>1, <2>4
    <3>2. QED
      BY <1>1, <3>1
  <2>5. QED
    BY <1>1, <2>1, <2>2, <2>3, <2>4
<1>6. at[p] = t \/ queue[p] = <<>>
  BY DEF Shape
<1>7. ASSUME NEW u \in Threads, NEW d \in Checkpoints, Held(u, d)'
      PROVE  \/ Held(u, d)
             \/ u = t /\ (d = c \/ \E i \in 1 .. Len(before) : d = before[i])
  <2>1. CASE d = disk'[u] \/ \E q \in Procs : d = mem'[q][u]
    BY <2>1 DEF Held
  <2>2. CASE \E q \in Procs : at'[q] = u /\ d = live'[q]
    <3>1. d # NoCheckpoint
      BY CheckpointAssumption
    <3>2. QED
      BY <1>1, <1>2, <2>2, <3>1 DEF Held
  <2>3. CASE \E q \in Procs : at'[q] = u /\ \E i \in 1 .. Len(queue'[q]) : d = queue'[q][i]
    <3>1. PICK q \in Procs : at'[q] = u /\ \E i \in 1 .. Len(queue'[q]) : d = queue'[q][i]
      BY <2>3
    <3>2. CASE q # p
      BY <1>1, <1>2, <3>1, <3>2 DEF Held
    <3>3. CASE q = p
      BY <1>2, <1>5, <1>6, <3>1, <3>3 DEF Held
    <3>4. QED
      BY <3>2, <3>3
  <2>4. QED
    BY <1>7, <2>1, <2>2, <2>3 DEF Held
<1>8. QED
  BY <1>4, <1>7 DEF AddsOnly

LEMMA StartMakes ==
    ASSUME Shape, NEW p \in Procs, Start(p)
    PROVE  Shape' /\ Kept /\ Makes
<1>1. /\ mem' = [mem EXCEPT ![p] = disk] /\ up' = up \cup {p}
      /\ UNCHANGED <<graphOf, disk, at, live, queue, runs, answers, approvals, memory>>
  BY DEF Start, Load, fileVars
<1>2. /\ mem' \in [Procs -> [Threads -> MaybeCheckpoints]] /\ mem'[p] = disk
      /\ \A q \in Procs : q # p => mem'[q] = mem[q]
  BY <1>1 DEF Shape
<1>3. Shape'
  BY <1>1, <1>2 DEF Shape
<1>4. \A t \in Threads : \A d \in Checkpoints : Held(t, d)' => Held(t, d)
  BY <1>1, <1>2 DEF Held
<1>5. QED
  BY <1>1, <1>3, <1>4 DEF Kept, Makes, Made, Shape

LEMMA CrashMakes ==
    ASSUME Shape, NEW p \in Procs, Crash(p)
    PROVE  Shape' /\ Kept /\ Makes
<1>1. /\ mem' = [mem EXCEPT ![p] = Empty] /\ up' = up \ {p}
      /\ at' = [at EXCEPT ![p] = NoThread] /\ live' = [live EXCEPT ![p] = NoCheckpoint]
      /\ queue' = [queue EXCEPT ![p] = <<>>]
      /\ UNCHANGED <<graphOf, disk, runs, answers, approvals, memory>>
  BY DEF Crash, Leave, fileVars, historyVars
<1>2. Empty \in [Threads -> MaybeCheckpoints] /\ <<>> \in Seq(Checkpoints)
      /\ NoCheckpoint \in MaybeCheckpoints
  BY DEF Empty, MaybeCheckpoints
<1>3. /\ mem' \in [Procs -> [Threads -> MaybeCheckpoints]] /\ mem'[p] = Empty
      /\ at' \in [Procs -> Threads \cup {NoThread}] /\ at'[p] = NoThread
      /\ live' \in [Procs -> MaybeCheckpoints] /\ live'[p] = NoCheckpoint
      /\ queue' \in [Procs -> Seq(Checkpoints)] /\ queue'[p] = <<>>
      /\ \A q \in Procs : q # p => /\ mem'[q] = mem[q] /\ at'[q] = at[q]
                                 /\ live'[q] = live[q] /\ queue'[q] = queue[q]
  BY <1>1, <1>2 DEF Shape
<1>4. Shape'
  BY <1>1, <1>3 DEF Shape
<1>5. \A t \in Threads : Empty[t] \notin Checkpoints /\ NoThread \notin Threads
  BY CheckpointAssumption, GraphAssumption DEF Empty
<1>6. \A t \in Threads : \A d \in Checkpoints : Held(t, d)' => Held(t, d)
  BY <1>1, <1>3, <1>5 DEF Held
<1>7. QED
  BY <1>1, <1>4, <1>6 DEF Kept, Makes, Made, Shape

LEMMA LeaveMakes ==
    ASSUME Shape, NEW p \in Procs, Pause(p) \/ NodeRaises(p)
    PROVE  Shape' /\ Kept /\ Makes
<1>1. /\ live' = [live EXCEPT ![p] = NoCheckpoint]
      /\ UNCHANGED <<graphOf, disk, mem, up, at, queue, runs, answers, approvals, memory>>
  BY DEF Pause, NodeRaises, Leave, fileVars, historyVars
<1>2. /\ live' \in [Procs -> MaybeCheckpoints] /\ live'[p] = NoCheckpoint
      /\ \A q \in Procs : q # p => live'[q] = live[q]
  BY <1>1 DEF Shape, MaybeCheckpoints
<1>3. Shape'
  BY <1>1, <1>2 DEF Shape
<1>4. \A t \in Threads : \A d \in Checkpoints : Held(t, d)' => Held(t, d)
  BY <1>1, <1>2, CheckpointAssumption DEF Held
<1>5. QED
  BY <1>1, <1>3, <1>4 DEF Kept, Makes, Made, Shape

LEMMA ReturnMakes ==
    ASSUME Shape, NEW p \in Procs, Return(p)
    PROVE  Shape' /\ Kept /\ Makes
<1>1. /\ at' = [at EXCEPT ![p] = NoThread] /\ live[p] = NoCheckpoint /\ queue[p] = <<>>
      /\ UNCHANGED <<graphOf, disk, mem, up, live, queue, runs, answers, approvals, memory>>
  BY DEF Return, fileVars, historyVars
<1>2. /\ at' \in [Procs -> Threads \cup {NoThread}] /\ at'[p] = NoThread
      /\ \A q \in Procs : q # p => at'[q] = at[q]
  BY <1>1 DEF Shape
<1>3. Shape'
  BY <1>1, <1>2 DEF Shape
<1>4. \A t \in Threads : \A d \in Checkpoints : Held(t, d)' => Held(t, d)
  BY <1>1, <1>2, GraphAssumption DEF Held
<1>5. QED
  BY <1>1, <1>3, <1>4 DEF Kept, Makes, Made, Shape

(* The head of the queue goes to the process's copy and perhaps the file.  *)
LEMMA PutNextMakes ==
    ASSUME Shape, NEW p \in Procs, PutNext(p)
    PROVE  Shape' /\ Kept /\ Makes
<1> DEFINE t == at[p]
           c == Head(queue[p])
<1>1. queue[p] \in Seq(Checkpoints) /\ queue[p] # <<>>
  BY DEF Shape, PutNext
<1>2. /\ t \in Threads /\ p \in up /\ c \in Checkpoints
  BY <1>1 DEF Shape
<1>3. /\ Tail(queue[p]) \in Seq(Checkpoints)
      /\ Len(Tail(queue[p])) = Len(queue[p]) - 1 /\ Len(queue[p]) \in Nat \ {0}
      /\ \A i \in 1 .. Len(Tail(queue[p])) : Tail(queue[p])[i] = queue[p][i + 1]
  BY <1>1, HeadTailProperties, EmptySeq
<1>4. /\ Put(p, t, c) /\ queue' = [queue EXCEPT ![p] = Tail(@)]
      /\ UNCHANGED <<graphOf, memory, up, at, live, runs, approvals, answers>>
  BY DEF PutNext
<1>5. c = queue[p][1]
  BY <1>1
<1> HIDE DEF t, c
<1>6. /\ mem' \in [Procs -> [Threads -> MaybeCheckpoints]]
      /\ disk' \in [Threads -> MaybeCheckpoints]
      /\ mem'[p][t] = c
      /\ \A u \in Threads : u # t => mem'[p][u] = mem[p][u]
      /\ \A q \in Procs : q # p => mem'[q] = mem[q]
      /\ disk' = disk \/ disk' = mem'[p]
  BY <1>2, <1>4, PutChanges
<1>7. /\ queue' \in [Procs -> Seq(Checkpoints)] /\ queue'[p] = Tail(queue[p])
      /\ \A q \in Procs : q # p => queue'[q] = queue[q]
  BY <1>3, <1>4 DEF Shape
<1>8. Shape'
  BY <1>2, <1>4, <1>6, <1>7 DEF Shape, t
<1>9. ASSUME NEW u \in Threads, NEW d \in Checkpoints, Held(u, d)' PROVE Held(u, d)
  <2>1. ASSUME \E q \in Procs : d = mem'[q][u] PROVE Held(u, d)
    <3>1. CASE d = mem'[p][u]
      <4>1. CASE u = t
        <5>1. 1 \in 1 .. Len(queue[p]) /\ d = queue[p][1]
          BY <1>3, <1>5, <1>6, <3>1, <4>1
        <5>2. QED
          BY <4>1, <5>1 DEF Held, t
      <4>2. CASE u # t
        BY <1>6, <3>1, <4>2 DEF Held
      <4>3. QED
        BY <4>1, <4>2
    <3>2. CASE \E q \in Procs : q # p /\ d = mem'[q][u]
      BY <1>6, <3>2 DEF Held
    <3>3. QED
      BY <2>1, <3>1, <3>2
  <2>2. CASE d = disk'[u]
    BY <1>6, <2>1, <2>2 DEF Held
  <2>3. CASE \E q \in Procs : at'[q] = u /\ d = live'[q]
    BY <1>4, <2>3 DEF Held
  <2>4. CASE \E q \in Procs : at'[q] = u /\ \E i \in 1 .. Len(queue'[q]) : d = queue'[q][i]
    <3>1. PICK q \in Procs : at[q] = u /\ \E i \in 1 .. Len(queue'[q]) : d = queue'[q][i]
      BY <1>4, <2>4
    <3>2. PICK i \in 1 .. Len(queue'[q]) : d = queue'[q][i]
      BY <3>1
    <3>3. CASE q = p
      <4>1. i \in 1 .. Len(Tail(queue[p])) /\ d = Tail(queue[p])[i]
        BY <1>7, <3>2, <3>3
      <4> DEFINE rest == Tail(queue[p])
                 whole == queue[p]
      <4>2. /\ Len(rest) = Len(whole) - 1 /\ Len(whole) \in Nat
            /\ i \in 1 .. Len(rest) /\ d = whole[i + 1]
        BY <1>3, <4>1
      <4> HIDE DEF rest, whole
      <4>3. i + 1 \in 1 .. Len(whole) /\ d = whole[i + 1]
        BY <4>2
      <4>4. QED
        BY <3>1, <3>3, <4>3 DEF Held, whole
    <3>4. CASE q # p
      BY <1>7, <3>1, <3>2, <3>4 DEF Held
    <3>5. QED
      BY <3>3, <3>4
  <2>5. QED
    BY <1>9, <2>1, <2>2, <2>3, <2>4 DEF Held
<1>10. QED
  BY <1>4, <1>8, <1>9 DEF Kept, Makes, Made, Shape

LEMMA InvokeMakes ==
    ASSUME Shape, NEW p \in Procs, NEW t \in Threads, NEW in \in InputsOf(graphOf[t]),
           Invoke(p, t, in)
    PROVE  Shape' /\ Kept /\ Makes
<1> DEFINE c == First(t, runs[t] + 1, in)
           none == <<>>
<1>1. /\ Reach(p, none, c) /\ p \in up /\ at[p] = NoThread
      /\ at' = [at EXCEPT ![p] = t] /\ runs' = [runs EXCEPT ![t] = @ + 1]
      /\ UNCHANGED <<graphOf, disk, mem, up, answers, approvals, memory>>
  BY DEF Invoke, Idle, fileVars
<1>2. in \in Inputs
  BY GraphAssumption DEF InputsOf
<1>3. c \in Checkpoints /\ none \in Seq(Checkpoints) /\ Len(none) = 0
  BY <1>2, FirstTyped
<1>4. runs' \in [Threads -> Nat] /\ runs'[t] = runs[t] + 1 /\ runs[t] \in Nat
      /\ answers' \in Nat /\ \A u \in Threads : runs[u] <= runs'[u]
  BY <1>1 DEF Shape
<1>5. Begun(t, c)
  BY <1>2, <1>4 DEF Begun
<1> HIDE DEF c, none
<1>6. Shape' /\ AddsOnly(t, none, c)
  BY <1>1, <1>3, <1>4, ReachHolds
<1>7. \A u \in Threads : \A d \in Checkpoints : Held(u, d)' => Held(u, d) \/ (u = t /\ d = c)
  BY <1>3, <1>6 DEF AddsOnly
<1>8. QED
  BY <1>1, <1>4, <1>5, <1>6, <1>7 DEF Kept, Makes, Made

LEMMA ResumeMakes ==
    ASSUME Shape, NEW p \in Procs, NEW t \in Threads, Resume(p, t)
    PROVE  Shape' /\ Kept /\ Makes
<1>1. /\ at' = [at EXCEPT ![p] = t] /\ live' = [live EXCEPT ![p] = mem[p][t]]
      /\ mem[p][t].next # "end" /\ p \in up /\ at[p] = NoThread
      /\ UNCHANGED <<graphOf, disk, mem, up, queue, runs, answers, approvals, memory>>
  BY DEF Resume, Idle, fileVars
<1>2. mem[p][t] \in MaybeCheckpoints /\ queue[p] = <<>> /\ t # NoThread
  BY <1>1, GraphAssumption DEF Shape
<1>3. /\ at' \in [Procs -> Threads \cup {NoThread}] /\ at'[p] = t
      /\ live' \in [Procs -> MaybeCheckpoints] /\ live'[p] = mem[p][t]
      /\ \A q \in Procs : q # p => at'[q] = at[q] /\ live'[q] = live[q]
  BY <1>1, <1>2 DEF Shape
<1>4. Shape'
  BY <1>1, <1>2, <1>3 DEF Shape
<1>5. \A u \in Threads : \A d \in Checkpoints : Held(u, d)' => Held(u, d)
  <2> SUFFICES ASSUME NEW u \in Threads, NEW d \in Checkpoints, Held(u, d)' PROVE Held(u, d)
    OBVIOUS
  <2>1. CASE \E q \in Procs : at'[q] = u /\ d = live'[q]
    BY <1>3, <2>1 DEF Held
  <2>2. CASE \E q \in Procs : at'[q] = u /\ \E i \in 1 .. Len(queue'[q]) : d = queue'[q][i]
    <3>1. PICK q \in Procs : at'[q] = u /\ \E i \in 1 .. Len(queue[q]) : d = queue[q][i]
      BY <1>1, <2>2
    <3>2. q # p
      <4>1. Len(queue[q]) \in Nat \ {0}
        BY <3>1 DEF Shape
      <4>2. QED
        BY <1>2, <4>1
    <3>3. QED
      BY <1>3, <3>1, <3>2 DEF Held
  <2>3. QED
    BY <1>1, <2>1, <2>2 DEF Held
<1>6. QED
  BY <1>1, <1>4, <1>5 DEF Kept, Makes, Made, Shape

(* What a loop is at, is a checkpoint of the thread it invokes.            *)
LEMMA LiveIsHeld ==
    ASSUME Shape, NEW p \in Procs, live[p] # NoCheckpoint
    PROVE  /\ at[p] \in Threads /\ p \in up /\ live[p] \in Checkpoints
           /\ live[p].next # "end" /\ Held(at[p], live[p])
  BY DEF Shape, Held, MaybeCheckpoints

LEMMA RunNodeMakes ==
    ASSUME Shape, NEW p \in Procs, RunNode(p)
    PROVE  Shape' /\ Kept /\ Makes
<1> DEFINE t == at[p]
           c == live[p]
<1>1. /\ t \in Threads /\ p \in up /\ c \in Checkpoints /\ c.next # "end" /\ Held(t, c)
      /\ c.writes = NoValues
  BY LiveIsHeld DEF RunNode, AtNode
<1>2. PICK valid \in BOOLEAN, ok \in BOOLEAN :
         /\ answers' = IF AsksModel(c.next) THEN answers + 1 ELSE answers
         /\ LET w == WithWrites(c, [id |-> IF valid THEN answers' ELSE 0, accepted |-> ok])
            IN Reach(p, <<w>>, NextCheckpoint(w))
  BY DEF RunNode
<1> DEFINE a == [id |-> IF valid THEN answers' ELSE 0, accepted |-> ok]
           w == WithWrites(c, a)
           n == NextCheckpoint(w)
           one == <<w>>
<1>3. Reach(p, one, n) /\ answers' \in Nat /\ a \in Answers
  BY <1>2 DEF Shape, Answers
<1>4. w \in Checkpoints /\ w.writes \in GraphState /\ w.next = c.next
  BY <1>1, <1>3, WritesTyped
<1> HIDE DEF c, a
<1>5. n \in Checkpoints
  BY <1>1, <1>4, NextTyped
<1>6. one \in Seq(Checkpoints) /\ \A i \in 1 .. Len(one) : one[i] = w
  BY <1>4
<1>7. /\ UNCHANGED <<graphOf, disk, mem, up, at, runs, approvals>>
      /\ memory' = Remember(t, c) /\ at' = [at EXCEPT ![p] = t]
  BY DEF RunNode, Shape, c
<1>8. memory \subseteq memory'
  BY <1>7 DEF Remember
<1>9. Ran(t, c, w) /\ Ran(t, c, n)
  BY <1>1, <1>3, <1>7 DEF Ran
<1> HIDE DEF t, w, n, one
<1>10. Shape' /\ AddsOnly(t, one, n)
  <2>1. runs' \in [Threads -> Nat] /\ at[p] = t
    BY <1>7 DEF Shape, t
  <2>2. QED
    BY <1>1, <1>3, <1>5, <1>6, <1>7, <2>1, ReachHolds
<1>11. \A u \in Threads : \A d \in Checkpoints :
          Held(u, d)' => Held(u, d) \/ (u = t /\ d \in {w, n})
  BY <1>6, <1>10 DEF AddsOnly
<1>12. Kept
  BY <1>7, <1>8 DEF Kept, Shape
<1>13. Makes
  BY <1>1, <1>9, <1>11 DEF Makes, Made, Grown
<1>14. QED
  BY <1>10, <1>12, <1>13

LEMMA CommitMakes ==
    ASSUME Shape, NEW p \in Procs, Commit(p)
    PROVE  Shape' /\ Kept /\ Makes
<1> DEFINE t == at[p]
           c == live[p]
           n == NextCheckpoint(c)
           none == <<>>
<1>1. /\ t \in Threads /\ p \in up /\ c \in Checkpoints /\ c.next # "end" /\ Held(t, c)
      /\ c.writes # NoValues
  BY LiveIsHeld DEF Commit
<1>2. /\ Reach(p, none, n)
      /\ UNCHANGED <<graphOf, disk, mem, up, at, runs, answers, approvals, memory>>
      /\ at' = [at EXCEPT ![p] = t]
  BY DEF Commit, fileVars, historyVars, Shape
<1>3. c.writes \in GraphState
  BY <1>1 DEF Checkpoints
<1>4. n \in Checkpoints
  BY <1>1, <1>3, NextTyped
<1>5. none \in Seq(Checkpoints) /\ Len(none) = 0
  OBVIOUS
<1>6. Applied(c, n)
  BY <1>1 DEF Applied
<1>7. runs' \in [Threads -> Nat] /\ answers' \in Nat /\ at[p] = t
  BY <1>2 DEF Shape
<1> HIDE DEF t, c, n, none
<1>8. Shape' /\ AddsOnly(t, none, n)
  BY <1>1, <1>2, <1>4, <1>5, <1>7, ReachHolds
<1>9. \A u \in Threads : \A d \in Checkpoints : Held(u, d)' => Held(u, d) \/ (u = t /\ d = n)
  BY <1>5, <1>8 DEF AddsOnly
<1>10. QED
  BY <1>1, <1>2, <1>6, <1>7, <1>8, <1>9 DEF Kept, Makes, Made, Grown, Shape

LEMMA ApproveMakes ==
    ASSUME Shape, NEW p \in Procs, NEW t \in Threads, Approve(p, t)
    PROVE  Shape' /\ Kept /\ Makes
<1> DEFINE c == mem[p][t]
           n == [c EXCEPT !.values.approved = TRUE]
<1>1. /\ c # NoCheckpoint /\ c.next = "human_checkpoint" /\ c.writes = NoValues
      /\ Put(p, t, n) /\ approvals' = approvals \cup {<<t, c.run>>}
      /\ UNCHANGED <<graphOf, up, at, live, queue, runs, answers, memory>>
  BY DEF Approve
<1>2. c \in Checkpoints /\ Held(t, c)
  BY <1>1 DEF Shape, MaybeCheckpoints, Held
<1>3. n \in Checkpoints
  BY <1>2, ApprovedTyped
<1>4. Approved(t, c, n)
  BY <1>1 DEF Approved
<1> HIDE DEF c, n
<1>5. /\ mem' \in [Procs -> [Threads -> MaybeCheckpoints]]
      /\ disk' \in [Threads -> MaybeCheckpoints]
      /\ mem'[p][t] = n
      /\ \A u \in Threads : u # t => mem'[p][u] = mem[p][u]
      /\ \A q \in Procs : q # p => mem'[q] = mem[q]
      /\ disk' = disk \/ disk' = mem'[p]
  BY <1>1, <1>3, PutChanges
<1>6. Shape'
  BY <1>1, <1>5 DEF Shape
<1>7. ASSUME NEW u \in Threads, NEW d \in Checkpoints, Held(u, d)'
      PROVE  Held(u, d) \/ (u = t /\ d = n)
  <2>1. ASSUME \E q \in Procs : d = mem'[q][u] PROVE Held(u, d) \/ (u = t /\ d = n)
    BY <1>5, <2>1 DEF Held
  <2>2. CASE d = disk'[u]
    BY <1>5, <2>1, <2>2 DEF Held
  <2>3. CASE \E q \in Procs : at'[q] = u /\ (d = live'[q] \/ \E i \in 1 .. Len(queue'[q]) : d = queue'[q][i])
    BY <1>1, <2>3 DEF Held
  <2>4. QED
    BY <1>7, <2>1, <2>2, <2>3 DEF Held
<1>8. QED
  BY <1>1, <1>2, <1>4, <1>6, <1>7 DEF Kept, Makes, Made, Grown, Shape

LEMMA StepMakes ==
    ASSUME Shape, [Next]_vars
    PROVE  Shape' /\ Kept /\ Makes
<1>1. CASE UNCHANGED vars
  <2>1. Shape'
    BY <1>1 DEF Shape, vars, fileVars, procVars, historyVars
  <2>2. Kept
    BY <1>1 DEF Kept, Shape, vars, fileVars, procVars, historyVars
  <2>3. Makes
    BY <1>1 DEF Makes, Made, Held, vars, fileVars, procVars, historyVars
  <2>4. QED
    BY <2>1, <2>2, <2>3
<1>2. QED
  BY <1>1, StartMakes, CrashMakes, LeaveMakes, ReturnMakes, PutNextMakes, InvokeMakes, ResumeMakes,
     RunNodeMakes, CommitMakes, ApproveMakes DEF Next, Work

----------------------------------------------------------------------------
(* Approvals.                                                              *)

SafeInv ==
    \A t \in Threads : \A c \in Checkpoints : Held(t, c) => CheckpointSafe(approvals, t, c)

LEMMA NothingHeldFirst == Init => \A t \in Threads : \A c \in Checkpoints : ~Held(t, c)
<1> SUFFICES ASSUME Init, NEW t \in Threads, NEW c \in Checkpoints PROVE ~Held(t, c)
  OBVIOUS
<1>1. Empty[t] # c /\ NoCheckpoint # c /\ NoThread # t
  BY CheckpointAssumption, GraphAssumption DEF Empty
<1>2. QED
  BY <1>1 DEF Init, Held

LEMMA SafeInvStep == Shape /\ SafeInv /\ [Next]_vars => SafeInv'
<1> SUFFICES ASSUME Shape, SafeInv, [Next]_vars,
                    NEW t \in Threads, NEW d \in Checkpoints, Held(t, d)'
             PROVE  CheckpointSafe(approvals', t, d)
  BY DEF SafeInv
<1>1. Kept /\ Made(t, d)
  BY StepMakes DEF Makes
<1>2. ASSUME NEW c \in Checkpoints, Held(t, c) PROVE CheckpointSafe(approvals', t, c)
  BY <1>1, <1>2, MoreApprovals DEF SafeInv, Kept
<1>3. CASE Begun(t, d)
  BY <1>3, FirstIsSafe DEF Begun, First, Shape
<1>4. ASSUME NEW c \in Checkpoints, Held(t, c), Ran(t, c, d)
      PROVE  CheckpointSafe(approvals', t, d)
  <2>1. PICK a \in Answers : d = WithWrites(c, a) \/ d = NextCheckpoint(WithWrites(c, a))
    BY <1>4 DEF Ran
  <2> DEFINE w == WithWrites(c, a)
  <2>2. CheckpointSafe(approvals', t, c) /\ c.next # "end"
    BY <1>2, <1>4 DEF Ran
  <2>3. CheckpointSafe(approvals', t, w)
    BY <2>2, WritesAreSafe
  <2>4. w.writes # NoValues => CheckpointSafe(approvals', t, NextCheckpoint(w))
    BY <2>3, NextIsSafe
  <2>5. w.writes \in GraphState
    BY <2>2, WritesTyped
  <2>6. QED
    BY <2>1, <2>3, <2>4, <2>5, CheckpointAssumption
<1>5. ASSUME NEW c \in Checkpoints, Held(t, c), Applied(c, d)
      PROVE  CheckpointSafe(approvals', t, d)
  BY <1>2, <1>5, NextIsSafe DEF Applied
<1>6. ASSUME NEW c \in Checkpoints, Held(t, c), Approved(t, c, d)
      PROVE  CheckpointSafe(approvals', t, d)
  BY <1>2, <1>6, ApprovedIsSafe DEF Approved
<1>7. QED
  BY <1>1, <1>2, <1>3, <1>4, <1>5, <1>6 DEF Made, Grown

(* A proposal that needs a human is final only in a run of its thread that *)
(* a human approved, in the file, in every process and on the way to the   *)
(* file (orchestrator.py, the human checkpoint; checkpointing.py).         *)
THEOREM FinalProposalsWereApproved == Spec => []FinalizedWasApproved
<1>1. Shape /\ SafeInv => FinalizedWasApproved
  <2> SUFFICES ASSUME Shape, SafeInv, NEW t \in Threads,
                      NEW c \in CheckpointsOf(t) \ {NoCheckpoint},
                      c.values.final, c.values.input.needs
               PROVE  <<t, c.run>> \in approvals
    BY DEF FinalizedWasApproved
  <2>1. CheckpointSafe(approvals, t, c)
    BY HeldIsMember, HeldTyped DEF SafeInv
  <2>2. QED
    BY <2>1 DEF CheckpointSafe, ValuesSafe
<1>2. Init => SafeInv
  BY NothingHeldFirst DEF SafeInv
<1>3. QED
  BY <1>1, <1>2, ShapeInit, StepMakes, SafeInvStep, PTL DEF Spec

----------------------------------------------------------------------------
(* Paths.                                                                  *)

PathInv ==
    \A t \in Threads : \A c \in Checkpoints : Held(t, c) => CheckpointFollows(graphOf[t], c)

LEMMA PathInvStep == Shape /\ PathInv /\ [Next]_vars => PathInv'
<1> SUFFICES ASSUME Shape, PathInv, [Next]_vars,
                    NEW t \in Threads, NEW d \in Checkpoints, Held(t, d)'
             PROVE  CheckpointFollows(graphOf'[t], d)
  BY DEF PathInv
<1>1. graphOf' = graphOf /\ Made(t, d)
  BY StepMakes DEF Makes, Kept
<1>2. ASSUME NEW c \in Checkpoints, Held(t, c) PROVE CheckpointFollows(graphOf[t], c)
  BY <1>2 DEF PathInv
<1>3. CASE Begun(t, d)
  <2>1. graphOf[t] \in Graphs /\ runs[t] + 1 \in Nat
    BY DEF Shape
  <2>2. QED
    BY <1>1, <1>3, <2>1, FirstFollows DEF Begun, First
<1>4. ASSUME NEW c \in Checkpoints, Held(t, c), Ran(t, c, d)
      PROVE  CheckpointFollows(graphOf[t], d)
  <2>1. PICK a \in Answers : d = WithWrites(c, a) \/ d = NextCheckpoint(WithWrites(c, a))
    BY <1>4 DEF Ran
  <2> DEFINE w == WithWrites(c, a)
  <2>2. CheckpointFollows(graphOf[t], c) /\ c.next # "end"
    BY <1>2, <1>4 DEF Ran
  <2>3. CheckpointFollows(graphOf[t], w)
    BY <2>2, WritesFollowValues
  <2>4. w.writes # NoValues => CheckpointFollows(graphOf[t], NextCheckpoint(w))
    BY <2>3, NextFollows
  <2>5. w.writes \in GraphState
    BY <2>2, WritesTyped
  <2>6. QED
    BY <2>1, <2>3, <2>4, <2>5, CheckpointAssumption
<1>5. ASSUME NEW c \in Checkpoints, Held(t, c), Applied(c, d)
      PROVE  CheckpointFollows(graphOf[t], d)
  BY <1>2, <1>5, NextFollows DEF Applied
<1>6. ASSUME NEW c \in Checkpoints, Held(t, c), Approved(t, c, d)
      PROVE  CheckpointFollows(graphOf[t], d)
  BY <1>2, <1>6, ApprovedFollows DEF Approved
<1>7. QED
  BY <1>1, <1>2, <1>3, <1>4, <1>5, <1>6 DEF Made, Grown

(* Every checkpoint has run a path through its graph from the entry to the *)
(* node it stands before, with no loop taken twice (orchestrator.py, the   *)
(* graphs; checkpointing.py, put and put_writes).                          *)
THEOREM TracesArePaths == Spec => []TraceIsPath
<1>1. Shape /\ PathInv => TraceIsPath
  <2> SUFFICES ASSUME Shape, PathInv, NEW t \in Threads,
                      NEW c \in CheckpointsOf(t) \ {NoCheckpoint}
               PROVE  /\ IsPath(graphOf[t], PathOf(c.values, c.next))
                      /\ \A n \in ToSet(c.values.trace) :
                            Visits(PathOf(c.values, c.next), n) <=
                            IF n \in {"code_strategy", "backtest", "critique",
                                      "generate_hypothesis", "score_feasibility"} THEN 2 ELSE 1
    BY DEF TraceIsPath, IsPath, PathOf, Visits
  <2>1. CheckpointFollows(graphOf[t], c)
    BY HeldIsMember, HeldTyped DEF PathInv
  <2>2. /\ c.values \in GraphState /\ c.next \in Nodes \cup {"end"}
        /\ c.values.trace \in Seq(Nodes) /\ c.values.trace \in Seq(Nodes \cup {"end"})
    BY <2>1, SeqMonotonic DEF CheckpointFollows, Checkpoints, GraphState
  <2>3. ASSUME NEW n \in Nodes
        PROVE  Visits(PathOf(c.values, c.next), n) <=
                  IF n \in {"code_strategy", "backtest", "critique",
                            "generate_hypothesis", "score_feasibility"} THEN 2 ELSE 1
    <3>1. Visits(PathOf(c.values, c.next), n) \in Nat
      BY <2>2, VisitsOfAppend, EmptySeq DEF PathOf
    <3>2. c.values.rejections \in 0 .. 1 /\ c.values.revisions \in 0 .. 1
      BY <2>2 DEF GraphState
    <3>3. Visits(PathOf(c.values, c.next), n) <= Loops(n, c.values) + 1
      <4>1. Visits(PathOf(c.values, c.next), n) <=
               Loops(n, c.values) + IF Place(n) <= Place(c.next) THEN 1 ELSE 0
        BY <2>1 DEF CheckpointFollows, Counted
      <4>2. Loops(n, c.values) \in 0 .. 1
        BY <3>2 DEF Loops
      <4>3. QED
        BY <3>1, <4>1, <4>2
    <3>4. QED
      BY <3>1, <3>2, <3>3 DEF Loops
  <2>4. ToSet(c.values.trace) \subseteq Nodes
    BY <2>2 DEF ToSet
  <2>5. IsPath(graphOf[t], PathOf(c.values, c.next))
    BY <2>1 DEF CheckpointFollows
  <2>6. QED
    BY <2>3, <2>4, <2>5
<1>2. Init => PathInv
  BY NothingHeldFirst DEF PathInv
<1>3. QED
  BY <1>1, <1>2, ShapeInit, StepMakes, PathInvStep, PTL DEF Spec

----------------------------------------------------------------------------
(* Records.                                                                *)

RecordOf(t, run, v) == [thread |-> t, run |-> run, id |-> v.answer]

Past(v) == Contains(v.trace, "update_llm_memory")

(* The values and the writes of a checkpoint that is past the memory node  *)
(* are recorded, and nothing was run before a node that asks the model.    *)
Recorded(written, t, c) ==
    /\ Past(c.values) => RecordOf(t, c.run, c.values) \in written
    /\ c.writes # NoValues /\ Past(c.writes) => RecordOf(t, c.run, c.writes) \in written
    /\ AsksModel(c.next) => c.values.trace = <<>>

RecordInv ==
    \A t \in Threads : \A c \in Checkpoints : Held(t, c) => Recorded(memory, t, c)

LEMMA PastAfter ==
    ASSUME NEW s \in Seq(Nodes), NEW n \in Nodes, NEW m
    PROVE  Contains(Append(s, n), m) <=> Contains(s, m) \/ n = m
<1>1. /\ Len(Append(s, n)) = Len(s) + 1 /\ Len(s) \in Nat
      /\ \A i \in 1 .. Len(s) : Append(s, n)[i] = s[i]
      /\ Append(s, n)[Len(s) + 1] = n
  OBVIOUS
<1>2. ASSUME Contains(s, m) \/ n = m PROVE Contains(Append(s, n), m)
  BY <1>1, <1>2 DEF Contains
<1>3. ASSUME Contains(Append(s, n), m) PROVE Contains(s, m) \/ n = m
  <2>1. PICK i \in 1 .. Len(s) + 1 : Append(s, n)[i] = m
    BY <1>1, <1>3 DEF Contains
  <2>2. CASE i = Len(s) + 1
    BY <1>1, <2>1, <2>2
  <2>3. CASE i \in 1 .. Len(s)
    BY <1>1, <2>1, <2>3 DEF Contains
  <2>4. QED
    BY <1>1, <2>2, <2>3
<1>4. QED
  BY <1>2, <1>3

LEMMA EntryIsUnrecorded ==
    ASSUME NEW written, NEW t \in Threads, NEW run, NEW in
    PROVE  Recorded(written, t, First(t, run, in))
<1> DEFINE d == First(t, run, in)
<1>1. d.values.trace = <<>> /\ d.writes = NoValues
  BY DEF First, FirstValues
<1>2. ~Past(d.values)
  BY <1>1 DEF Past, Contains
<1> HIDE DEF d
<1>3. QED
  BY <1>1, <1>2 DEF Recorded, d

LEMMA NextIsRecorded ==
    ASSUME NEW written, NEW t, NEW c, Recorded(written, t, c), c.writes # NoValues
    PROVE  Recorded(written, t, NextCheckpoint(c))
<1> DEFINE d == NextCheckpoint(c)
<1>1. /\ d.run = c.run /\ d.next = NextNode(c.next, c.writes) /\ d.values = c.writes
      /\ d.writes = NoValues
  BY DEF NextCheckpoint
<1>2. ~AsksModel(d.next)
  BY <1>1, NeverAskedAgain
<1> HIDE DEF d
<1>3. QED
  BY <1>1, <1>2 DEF Recorded, d

LEMMA WritesAreRecorded ==
    ASSUME NEW written, NEW t, NEW c \in Checkpoints, Recorded(written, t, c), c.next # "end",
           c.next = "update_llm_memory" => RecordOf(t, c.run, c.values) \in written,
           NEW a \in Answers
    PROVE  Recorded(written, t, WithWrites(c, a))
<1> DEFINE v == c.values
           n == c.next
           e == Effect(n, v, a)
           w == WithWrites(c, a)
<1>1. n \in Nodes /\ v \in GraphState /\ v.trace \in Seq(Nodes)
  BY DEF Checkpoints, GraphState
<1>2. e.trace = Append(v.trace, n) /\ (~AsksModel(n) => e.answer = v.answer)
  BY <1>1, EffectFollows DEF Answers
<1>3. w.run = c.run /\ w.next = n /\ w.values = v /\ w.writes = e
  BY WritesTyped
<1> HIDE DEF v, n, e, w
<1>4. Past(e) <=> Past(v) \/ n = "update_llm_memory"
  BY <1>1, <1>2, PastAfter DEF Past
<1>5. ASSUME Past(e) PROVE RecordOf(t, c.run, e) \in written
  <2>1. CASE AsksModel(n)
    <3>1. v.trace = <<>>
      BY <2>1 DEF Recorded, v, n
    <3>2. ~Past(v)
      BY <3>1 DEF Past, Contains
    <3>3. QED
      BY <1>4, <1>5, <2>1, <3>2 DEF AsksModel
  <2>2. CASE ~AsksModel(n)
    <3>1. RecordOf(t, c.run, e) = RecordOf(t, c.run, v)
      BY <1>2, <2>2 DEF RecordOf
    <3>2. RecordOf(t, c.run, v) \in written
      BY <1>4, <1>5 DEF Recorded, v, n
    <3>3. QED
      BY <3>1, <3>2
  <2>3. QED
    BY <2>1, <2>2
<1>6. QED
  BY <1>3, <1>5 DEF Recorded, v, n, w

LEMMA RecordInvStep == Shape /\ RecordInv /\ [Next]_vars => RecordInv'
<1> SUFFICES ASSUME Shape, RecordInv, [Next]_vars,
                    NEW t \in Threads, NEW d \in Checkpoints, Held(t, d)'
             PROVE  Recorded(memory', t, d)
  BY DEF RecordInv
<1>1. memory \subseteq memory' /\ Made(t, d)
  BY StepMakes DEF Makes, Kept
<1>2. ASSUME NEW c \in Checkpoints, Held(t, c) PROVE Recorded(memory', t, c)
  <2>1. Recorded(memory, t, c)
    BY <1>2 DEF RecordInv
  <2>2. QED
    BY <1>1, <2>1 DEF Recorded
<1>3. CASE Begun(t, d)
  BY <1>3, EntryIsUnrecorded DEF Begun
<1>4. ASSUME NEW c \in Checkpoints, Held(t, c), Ran(t, c, d)
      PROVE  Recorded(memory', t, d)
  <2>1. PICK a \in Answers : d = WithWrites(c, a) \/ d = NextCheckpoint(WithWrites(c, a))
    BY <1>4 DEF Ran
  <2> DEFINE w == WithWrites(c, a)
  <2>2. Recorded(memory', t, c) /\ c.next # "end"
    BY <1>2, <1>4 DEF Ran
  <2>3. c.next = "update_llm_memory" => RecordOf(t, c.run, c.values) \in memory'
    BY <1>4 DEF Ran, Remember, RecordOf
  <2>4. Recorded(memory', t, w)
    BY <2>2, <2>3, WritesAreRecorded
  <2>5. w.writes \in GraphState
    BY <2>2, WritesTyped
  <2>6. w.writes # NoValues
    BY <2>5, CheckpointAssumption
  <2> HIDE DEF w
  <2>7. Recorded(memory', t, NextCheckpoint(w))
    BY <2>4, <2>6, NextIsRecorded
  <2>8. QED
    BY <2>1, <2>4, <2>7 DEF w
<1>5. ASSUME NEW c \in Checkpoints, Held(t, c), Applied(c, d)
      PROVE  Recorded(memory', t, d)
  BY <1>2, <1>5, NextIsRecorded DEF Applied
<1>6. ASSUME NEW c \in Checkpoints, Held(t, c), Approved(t, c, d)
      PROVE  Recorded(memory', t, d)
  <2>1. /\ d.run = c.run /\ d.next = c.next /\ d.writes = c.writes /\ c.writes = NoValues
        /\ d.values.trace = c.values.trace /\ d.values.answer = c.values.answer
    BY <1>6 DEF Approved, Checkpoints, GraphState
  <2>2. RecordOf(t, d.run, d.values) = RecordOf(t, c.run, c.values)
    BY <2>1 DEF RecordOf
  <2>3. Recorded(memory', t, c)
    BY <1>2, <1>6
  <2>4. QED
    BY <2>1, <2>2, <2>3 DEF Recorded, Past
<1>7. QED
  BY <1>1, <1>2, <1>3, <1>4, <1>5, <1>6 DEF Made, Grown

(* A checkpoint that is past update_llm_memory, wherever it is, was made   *)
(* after the record of the answer it holds was written, whatever kills     *)
(* lost (orchestrator.py, update_llm_memory; checkpointing.py, put).       *)
THEOREM AnswersAreRecorded == Spec => []AnswerWasRecorded
<1>1. Shape /\ RecordInv => AnswerWasRecorded
  <2> SUFFICES ASSUME Shape, RecordInv, NEW t \in Threads,
                      NEW c \in CheckpointsOf(t) \ {NoCheckpoint},
                      Contains(c.values.trace, "update_llm_memory")
               PROVE  [thread |-> t, run |-> c.run, id |-> c.values.answer] \in memory
    BY DEF AnswerWasRecorded
  <2>1. Recorded(memory, t, c)
    BY HeldIsMember, HeldTyped DEF RecordInv
  <2>2. QED
    BY <2>1 DEF Recorded, Past, RecordOf
<1>2. Init => RecordInv
  BY NothingHeldFirst DEF RecordInv
<1>3. QED
  BY <1>1, <1>2, ShapeInit, StepMakes, RecordInvStep, PTL DEF Spec

----------------------------------------------------------------------------
(* One process at a time.                                                  *)

(* A checkpoint is of a later run than another, or has run further in it.  *)
Ahead(c, d) ==
    d # NoCheckpoint =>
        /\ c # NoCheckpoint
        /\ c.run > d.run \/ (c.run = d.run /\ IsPrefix(d.values.trace, c.values.trace))

(* What a process's copy has of a thread, what waits to be put, in order,  *)
(* and what its loop has reached: each is ahead of those before it.        *)
Ordered(m, s, l) ==
    /\ \A i \in 1 .. Len(s) : Ahead(s[i], m)
    /\ \A i, j \in 1 .. Len(s) : i <= j => Ahead(s[j], s[i])
    /\ l # NoCheckpoint => Ahead(l, m) /\ \A i \in 1 .. Len(s) : Ahead(l, s[i])

OrderedAt(p) == at[p] # NoThread => Ordered(mem[p][at[p]], queue[p], live[p])

(* The only process is never behind the file, nor what it is still to put  *)
(* behind its copy.                                                        *)
Sole == \A p, q \in up : p = q

Fresh == \A p \in Procs, t \in Threads : p \in up => Ahead(mem[p][t], disk[t])

AloneInv == ~overlapped => Sole /\ Fresh /\ \A p \in Procs : OrderedAt(p)

(* What a step of it does.                                                 *)
Forward == \A t \in Threads : Ahead(disk'[t], disk[t])

AloneStep == AloneInv' /\ (~overlapped' => Forward)

RunsInv == \A t \in Threads : \A c \in Checkpoints : Held(t, c) => c.run <= runs[t]

LEMMA PrefixByElements ==
    ASSUME NEW S, NEW s \in Seq(S), NEW t \in Seq(S)
    PROVE  IsPrefix(s, t) <=> Len(s) <= Len(t) /\ \A i \in 1 .. Len(s) : s[i] = t[i]
<1>1. Len(s) \in Nat /\ Len(t) \in Nat /\ \A i \in 1 .. Len(s) : s[i] \in S
  BY ElementOfSeq
<1>2. /\ SubSeq(s, 1, Len(s)) \in Seq(S) /\ Len(SubSeq(s, 1, Len(s))) = Len(s)
      /\ \A i \in 1 .. Len(s) : SubSeq(s, 1, Len(s))[i] = s[i]
  BY <1>1, SubSeqProperties
<1>3. ASSUME Len(s) <= Len(t)
      PROVE  /\ SubSeq(t, 1, Len(s)) \in Seq(S) /\ Len(SubSeq(t, 1, Len(s))) = Len(s)
             /\ \A i \in 1 .. Len(s) : SubSeq(t, 1, Len(s))[i] = t[i]
  <2>1. \A i \in 1 .. Len(s) : t[i] \in S
    BY <1>1, <1>3, ElementOfSeq
  <2>2. QED
    BY <1>1, <2>1, SubSeqProperties
<1>4. ASSUME IsPrefix(s, t) PROVE Len(s) <= Len(t) /\ \A i \in 1 .. Len(s) : s[i] = t[i]
  BY <1>2, <1>3, <1>4 DEF IsPrefix
<1>5. ASSUME Len(s) <= Len(t), \A i \in 1 .. Len(s) : s[i] = t[i] PROVE IsPrefix(s, t)
  <2> DEFINE a == SubSeq(s, 1, Len(s))
             b == SubSeq(t, 1, Len(s))
  <2>1. /\ a \in Seq(S) /\ b \in Seq(S) /\ Len(a) = Len(b)
        /\ \A i \in 1 .. Len(a) : a[i] = b[i]
    BY <1>2, <1>3, <1>5
  <2> HIDE DEF a, b
  <2>2. a = b
    BY <2>1, SeqEqual
  <2>3. QED
    BY <1>5, <2>2 DEF IsPrefix, a, b
<1>6. QED
  BY <1>4, <1>5

LEMMA TraceOfCheckpoint ==
    ASSUME NEW c \in Checkpoints PROVE c.run \in Nat /\ c.values.trace \in Seq(Nodes)
  BY DEF Checkpoints, GraphState

LEMMA AheadOfItself ==
    ASSUME NEW c \in MaybeCheckpoints PROVE Ahead(c, c)
<1>1. CASE c \in Checkpoints
  BY <1>1, TraceOfCheckpoint, PrefixByElements DEF Ahead
<1>2. QED
  BY <1>1 DEF Ahead, MaybeCheckpoints

LEMMA AheadOfAll ==
    ASSUME NEW b \in MaybeCheckpoints, NEW c \in MaybeCheckpoints,
           NEW d \in MaybeCheckpoints, Ahead(b, c), Ahead(c, d)
    PROVE  Ahead(b, d)
<1> SUFFICES ASSUME d # NoCheckpoint PROVE Ahead(b, d)
  BY DEF Ahead
<1>1. /\ b \in Checkpoints /\ c \in Checkpoints /\ d \in Checkpoints
  BY DEF Ahead, MaybeCheckpoints
<1>2. /\ b.run \in Nat /\ b.values.trace \in Seq(Nodes)
      /\ c.run \in Nat /\ c.values.trace \in Seq(Nodes)
      /\ d.run \in Nat /\ d.values.trace \in Seq(Nodes)
  BY <1>1, TraceOfCheckpoint
<1>3. b # NoCheckpoint /\ c # NoCheckpoint
  BY DEF Ahead
<1>4. CASE b.run > c.run \/ c.run > d.run
  BY <1>2, <1>3, <1>4 DEF Ahead
<1>5. CASE b.run = c.run /\ c.run = d.run
  <2> DEFINE r == b.values.trace
             s == c.values.trace
             t == d.values.trace
  <2>1. IsPrefix(t, s) /\ IsPrefix(s, r)
    BY <1>2, <1>3, <1>5 DEF Ahead
  <2> HIDE DEF r, s, t
  <2>2. Len(t) <= Len(s) /\ \A i \in 1 .. Len(t) : t[i] = s[i]
    BY <1>2, <2>1, PrefixByElements DEF r, s, t
  <2>3. Len(s) <= Len(r) /\ \A i \in 1 .. Len(s) : s[i] = r[i]
    BY <1>2, <2>1, PrefixByElements DEF r, s, t
  <2>4. Len(t) <= Len(r) /\ \A i \in 1 .. Len(t) : t[i] = r[i]
    <3>1. Len(t) \in Nat /\ Len(s) \in Nat /\ Len(r) \in Nat
      BY <1>2 DEF r, s, t
    <3>2. QED
      BY <2>2, <2>3, <3>1
  <2>5. IsPrefix(t, r)
    BY <1>2, <2>4, PrefixByElements DEF r, s, t
  <2>6. QED
    BY <1>3, <1>5, <2>5 DEF Ahead, r, t
<1>6. QED
  BY <1>2, <1>3, <1>4, <1>5 DEF Ahead

LEMMA RunsInvStep == Shape /\ RunsInv /\ [Next]_vars => RunsInv'
<1> SUFFICES ASSUME Shape, RunsInv, [Next]_vars,
                    NEW t \in Threads, NEW d \in Checkpoints, Held(t, d)'
             PROVE  d.run <= runs'[t]
  BY DEF RunsInv
<1>1. /\ runs[t] \in Nat /\ runs'[t] \in Nat /\ runs[t] <= runs'[t] /\ Made(t, d)
  BY StepMakes DEF Makes, Kept, Shape
<1>2. ASSUME NEW c \in Checkpoints, Held(t, c) PROVE c.run <= runs'[t]
  <2>1. c.run <= runs[t] /\ c.run \in Nat
    BY <1>2, TraceOfCheckpoint DEF RunsInv
  <2>2. QED
    BY <1>1, <2>1
<1>3. CASE Begun(t, d)
  BY <1>1, <1>3 DEF Begun, First
<1>4. ASSUME NEW c \in Checkpoints, Held(t, c), Grown(t, c, d) PROVE d.run = c.run
  <2>1. CASE Ran(t, c, d)
    <3>1. PICK a \in Answers : d = WithWrites(c, a) \/ d = NextCheckpoint(WithWrites(c, a))
      BY <2>1 DEF Ran
    <3>2. WithWrites(c, a).run = c.run
      BY <2>1, WritesTyped DEF Ran
    <3>3. QED
      BY <3>1, <3>2 DEF NextCheckpoint
  <2>2. CASE Applied(c, d)
    BY <2>2 DEF Applied, NextCheckpoint
  <2>3. CASE Approved(t, c, d)
    BY <2>3 DEF Approved, Checkpoints
  <2>4. QED
    BY <1>4, <2>1, <2>2, <2>3 DEF Grown
<1>5. QED
  BY <1>1, <1>2, <1>3, <1>4 DEF Made

LEMMA NothingOrdered == ASSUME NEW m PROVE Ordered(m, <<>>, NoCheckpoint)
<1> DEFINE s == <<>>
<1>1. Len(s) = 0
  OBVIOUS
<1> HIDE DEF s
<1>2. Ordered(m, s, NoCheckpoint)
  BY <1>1 DEF Ordered
<1>3. QED
  BY <1>2 DEF s

(* What is ahead of the loop is ahead of all that it is ahead of.          *)
LEMMA AheadOfLoop ==
    ASSUME NEW m \in MaybeCheckpoints, NEW s \in Seq(Checkpoints), NEW l \in Checkpoints,
           Ordered(m, s, l), NEW d \in Checkpoints, Ahead(d, l)
    PROVE  Ahead(d, m) /\ \A i \in 1 .. Len(s) : Ahead(d, s[i])
<1>1. l # NoCheckpoint /\ l \in MaybeCheckpoints /\ d \in MaybeCheckpoints
  BY CheckpointAssumption DEF MaybeCheckpoints
<1>2. Ahead(l, m) /\ \A i \in 1 .. Len(s) : Ahead(l, s[i])
  BY <1>1 DEF Ordered
<1>3. Ahead(d, m)
  BY <1>1, <1>2, AheadOfAll
<1>4. ASSUME NEW i \in 1 .. Len(s) PROVE Ahead(d, s[i])
  <2>1. s[i] \in MaybeCheckpoints
    BY ElementOfSeq DEF MaybeCheckpoints
  <2>2. QED
    BY <1>1, <1>2, <2>1, AheadOfAll
<1>5. QED
  BY <1>3, <1>4

LEMMA OrderedAppend ==
    ASSUME NEW m \in MaybeCheckpoints, NEW s \in Seq(Checkpoints), NEW l, Ordered(m, s, l),
           NEW d \in Checkpoints, Ahead(d, m), \A i \in 1 .. Len(s) : Ahead(d, s[i])
    PROVE  Ordered(m, Append(s, d), d)
<1> DEFINE r == Append(s, d)
<1>1. /\ Len(r) = Len(s) + 1 /\ Len(s) \in Nat /\ r[Len(s) + 1] = d
      /\ \A i \in 1 .. Len(s) : r[i] = s[i]
  OBVIOUS
<1>2. Ahead(d, d)
  BY AheadOfItself DEF MaybeCheckpoints
<1> HIDE DEF r
<1>3. \A i \in 1 .. Len(r) : Ahead(d, r[i]) /\ Ahead(r[i], m)
  BY <1>1, <1>2 DEF Ordered
<1>4. ASSUME NEW i \in 1 .. Len(r), NEW j \in 1 .. Len(r), i <= j PROVE Ahead(r[j], r[i])
  <2>1. CASE j = Len(s) + 1
    BY <1>1, <1>3, <2>1
  <2>2. CASE j # Len(s) + 1
    <3>1. i \in 1 .. Len(s) /\ j \in 1 .. Len(s)
      BY <1>1, <1>4, <2>2
    <3>2. Ahead(s[j], s[i])
      BY <1>4, <3>1 DEF Ordered
    <3>3. QED
      BY <1>1, <3>1, <3>2
  <2>3. QED
    BY <2>1, <2>2
<1>5. Ordered(m, r, d)
  BY <1>3, <1>4 DEF Ordered
<1>6. QED
  BY <1>5 DEF r

(* The head of the queue is put.                                           *)
LEMMA OrderedTail ==
    ASSUME NEW m, NEW s \in Seq(Checkpoints), s # <<>>, NEW l, Ordered(m, s, l)
    PROVE  Ordered(Head(s), Tail(s), l)
<1> DEFINE r == Tail(s)
<1>1. /\ Len(r) = Len(s) - 1 /\ Len(s) \in Nat \ {0}
      /\ \A i \in 1 .. Len(r) : r[i] = s[i + 1]
  BY HeadTailProperties, EmptySeq
<1>2. Head(s) = s[1]
  OBVIOUS
<1> HIDE DEF r
<1>3. 1 \in 1 .. Len(s) /\ \A i \in 1 .. Len(r) : i + 1 \in 1 .. Len(s) /\ 1 <= i + 1
  BY <1>1
<1>4. \A i \in 1 .. Len(r) : Ahead(r[i], Head(s))
  BY <1>1, <1>2, <1>3 DEF Ordered
<1>5. \A i, j \in 1 .. Len(r) : i <= j => Ahead(r[j], r[i])
  <2> SUFFICES ASSUME NEW i \in 1 .. Len(r), NEW j \in 1 .. Len(r), i <= j
               PROVE  Ahead(r[j], r[i])
    OBVIOUS
  <2>1. i + 1 \in 1 .. Len(s) /\ j + 1 \in 1 .. Len(s) /\ i + 1 <= j + 1
    BY <1>3
  <2>2. Ahead(s[j + 1], s[i + 1])
    BY <2>1 DEF Ordered
  <2>3. QED
    BY <1>1, <2>2
<1>6. l # NoCheckpoint => Ahead(l, Head(s)) /\ \A i \in 1 .. Len(r) : Ahead(l, r[i])
  BY <1>1, <1>2, <1>3 DEF Ordered
<1>7. QED
  BY <1>4, <1>5, <1>6 DEF Ordered, r

LEMMA Appended ==
    ASSUME NEW s \in Seq(Checkpoints), NEW w \in Checkpoints, NEW n \in Checkpoints
    PROVE  /\ s \o Append(<<>>, n) = Append(s, n)
           /\ s \o Append(<<w>>, n) = Append(Append(s, w), n)
<1>1. Append(<<>>, n) = <<n>> /\ s \o <<n>> = Append(s, n)
  BY AppendIsConcat
<1>2. Append(<<w>>, n) = <<w>> \o <<n>> /\ <<w>> \in Seq(Checkpoints) /\ <<n>> \in Seq(Checkpoints)
  BY AppendIsConcat
<1>3. s \o (<<w>> \o <<n>>) = (s \o <<w>>) \o <<n>>
  BY <1>2, ConcatAssociative
<1>4. s \o <<w>> = Append(s, w) /\ Append(s, w) \in Seq(Checkpoints)
  BY AppendIsConcat, AppendProperties
<1>5. Append(s, w) \o <<n>> = Append(Append(s, w), n)
  BY <1>4, AppendIsConcat
<1>6. QED
  BY <1>1, <1>2, <1>3, <1>4, <1>5

(* A step of the loop of a process, which leaves its copy and the file.    *)
LEMMA LoopAlone ==
    ASSUME Shape, AloneInv, NEW p \in Procs, p \in up,
           UNCHANGED <<disk, mem, up, overlapped>>,
           \A q \in Procs : q # p => at'[q] = at[q],
           overlapped \/ OrderedAt(p)'
    PROVE  AloneStep
<1>1. Forward
  BY AheadOfItself DEF Forward, Shape
<1>2. ASSUME ~overlapped' PROVE Sole' /\ Fresh' /\ \A q \in Procs : OrderedAt(q)'
  <2>1. Sole /\ Fresh /\ OrderedAt(p)'
    BY <1>2 DEF AloneInv
  <2>2. Sole' /\ Fresh'
    BY <2>1 DEF Sole, Fresh
  <2>3. ASSUME NEW q \in Procs, q # p PROVE OrderedAt(q)'
    <3>1. at'[q] = NoThread
      BY <2>1, <2>3 DEF Sole, Shape
    <3>2. QED
      BY <3>1 DEF OrderedAt
  <2>4. QED
    BY <2>1, <2>2, <2>3
<1>3. QED
  BY <1>1, <1>2 DEF AloneStep, AloneInv

(* A put of a checkpoint that is ahead of what the copy has.               *)
LEMMA PutAlone ==
    ASSUME Shape, AloneInv, NEW p \in Procs, p \in up, NEW t \in Threads,
           NEW c \in Checkpoints, Put(p, t, c), UNCHANGED <<up, at, overlapped>>,
           overlapped \/ Ahead(c, mem[p][t]),
           overlapped \/ OrderedAt(p)'
    PROVE  AloneStep
<1>1. /\ mem' \in [Procs -> [Threads -> MaybeCheckpoints]]
      /\ disk' \in [Threads -> MaybeCheckpoints]
      /\ mem'[p][t] = c
      /\ \A u \in Threads : u # t => mem'[p][u] = mem[p][u]
      /\ disk' = disk \/ disk' = mem'[p]
  BY PutChanges
<1>2. ASSUME ~overlapped' PROVE Sole' /\ Fresh' /\ Forward /\ \A q \in Procs : OrderedAt(q)'
  <2>1. Sole /\ Fresh /\ OrderedAt(p)' /\ Ahead(c, mem[p][t])
    BY <1>2 DEF AloneInv
  <2>2. ASSUME NEW u \in Threads PROVE Ahead(mem'[p][u], disk[u])
    <3>1. Ahead(mem[p][u], disk[u])
      BY <2>1 DEF Fresh
    <3>2. /\ mem[p][u] \in MaybeCheckpoints /\ disk[u] \in MaybeCheckpoints
          /\ c \in MaybeCheckpoints
      BY DEF Shape, MaybeCheckpoints
    <3>3. CASE u = t
      BY <1>1, <2>1, <3>1, <3>2, <3>3, AheadOfAll
    <3>4. QED
      BY <1>1, <3>1, <3>3
  <2>3. ASSUME NEW u \in Threads PROVE Ahead(mem'[p][u], disk'[u]) /\ Ahead(disk'[u], disk[u])
    <3>1. mem'[p][u] \in MaybeCheckpoints /\ disk[u] \in MaybeCheckpoints
      BY <1>1 DEF Shape
    <3>2. Ahead(mem'[p][u], mem'[p][u]) /\ Ahead(disk[u], disk[u])
      BY <3>1, AheadOfItself
    <3>3. disk'[u] = disk[u] \/ disk'[u] = mem'[p][u]
      BY <1>1
    <3>4. QED
      BY <2>2, <3>2, <3>3
  <2>4. Sole'
    BY <2>1 DEF Sole
  <2>5. \A q \in Procs : q \in up' => q = p
    BY <2>1 DEF Sole
  <2>6. Fresh'
    BY <2>3, <2>5 DEF Fresh
  <2>7. ASSUME NEW q \in Procs, q # p PROVE OrderedAt(q)'
    <3>1. at'[q] = NoThread
      BY <2>5, <2>7 DEF Shape
    <3>2. QED
      BY <3>1 DEF OrderedAt
  <2>8. QED
    BY <2>1, <2>3, <2>4, <2>6, <2>7 DEF Forward
<1>3. QED
  BY <1>2 DEF AloneStep, AloneInv

LEMMA StartAlone ==
    ASSUME Shape, AloneInv, NEW p \in Procs, Start(p)
    PROVE  AloneStep
<1>1. /\ mem' = [mem EXCEPT ![p] = disk] /\ up' = up \cup {p} /\ p \notin up
      /\ overlapped' = (overlapped \/ up # {})
      /\ UNCHANGED <<disk, at, live, queue>>
  BY DEF Start, Load, fileVars
<1>2. Forward
  BY <1>1, AheadOfItself DEF Forward, Shape
<1>3. ASSUME ~overlapped' PROVE Sole' /\ Fresh' /\ \A q \in Procs : OrderedAt(q)'
  <2>1. up = {} /\ up' = {p} /\ mem'[p] = disk
    BY <1>1, <1>3 DEF Shape
  <2>2. Sole'
    BY <2>1 DEF Sole
  <2>3. \A t \in Threads : Ahead(disk[t], disk[t])
    BY AheadOfItself DEF Shape
  <2>4. Fresh'
    BY <1>1, <2>1, <2>3 DEF Fresh
  <2>5. \A q \in Procs : at'[q] = NoThread
    BY <1>1, <2>1 DEF Shape
  <2>6. QED
    BY <2>2, <2>4, <2>5 DEF OrderedAt
<1>4. QED
  BY <1>2, <1>3 DEF AloneStep, AloneInv

LEMMA CrashAlone ==
    ASSUME Shape, AloneInv, NEW p \in Procs, Crash(p)
    PROVE  AloneStep
<1>1. /\ mem' = [mem EXCEPT ![p] = Empty] /\ up' = up \ {p} /\ p \in up
      /\ at' = [at EXCEPT ![p] = NoThread]
      /\ UNCHANGED <<disk, overlapped>>
  BY DEF Crash, fileVars, historyVars
<1>2. Forward
  BY <1>1, AheadOfItself DEF Forward, Shape
<1>3. ASSUME ~overlapped' PROVE Sole' /\ Fresh' /\ \A q \in Procs : OrderedAt(q)'
  <2>1. up' = {}
    BY <1>1, <1>3 DEF AloneInv, Sole
  <2>2. \A q \in Procs : at'[q] = NoThread
    BY <1>1, <1>3 DEF AloneInv, Sole, Shape
  <2>3. QED
    BY <2>1, <2>2 DEF Sole, Fresh, OrderedAt
<1>4. QED
  BY <1>2, <1>3 DEF AloneStep, AloneInv

LEMMA LeaveAlone ==
    ASSUME Shape, AloneInv, NEW p \in Procs, Pause(p) \/ NodeRaises(p)
    PROVE  AloneStep
<1>1. /\ live' = [live EXCEPT ![p] = NoCheckpoint] /\ live[p] # NoCheckpoint
      /\ UNCHANGED <<disk, mem, up, at, queue, overlapped>>
  BY DEF Pause, NodeRaises, Leave, AtNode, fileVars, historyVars
<1>2. p \in up /\ live'[p] = NoCheckpoint
  BY <1>1 DEF Shape
<1>3. overlapped \/ OrderedAt(p)'
  BY <1>1, <1>2 DEF AloneInv, OrderedAt, Ordered
<1>4. QED
  BY <1>1, <1>2, <1>3, LoopAlone

LEMMA ReturnAlone ==
    ASSUME Shape, AloneInv, NEW p \in Procs, Return(p)
    PROVE  AloneStep
<1>1. /\ at' = [at EXCEPT ![p] = NoThread] /\ at[p] # NoThread
      /\ UNCHANGED <<disk, mem, up, overlapped>>
  BY DEF Return, fileVars, historyVars
<1>2. p \in up /\ at'[p] = NoThread /\ \A q \in Procs : q # p => at'[q] = at[q]
  BY <1>1 DEF Shape
<1>3. OrderedAt(p)'
  BY <1>2 DEF OrderedAt
<1>4. QED
  BY <1>1, <1>2, <1>3, LoopAlone

(* What is put becomes what the copy has, and the rest of the queue is     *)
(* ahead of it.                                                            *)
LEMMA PutNextAlone ==
    ASSUME Shape, AloneInv, NEW p \in Procs, PutNext(p)
    PROVE  AloneStep
<1> DEFINE t == at[p]
           s == queue[p]
           c == Head(s)
           m == mem[p][t]
           l == live[p]
<1>1. s \in Seq(Checkpoints) /\ s # <<>>
  BY DEF Shape, PutNext
<1>2. t \in Threads /\ p \in up
  BY <1>1 DEF Shape
<1>3. /\ Put(p, t, c) /\ queue' = [queue EXCEPT ![p] = Tail(@)]
      /\ UNCHANGED <<up, at, live, overlapped>>
  BY DEF PutNext
<1>4. queue'[p] = Tail(s)
  BY <1>3 DEF Shape
<1>5. t # NoThread
  BY <1>2, GraphAssumption
<1>6. OrderedAt(p) => Ordered(m, s, l)
  BY <1>5 DEF OrderedAt
<1>7. ASSUME Ordered(c, Tail(s), l), mem'[p][t] = c PROVE OrderedAt(p)'
  BY <1>3, <1>4, <1>7 DEF OrderedAt
<1> HIDE DEF s, t, l
<1>8. c \in Checkpoints /\ Len(s) \in Nat \ {0} /\ c = s[1]
  BY <1>1, HeadTailProperties, EmptySeq
<1> HIDE DEF c
<1>9. mem'[p][t] = c
  BY <1>2, <1>3, <1>8, PutChanges
<1> HIDE DEF m
<1>10. ASSUME ~overlapped PROVE OrderedAt(p)' /\ Ahead(c, m)
  <2>1. Ordered(m, s, l)
    BY <1>6, <1>10 DEF AloneInv
  <2>2. Ahead(c, m)
    BY <1>8, <2>1 DEF Ordered
  <2>3. Ordered(c, Tail(s), l)
    BY <1>1, <2>1, OrderedTail DEF c
  <2>4. QED
    BY <1>7, <1>9, <2>2, <2>3
<1>11. QED
  BY <1>2, <1>3, <1>8, <1>10, PutAlone DEF m

(* An approval puts only where nothing waits.                              *)
LEMMA ApproveAlone ==
    ASSUME Shape, AloneInv, NEW p \in Procs, NEW t \in Threads, Approve(p, t)
    PROVE  AloneStep
<1> DEFINE c == mem[p][t]
           n == [c EXCEPT !.values.approved = TRUE]
<1>1. /\ c # NoCheckpoint /\ Put(p, t, n) /\ p \in up /\ at[p] = NoThread
      /\ UNCHANGED <<up, at, overlapped>>
  BY DEF Approve, Idle
<1>2. c \in Checkpoints
  BY <1>1 DEF Shape, MaybeCheckpoints
<1>3. n \in Checkpoints /\ n.run = c.run /\ n.values.trace = c.values.trace
  BY <1>2 DEF Checkpoints, GraphState
<1>4. Ahead(c, c)
  BY <1>2, AheadOfItself DEF MaybeCheckpoints
<1> HIDE DEF n
<1>5. n # NoCheckpoint
  BY <1>3, CheckpointAssumption
<1>6. Ahead(n, c)
  BY <1>1, <1>3, <1>4, <1>5 DEF Ahead
<1>7. OrderedAt(p)'
  BY <1>1 DEF OrderedAt
<1>8. QED
  BY <1>1, <1>3, <1>6, <1>7, PutAlone

(* A new run is ahead of all that there is of its thread.                  *)
LEMMA InvokeAlone ==
    ASSUME Shape, RunsInv, AloneInv, NEW p \in Procs, NEW t \in Threads,
           NEW in \in InputsOf(graphOf[t]), Invoke(p, t, in)
    PROVE  AloneStep
<1> DEFINE m == mem[p][t]
           c == First(t, runs[t] + 1, in)
           none == <<>>
<1>1. /\ Reach(p, none, c) /\ p \in up /\ at[p] = NoThread
      /\ at' = [at EXCEPT ![p] = t]
      /\ UNCHANGED <<disk, mem, up, overlapped>>
  BY DEF Invoke, Idle, fileVars
<1>2. in \in Inputs
  BY GraphAssumption DEF InputsOf
<1>3. c \in Checkpoints /\ none \in Seq(Checkpoints) /\ c.run = runs[t] + 1 /\ runs[t] \in Nat
  BY <1>2, FirstTyped DEF First, Shape
<1>4. m \in MaybeCheckpoints /\ queue[p] = none
  BY <1>1 DEF Shape
<1>5. m # NoCheckpoint => m.run <= runs[t] /\ m.run \in Nat
  <2>1. ASSUME m # NoCheckpoint PROVE m \in Checkpoints /\ Held(t, m)
    BY <1>4, <2>1 DEF MaybeCheckpoints, Held
  <2>2. QED
    BY <2>1, TraceOfCheckpoint DEF RunsInv
<1> HIDE DEF c, m
<1>6. c # NoCheckpoint
  BY <1>3, CheckpointAssumption
<1>7. Ahead(c, m)
  BY <1>3, <1>5, <1>6 DEF Ahead
<1>8. live'[p] \in {c, NoCheckpoint} /\ queue'[p] = queue[p] \o Append(none, c)
  BY <1>1, <1>3, ReachChanges
<1>9. Append(none, c) = <<c>> /\ none \o <<c>> = <<c>>
  BY <1>3
<1>10. queue'[p] = <<c>>
  BY <1>4, <1>8, <1>9
<1>11. Ahead(c, c)
  BY <1>3, AheadOfItself DEF MaybeCheckpoints
<1>12. Ordered(m, <<c>>, live'[p])
  <2>1. Len(<<c>>) = 1 /\ \A i \in 1 .. 1 : <<c>>[i] = c
    OBVIOUS
  <2>2. QED
    BY <1>7, <1>8, <1>11, <2>1 DEF Ordered
<1>13. at'[p] = t /\ \A q \in Procs : q # p => at'[q] = at[q]
  BY <1>1 DEF Shape
<1>14. OrderedAt(p)'
  BY <1>1, <1>10, <1>12, <1>13 DEF OrderedAt, m
<1>15. QED
  BY <1>1, <1>13, <1>14, LoopAlone

LEMMA ResumeAlone ==
    ASSUME Shape, AloneInv, NEW p \in Procs, NEW t \in Threads, Resume(p, t)
    PROVE  AloneStep
<1> DEFINE m == mem[p][t]
<1>1. /\ at' = [at EXCEPT ![p] = t] /\ live' = [live EXCEPT ![p] = m]
      /\ p \in up /\ at[p] = NoThread
      /\ UNCHANGED <<disk, mem, up, queue, overlapped>>
  BY DEF Resume, Idle, fileVars
<1>2. /\ m \in MaybeCheckpoints /\ queue[p] = <<>> /\ live'[p] = m /\ at'[p] = t
      /\ \A q \in Procs : q # p => at'[q] = at[q]
  BY <1>1 DEF Shape
<1>3. Ahead(m, m)
  BY <1>2, AheadOfItself
<1>4. Ordered(m, <<>>, m)
  BY <1>3 DEF Ordered
<1>5. OrderedAt(p)'
  BY <1>1, <1>2, <1>4 DEF OrderedAt
<1>6. QED
  BY <1>1, <1>2, <1>5, LoopAlone

(* The writes of a node, and the checkpoint they become, are ahead of the  *)
(* checkpoint that it runs on.                                             *)
LEMMA WritesAhead ==
    ASSUME NEW c \in Checkpoints, c.next # "end", NEW a \in Answers
    PROVE  Ahead(WithWrites(c, a), c)
<1> DEFINE w == WithWrites(c, a)
<1>1. w \in Checkpoints /\ w.run = c.run /\ w.values = c.values
  BY WritesTyped
<1>2. Ahead(c, c)
  BY AheadOfItself DEF MaybeCheckpoints
<1> HIDE DEF w
<1>3. w # NoCheckpoint /\ c # NoCheckpoint
  BY <1>1, CheckpointAssumption
<1>4. QED
  BY <1>1, <1>2, <1>3 DEF Ahead, w

LEMMA NextAhead ==
    ASSUME NEW c \in Checkpoints, c.next # "end", c.writes \in GraphState,
           c.writes.trace = Append(c.values.trace, c.next)
    PROVE  Ahead(NextCheckpoint(c), c)
<1> DEFINE d == NextCheckpoint(c)
           s == c.values.trace
           r == Append(s, c.next)
<1>1. /\ d \in Checkpoints /\ d.run = c.run /\ d.values.trace = r
      /\ c.next \in Nodes /\ s \in Seq(Nodes)
  BY NextTyped, TraceOfCheckpoint DEF NextCheckpoint, Checkpoints
<1> HIDE DEF d, s
<1>2. r \in Seq(Nodes) /\ Len(s) <= Len(r) /\ \A i \in 1 .. Len(s) : s[i] = r[i]
  BY <1>1
<1> HIDE DEF r
<1>3. IsPrefix(s, r)
  BY <1>1, <1>2, PrefixByElements
<1>4. d # NoCheckpoint /\ c # NoCheckpoint
  BY <1>1, CheckpointAssumption
<1>5. QED
  BY <1>1, <1>3, <1>4 DEF Ahead, d, s

(* The writes are put before the checkpoint that they become.              *)
LEMMA RunNodeAlone ==
    ASSUME Shape, PathInv, AloneInv, NEW p \in Procs, RunNode(p)
    PROVE  AloneStep
<1> DEFINE t == at[p]
           c == live[p]
           m == mem[p][t]
           s == queue[p]
<1>1. /\ t \in Threads /\ p \in up /\ c \in Checkpoints /\ c.next # "end"
  BY LiveIsHeld DEF RunNode, AtNode
<1>2. PICK valid \in BOOLEAN, ok \in BOOLEAN :
         /\ answers' = IF AsksModel(c.next) THEN answers + 1 ELSE answers
         /\ LET w == WithWrites(c, [id |-> IF valid THEN answers' ELSE 0, accepted |-> ok])
            IN Reach(p, <<w>>, NextCheckpoint(w))
  BY DEF RunNode
<1> DEFINE a == [id |-> IF valid THEN answers' ELSE 0, accepted |-> ok]
           w == WithWrites(c, a)
           n == NextCheckpoint(w)
<1>3. Reach(p, <<w>>, n) /\ a \in Answers
  BY <1>2 DEF Shape, Answers
<1>4. /\ w \in Checkpoints /\ w.writes \in GraphState /\ w.next = c.next /\ w.values = c.values
      /\ w.writes = Effect(c.next, c.values, a)
  BY <1>1, <1>3, WritesTyped
<1>5. c.next \in Nodes /\ c.values \in GraphState
  BY <1>1 DEF Checkpoints
<1>6. w.writes.trace = Append(c.values.trace, c.next)
  <2>1. a \in [id : Nat, accepted : BOOLEAN]
    BY <1>3 DEF Answers
  <2> HIDE DEF a, c, w
  <2>2. Effect(c.next, c.values, a).trace = Append(c.values.trace, c.next)
    BY <1>5, <2>1, EffectFollows
  <2>3. QED
    BY <1>4, <2>2
<1>7. m \in MaybeCheckpoints /\ s \in Seq(Checkpoints) /\ t # NoThread
  BY <1>1, GraphAssumption DEF Shape
<1>8. UNCHANGED <<disk, mem, up, at, overlapped>>
  BY DEF RunNode
<1>9. OrderedAt(p) => Ordered(m, s, c)
  BY <1>7 DEF OrderedAt
<1>10. Ordered(m, queue'[p], live'[p]) => OrderedAt(p)'
  BY <1>8 DEF OrderedAt
<1> HIDE DEF a
<1>11. Ahead(w, c)
  BY <1>1, <1>3, WritesAhead
<1> HIDE DEF w
<1>12. Ahead(n, w) /\ n \in Checkpoints
  BY <1>1, <1>4, <1>6, NextAhead, NextTyped
<1> HIDE DEF t, c, m, s, n
<1>13. c # NoCheckpoint
  BY <1>1, CheckpointAssumption
<1>14. ASSUME Ordered(m, s, c) PROVE OrderedAt(p)'
  <2>1. Ahead(w, m) /\ \A i \in 1 .. Len(s) : Ahead(w, s[i])
    BY <1>1, <1>4, <1>7, <1>11, <1>13, <1>14, AheadOfLoop
  <2> DEFINE r == Append(s, w)
  <2>2. Ordered(m, r, w) /\ r \in Seq(Checkpoints)
    BY <1>4, <1>7, <1>14, <2>1, OrderedAppend
  <2> HIDE DEF r
  <2>3. w # NoCheckpoint
    BY <1>4, CheckpointAssumption
  <2>4. Ahead(n, m) /\ \A i \in 1 .. Len(r) : Ahead(n, r[i])
    BY <1>4, <1>7, <1>12, <2>2, <2>3, AheadOfLoop
  <2>5. Ordered(m, Append(r, n), n)
    BY <1>7, <1>12, <2>2, <2>4, OrderedAppend
  <2>6. <<w>> \in Seq(Checkpoints)
    BY <1>4
  <2>7. live'[p] \in {n, NoCheckpoint} /\ queue'[p] = s \o Append(<<w>>, n)
    BY <1>3, <1>12, <2>6, ReachChanges DEF s
  <2>8. queue'[p] = Append(r, n)
    BY <1>4, <1>7, <1>12, <2>7, Appended DEF r
  <2>9. Ordered(m, queue'[p], live'[p])
    BY <2>5, <2>7, <2>8 DEF Ordered
  <2>10. QED
    BY <1>10, <2>9
<1>15. overlapped \/ OrderedAt(p)'
  BY <1>9, <1>14 DEF AloneInv
<1>16. QED
  BY <1>1, <1>8, <1>15, LoopAlone

LEMMA CommitAlone ==
    ASSUME Shape, PathInv, AloneInv, NEW p \in Procs, Commit(p)
    PROVE  AloneStep
<1> DEFINE t == at[p]
           c == live[p]
           m == mem[p][t]
           s == queue[p]
           n == NextCheckpoint(c)
           none == <<>>
<1>1. /\ t \in Threads /\ p \in up /\ c \in Checkpoints /\ c.next # "end" /\ c.writes # NoValues
      /\ Held(t, c)
  BY LiveIsHeld DEF Commit
<1>2. /\ Reach(p, none, n) /\ UNCHANGED <<disk, mem, up, at, overlapped>>
  BY DEF Commit, fileVars, historyVars
<1>3. c.writes \in GraphState /\ c.writes.trace = Append(c.values.trace, c.next)
  <2>1. CheckpointFollows(graphOf[t], c)
    BY <1>1 DEF PathInv
  <2>2. QED
    BY <1>1, <2>1 DEF CheckpointFollows, WritesFollow, Checkpoints
<1>4. m \in MaybeCheckpoints /\ s \in Seq(Checkpoints) /\ t # NoThread
  BY <1>1, GraphAssumption DEF Shape
<1>5. OrderedAt(p) => Ordered(m, s, c)
  BY <1>4 DEF OrderedAt
<1>6. Ordered(m, queue'[p], live'[p]) => OrderedAt(p)'
  BY <1>2 DEF OrderedAt
<1> HIDE DEF c
<1>7. Ahead(n, c) /\ n \in Checkpoints
  BY <1>1, <1>3, NextAhead, NextTyped
<1> HIDE DEF t, m, s, n
<1>8. c # NoCheckpoint /\ none \in Seq(Checkpoints)
  BY <1>1, CheckpointAssumption
<1>9. ASSUME Ordered(m, s, c) PROVE OrderedAt(p)'
  <2>1. Ahead(n, m) /\ \A i \in 1 .. Len(s) : Ahead(n, s[i])
    BY <1>1, <1>4, <1>7, <1>8, <1>9, AheadOfLoop
  <2>2. Ordered(m, Append(s, n), n)
    BY <1>4, <1>7, <1>9, <2>1, OrderedAppend
  <2>3. live'[p] \in {n, NoCheckpoint} /\ queue'[p] = s \o Append(none, n)
    BY <1>2, <1>7, <1>8, ReachChanges DEF s
  <2>4. queue'[p] = Append(s, n)
    BY <1>1, <1>4, <1>7, <2>3, Appended
  <2>5. Ordered(m, queue'[p], live'[p])
    BY <2>2, <2>3, <2>4 DEF Ordered
  <2>6. QED
    BY <1>6, <2>5
<1>10. overlapped \/ OrderedAt(p)'
  BY <1>5, <1>9 DEF AloneInv
<1>11. QED
  BY <1>1, <1>2, <1>10, LoopAlone

LEMMA AloneInvStep == Shape /\ PathInv /\ RunsInv /\ AloneInv /\ [Next]_vars => AloneStep
<1> SUFFICES ASSUME Shape, PathInv, RunsInv, AloneInv, [Next]_vars PROVE AloneStep
  OBVIOUS
<1>1. CASE UNCHANGED vars
  <2>1. AloneInv'
    BY <1>1 DEF AloneInv, Sole, Fresh, OrderedAt, vars, fileVars, procVars, historyVars
  <2>2. Forward
    BY <1>1, AheadOfItself DEF Forward, Shape, vars, fileVars
  <2>3. QED
    BY <2>1, <2>2 DEF AloneStep
<1>2. QED
  BY <1>1, StartAlone, CrashAlone, LeaveAlone, ReturnAlone, PutNextAlone, InvokeAlone,
     ResumeAlone, RunNodeAlone, CommitAlone, ApproveAlone DEF Next, Work

(* With one process at a time, the file only moves forward: a crash, a     *)
(* failed dump or a restart never takes a thread back (checkpointing.py,   *)
(* put and put_writes; README, "durable workflow checkpoints").            *)
THEOREM ProgressEndures == Spec => ProgressIsDurable
<1>1. Init => AloneInv /\ RunsInv
  <2>1. ASSUME Init PROVE AloneInv
    BY <2>1 DEF Init, AloneInv, Sole, Fresh, OrderedAt
  <2>2. Init => RunsInv
    BY NothingHeldFirst DEF RunsInv
  <2>3. QED
    BY <2>1, <2>2
<1>2. Init => PathInv
  BY NothingHeldFirst DEF PathInv
<1>3. Shape /\ PathInv /\ RunsInv /\ AloneInv /\ [Next]_vars
        => [\A t \in Threads :
              ~overlapped' /\ disk[t] # NoCheckpoint =>
                  /\ disk'[t] # NoCheckpoint
                  /\ \/ disk'[t].run > disk[t].run
                     \/ /\ disk'[t].run = disk[t].run
                        /\ IsPrefix(disk[t].values.trace, disk'[t].values.trace)]_vars
  BY AloneInvStep DEF AloneStep, Forward, Ahead
<1>4. AloneStep => AloneInv'
  BY DEF AloneStep
<1>5. QED
  BY <1>1, <1>2, <1>3, <1>4, ShapeInit, StepMakes, PathInvStep, RunsInvStep, AloneInvStep, PTL
     DEF Spec, ProgressIsDurable

=============================================================================
