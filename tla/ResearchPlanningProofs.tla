------------------------ MODULE ResearchPlanningProofs ------------------------
(***************************************************************************)
(* What an answer of the model costs, for any numbers of attempts, answers *)
(* and commands: the three nested retries make at most their product of    *)
(* posts.                                                                  *)
(*                                                                         *)
(* The bound itself is not inductive.  The posts of the attempts that are  *)
(* over are counted by the attempt the command is at, those of the attempt *)
(* under way by the place of its call.                                     *)
(***************************************************************************)
EXTENDS ResearchPlanning, SequenceTheorems, FiniteSetTheorems, TLAPS

(* The most posts that a call can have made when it stands at a place.     *)
Spent(l) ==
    IF l = Unused THEN 0
    ELSE IF l.at = "responses" THEN (l.output - 1) * PostAttempts + (l.post - 1)
    ELSE IF l.at = "chat" THEN OutputAttempts * PostAttempts + (l.post - 1)
    ELSE CallBudget

(* Those of the attempts before, where the command asks again.             *)
Before(at, attempt) ==
    IF at \in {"health", "plan"} THEN (attempt - 1) * CallBudget ELSE 0

PlanInv == PlanTypeOK /\ posts <= Before(cmd.at, cmd.attempt) + Spent(link)

----------------------------------------------------------------------------
(* The adapter.                                                            *)

LEMMA NextMultiple ==
    ASSUME NEW a \in Nat, NEW k \in Nat
    PROVE  /\ a * k \in Nat
           /\ (a + 1) * k = a * k + k
  OBVIOUS

LEMMA Multiples ==
    ASSUME NEW a \in Nat, NEW b \in Nat, a <= b, NEW k \in Nat
    PROVE  a * k <= b * k
<1> DEFINE d == b - a
<1>1. d \in Nat /\ b = a + d
  OBVIOUS
<1>2. (a + d) * k = a * k + d * k
  BY <1>1
<1>3. d * k \in Nat /\ a * k \in Nat
  BY <1>1
<1> HIDE DEF d
<1>4. QED
  BY <1>1, <1>2, <1>3

LEMMA BudgetType == CallBudget \in Nat /\ OutputAttempts * PostAttempts \in Nat
  BY AttemptsAssumption DEF CallBudget

(* The places of a call, one by one.                                       *)
LEMMA PlacesAreLinks ==
    /\ {Unused, Text, Error, Fallback} \subseteq Links
    /\ \A n \in 1..PostAttempts, k \in 1..OutputAttempts : Place("responses", n, k) \in Links
    /\ Text # Unused /\ Error # Unused
    /\ \A n, k : Place("responses", n, k) # Unused /\ Place("chat", n, k) # Unused
<1>1. OutputAttempts \in 1..OutputAttempts /\ 1 \in 1..PostAttempts
  BY AttemptsAssumption
<1>2. Fallback \in Links
  BY <1>1 DEF Fallback, Links, Place
<1>3. \A n \in 1..PostAttempts, k \in 1..OutputAttempts : Place("responses", n, k) \in Links
  BY DEF Links, Place
<1>4. Text # Unused /\ Error # Unused
  BY DEF Text, Error, Unused, Place
<1>5. \A n, k : Place("responses", n, k) # Unused /\ Place("chat", n, k) # Unused
  BY DEF Unused, Place
<1>6. QED
  BY <1>2, <1>3, <1>4, <1>5 DEF Links

(* A call that starts has made no posts; one that is over, at most all.    *)
LEMMA SpentAtEnds ==
    /\ Spent(Unused) = 0
    /\ Spent(Place("responses", 1, 1)) = 0
    /\ Spent(Text) = CallBudget /\ Spent(Error) = CallBudget
<1>1. Spent(Place("responses", 1, 1)) = 0
  BY PlacesAreLinks, AttemptsAssumption DEF Spent, Place
<1>2. Text.at = "text" /\ Error.at = "error"
  BY DEF Text, Error, Place
<1>3. QED
  BY <1>1, <1>2, PlacesAreLinks DEF Spent

(* Whatever comes of a post, the place it leads to accounts for it.        *)
LEMMA PostIsCounted ==
    ASSUME NEW l \in Links, l.at \in {"responses", "chat"}, NEW m \in Outcomes(l)
    PROVE  /\ m \in Links /\ m # Unused
           /\ Spent(l) \in Nat /\ Spent(m) \in Nat
           /\ Spent(l) + 1 <= Spent(m)
<1> DEFINE P == PostAttempts
           O == OutputAttempts
<1>1. /\ l \in [at : {"responses", "chat"}, post : 1..P, output : 1..O]
      /\ l # Unused
      /\ P \in Nat \ {0} /\ O \in Nat \ {0}
  BY AttemptsAssumption DEF Links, Unused, Text, Error, Place
<1>2. /\ (l.output - 1) * P \in Nat
      /\ l.output * P = (l.output - 1) * P + P
      /\ l.output * P \in Nat
      /\ O * P \in Nat
      /\ l.output * P <= O * P
  <2>1. l.output \in Nat /\ l.output - 1 \in Nat /\ l.output <= O /\ (l.output - 1) + 1 = l.output
    BY <1>1
  <2>2. QED
    BY <2>1, <1>1, NextMultiple, Multiples
<1>3. l.post \in 1..P /\ l.output \in 1..O
  BY <1>1
<1>4. Spent(l) = IF l.at = "responses" THEN (l.output - 1) * P + (l.post - 1)
                 ELSE O * P + (l.post - 1)
  BY <1>1 DEF Spent
<1>5. CallBudget = O * P + P
  BY <1>1 DEF CallBudget
<1>6. Spent(l) \in Nat /\ Spent(l) + 1 <= CallBudget
  BY <1>1, <1>2, <1>3, <1>4, <1>5
<1>7. CASE m \in {Text, Error}
  BY <1>6, <1>7, PlacesAreLinks, SpentAtEnds, BudgetType
<1>8. CASE m = Lost(l) /\ m # Error
  <2>1. l.post < P /\ m = [l EXCEPT !.post = @ + 1]
    BY <1>8 DEF Lost
  <2>2. /\ m.at = l.at /\ m.output = l.output /\ m.post = l.post + 1
        /\ m \in [at : {"responses", "chat"}, post : 1..P, output : 1..O]
    BY <2>1, <1>1
  <2>3. m # Unused /\ m \in Links
    BY <2>2 DEF Links, Unused, Place
  <2>4. Spent(m) = IF m.at = "responses" THEN (m.output - 1) * P + (m.post - 1)
                   ELSE O * P + (m.post - 1)
    BY <2>2, <2>3 DEF Spent
  <2>5. Spent(m) = Spent(l) + 1
    BY <2>2, <2>4, <1>2, <1>3, <1>4
  <2>6. QED
    BY <2>3, <2>5, <1>6
<1>9. CASE m = Empty(l) /\ m # Error
  <2>1. l.at = "responses"
    BY <1>9 DEF Empty
  <2>2. CASE l.output < O
    <3>1. m = Place("responses", 1, l.output + 1)
      BY <1>9, <2>1, <2>2 DEF Empty
    <3>2. l.output + 1 \in 1..O /\ 1 \in 1..P
      BY <1>1, <1>3, <2>2
    <3>3. m \in Links /\ m # Unused
      BY <3>1, <3>2, PlacesAreLinks
    <3>4. m.at = "responses" /\ m.output = l.output + 1 /\ m.post = 1
      BY <3>1 DEF Place
    <3>5. Spent(m) = l.output * P
      <4>1. (l.output + 1) - 1 = l.output /\ 1 - 1 = 0
        BY <1>3
      <4>2. Spent(m) = ((l.output + 1) - 1) * P + (1 - 1)
        BY <3>3, <3>4 DEF Spent
      <4>3. QED
        BY <4>1, <4>2, <1>2
    <3>6. QED
      BY <3>3, <3>5, <2>1, <1>1, <1>2, <1>3, <1>4, <1>6
  <2>3. CASE ~(l.output < O)
    <3>1. m = Fallback
      BY <1>9, <2>1, <2>3 DEF Empty
    <3>2. m.at = "chat" /\ m.post = 1 /\ m \in Links /\ m # Unused
      BY <3>1, PlacesAreLinks DEF Fallback, Place
    <3>3. Spent(m) = O * P
      BY <3>2, <1>2 DEF Spent
    <3>4. QED
      BY <3>2, <3>3, <2>1, <1>1, <1>2, <1>3, <1>4, <1>6
  <2>4. QED
    BY <2>2, <2>3
<1>10. \/ m \in {Text, Error}
       \/ m = Lost(l) /\ m # Error
       \/ m = Empty(l) /\ m # Error
  BY DEF Outcomes
<1>11. QED
  BY <1>7, <1>8, <1>9, <1>10

----------------------------------------------------------------------------
(* The commands.                                                           *)

LEMMA BeforeType ==
    ASSUME NEW at, NEW n \in 1..AnswerAttempts
    PROVE  Before(at, n) \in Nat
<1>1. n - 1 \in Nat
  BY PlanningAssumption
<1>2. QED
  BY <1>1, BudgetType, NextMultiple DEF Before

(* The attempt after one that is over starts with all of its posts.        *)
LEMMA BeforeNext ==
    ASSUME NEW at \in {"health", "plan"}, NEW n \in 1..AnswerAttempts
    PROVE  Before(at, n + 1) = Before(at, n) + CallBudget
<1>1. n - 1 \in Nat /\ (n - 1) + 1 = n /\ (n + 1) - 1 = n
  BY PlanningAssumption
<1>2. n * CallBudget = (n - 1) * CallBudget + CallBudget
  BY <1>1, BudgetType, NextMultiple
<1>3. QED
  BY <1>1, <1>2 DEF Before

LEMMA CommandIsTyped ==
    ASSUME NEW kind \in Kinds, NEW input \in Inputs, NEW list
    PROVE  LET c == [Command(kind, input) EXCEPT !.todo = list]
           IN /\ DOMAIN c = DOMAIN Command("none", "none")
              /\ DOMAIN c.know = DOMAIN NothingKnown /\ c.know.refs = {}
              /\ c.kind = kind /\ c.input = input /\ c.at = "health" /\ c.attempt = 1
              /\ c.todo = list /\ c.queue = <<>> /\ c.batch = NoReport
  BY DEF Command, NothingKnown

LEMMA EndedIsTyped ==
    ASSUME NEW kind \in Kinds, NEW input \in Inputs, NEW exit
    PROVE  LET c == Ended(kind, input, exit)
           IN /\ DOMAIN c = DOMAIN Command("none", "none")
              /\ DOMAIN c.know = DOMAIN NothingKnown /\ c.know.refs = {}
              /\ c.kind = kind /\ c.input = input /\ c.at = "off" /\ c.attempt = 1
  BY DEF Ended, Command, NothingKnown

LEMMA PlanInvInit == Init => PlanInv
<1> SUFFICES ASSUME Init PROVE PlanInv
  OBVIOUS
<1>1. PICK i \in Inputs : cmd = Ended("plan-experiments", i, "none")
  BY DEF Init
<1>2. ledger \in Ledgers
  BY LedgerAssumption DEF Init
<1>3. "plan-experiments" \in Kinds /\ "off" \in Steps /\ 1 \in 1..AnswerAttempts
  BY PlanningAssumption DEF Kinds, Steps
<1>4. link = Unused /\ posts = 0 /\ started = 0 /\ written = 0 /\ Unused \in Links
  BY PlacesAreLinks DEF Init
<1>6. PlanTypeOK
  BY <1>1, <1>2, <1>3, <1>4, EndedIsTyped, PlanningAssumption DEF PlanTypeOK
<1>7. Before(cmd.at, cmd.attempt) \in Nat
  BY <1>6, BeforeType DEF PlanTypeOK
<1>8. QED
  BY <1>4, <1>6, <1>7, SpentAtEnds DEF PlanInv

(* Where the command does not wait for the model, no call is open and no   *)
(* post is counted.                                                        *)
LEMMA QuietPlaces ==
    ASSUME PlanInv, ~CallsModel(cmd.at)
    PROVE  link = Unused /\ posts = 0
  BY DEF PlanInv, PlanTypeOK

(* A command that goes on without the model keeps the bound.               *)
LEMMA QuietStep ==
    ASSUME PlanInv, PlanTypeOK', ~CallsModel(cmd.at), UNCHANGED adapterVars
    PROVE  PlanInv'
<1>1. Before(cmd'.at, cmd'.attempt) \in Nat
  BY BeforeType DEF PlanTypeOK
<1>2. link' = Unused /\ posts' = 0
  BY QuietPlaces DEF adapterVars
<1>3. QED
  BY <1>1, <1>2, SpentAtEnds DEF PlanInv

(* So does one that has its answer.                                        *)
LEMMA TakenStep ==
    ASSUME PlanTypeOK', Taken
    PROVE  PlanInv'
<1>1. Before(cmd'.at, cmd'.attempt) \in Nat
  BY BeforeType DEF PlanTypeOK
<1>2. QED
  BY <1>1, SpentAtEnds DEF PlanInv, Taken

(* And one that asks for the first time.                                   *)
LEMMA FirstCallStep ==
    ASSUME PlanTypeOK', Call, posts' = 0
    PROVE  PlanInv'
<1>1. Before(cmd'.at, cmd'.attempt) \in Nat
  BY BeforeType DEF PlanTypeOK
<1>2. QED
  BY <1>1, SpentAtEnds DEF PlanInv, Call

(* One that asks again has used up what an attempt may cost.               *)
LEMMA AskAgainStep ==
    ASSUME PlanInv, PlanTypeOK', Again, link = Text,
           cmd.at \in {"health", "plan"}, cmd'.at = cmd.at, cmd'.attempt = cmd.attempt + 1
    PROVE  PlanInv'
<1>1. posts <= Before(cmd.at, cmd.attempt) + CallBudget
  BY SpentAtEnds DEF PlanInv
<1>2. Before(cmd'.at, cmd'.attempt) = Before(cmd.at, cmd.attempt) + CallBudget
  BY BeforeNext DEF PlanInv, PlanTypeOK
<1>3. Before(cmd'.at, cmd'.attempt) \in Nat
  BY BeforeType DEF PlanTypeOK
<1>4. Spent(link') = 0 /\ posts' = posts
  BY SpentAtEnds DEF Again, Call
<1>5. QED
  BY <1>1, <1>2, <1>3, <1>4 DEF PlanInv

(* One that fails, or ends for another reason, forgets what it knew.       *)
LEMMA EndStep ==
    ASSUME PlanInv, NEW exit, End(exit), UNCHANGED <<ledger, started, written>>
    PROVE  PlanInv'
<1>1. cmd' = Ended(cmd.kind, cmd.input, exit) /\ link' = Unused /\ posts' = 0
  BY DEF End, Taken
<1>2. "off" \in Steps /\ 1 \in 1..AnswerAttempts
  BY PlanningAssumption DEF Steps
<1>3. cmd.kind \in Kinds /\ cmd.input \in Inputs
  BY DEF PlanInv, PlanTypeOK
<1>4. PlanTypeOK'
  BY <1>1, <1>2, <1>3, EndedIsTyped, PlacesAreLinks DEF PlanInv, PlanTypeOK
<1>5. QED
  BY <1>4, TakenStep DEF End

(* The families that a report is asked about.                              *)
Listed(kind, input) ==
    IF kind # "evidence-report" THEN {{}}
    ELSE IF input.family # NoFamily THEN {{input.family}} ELSE Lists

LEMMA Started ==
    ASSUME NEW kind, NEW input, Start(kind, input)
    PROVE  \E list \in Listed(kind, input) :
               cmd' = [Command(kind, input) EXCEPT !.todo = list]
  BY DEF Start, Listed

LEMMA StartsAnew ==
    ASSUME NEW kind \in Kinds, NEW input \in Inputs, Start(kind, input)
    PROVE  cmd'.know.refs = {} /\ cmd'.batch = NoReport
<1>1. PICK list : cmd' = [Command(kind, input) EXCEPT !.todo = list]
  BY Started
<1>2. QED
  BY <1>1, CommandIsTyped

LEMMA StartStep ==
    ASSUME PlanInv, NEW kind \in Kinds, NEW input \in Inputs, Start(kind, input)
    PROVE  PlanInv'
<1>1. /\ Call /\ posts' = 0 /\ started' = started + 1
      /\ started < MaxCommands /\ UNCHANGED <<ledger, written>>
      /\ \E list : cmd' = [Command(kind, input) EXCEPT !.todo = list]
  BY Started DEF Start
<1>2. started' \in 0..MaxCommands
  BY <1>1, PlanningAssumption DEF PlanInv, PlanTypeOK
<1>3. "health" \in Steps /\ 1 \in 1..AnswerAttempts /\ CallsModel("health")
  BY PlanningAssumption DEF Steps, CallsModel
<1>4. link' \in Links /\ link' # Unused
  BY <1>1, PlacesAreLinks, AttemptsAssumption DEF Call
<1>5. PlanTypeOK'
  BY <1>1, <1>2, <1>3, <1>4, CommandIsTyped DEF PlanInv, PlanTypeOK
<1>6. QED
  BY <1>1, <1>5, FirstCallStep

LEMMA PostStep ==
    ASSUME PlanInv, Post, UNCHANGED planVars
    PROVE  PlanInv'
<1>1. link \in Links /\ link.at \in {"responses", "chat"} /\ link' \in Outcomes(link)
  BY DEF PlanInv, PlanTypeOK, Post, Busy
<1>2. /\ link' \in Links /\ link' # Unused
      /\ Spent(link) \in Nat /\ Spent(link') \in Nat
      /\ Spent(link) + 1 <= Spent(link')
  BY <1>1, PostIsCounted
<1>3. posts \in Nat /\ posts' \in Nat /\ posts' <= posts + 1
  BY AttemptsAssumption DEF Post, PlanInv, PlanTypeOK
<1>4. link # Unused
  BY <1>1 DEF Unused, Place
<1>5. PlanTypeOK'
  BY <1>2, <1>3, <1>4 DEF PlanInv, PlanTypeOK, planVars
<1>6. Before(cmd.at, cmd.attempt) \in Nat /\ cmd' = cmd
  BY BeforeType DEF PlanInv, PlanTypeOK, planVars
<1>7. QED
  BY <1>2, <1>3, <1>5, <1>6 DEF PlanInv

(* The steps between calls: the place changes, the call does not.          *)
LEMMA BetweenCalls ==
    ASSUME PlanInv,
           \/ Review \/ Mark \/ MarkingDone \/ Save \/ WriteMarkdown
           \/ ReadLedgers \/ ReadTrades \/ ReadMemory \/ ReadContext \/ ReadSamples
    PROVE  PlanInv'
<1>1. ~CallsModel(cmd.at) /\ UNCHANGED <<ledger, started, written, adapterVars>>
  BY DEF Review, Mark, MarkingDone, ReadLedgers, ReadTrades, ReadMemory, ReadContext,
     ReadSamples, Save, WriteMarkdown, At, CallsModel
<1>2. /\ DOMAIN cmd' = DOMAIN cmd /\ DOMAIN cmd'.know = DOMAIN cmd.know
      /\ cmd'.kind = cmd.kind /\ cmd'.input = cmd.input /\ cmd'.attempt = cmd.attempt
      /\ cmd'.at \in Steps
  <2>1. DOMAIN cmd = DOMAIN Command("none", "none") /\ DOMAIN cmd.know = DOMAIN NothingKnown
    BY DEF PlanInv, PlanTypeOK
  <2>2. cmd.at \in Steps
    BY DEF PlanInv, PlanTypeOK
  <2>3. CASE Review
    BY <2>1, <2>3 DEF Review, Command, NothingKnown, Steps
  <2>4. CASE Mark
    BY <2>1, <2>2, <2>4 DEF Mark, Command, NothingKnown, Steps
  <2>5. CASE MarkingDone
    BY <2>1, <2>5 DEF MarkingDone, GoTo, Command, NothingKnown, Steps
  <2>6. CASE ReadLedgers \/ ReadTrades
    <3>1. \E e : \E at \in Steps : cmd' = [cmd EXCEPT !.at = at, !.know.evidence = e]
      BY <2>6 DEF ReadLedgers, ReadTrades, Steps
    <3>2. QED
      BY <2>1, <3>1 DEF Command, NothingKnown
  <2>11. CASE ReadContext \/ ReadSamples
    <3>1. \E e : \E at \in Steps : cmd' = [cmd EXCEPT !.at = at, !.know.refs = e]
      BY <2>11 DEF ReadContext, ReadSamples, Steps
    <3>2. QED
      BY <2>1, <3>1 DEF Command, NothingKnown
  <2>7. CASE ReadMemory
    BY <2>1, <2>7 DEF ReadMemory, Command, NothingKnown, Steps
  <2>8. CASE Save
    BY <2>1, <2>2, <2>8 DEF Save, Command, NothingKnown, Steps
  <2>9. CASE WriteMarkdown
    BY <2>1, <2>9 DEF WriteMarkdown, GoTo, Command, NothingKnown, Steps
  <2>10. QED
    BY <2>3, <2>4, <2>5, <2>6, <2>7, <2>8, <2>9, <2>11
<1>3. link = Unused /\ posts = 0
  BY <1>1, QuietPlaces
<1>4. PlanTypeOK'
  BY <1>1, <1>2, <1>3 DEF PlanInv, PlanTypeOK, adapterVars
<1>5. QED
  BY <1>1, <1>4, QuietStep

(* The steps that ask the model for the first time, or may.                *)
LEMMA FirstCalls ==
    ASSUME PlanInv, ReadSources \/ ReadStops \/ (Saved /\ cmd.kind = "evidence-report")
    PROVE  PlanInv'
<1>1. ~CallsModel(cmd.at) /\ UNCHANGED <<ledger, started, written>>
  BY DEF ReadSources, ReadStops, Saved, At, CallsModel
<1>2. link = Unused /\ posts = 0
  BY <1>1, QuietPlaces
<1>3. /\ DOMAIN cmd = DOMAIN Command("none", "none") /\ DOMAIN cmd.know = DOMAIN NothingKnown
      /\ cmd.attempt \in 1..AnswerAttempts /\ 1 \in 1..AnswerAttempts
      /\ cmd.kind \in Kinds /\ cmd.input \in Inputs /\ link \in Links
  BY PlanningAssumption DEF PlanInv, PlanTypeOK
<1>4. \/ Again /\ CallsModel(cmd'.at)
      \/ UNCHANGED adapterVars
  BY <1>3 DEF ReadSources, ReadStops, Saved, CallsModel, Command, At
<1>5. /\ DOMAIN cmd' = DOMAIN cmd /\ DOMAIN cmd'.know = DOMAIN cmd.know
      /\ cmd'.kind = cmd.kind /\ cmd'.input = cmd.input
      /\ cmd'.attempt \in 1..AnswerAttempts
      /\ cmd'.at \in Steps
  <2>1. CASE ReadSources
    BY <2>1, <1>3 DEF ReadSources, Command, NothingKnown, Steps
  <2>2. CASE ReadStops
    BY <2>2, <1>3 DEF ReadStops, Command, NothingKnown, Steps
  <2>3. CASE Saved /\ cmd.kind = "evidence-report"
    BY <2>3, <1>3 DEF Saved, Command, NothingKnown, Steps
  <2>4. QED
    BY <2>1, <2>2, <2>3
<1>6. CASE Again /\ CallsModel(cmd'.at)
  <2>1. link' \in Links /\ link' # Unused /\ posts' = 0
    BY <1>2, <1>6, PlacesAreLinks, AttemptsAssumption DEF Again, Call
  <2>2. PlanTypeOK'
    BY <1>1, <1>3, <1>5, <1>6, <2>1 DEF PlanInv, PlanTypeOK
  <2>3. QED
    BY <1>6, <2>1, <2>2, FirstCallStep DEF Again
<1>7. CASE UNCHANGED adapterVars
  <2>1. PlanTypeOK'
    BY <1>1, <1>2, <1>3, <1>5, <1>7 DEF PlanInv, PlanTypeOK, adapterVars
  <2>2. QED
    BY <1>1, <1>7, <2>1, QuietStep
<1>8. QED
  BY <1>4, <1>6, <1>7

(* The steps that end the command, in success or not.                      *)
LEMMA Ends ==
    ASSUME PlanInv,
           ProviderFails \/ (Unhealthy /\ ~(cmd.attempt < AnswerAttempts))
             \/ (Saved /\ cmd.kind = "plan-experiments") \/ Summarize \/ WriteJson \/ Crash
    PROVE  PlanInv'
<1>1. \E exit : End(exit)
  BY DEF ProviderFails, Unhealthy, Saved, Summarize, WriteJson, Crash
<1>2. UNCHANGED <<ledger, started, written>>
  BY DEF ProviderFails, Unhealthy, Saved, Summarize, WriteJson, Crash
<1>3. QED
  BY <1>1, <1>2, EndStep

(* The steps that take an answer and go on.                                *)
LEMMA AnswerTaken ==
    ASSUME PlanInv, Taken,
           \/ Healthy
           \/ Iterate
           \/ \E a \in Answers : Plan(a)
    PROVE  PlanInv'
<1>1. UNCHANGED <<ledger, started, written>>
  BY DEF Healthy, Iterate, Plan
<1>2. /\ DOMAIN cmd = DOMAIN Command("none", "none") /\ DOMAIN cmd.know = DOMAIN NothingKnown
      /\ cmd.attempt \in 1..AnswerAttempts /\ cmd.kind \in Kinds /\ cmd.input \in Inputs
  BY DEF PlanInv, PlanTypeOK
<1>3. /\ DOMAIN cmd' = DOMAIN cmd /\ DOMAIN cmd'.know = DOMAIN cmd.know
      /\ cmd'.kind = cmd.kind /\ cmd'.input = cmd.input /\ cmd'.attempt = cmd.attempt
      /\ cmd'.at \in Steps
  <2>1. CASE Healthy
    BY <2>1, <1>2 DEF Healthy, GoTo, Command, NothingKnown, Steps, Kinds
  <2>2. CASE Iterate
    BY <2>2, <1>2 DEF Iterate, Command, NothingKnown, Steps
  <2>3. ASSUME NEW a \in Answers, Plan(a)
        PROVE  /\ cmd' = [cmd EXCEPT !.at = "save",
                             !.queue = RecordsOf(cmd.input, Judge(cmd.input, cmd.know, a)),
                             !.store = Opened(cmd.know), !.know = NothingKnown]
    <3>1. Unused.at # "responses"
      BY DEF Unused, Place
    <3>2. ~Again
      BY <3>1 DEF Again, Call, Taken, Place
    <3>3. QED
      BY <2>3, <3>2 DEF Plan
  <2>4. ASSUME NEW a \in Answers, Plan(a)
        PROVE  /\ DOMAIN cmd' = DOMAIN cmd /\ DOMAIN cmd'.know = DOMAIN cmd.know
               /\ cmd'.kind = cmd.kind /\ cmd'.input = cmd.input /\ cmd'.attempt = cmd.attempt
               /\ cmd'.at \in Steps
    <3>1. PICK q, st :
            cmd' = [cmd EXCEPT !.at = "save", !.queue = q, !.store = st, !.know = NothingKnown]
      BY <2>3, <2>4
    <3>2. DOMAIN cmd' = DOMAIN cmd /\ cmd'.at = "save" /\ cmd'.know = NothingKnown
      BY <3>1, <1>2 DEF Command
    <3>3. cmd'.kind = cmd.kind /\ cmd'.input = cmd.input /\ cmd'.attempt = cmd.attempt
      BY <3>1, <1>2 DEF Command
    <3>4. QED
      BY <3>2, <3>3, <1>2 DEF NothingKnown, Steps
  <2>5. QED
    BY <2>1, <2>2, <2>4
<1>4. link' = Unused /\ posts' = 0 /\ Unused \in Links
  BY PlacesAreLinks DEF Taken
<1>5. PlanTypeOK'
  BY <1>1, <1>2, <1>3, <1>4 DEF PlanInv, PlanTypeOK
<1>6. QED
  BY <1>5, TakenStep

(* The steps that ask again.                                               *)
LEMMA AskedAgain ==
    ASSUME PlanInv, Again, cmd.attempt < AnswerAttempts,
           Unhealthy \/ \E a \in Answers : Plan(a)
    PROVE  PlanInv'
<1>1. UNCHANGED <<ledger, started, written>>
  BY DEF Unhealthy, Plan
<1>2. Unused.at # "responses"
  BY DEF Unused, Place
<1>3. ~Taken
  BY <1>2 DEF Again, Call, Taken, Place
<1>4. cmd' = [cmd EXCEPT !.attempt = @ + 1] /\ link = Text /\ cmd.at \in {"health", "plan"}
  BY <1>3 DEF Unhealthy, Plan, End, Answered, At
<1>5. DOMAIN cmd = DOMAIN Command("none", "none") /\ cmd.attempt \in 1..AnswerAttempts
  BY DEF PlanInv, PlanTypeOK
<1>6. /\ DOMAIN cmd' = DOMAIN cmd /\ cmd'.know = cmd.know
      /\ cmd'.kind = cmd.kind /\ cmd'.input = cmd.input /\ cmd'.at = cmd.at
      /\ cmd'.attempt = cmd.attempt + 1 /\ cmd'.attempt \in 1..AnswerAttempts
  BY <1>4, <1>5, PlanningAssumption DEF Command
<1>7. link' \in Links /\ link' # Unused /\ posts' = posts
  BY PlacesAreLinks, AttemptsAssumption DEF Again, Call
<1>8. CallsModel(cmd'.at)
  BY <1>4, <1>6 DEF CallsModel
<1>9. PlanTypeOK'
  BY <1>1, <1>6, <1>7, <1>8 DEF PlanInv, PlanTypeOK
<1>10. QED
  BY <1>4, <1>6, <1>9, AskAgainStep

(* What others leave in the ledgers are rows of the ledgers.               *)
LEMMA RunKeepsLedgers ==
    ASSUME ledger \in Ledgers, NEW run, NEW l \in Validated(run) \cup Simulated(run)
    PROVE  l \in Ledgers
<1>1. ASSUME NEW m \in Ledgers, NEW touched, l \in Reassessed(m, touched)
      PROVE  l \in Ledgers
  <2>1. PICK now \in SUBSET FamiliesOf(m.validations \cup m.outcomes) :
          l = [m EXCEPT !.losing = now]
    BY <1>1 DEF Reassessed
  <2>2. FamiliesOf(m.validations \cup m.outcomes) \subseteq Families
    BY LedgerAssumption DEF FamiliesOf, Ledgers
  <2>3. QED
    BY <2>1, <2>2 DEF Ledgers
<1>2. CASE \E new \in SUBSET OfRun(ValidationRows, run) :
             l \in Reassessed([ledger EXCEPT !.validations = Replaced(@, run, new)],
                              FamiliesOf(OfRun(ledger.validations, run) \cup new))
  <2>1. PICK new \in SUBSET OfRun(ValidationRows, run) :
          l \in Reassessed([ledger EXCEPT !.validations = Replaced(@, run, new)],
                           FamiliesOf(OfRun(ledger.validations, run) \cup new))
    BY <1>2
  <2>2. Replaced(ledger.validations, run, new) \in SUBSET ValidationRows
    BY DEF Replaced, OfRun, Ledgers
  <2>3. [ledger EXCEPT !.validations = Replaced(@, run, new)] \in Ledgers
    BY <2>2 DEF Ledgers
  <2>4. QED
    BY <1>1, <2>1, <2>3
<1>3. CASE \E new \in SUBSET OfRun(OutcomeRows, run) :
             l \in Reassessed([ledger EXCEPT !.outcomes = Replaced(@, run, new)],
                              FamiliesOf(OfRun(ledger.outcomes, run) \cup new))
  <2>1. PICK new \in SUBSET OfRun(OutcomeRows, run) :
          l \in Reassessed([ledger EXCEPT !.outcomes = Replaced(@, run, new)],
                           FamiliesOf(OfRun(ledger.outcomes, run) \cup new))
    BY <1>3
  <2>2. Replaced(ledger.outcomes, run, new) \in SUBSET OutcomeRows
    BY DEF Replaced, OfRun, Ledgers
  <2>3. [ledger EXCEPT !.outcomes = Replaced(@, run, new)] \in Ledgers
    BY <2>2 DEF Ledgers
  <2>4. QED
    BY <1>1, <2>1, <2>3
<1>4. QED
  BY <1>2, <1>3 DEF Validated, Simulated

LEMMA OthersKeepLedgers ==
    ASSUME PlanInv, Other
    PROVE  ledger' \in Ledgers
<1>1. ledger \in Ledgers
  BY DEF PlanInv, PlanTypeOK
<1>2. \/ UNCHANGED ledger
      \/ ledger' \in Ingested
      \/ \E run \in Runs : ledger' \in Validated(run) \cup Simulated(run)
  BY Zenon DEF Other
<1>3. Ingested \subseteq Ledgers
  <2> SUFFICES ASSUME NEW r \in HealthRows
               PROVE  [ledger EXCEPT !.health = @ \cup {r}] \in Ledgers
    BY DEF Ingested
  <2>1. QED
    BY <1>1 DEF Ledgers
<1>4. QED
  BY <1>1, <1>2, <1>3, RunKeepsLedgers

LEMMA OtherStep == PlanInv /\ Other => PlanInv'
<1> SUFFICES ASSUME PlanInv, Other PROVE PlanInv'
  OBVIOUS
<1>1. UNCHANGED <<cmd, started, link, posts>> /\ written' = written + 1 /\ written < MaxOthers
  BY DEF Other, adapterVars
<1>2. written' \in 0..MaxOthers
  BY <1>1, PlanningAssumption DEF PlanInv, PlanTypeOK
<1>3. ledger' \in Ledgers
  BY OthersKeepLedgers
<1>4. QED
  BY <1>1, <1>2, <1>3 DEF PlanInv, PlanTypeOK

LEMMA PlanInvStep == PlanInv /\ [Next]_vars => PlanInv'
<1> SUFFICES ASSUME PlanInv, [Next]_vars PROVE PlanInv'
  OBVIOUS
<1>1. ASSUME NEW kind \in Kinds, NEW input \in Inputs, Start(kind, input) PROVE PlanInv'
  BY <1>1, StartStep
<1>2. CASE Post /\ UNCHANGED planVars
  BY <1>2, PostStep
<1>3. CASE Healthy
  BY <1>3, AnswerTaken DEF Healthy
<1>4. CASE Unhealthy
  <2>1. CASE cmd.attempt < AnswerAttempts
    BY <1>4, <2>1, AskedAgain DEF Unhealthy
  <2>2. CASE ~(cmd.attempt < AnswerAttempts)
    BY <1>4, <2>2, Ends
  <2>3. QED
    BY <2>1, <2>2
<1>5. CASE \/ Review \/ Mark \/ MarkingDone \/ Save \/ WriteMarkdown
           \/ ReadLedgers \/ ReadTrades \/ ReadMemory \/ ReadContext \/ ReadSamples
  BY <1>5, BetweenCalls
<1>6. CASE ReadSources \/ ReadStops
  BY <1>6, FirstCalls
<1>7. ASSUME NEW a \in Answers, Plan(a) PROVE PlanInv'
  <2>1. (Again /\ cmd.attempt < AnswerAttempts) \/ Taken
    BY <1>7 DEF Plan
  <2>2. QED
    BY <1>7, <2>1, AskedAgain, AnswerTaken
<1>8. CASE Saved
  <2>1. cmd.kind = "plan-experiments" \/ cmd.kind = "evidence-report"
    BY <1>8 DEF Saved
  <2>2. QED
    BY <1>8, <2>1, Ends, FirstCalls
<1>9. CASE ProviderFails \/ Summarize \/ WriteJson \/ Crash
  BY <1>9, Ends
<1>10. CASE Iterate
  BY <1>10, AnswerTaken DEF Iterate
<1>11. CASE Other
  BY <1>11, OtherStep
<1>12. CASE UNCHANGED vars
  BY <1>12 DEF PlanInv, PlanTypeOK, vars, planVars, adapterVars
<1>13. QED
  BY <1>1, <1>2, <1>3, <1>4, <1>5, <1>6, <1>7, <1>8, <1>9, <1>10, <1>11, <1>12 DEF Next, Work

(* The invariant of the planning commands: what the call of the model has  *)
(* spent, what is saved and what is reported at each phase.                *)
THEOREM PlanInvAlways == Spec => []PlanInv
  BY PlanInvInit, PlanInvStep, PTL DEF Spec

(* Every variable of a planning command keeps its type (cli.py, the        *)
(* commands that call the planner or the iteration controller).            *)
THEOREM PlanTypes == Spec => []PlanTypeOK
<1>1. PlanInv => PlanTypeOK
  BY DEF PlanInv
<1>2. QED
  BY <1>1, PlanInvAlways, PTL

(* A call that has spent its posts has spent no more than the budget.      *)
LEMMA SpentBounded == ASSUME NEW l \in Links PROVE Spent(l) \in Nat /\ Spent(l) <= CallBudget
<1>1. CASE l \in {Unused, Text, Error}
  BY <1>1, SpentAtEnds, BudgetType
<1>2. CASE l \notin {Unused, Text, Error}
  <2>1. l.at \in {"responses", "chat"}
    BY <1>2 DEF Links
  <2>2. Error \in Outcomes(l)
    BY DEF Outcomes
  <2>3. Spent(l) \in Nat /\ Spent(l) + 1 <= Spent(Error) /\ Spent(Error) \in Nat
    BY <2>1, <2>2, PostIsCounted
  <2>4. QED
    BY <2>3, SpentAtEnds, BudgetType
<1>3. QED
  BY <1>1, <1>2

(* The posts for one answer never exceed the product of the attempts,      *)
(* whatever the provider does (the retries of llm/responses.py inside      *)
(* those of llm/runtime.py and of the planner).                            *)
THEOREM AnswersCostBoundedPosts == Spec => []PostsAreBounded
<1>1. PlanInv => PostsAreBounded
  <2> SUFFICES ASSUME PlanInv PROVE PostsAreBounded
    OBVIOUS
  <2>1. /\ posts \in Nat /\ cmd.attempt \in 1..AnswerAttempts /\ Spent(link) \in Nat
        /\ Spent(link) <= CallBudget /\ posts <= Before(cmd.at, cmd.attempt) + Spent(link)
    BY SpentBounded DEF PlanInv, PlanTypeOK
  <2>2. CASE cmd.at \in {"health", "plan"}
    <3>1. Before(cmd.at, cmd.attempt) + CallBudget = Before(cmd.at, cmd.attempt + 1)
      BY <2>1, <2>2, BeforeNext
    <3>2. Before(cmd.at, cmd.attempt + 1) = cmd.attempt * CallBudget
      <4>1. (cmd.attempt + 1) - 1 = cmd.attempt
        BY <2>1, PlanningAssumption
      <4>2. QED
        BY <2>2, <4>1 DEF Before
    <3>3. /\ cmd.attempt * CallBudget <= AnswerAttempts * CallBudget
          /\ cmd.attempt * CallBudget \in Nat /\ AnswerAttempts * CallBudget \in Nat
      BY <2>1, PlanningAssumption, BudgetType, Multiples, NextMultiple
    <3>4. Before(cmd.at, cmd.attempt) \in Nat
      BY <2>1, BeforeType
    <3>5. QED
      BY <2>1, <2>2, <3>1, <3>2, <3>3, <3>4, BudgetType DEF PostsAreBounded
  <2>3. CASE cmd.at \notin {"health", "plan"}
    BY <2>1, <2>3, BudgetType DEF Before, PostsAreBounded
  <2>4. QED
    BY <2>2, <2>3
<1>2. QED
  BY <1>1, PlanInvAlways, PTL

----------------------------------------------------------------------------
(* The iteration report.  Its refs are judged by what the command read, in *)
(* three reads that others write between; whatever one of them finds has   *)
(* stood, and has stood also when it is gone again.                        *)

HistoryFields == {"barred", "repeated", "unsafe", "others", "stood"}

IterationInv ==
    /\ DOMAIN report = {"markdown", "json"}
    /\ DOMAIN history = HistoryFields
    /\ Stands(ledger) \subseteq history.stood
    /\ cmd.know.refs \subseteq history.stood
    /\ cmd.batch.accepted => Grounded(cmd.batch, history.stood)

(* What a read of the context finds is borne out by the ledgers.           *)
LEMMA RefsStand ==
    ASSUME ledger \in Ledgers, NEW input
    PROVE  /\ ValidationRefs(Recent(Of(input, ledger.validations))) \subseteq Stands(ledger)
           /\ PaperRefs(Recent(Of(input, ledger.outcomes))) \subseteq Stands(ledger)
           /\ HealthRefs(Recent(ledger.health)) \subseteq Stands(ledger)
<1>1. ValidationRefs(Recent(Of(input, ledger.validations))) \subseteq Stands(ledger)
  BY DEF ValidationRefs, Recent, Of, Stands
<1>2. HealthRefs(Recent(ledger.health)) \subseteq Stands(ledger)
  BY DEF HealthRefs, Recent, Stands
<1>3. ASSUME NEW ref \in PaperRefs(Recent(Of(input, ledger.outcomes)))
      PROVE  ref \in Stands(ledger)
  <2> DEFINE recent == Recent(Of(input, ledger.outcomes))
             found(f) == {r \in recent : r.family = f}
             all(f) == {r \in ledger.outcomes : r.family = f}
  <2>1. PICK f \in FamiliesOf(recent) : ref = <<"paper", f, Cardinality(found(f))>>
    BY <1>3 DEF PaperRefs
  <2>2. recent \subseteq ledger.outcomes /\ ledger.outcomes \subseteq OutcomeRows
    BY DEF Recent, Of, Ledgers
  <2>3. f \in Families /\ found(f) # {}
    BY <2>1, <2>2, LedgerAssumption DEF FamiliesOf
  <2>4. found(f) \subseteq all(f) /\ all(f) \subseteq OutcomeRows
    BY <2>2
  <2>5. IsFiniteSet(all(f)) /\ IsFiniteSet(found(f))
    BY <2>4, FS_Subset, LedgerAssumption
  <2>6. /\ Cardinality(found(f)) \in Nat /\ Cardinality(all(f)) \in Nat
        /\ Cardinality(found(f)) <= Cardinality(all(f)) /\ Cardinality(found(f)) # 0
    BY <2>3, <2>4, <2>5, FS_CardinalityType, FS_Subset, FS_EmptySet
  <2>7. Cardinality(found(f)) \in 1..Cardinality(all(f))
    BY <2>6
  <2>8. ref \in {<<"paper", f, n>> : n \in 1..Cardinality(all(f))}
    BY <2>1, <2>7
  <2>9. QED
    BY <2>3, <2>8 DEF Stands
<1>4. QED
  BY <1>1, <1>2, <1>3

LEMMA IterationInvInit == Init => IterationInv
<1> SUFFICES ASSUME Init PROVE IterationInv
  OBVIOUS
<1>1. PICK i \in Inputs : cmd = Ended("plan-experiments", i, "none")
  BY DEF Init
<1>2. cmd.know.refs = {} /\ ~cmd.batch.accepted
  BY <1>1 DEF Ended, Command, NothingKnown, NoReport
<1>3. DOMAIN history = HistoryFields /\ history.stood = Stands(ledger)
  BY DEF Init, HistoryFields
<1>4. DOMAIN report = {"markdown", "json"}
  BY DEF Init
<1>5. QED
  BY <1>2, <1>3, <1>4 DEF IterationInv

(* The refs that a step leaves known are known before it, or are read from *)
(* the ledger in it.                                                       *)
LEMMA RefsStep ==
    ASSUME PlanInv, [Next]_vars
    PROVE  cmd'.know.refs \subseteq cmd.know.refs \cup Stands(ledger)
<1>1. DOMAIN cmd = DOMAIN Command("none", "none") /\ DOMAIN cmd.know = DOMAIN NothingKnown
  BY DEF PlanInv, PlanTypeOK
<1>2. ASSUME NEW kind \in Kinds, NEW input \in Inputs, Start(kind, input)
      PROVE  cmd'.know.refs = {}
  BY <1>2, StartsAnew
<1>3. ASSUME NEW exit, End(exit) PROVE cmd'.know.refs = {}
  BY <1>3, EndedIsTyped DEF End, PlanInv, PlanTypeOK
<1>4. ASSUME ProviderFails \/ Summarize \/ WriteJson \/ Crash PROVE cmd'.know.refs = {}
  BY <1>3, <1>4 DEF ProviderFails, Summarize, WriteJson, Crash
<1>5. CASE Unhealthy
  BY <1>1, <1>3, <1>5 DEF Unhealthy, Command
<1>6. CASE Saved
  BY <1>1, <1>3, <1>6 DEF Saved, Command
<1>7. ASSUME NEW a \in Answers, Plan(a) PROVE cmd'.know.refs \subseteq cmd.know.refs
  <2>1. \/ cmd' = [cmd EXCEPT !.attempt = @ + 1]
        \/ \E q, st : cmd' = [cmd EXCEPT !.at = "save", !.queue = q, !.store = st,
                                         !.know = NothingKnown]
    BY <1>7 DEF Plan
  <2>2. CASE cmd' = [cmd EXCEPT !.attempt = @ + 1]
    <3>1. cmd'.know.refs = cmd.know.refs
      BY <1>1, <2>2 DEF Command
    <3>2. QED
      BY <3>1
  <2>3. CASE \E q, st : cmd' = [cmd EXCEPT !.at = "save", !.queue = q, !.store = st,
                                           !.know = NothingKnown]
    <3>1. PICK q, st : cmd' = [cmd EXCEPT !.at = "save", !.queue = q, !.store = st,
                                          !.know = NothingKnown]
      BY <2>3
    <3>2. cmd'.know.refs = {}
      BY <1>1, <3>1 DEF Command, NothingKnown
    <3>3. QED
      BY <3>2
  <2>4. QED
    BY <2>1, <2>2, <2>3, Zenon
<1>8. CASE Healthy \/ MarkingDone \/ WriteMarkdown
  BY <1>1, <1>8 DEF Healthy, MarkingDone, WriteMarkdown, GoTo, Command
<1>9. CASE Review \/ Mark \/ ReadLedgers \/ ReadTrades \/ ReadMemory \/ ReadStops
  <2>1. CASE Review \/ Mark
    BY <1>1, <2>1 DEF Review, Mark, Command
  <2>2. CASE ReadLedgers \/ ReadTrades
    <3>1. \E e, at : cmd' = [cmd EXCEPT !.at = at, !.know.evidence = e]
      BY <2>2 DEF ReadLedgers, ReadTrades
    <3>2. cmd'.know.refs = cmd.know.refs
      BY <1>1, <3>1 DEF Command, NothingKnown
    <3>3. QED
      BY <3>2
  <2>3. CASE ReadMemory
    <3>1. cmd'.know.refs = cmd.know.refs
      BY <1>1, <2>3 DEF ReadMemory, Command, NothingKnown
    <3>2. QED
      BY <3>1
  <2>4. CASE ReadStops
    <3>1. cmd'.know.refs = cmd.know.refs
      BY <1>1, <2>4 DEF ReadStops, Command, NothingKnown
    <3>2. QED
      BY <3>1
  <2>5. QED
    BY <1>9, <2>1, <2>2, <2>3, <2>4
<1>10. CASE ReadContext \/ ReadSamples \/ ReadSources
  <2> DEFINE v == ValidationRefs(Recent(Of(cmd.input, ledger.validations)))
             p == PaperRefs(Recent(Of(cmd.input, ledger.outcomes)))
             h == HealthRefs(Recent(ledger.health))
  <2>1. v \subseteq Stands(ledger) /\ p \subseteq Stands(ledger) /\ h \subseteq Stands(ledger)
    BY RefsStand DEF PlanInv, PlanTypeOK
  <2>2. \E at : \E new \in {v, cmd.know.refs \cup p, cmd.know.refs \cup h} :
           cmd' = [cmd EXCEPT !.at = at, !.know.refs = new]
    <3>1. CASE ReadContext
      BY <3>1 DEF ReadContext
    <3>2. CASE ReadSamples
      BY <3>2 DEF ReadSamples
    <3>3. CASE ReadSources
      BY <3>3, <1>1 DEF ReadSources, Command, NothingKnown
    <3>4. QED
      BY <1>10, <3>1, <3>2, <3>3
  <2> HIDE DEF v, p, h
  <2>3. PICK at, new :
           /\ new \in {v, cmd.know.refs \cup p, cmd.know.refs \cup h}
           /\ cmd' = [cmd EXCEPT !.at = at, !.know.refs = new]
    BY <2>2
  <2>4. cmd'.know.refs = new
    BY <1>1, <2>3 DEF Command, NothingKnown
  <2>5. QED
    BY <2>1, <2>3, <2>4
<1>11. CASE Save
  BY <1>1, <1>11 DEF Save, Command
<1>12. CASE Iterate
  BY <1>1, <1>12 DEF Iterate, Command
<1>13. CASE (Post /\ UNCHANGED planVars) \/ Other \/ UNCHANGED vars
  BY <1>13 DEF planVars, vars, Other
<1>14. QED
  BY <1>2, <1>4, <1>5, <1>6, <1>7, <1>8, <1>9, <1>10, <1>11, <1>12, <1>13 DEF Next, Work

(* A batch is put aside only when its answer is judged.                    *)
LEMMA BatchStep ==
    ASSUME PlanInv, [Next]_vars
    PROVE  \/ cmd'.batch \in {cmd.batch, NoReport}
           \/ Iterate /\ \E b \in Batches : cmd'.batch = JudgeBatch(b)
<1>1. DOMAIN cmd = DOMAIN Command("none", "none")
  BY DEF PlanInv, PlanTypeOK
<1>2. ASSUME NEW kind \in Kinds, NEW input \in Inputs, Start(kind, input)
      PROVE  cmd'.batch = NoReport
  BY <1>2, StartsAnew
<1>3. ASSUME NEW exit, End(exit) PROVE cmd'.batch = NoReport
  BY <1>3 DEF End, Ended, Command
<1>4. ASSUME ProviderFails \/ Summarize \/ WriteJson \/ Crash PROVE cmd'.batch = NoReport
  BY <1>3, <1>4 DEF ProviderFails, Summarize, WriteJson, Crash
<1>5. CASE Unhealthy
  BY <1>1, <1>3, <1>5 DEF Unhealthy, Command
<1>6. CASE Saved
  BY <1>1, <1>3, <1>6 DEF Saved, Command
<1>7. ASSUME NEW a \in Answers, Plan(a) PROVE cmd'.batch = cmd.batch
  <2>1. \/ cmd' = [cmd EXCEPT !.attempt = @ + 1]
        \/ \E q, st : cmd' = [cmd EXCEPT !.at = "save", !.queue = q, !.store = st,
                                         !.know = NothingKnown]
    BY <1>7 DEF Plan
  <2>2. QED
    BY <1>1, <2>1 DEF Command
<1>8. CASE Healthy \/ MarkingDone \/ WriteMarkdown
  BY <1>1, <1>8 DEF Healthy, MarkingDone, WriteMarkdown, GoTo, Command
<1>9. CASE \/ Review \/ Mark \/ ReadLedgers \/ ReadTrades \/ ReadMemory
           \/ ReadContext \/ ReadSamples \/ ReadSources \/ ReadStops
  BY <1>1, <1>9 DEF Review, Mark, ReadLedgers, ReadTrades, ReadMemory, ReadContext, ReadSamples,
     ReadSources, ReadStops, Command
<1>10. CASE Save
  BY <1>1, <1>10 DEF Save, Command
<1>11. CASE Iterate
  <2>1. PICK r \in {NoReport} \cup {JudgeBatch(b) : b \in Batches} :
          cmd' = [cmd EXCEPT !.at = "markdown", !.batch = r]
    BY <1>11 DEF Iterate
  <2>2. cmd'.batch = r
    BY <1>1, <2>1 DEF Command
  <2>3. QED
    BY <1>11, <2>1, <2>2
<1>12. CASE (Post /\ UNCHANGED planVars) \/ Other \/ UNCHANGED vars
  BY <1>12 DEF planVars, vars, Other
<1>13. QED
  BY <1>2, <1>4, <1>5, <1>6, <1>7, <1>8, <1>9, <1>10, <1>11, <1>12 DEF Next, Work

(* What has stood since the command began stays so; it starts anew with    *)
(* another command.                                                        *)
LEMMA StoodStep ==
    ASSUME DOMAIN history = HistoryFields, Stands(ledger) \subseteq history.stood, [Next]_vars
    PROVE  /\ DOMAIN history' = HistoryFields
           /\ Stands(ledger') \subseteq history'.stood
           /\ \/ history.stood \subseteq history'.stood
              \/ \E kind \in Kinds, input \in Inputs : Start(kind, input)
<1>1. ASSUME NEW kind \in Kinds, NEW input \in Inputs, Start(kind, input)
      PROVE  /\ DOMAIN history' = HistoryFields
             /\ Stands(ledger') \subseteq history'.stood
  <2>1. history'.stood = Stands(ledger) /\ DOMAIN history' = HistoryFields /\ ledger' = ledger
    BY <1>1 DEF Start, HistoryFields
  <2>2. QED
    BY <2>1
<1>2. CASE Other
  <2>1. CASE \E r \in Others :
            history' = [history EXCEPT !.others = @ \cup {r.id},
                                       !.barred = @ \ StopsLost(Upsert(file, r)),
                                       !.repeated = @ \ RejectionsLost(Upsert(file, r))]
               /\ UNCHANGED ledger
    <3>1. history'.stood = history.stood /\ DOMAIN history' = HistoryFields /\ ledger' = ledger
      BY <2>1 DEF HistoryFields
    <3>2. QED
      BY <3>1
  <2>2. CASE history' = [history EXCEPT !.stood = @ \cup Stands(ledger')]
    <3>1. history'.stood = history.stood \cup Stands(ledger') /\ DOMAIN history' = HistoryFields
      BY <2>2 DEF HistoryFields
    <3>2. QED
      BY <3>1
  <2>3. QED
    BY <1>2, <2>1, <2>2, Zenon DEF Other
<1>3. CASE Review \/ \E a \in Answers : Plan(a)
  <2>1. /\ UNCHANGED ledger
        /\ \E b, u : \/ history' = [history EXCEPT !.barred = b]
                    \/ history' = [history EXCEPT !.unsafe = u]
    <3>1. CASE Review
      BY <3>1 DEF Review, FoundBarred
    <3>2. CASE \E a \in Answers : Plan(a)
      BY <3>2 DEF Plan
    <3>3. QED
      BY <1>3, <3>1, <3>2
  <2>2. history'.stood = history.stood /\ DOMAIN history' = HistoryFields /\ ledger' = ledger
    BY <2>1 DEF HistoryFields
  <2>3. QED
    BY <2>2
<1>4. CASE UNCHANGED <<ledger, history>>
  BY <1>4
<1>5. \/ \E kind \in Kinds, input \in Inputs : Start(kind, input)
      \/ Other \/ Review \/ \E a \in Answers : Plan(a)
      \/ UNCHANGED <<ledger, history>>
  BY DEF Next, Work, vars, planVars, Healthy, Unhealthy, ProviderFails, Mark, MarkingDone,
     ReadLedgers, ReadTrades, ReadMemory, ReadContext, ReadSamples, ReadSources, ReadStops,
     Save, Saved, Summarize, Iterate, WriteMarkdown, WriteJson, Crash
<1>6. QED
  BY <1>1, <1>2, <1>3, <1>4, <1>5

LEMMA ReportStep == [Next]_vars => DOMAIN report' = DOMAIN report
<1>1. WriteMarkdown \/ WriteJson => DOMAIN report' = DOMAIN report
  BY DEF WriteMarkdown, WriteJson
<1>2. [Next]_vars /\ ~WriteMarkdown /\ ~WriteJson => UNCHANGED report
  BY DEF Next, Work, vars, planVars, Start, Healthy, Unhealthy, ProviderFails, Review, Mark,
     MarkingDone, ReadLedgers, ReadTrades, ReadMemory, ReadContext, ReadSamples, ReadSources,
     ReadStops, Plan, Save, Saved, Summarize, Iterate, Crash, Other
<1>3. QED
  BY <1>1, <1>2

LEMMA GroundedStays ==
    ASSUME NEW r, NEW known, NEW more, known \subseteq more, Grounded(r, known)
    PROVE  Grounded(r, more)
  BY DEF Grounded

LEMMA JudgedIsGrounded ==
    ASSUME NEW b \in Batches, NEW known, cmd.know.refs \subseteq known,
           JudgeBatch(b).accepted
    PROVE  Grounded(JudgeBatch(b), known)
  BY DEF Grounded, JudgeBatch, CandidateSafe, KnownRefs

LEMMA IterationInvStep == PlanInv /\ IterationInv /\ [Next]_vars => IterationInv'
<1> SUFFICES ASSUME PlanInv, IterationInv, [Next]_vars PROVE IterationInv'
  OBVIOUS
<1>1. /\ DOMAIN history' = HistoryFields
      /\ Stands(ledger') \subseteq history'.stood
      /\ \/ history.stood \subseteq history'.stood
         \/ \E kind \in Kinds, input \in Inputs : Start(kind, input)
  BY StoodStep DEF IterationInv
<1>5. DOMAIN report' = {"markdown", "json"}
  BY ReportStep DEF IterationInv
<1>2. CASE history.stood \subseteq history'.stood
  <2>1. cmd'.know.refs \subseteq history'.stood
    BY <1>2, RefsStep DEF IterationInv
  <2>2. cmd'.batch.accepted => Grounded(cmd'.batch, history.stood)
    <3>1. ~NoReport.accepted
      BY DEF NoReport
    <3>2. QED
      BY <3>1, BatchStep, JudgedIsGrounded DEF IterationInv
  <2>3. QED
    BY <1>1, <1>2, <1>5, <2>1, <2>2, GroundedStays DEF IterationInv
<1>3. CASE \E kind \in Kinds, input \in Inputs : Start(kind, input)
  <2>1. cmd'.know.refs = {} /\ cmd'.batch = NoReport
    BY <1>3, StartsAnew
  <2>2. QED
    BY <1>1, <1>5, <2>1 DEF IterationInv, NoReport
<1>4. QED
  BY <1>1, <1>2, <1>3

(* An iteration report that is written as accepted refers only to what the *)
(* ledgers held since the command started or to the owner's, and asks for  *)
(* no capital, whatever the model answered and whatever other commands     *)
(* replaced or cleared meanwhile (iteration_controller.py,                 *)
(* _candidate_rejection_reason; ai_research_context.py).                   *)
THEOREM AcceptedIsGrounded == Spec => AcceptedIterationIsGrounded
<1>1. Spec => [](PlanInv /\ IterationInv)
  BY PlanInvInit, PlanInvStep, IterationInvInit, IterationInvStep, PTL DEF Spec
<1>2. ASSUME PlanInv, IterationInv, [Next]_vars,
             At("json"), cmd'.at = "off", cmd'.exit = "ok"
      PROVE  Grounded(report'.json, history.stood)
  <2>1. WriteJson \/ Crash
    BY <1>2 DEF Next, Work, vars, planVars, At, Answered, Unanswered, CallsModel, Start, Healthy,
       Unhealthy, ProviderFails, Review, Mark, MarkingDone, ReadLedgers, ReadTrades, ReadMemory,
       ReadContext, ReadSamples, ReadSources, ReadStops, Plan, Save, Saved, Summarize, Iterate,
       WriteMarkdown, Other
  <2>2. ~Crash
    BY <1>2 DEF Crash, End, Ended, Command
  <2>3. cmd'.exit = IF cmd.batch.accepted THEN "ok" ELSE "rejected"
    BY <2>1, <2>2 DEF WriteJson, End, Ended, Command
  <2>5. report'.json = cmd.batch /\ cmd.batch.accepted
    BY <1>2, <2>1, <2>2, <2>3 DEF WriteJson, IterationInv
  <2>4. QED
    BY <1>2, <2>5 DEF IterationInv
<1>3. PlanInv /\ IterationInv /\ [Next]_vars
        => [At("json") /\ cmd'.at = "off" /\ cmd'.exit = "ok"
              => Grounded(report'.json, history.stood)]_vars
  BY <1>2
<1>4. QED
  BY <1>1, <1>3, PTL DEF Spec, AcceptedIterationIsGrounded

----------------------------------------------------------------------------
(* The judgement of an answer and the records made of it.                  *)

IsSeq(q) == \E S : q \in Seq(S)

LEMMA SetAsSequence ==
    ASSUME NEW S, IsFiniteSet(S)
    PROVE  SetToSeq(S) \in Seq(S)
<1>1. Cardinality(S) \in Nat /\ ExistsBijection(1..Cardinality(S), S)
  BY FS_CardinalityType
<1>2. PICK g \in [1..Cardinality(S) -> S] : IsInjective(g)
  BY <1>1 DEF ExistsBijection, Bijection, Injection
<1>3. SetToSeq(S) \in [1..Cardinality(S) -> S]
  BY <1>2 DEF SetToSeq
<1>4. QED
  BY <1>1, <1>3

(* What a check that fails is reported for, and what it means that none    *)
(* fails.                                                                  *)
LEMMA ChecksPassed ==
    ASSUME NEW checks, Len(checks) \in Nat
    PROVE  FirstFailed(checks) = {} => \A n \in 1..Len(checks) : checks[n][1]
<1> DEFINE I == {i \in 1..Len(checks) : ~checks[i][1]}
<1>1. FirstFailed(checks) = {} => I = {}
  <2>1. SelectInSeq(checks, LAMBDA c : ~c[1]) = IF I # {} THEN Min(I) ELSE 0
    BY DEF SelectInSeq
  <2>2. I # {} => Min(I) \in I
    <3> SUFFICES ASSUME I # {} PROVE Min(I) \in I
      OBVIOUS
    <3>1. PICK m \in I : \A y \in I : ~(<<y, m>> \in OpToRel(<, Nat))
      <4>1. I \subseteq Nat
        OBVIOUS
      <4>2. QED
        BY <4>1, WFMin, NatLessThanWellFounded
    <3>2. QED
      <4>1. OpToRel(<, Nat) = {ss \in Nat \X Nat : ss[1] < ss[2]}
        BY DEF OpToRel
      <4>3. \A y \in I : m <= y
        <5> SUFFICES ASSUME NEW y \in I PROVE m <= y
          OBVIOUS
        <5>1. y \in Nat /\ m \in Nat
          OBVIOUS
        <5>2. ~(y < m)
          BY <3>1, <4>1, <5>1
        <5>3. QED
          BY <5>1, <5>2
      <4>2. QED
        BY <4>3 DEF Min
  <2>3. 0 \notin I
    OBVIOUS
  <2>4. QED
    BY <2>1, <2>2, <2>3 DEF FirstFailed
<1>2. QED
  BY <1>1

(* A proposal that is taken is for a family that is allowed, with          *)
(* parameters that were not rejected before.                               *)
LEMMA ProposalTaken ==
    ASSUME NEW input, NEW know, NEW p, ProposalReason(input, know, p) = {}
    PROVE  /\ p.family \in CandidateFamilies(input, know)
           /\ <<p.family, p.params>> \notin Repeated(know.memory)
<1> DEFINE allowed == p.family \in CandidateFamilies(input, know)
           fresh == <<p.family, p.params>> \notin Repeated(know.memory)
           supported == RefsSupported(know, p.refs)
           known == ~LacksFamilyEvidence(know, p.family)
           checks == <<
        <<p.schema, "invalid_proposal_schema">>,
        <<allowed, "unsupported_strategy_family">>,
        <<p.validator, "unsupported_validator">>,
        <<p.sources, "unsupported_data_sources">>,
        <<fresh, "duplicate_experiment">>,
        <<p.fields, "unsupported_data_fields">>,
        <<supported, "missing_evidence_ref">>,
        <<known, "missing_family_evidence">> >>
<1>1. FirstFailed(checks) = {}
  BY DEF ProposalReason
<1>2. allowed \in BOOLEAN /\ fresh \in BOOLEAN
  OBVIOUS
<1> HIDE DEF allowed, fresh, supported, known
<1>3. /\ Len(checks) = 8 /\ checks[2] = <<allowed, "unsupported_strategy_family">>
      /\ checks[5] = <<fresh, "duplicate_experiment">>
  OBVIOUS
<1>4. /\ checks[2][1] = allowed /\ checks[5][1] = fresh
      /\ Len(checks) \in Nat /\ 2 \in 1..Len(checks) /\ 5 \in 1..Len(checks)
  BY <1>3
<1> HIDE DEF checks
<1>5. \A n \in 1..Len(checks) : checks[n][1]
  BY <1>1, <1>4, ChecksPassed
<1>6. checks[2][1] /\ checks[5][1]
  BY <1>4, <1>5
<1>7. allowed /\ fresh
  BY <1>2, <1>4, <1>6
<1>8. QED
  BY <1>7 DEF allowed, fresh

LEMMA OfferedIsFinite ==
    ASSUME NEW input, NEW S, NEW section \in Seq(S), NEW T, T \subseteq Offered(input, section)
    PROVE  IsFiniteSet(T) /\ IsFiniteSet({x[2] : x \in T})
<1> DEFINE I == {i \in 1..Len(section) : i <= input.max}
           pairs == [n \in I |-> <<n, section[n]>>]
<1>1. IsFiniteSet(I)
  BY FS_Interval, FS_Subset
<1>2. pairs \in Surjection(I, Offered(input, section))
  BY DEF Surjection, Offered
<1>3. IsFiniteSet(Offered(input, section))
  BY <1>1, <1>2, FS_Surjection
<1>4. IsFiniteSet(T)
  BY <1>3, FS_Subset
<1>5. [x \in T |-> x[2]] \in Surjection(T, {x[2] : x \in T})
  BY DEF Surjection
<1>6. QED
  BY <1>4, <1>5, FS_Surjection

(* The verdict of any answer: its proposals are allowed, and there are     *)
(* finitely many of them.                                                  *)
LEMMA Judged ==
    ASSUME NEW input, NEW know, NEW a \in Answers
    PROVE  LET v == Judge(input, know, a)
           IN  /\ IsFiniteSet(v.proposals) /\ IsFiniteSet(v.templates)
               /\ \A x \in v.proposals :
                     /\ x[2].family \in CandidateFamilies(input, know)
                     /\ <<x[2].family, x[2].params>> \notin Repeated(know.memory)
<1> DEFINE v == Judge(input, know, a)
<1>1. CASE a.form = "sections"
  <2> DEFINE offered == Offered(input, a.proposals)
             designs == Offered(input, a.templates)
             taken == {x \in offered : ProposalReason(input, know, x[2]) = {}}
             good == {y \in designs : TemplateReason(know, y[2]) = {}}
  <2>1. v = JudgeSections(input, know, a)
    BY <1>1 DEF Judge
  <2>2. v.proposals = taken /\ v.templates = {x[2] : x \in good}
    BY <2>1 DEF JudgeSections, Verdict
  <2>3. a.proposals \in Seq(Range(a.proposals)) /\ a.templates \in Seq(Range(a.templates))
    BY AnswersAssumption
  <2>4. IsFiniteSet(taken) /\ IsFiniteSet({x[2] : x \in good})
    BY <2>3, OfferedIsFinite
  <2>5. QED
    BY <2>2, <2>4, ProposalTaken
<1>2. CASE a.form \in {"text", "unsafe", "scalar"}
  <2>1. v.proposals = {} /\ v.templates = {}
    BY <1>2 DEF Judge, Verdict
  <2>2. QED
    BY <2>1, FS_EmptySet
<1>3. QED
  BY <1>1, <1>2, AnswersAssumption

PlannerRecord(input, v, r) ==
    \/ \E x \in v.proposals : r = ProposalRecord(input, x)
    \/ \E t \in v.templates : r = TemplateRecord(input, t)
    \/ r \in {RejectedRecord(input, v), PartialRecord(input, v)}

(* The records of a verdict; where it gives reasons, the last one has them.*)
LEMMA RecordsShape ==
    ASSUME NEW input, NEW v, IsFiniteSet(v.proposals), IsFiniteSet(v.templates)
    PROVE  LET q == RecordsOf(input, v)
           IN  /\ IsSeq(q)
               /\ \A n \in 1..Len(q) : PlannerRecord(input, v, q[n])
               /\ v.reasons # {} =>
                    q # <<>> /\ q[Len(q)] \in {RejectedRecord(input, v), PartialRecord(input, v)}
<1> DEFINE P == {ProposalRecord(input, x) : x \in v.proposals}
           T == {TemplateRecord(input, t) : t \in v.templates}
           E == {RejectedRecord(input, v), PartialRecord(input, v)}
           S == P \cup T \cup E
           front == AcceptedRecords(input, v)
           back == IF ~Accepted(v) THEN <<RejectedRecord(input, v)>>
                   ELSE IF v.reasons # {} THEN <<PartialRecord(input, v)>> ELSE <<>>
           q == RecordsOf(input, v)
<1>1. IsFiniteSet(P)
  <2>1. [x \in v.proposals |-> ProposalRecord(input, x)] \in Surjection(v.proposals, P)
    BY DEF Surjection
  <2>2. QED
    BY <2>1, FS_Surjection
<1>2. IsFiniteSet(T)
  <2>1. [t \in v.templates |-> TemplateRecord(input, t)] \in Surjection(v.templates, T)
    BY DEF Surjection
  <2>2. QED
    BY <2>1, FS_Surjection
<1>3. front \in Seq(S)
  <2>1. SetToSeq(P) \in Seq(P) /\ SetToSeq(T) \in Seq(T)
    BY <1>1, <1>2, SetAsSequence
  <2>2. front = SetToSeq(P) \o SetToSeq(T)
    BY DEF AcceptedRecords
  <2> HIDE DEF P, T, E, front
  <2>3. SetToSeq(P) \in Seq(S) /\ SetToSeq(T) \in Seq(S)
    BY <2>1, SeqMonotonic
  <2> HIDE DEF S
  <2>4. QED
    BY <2>2, <2>3, ConcatProperties
<1>4. back \in Seq(E)
  <2>1. back \in {<<>>} \cup {<<e>> : e \in E}
    OBVIOUS
  <2> HIDE DEF E, back
  <2>2. <<>> \in Seq(E) /\ \A e \in E : <<e>> \in Seq(E)
    OBVIOUS
  <2>3. QED
    BY <2>1, <2>2
<1>5. v.reasons # {} => Len(back) = 1 /\ back[1] \in E
  OBVIOUS
<1>6. q = front \o back
  BY DEF RecordsOf
<1>7. \A r \in S : PlannerRecord(input, v, r)
  BY DEF PlannerRecord
<1>8. E \subseteq S
  OBVIOUS
<1> HIDE DEF P, T, E, S, front, back, q
<1>9. back \in Seq(S)
  BY <1>4, <1>8, SeqMonotonic
<1>10. /\ q \in Seq(S) /\ Len(q) = Len(front) + Len(back)
       /\ \A i \in 1..Len(front) + Len(back) :
             q[i] = IF i <= Len(front) THEN front[i] ELSE back[i - Len(front)]
       /\ Len(front) \in Nat
  BY <1>3, <1>6, <1>9, ConcatProperties, LenProperties
<1>11. \A n \in 1..Len(q) : PlannerRecord(input, v, q[n])
  BY <1>7, <1>10, ElementOfSeq
<1>12. ASSUME v.reasons # {} PROVE q # <<>> /\ q[Len(q)] \in E
  <2>1. Len(q) = Len(front) + 1 /\ Len(q) # 0
    BY <1>5, <1>10, <1>12
  <2>2. q[Len(q)] = back[1]
    <3>1. Len(q) \in 1..Len(front) + Len(back) /\ ~(Len(q) <= Len(front)) /\ Len(q) - Len(front) = 1
      BY <2>1, <1>10
    <3>2. QED
      BY <3>1, <1>10
  <2>3. Len(<<>>) = 0
    BY EmptySeq
  <2>4. QED
    BY <2>1, <2>2, <2>3, <1>5, <1>12
<1>13. QED
  BY <1>10, <1>11, <1>12 DEF E, q, IsSeq

----------------------------------------------------------------------------
(* What the command must respect.  The stops and the rejections of the     *)
(* start are in the file until it is read, those that the report finds due *)
(* still to be marked, and then in what was read, so that none is missed   *)
(* however the reads and the writes of others fall.                        *)

(* The families that the report found degraded and that are not marked yet.*)
Due == IF cmd.at = "marking" THEN cmd.todo ELSE {}

BeforeRead == {"health", "review", "marking", "ledgers", "trades", "memory"}

(* Reports are not given allow_stopped_family.                             *)
Reporting == cmd.at = "review" \/ (cmd.at = "health" /\ cmd.kind = "evidence-report")

StopsKept ==
    IF cmd.at \in BeforeRead THEN Degraded(file) \cup Stopped(file) \cup Due
    ELSE IF cmd.at = "plan" THEN Degraded(cmd.know.memory) \cup cmd.know.stopped
    ELSE Degraded(cmd.know.memory) \cup Stopped(file)

RejectionsKept ==
    IF cmd.at \in BeforeRead THEN Repeated(file) ELSE Repeated(cmd.know.memory)

(* The steps of the planner up to its answer.                              *)
Planning ==
    \/ cmd.at \in BeforeRead \cup {"stops", "plan"}
    \/ cmd.at \in {"context", "samples", "sources"} /\ cmd.kind # "iteration-cycle"

MarkName(f) == <<"degraded", f>>

(* A record named after a degraded family is about that family.            *)
NamesInv ==
    \A r \in file, f \in Families :
        r.id = MarkName(f) => r.family = f /\ r.params = NoParams

RespectInv ==
    /\ NamesInv
    /\ DOMAIN history = HistoryFields
    /\ cmd.todo \subseteq Families
    /\ cmd.at # "save" => cmd.queue = <<>>
    /\ IsSeq(cmd.queue)
    /\ \A n \in 1..Len(cmd.queue), f \in Families : cmd.queue[n].id # MarkName(f)
    /\ Planning =>
         /\ history.barred \subseteq StopsKept
         /\ history.repeated \subseteq RejectionsKept
         /\ cmd.input.override => history.barred = {} /\ ~Reporting
    /\ ProposalsRespectMemory

(* Marking a family takes nothing out of the memory that stops another     *)
(* one, or that rejects parameters.                                        *)
LEMMA MarkKeepsMemory ==
    ASSUME NamesInv, NEW f \in Families
    PROVE  LET after == Upsert(file, Marker(f))
           IN  /\ Degraded(file) \cup {f} \subseteq Degraded(after)
               /\ Stopped(file) \subseteq Stopped(after)
               /\ Repeated(file) \subseteq Repeated(after)
<1> DEFINE m == Marker(f)
           after == Upsert(file, m)
<1>1. /\ m.id = MarkName(f) /\ m.family = f /\ m.reasons = {"degraded_expectancy"}
      /\ m \in after
      /\ \A r \in file : r.id # MarkName(f) => r \in after
  BY DEF Marker, Record, Upsert, MarkName
<1>2. /\ "degraded_expectancy" \in PlannerMarkers /\ "degraded_expectancy" \in ReportMarkers
      /\ f # NoFamily
  BY FamiliesAssumption DEF PlannerMarkers, ReportMarkers
<1>3. FamilyOf(m) = {f} /\ Marks(m, PlannerMarkers) /\ Marks(m, ReportMarkers)
  BY <1>1, <1>2 DEF FamilyOf, Marks
<1>4. \A r \in file : r.id = MarkName(f) => r.family = f /\ FamilyOf(r) = {f} /\ r.params = NoParams
  BY <1>2 DEF NamesInv, FamilyOf
<1> HIDE DEF m, after
<1>5. ASSUME NEW g \in Degraded(file) \cup {f} PROVE g \in Degraded(after)
  <2>1. CASE g = f
    BY <2>1, <1>1, <1>3 DEF Degraded
  <2>2. CASE g # f
    <3>1. PICK r \in file : Marks(r, PlannerMarkers) /\ g \in FamilyOf(r)
      BY <1>5, <2>2 DEF Degraded
    <3>2. r \in after
      BY <3>1, <1>1, <1>4, <2>2
    <3>3. QED
      BY <3>1, <3>2 DEF Degraded
  <2>3. QED
    BY <2>1, <2>2
<1>6. ASSUME NEW g \in Stopped(file) PROVE g \in Stopped(after)
  <2>1. PICK r \in file : Marks(r, ReportMarkers) /\ g = r.family /\ g \in Families
    BY <1>6 DEF Stopped
  <2>2. CASE r.id = MarkName(f)
    BY <2>1, <2>2, <1>1, <1>3, <1>4 DEF Stopped
  <2>3. CASE r.id # MarkName(f)
    BY <2>1, <2>3, <1>1 DEF Stopped
  <2>4. QED
    BY <2>2, <2>3
<1>7. Repeated(file) \subseteq Repeated(after)
  BY <1>1, <1>4 DEF Repeated
<1>8. QED
  BY <1>5, <1>6, <1>7 DEF m, after

(* A write of another command that takes a stop back lifts it.             *)
LEMMA OtherLifts ==
    ASSUME Other, DOMAIN history = HistoryFields
    PROVE  /\ history'.barred \cap Degraded(file) \subseteq Degraded(file')
           /\ history'.barred \cap Stopped(file) \subseteq Stopped(file')
           /\ history'.repeated \cap Repeated(file) \subseteq Repeated(file')
           /\ history'.barred \subseteq history.barred
           /\ history'.repeated \subseteq history.repeated
           /\ history'.unsafe = history.unsafe
           /\ DOMAIN history' = HistoryFields
           /\ \/ \E r \in Others : file' = Upsert(file, r)
                                 /\ history'.others = history.others \cup {r.id}
              \/ UNCHANGED file /\ history'.others = history.others
<1>1. CASE UNCHANGED file /\ history' = [history EXCEPT !.stood = @ \cup Stands(ledger')]
  <2>1. /\ history'.others = history.others /\ history'.unsafe = history.unsafe
        /\ history'.barred = history.barred /\ history'.repeated = history.repeated
        /\ DOMAIN history' = HistoryFields
    BY <1>1 DEF HistoryFields
  <2>2. QED
    BY <1>1, <2>1
<1>2. CASE ~(UNCHANGED file /\ history' = [history EXCEPT !.stood = @ \cup Stands(ledger')])
  <2>1. PICK r \in Others :
          /\ file' = Upsert(file, r)
          /\ history' = [history EXCEPT !.others = @ \cup {r.id},
                                        !.barred = @ \ StopsLost(Upsert(file, r)),
                                        !.repeated = @ \ RejectionsLost(Upsert(file, r))]
    BY <1>2, Zenon DEF Other
  <2>2. /\ history'.others = history.others \cup {r.id}
        /\ history'.unsafe = history.unsafe
        /\ history'.barred = history.barred \ StopsLost(file')
        /\ history'.repeated = history.repeated \ RejectionsLost(file')
        /\ DOMAIN history' = HistoryFields
    BY <2>1 DEF HistoryFields
  <2>3. QED
    BY <2>1, <2>2 DEF StopsLost, RejectionsLost
<1>3. QED
  BY <1>1, <1>2

LEMMA NothingQueued == IsSeq(<<>>) /\ Len(<<>>) = 0 /\ 1..Len(<<>>) = {}
<1>1. <<>> \in Seq({}) /\ Len(<<>>) = 0
  OBVIOUS
<1>2. QED
  BY <1>1 DEF IsSeq

(* A step that queues nothing leaves only the stops to be accounted for.   *)
LEMMA Onward ==
    ASSUME DOMAIN history' = HistoryFields, NamesInv',
           cmd'.todo \subseteq Families, cmd'.queue = <<>>,
           Planning' => /\ history'.barred \subseteq StopsKept'
                        /\ history'.repeated \subseteq RejectionsKept'
                        /\ cmd'.input.override => history'.barred = {} /\ ~Reporting'
    PROVE  RespectInv'
  BY NothingQueued DEF RespectInv, ProposalsRespectMemory

LEMMA CmdFields ==
    PlanInv => /\ DOMAIN cmd = {"kind", "at", "input", "attempt", "todo", "know", "queue",
                                "store", "batch", "exit"}
               /\ DOMAIN cmd.know = {"evidence", "memory", "refs", "stopped"}
  BY DEF PlanInv, PlanTypeOK, Command, NothingKnown

LEMMA RespectInit == Init => RespectInv
<1> SUFFICES ASSUME Init PROVE RespectInv
  OBVIOUS
<1>1. PICK i \in Inputs : cmd = Ended("plan-experiments", i, "none")
  BY DEF Init
<1>2. cmd.todo = {} /\ cmd.queue = <<>> /\ cmd.at = "off"
  BY <1>1 DEF Ended, Command
<1>3. NamesInv
  BY NamesAssumption DEF Init, NamesInv, MarkName
<1>4. ~Planning
  BY <1>2 DEF Planning, BeforeRead
<1>5. DOMAIN history = HistoryFields
  BY DEF Init, HistoryFields
<1>6. QED
  BY <1>2, <1>3, <1>4, <1>5, NothingQueued DEF RespectInv, ProposalsRespectMemory

LEMMA RespectEnd ==
    ASSUME PlanInv, RespectInv, NEW exit, End(exit), UNCHANGED <<file, history>>
    PROVE  RespectInv'
<1>1. cmd'.at = "off" /\ cmd'.todo = {} /\ cmd'.queue = <<>>
  BY DEF End, Ended, Command
<1>2. ~Planning'
  BY <1>1 DEF Planning, BeforeRead
<1>3. NamesInv' /\ DOMAIN history' = HistoryFields
  BY DEF RespectInv, NamesInv
<1>4. QED
  BY <1>1, <1>2, <1>3, Onward

LEMMA RespectStart ==
    ASSUME PlanInv, RespectInv, NEW kind \in Kinds, NEW input \in Inputs, Start(kind, input)
    PROVE  RespectInv'
<1>1. /\ UNCHANGED <<file, ledger>>
      /\ history' = [history EXCEPT !.barred = Barred(input), !.repeated = Repeated(file),
                                    !.unsafe = FALSE, !.stood = Stands(ledger)]
      /\ input.override => kind = "plan-experiments"
  BY DEF Start
<1>2. PICK list \in Listed(kind, input) : cmd' = [Command(kind, input) EXCEPT !.todo = list]
  BY Started
<1>3. /\ cmd'.at = "health" /\ cmd'.kind = kind /\ cmd'.input = input
      /\ cmd'.todo = list /\ cmd'.queue = <<>>
  BY <1>2, CommandIsTyped
<1>4. list \subseteq Families
  BY PlanningAssumption, LedgerAssumption DEF Listed
<1>5. DOMAIN history = HistoryFields
  BY DEF RespectInv
<1>6. /\ history'.barred = Barred(input) /\ history'.repeated = Repeated(file)
      /\ DOMAIN history' = HistoryFields
  BY <1>1, <1>5 DEF HistoryFields
<1>7. NamesInv'
  BY <1>1 DEF RespectInv, NamesInv
<1>8. RejectionsKept' = Repeated(file)
  BY <1>1, <1>3 DEF RejectionsKept, BeforeRead
<1>9. StopsKept' = Degraded(file) \cup Stopped(file)
  BY <1>1, <1>3 DEF StopsKept, Due, BeforeRead
<1>10. Barred(input) \subseteq StopsKept' /\ (input.override => Barred(input) = {})
  BY <1>9 DEF Barred
<1>11. input.override => ~Reporting'
  BY <1>1, <1>3 DEF Reporting
<1>12. QED
  BY <1>3, <1>4, <1>6, <1>7, <1>8, <1>10, <1>11, Onward

(* What the report finds is still to be marked.                            *)
LEMMA RespectReview == ASSUME PlanInv, RespectInv, Review PROVE RespectInv'
<1>1. /\ cmd.at = "review" /\ cmd'.kind = cmd.kind /\ cmd'.input = cmd.input
      /\ cmd'.todo = Found /\ cmd'.queue = <<>> /\ cmd'.at = "marking"
      /\ UNCHANGED file
  BY CmdFields DEF Review, At, RespectInv
<1>2. /\ history'.barred = history.barred \cup Found
      /\ history'.repeated = history.repeated
      /\ DOMAIN history' = HistoryFields
  BY DEF Review, FoundBarred, RespectInv, HistoryFields
<1>3. /\ history.barred \subseteq Degraded(file) \cup Stopped(file)
      /\ history.repeated \subseteq Repeated(file)
      /\ ~cmd.input.override
  BY <1>1 DEF RespectInv, Planning, Reporting, StopsKept, RejectionsKept, Due, BeforeRead
<1>4. /\ StopsKept' = Degraded(file) \cup Stopped(file) \cup Found
      /\ RejectionsKept' = Repeated(file)
  BY <1>1 DEF StopsKept, RejectionsKept, Due, BeforeRead
<1>5. NamesInv' /\ cmd'.todo \subseteq Families
  BY <1>1 DEF RespectInv, NamesInv, Found
<1>6. QED
  BY <1>1, <1>2, <1>3, <1>4, <1>5, Onward

(* The steps that change neither the memory nor what is to be respected.   *)
LEMMA RespectSteps ==
    ASSUME PlanInv, RespectInv,
           \/ Healthy \/ MarkingDone \/ ReadLedgers \/ ReadTrades \/ ReadMemory
           \/ ReadContext \/ ReadSamples \/ ReadSources \/ ReadStops
           \/ Iterate \/ WriteMarkdown
           \/ Saved /\ cmd.kind = "evidence-report"
    PROVE  RespectInv'
<1>1. UNCHANGED <<file, ledger, history>>
  BY DEF Healthy, MarkingDone, ReadLedgers, ReadTrades, ReadMemory, ReadContext, ReadSamples,
     ReadSources, ReadStops, Iterate, WriteMarkdown, Saved
<1>2. NamesInv' /\ DOMAIN history' = HistoryFields
  BY <1>1 DEF RespectInv, NamesInv
<1> DEFINE kept == /\ history.barred \subseteq StopsKept'
                   /\ history.repeated \subseteq RejectionsKept'
                   /\ cmd'.input.override => history.barred = {} /\ ~Reporting'
           onward == cmd'.todo \subseteq Families /\ cmd'.queue = <<>>
<1>3. ASSUME onward, Planning' => kept PROVE RespectInv'
  BY <1>1, <1>2, <1>3, Onward
<1>4. /\ cmd.todo \subseteq Families
      /\ cmd.at # "save" => cmd.queue = <<>>
      /\ Planning => /\ history.barred \subseteq StopsKept
                     /\ history.repeated \subseteq RejectionsKept
                     /\ cmd.input.override => history.barred = {} /\ ~Reporting
  BY DEF RespectInv
<1>5. ASSUME Healthy PROVE RespectInv'
  <2>1. /\ cmd.at = "health" /\ cmd'.kind = cmd.kind /\ cmd'.input = cmd.input
        /\ cmd'.todo = cmd.todo /\ cmd'.queue = cmd.queue
        /\ \/ cmd.kind = "plan-experiments" /\ cmd'.at = "ledgers"
           \/ cmd.kind = "evidence-report" /\ cmd'.at = "review"
           \/ cmd.kind = "iteration-cycle" /\ cmd'.at = "context"
    BY <1>5, CmdFields DEF Healthy, Answered, At, GoTo, PlanInv, PlanTypeOK, Kinds
  <2>2. Planning' => kept
    BY <1>1, <1>4, <2>1 DEF Planning, Reporting, StopsKept, RejectionsKept, Due, BeforeRead
  <2>3. QED
    BY <1>3, <1>4, <2>1, <2>2
<1>7. ASSUME MarkingDone \/ ReadLedgers \/ ReadTrades PROVE RespectInv'
  <2>1. /\ cmd'.kind = cmd.kind /\ cmd'.input = cmd.input
        /\ cmd'.todo = cmd.todo /\ cmd'.queue = cmd.queue
        /\ \/ cmd.at = "marking" /\ cmd.todo = {} /\ cmd'.at = "ledgers"
           \/ cmd.at = "ledgers" /\ cmd'.at = "trades"
           \/ cmd.at = "trades" /\ cmd'.at = "memory"
    BY <1>7, CmdFields DEF MarkingDone, ReadLedgers, ReadTrades, At, GoTo
  <2>2. Planning' => kept
    BY <1>1, <1>4, <2>1 DEF Planning, Reporting, StopsKept, RejectionsKept, Due, BeforeRead
  <2>3. QED
    BY <1>3, <1>4, <2>1, <2>2
<1>8. ASSUME ReadMemory PROVE RespectInv'
  <2>1. /\ cmd.at = "memory" /\ cmd'.kind = cmd.kind /\ cmd'.input = cmd.input
        /\ cmd'.todo = cmd.todo /\ cmd'.queue = cmd.queue
        /\ cmd'.at = "context" /\ cmd'.know.memory = file
    BY <1>8, CmdFields DEF ReadMemory, At
  <2>2. Planning' => kept
    BY <1>1, <1>4, <2>1 DEF Planning, Reporting, StopsKept, RejectionsKept, Due, BeforeRead
  <2>3. QED
    BY <1>3, <1>4, <2>1, <2>2
<1>9. ASSUME ReadContext \/ ReadSamples \/ ReadSources PROVE RespectInv'
  <2>1. /\ cmd'.kind = cmd.kind /\ cmd'.input = cmd.input
        /\ cmd'.todo = cmd.todo /\ cmd'.queue = cmd.queue
        /\ cmd.at \in {"context", "samples", "sources"}
        /\ cmd'.at \in {"samples", "sources", "stops", "iterate"}
        /\ cmd.kind = "iteration-cycle" => cmd'.at # "stops"
        /\ cmd'.know.memory = cmd.know.memory
    <3>1. CASE ReadContext
      BY <3>1, CmdFields DEF ReadContext, At
    <3>2. CASE ReadSamples
      BY <3>2, CmdFields DEF ReadSamples, At
    <3>3. CASE ReadSources
      BY <3>3, CmdFields DEF ReadSources, At
    <3>4. QED
      BY <1>9, <3>1, <3>2, <3>3
  <2>2. Planning' => kept
    BY <1>1, <1>4, <2>1 DEF Planning, Reporting, StopsKept, RejectionsKept, Due, BeforeRead
  <2>3. QED
    BY <1>3, <1>4, <2>1, <2>2
<1>10. ASSUME ReadStops PROVE RespectInv'
  <2>1. /\ cmd.at = "stops" /\ cmd'.kind = cmd.kind /\ cmd'.input = cmd.input
        /\ cmd'.todo = cmd.todo /\ cmd'.queue = cmd.queue
        /\ cmd'.at = "plan" /\ cmd'.know.memory = cmd.know.memory
        /\ cmd'.know.stopped = Stopped(file)
    BY <1>10, CmdFields DEF ReadStops, At
  <2>2. Planning' => kept
    BY <1>1, <1>4, <2>1 DEF Planning, Reporting, StopsKept, RejectionsKept, Due, BeforeRead
  <2>3. QED
    BY <1>3, <1>4, <2>1, <2>2
<1>11. ASSUME Iterate \/ WriteMarkdown \/ (Saved /\ cmd.kind = "evidence-report")
       PROVE  RespectInv'
  <2>1. cmd'.todo = cmd.todo /\ cmd'.queue = <<>> /\ cmd'.at \in {"markdown", "json", "summary"}
    <3>1. CASE Iterate
      BY <3>1, <1>4, CmdFields DEF Iterate, Answered, At
    <3>2. CASE WriteMarkdown
      BY <3>2, <1>4, CmdFields DEF WriteMarkdown, GoTo, At
    <3>3. CASE Saved /\ cmd.kind = "evidence-report"
      BY <3>3, <1>4, CmdFields DEF Saved
    <3>4. QED
      BY <1>11, <3>1, <3>2, <3>3
  <2>2. ~Planning'
    BY <2>1 DEF Planning, BeforeRead
  <2>3. QED
    BY <1>3, <1>4, <2>1, <2>2
<1>12. QED
  BY <1>5, <1>7, <1>8, <1>9, <1>10, <1>11

LEMMA RespectMark == ASSUME PlanInv, RespectInv, Mark PROVE RespectInv'
<1>1. PICK f \in cmd.todo :
        file' = Upsert(file, Marker(f)) /\ cmd' = [cmd EXCEPT !.todo = @ \ {f}]
  BY DEF Mark
<1>2. /\ cmd.at = "marking" /\ cmd'.at = "marking" /\ cmd'.kind = cmd.kind
      /\ cmd'.input = cmd.input /\ cmd'.todo = cmd.todo \ {f} /\ cmd'.queue = <<>>
      /\ UNCHANGED history /\ f \in Families
  BY <1>1, CmdFields DEF Mark, At, RespectInv
<1>3. /\ Degraded(file) \cup {f} \subseteq Degraded(file')
      /\ Stopped(file) \subseteq Stopped(file')
      /\ Repeated(file) \subseteq Repeated(file')
  BY <1>1, <1>2, MarkKeepsMemory DEF RespectInv
<1>4. NamesInv'
  <2>1. Marker(f).id = MarkName(f) /\ Marker(f).family = f /\ Marker(f).params = NoParams
    BY DEF Marker, Record, MarkName
  <2>2. \A g : MarkName(f) = MarkName(g) => f = g
    BY DEF MarkName
  <2>3. \A r \in file' : r \in file \/ r = Marker(f)
    BY <1>1 DEF Upsert
  <2>4. QED
    BY <2>1, <2>2, <2>3 DEF NamesInv, RespectInv
<1>5. /\ history.barred \subseteq Degraded(file) \cup Stopped(file) \cup cmd.todo
      /\ history.repeated \subseteq Repeated(file)
      /\ cmd.input.override => history.barred = {}
  BY <1>2 DEF RespectInv, Planning, StopsKept, RejectionsKept, Due, BeforeRead
<1>6. /\ StopsKept' = Degraded(file') \cup Stopped(file') \cup cmd'.todo
      /\ RejectionsKept' = Repeated(file')
  BY <1>2 DEF StopsKept, RejectionsKept, Due, BeforeRead
<1>7. /\ DOMAIN history' = HistoryFields /\ cmd'.todo \subseteq Families
  BY <1>2 DEF RespectInv
<1>8. history'.barred \subseteq StopsKept' /\ history'.repeated \subseteq RejectionsKept'
  BY <1>2, <1>3, <1>5, <1>6
<1>9. ~Reporting'
  BY <1>2 DEF Reporting
<1>10. QED
  BY <1>2, <1>4, <1>5, <1>7, <1>8, <1>9, Onward

LEMMA RespectOther == ASSUME PlanInv, RespectInv, Other PROVE RespectInv'
<1>1. UNCHANGED cmd /\ cmd.at # "save" /\ cmd.queue = <<>> /\ cmd.todo \subseteq Families
  BY DEF Other, At, RespectInv
<1>2. /\ history'.barred \cap Degraded(file) \subseteq Degraded(file')
      /\ history'.barred \cap Stopped(file) \subseteq Stopped(file')
      /\ history'.repeated \cap Repeated(file) \subseteq Repeated(file')
      /\ history'.barred \subseteq history.barred
      /\ history'.repeated \subseteq history.repeated
      /\ DOMAIN history' = HistoryFields
      /\ (\E r \in Others : file' = Upsert(file, r)) \/ UNCHANGED file
  BY OtherLifts DEF RespectInv
<1>3. NamesInv'
  BY <1>2, NamesAssumption DEF NamesInv, RespectInv, Upsert, MarkName
<1>4. Due' = Due /\ Reporting' = Reporting
  BY <1>1 DEF Due, Reporting
<1>6. ASSUME Planning
      PROVE  /\ history'.barred \subseteq StopsKept'
             /\ history'.repeated \subseteq RejectionsKept'
             /\ cmd'.input.override => history'.barred = {} /\ ~Reporting'
  <2>1. /\ history.barred \subseteq StopsKept /\ history.repeated \subseteq RejectionsKept
        /\ cmd.input.override => history.barred = {} /\ ~Reporting
    BY <1>6 DEF RespectInv
  <2>2. history'.barred \subseteq StopsKept'
    BY <1>1, <1>2, <1>4, <2>1 DEF StopsKept
  <2>3. history'.repeated \subseteq RejectionsKept'
    BY <1>1, <1>2, <2>1 DEF RejectionsKept
  <2>4. QED
    BY <1>1, <1>2, <1>4, <2>1, <2>2, <2>3
<1>7. Planning' = Planning
  BY <1>1 DEF Planning
<1>8. QED
  BY <1>1, <1>2, <1>3, <1>6, <1>7, Onward

(* What becomes of an answer.                                              *)
LEMMA PlanForms ==
    ASSUME NEW a \in Answers, Plan(a)
    PROVE  LET v == Judge(cmd.input, cmd.know, a)
           IN  /\ cmd.at = "plan" /\ UNCHANGED <<file, ledger, report>>
               /\ history' = [history EXCEPT !.unsafe = @ \/ Unsafe(v)]
               /\ \/ cmd' = [cmd EXCEPT !.attempt = @ + 1] /\ WorthRetry(v)
                  \/ cmd' = [cmd EXCEPT !.at = "save", !.queue = RecordsOf(cmd.input, v),
                                        !.store = file, !.know = NothingKnown]
  BY DEF Plan, Answered, At, Opened

(* Another attempt knows what the one before it knew.                      *)
LEMMA RespectAgain ==
    ASSUME PlanInv, RespectInv, cmd' = [cmd EXCEPT !.attempt = @ + 1], cmd.at # "save",
           UNCHANGED <<file, ledger>>, DOMAIN history' = HistoryFields,
           history'.barred = history.barred, history'.repeated = history.repeated
    PROVE  RespectInv'
<1>1. /\ cmd'.at = cmd.at /\ cmd'.kind = cmd.kind /\ cmd'.input = cmd.input
      /\ cmd'.todo = cmd.todo /\ cmd'.queue = cmd.queue /\ cmd'.know = cmd.know
  BY CmdFields
<1>2. NamesInv'
  BY DEF RespectInv, NamesInv
<1>3. StopsKept' = StopsKept /\ RejectionsKept' = RejectionsKept /\ Planning' = Planning
  BY <1>1 DEF StopsKept, RejectionsKept, Due, Planning
<1>4. Reporting' = Reporting
  BY <1>1 DEF Reporting
<1>5. QED
  BY <1>1, <1>2, <1>3, <1>4, Onward DEF RespectInv

(* A record of the planner is no mark of a degraded family, and only those *)
(* of accepted proposals are tagged so.                                    *)
LEMMA PlannerRecordShape ==
    ASSUME NEW input, NEW v, NEW r, PlannerRecord(input, v, r)
    PROVE  /\ \A f : r.id # MarkName(f)
           /\ "experiment-proposal" \in r.tags /\ "accepted" \in r.tags =>
                \E x \in v.proposals : r.family = x[2].family /\ r.params = x[2].params
<1>1. CASE \E x \in v.proposals : r = ProposalRecord(input, x)
  <2>1. PICK x \in v.proposals : r = ProposalRecord(input, x)
    BY <1>1
  <2>2. /\ r.id = <<"proposal", input, x[1], x[2].family, x[2].params>>
        /\ r.family = x[2].family /\ r.params = x[2].params
    BY <2>1 DEF ProposalRecord, Record
  <2>3. r.id[1] = "proposal" /\ \A f : MarkName(f)[1] = "degraded"
    BY <2>2 DEF MarkName
  <2>4. QED
    BY <2>2, <2>3
<1>2. CASE \E t \in v.templates : r = TemplateRecord(input, t)
  <2>1. r.tags = {"strategy-template-proposal", "accepted"} /\ r.id[1] = "template"
    BY <1>2 DEF TemplateRecord, Record
  <2>2. \A f : MarkName(f)[1] = "degraded"
    BY DEF MarkName
  <2>3. QED
    BY <2>1, <2>2
<1>3. CASE r \in {RejectedRecord(input, v), PartialRecord(input, v)}
  <2>1. r.tags = {"experiment-proposal", "rejected"} /\ r.id[1] \in {"rejected", "partial-rejected"}
    BY <1>3 DEF RejectedRecord, PartialRecord, Record
  <2>2. \A f : MarkName(f)[1] = "degraded"
    BY DEF MarkName
  <2>3. QED
    BY <2>1, <2>2
<1>4. QED
  BY <1>1, <1>2, <1>3 DEF PlannerRecord

LEMMA RespectPlan == ASSUME PlanInv, RespectInv, NEW a \in Answers, Plan(a) PROVE RespectInv'
<1> DEFINE v == Judge(cmd.input, cmd.know, a)
           q == RecordsOf(cmd.input, v)
<1>1. /\ cmd.at = "plan" /\ UNCHANGED <<file, ledger>>
      /\ \/ cmd' = [cmd EXCEPT !.attempt = @ + 1]
         \/ cmd' = [cmd EXCEPT !.at = "save", !.queue = q, !.store = file, !.know = NothingKnown]
      /\ \E u : history' = [history EXCEPT !.unsafe = u]
  BY PlanForms
<1>2. DOMAIN history = HistoryFields
  BY DEF RespectInv
<1>3. /\ history'.barred = history.barred /\ history'.repeated = history.repeated
      /\ DOMAIN history' = HistoryFields
  BY <1>1, <1>2 DEF HistoryFields
<1>4. CASE cmd' = [cmd EXCEPT !.attempt = @ + 1]
  BY <1>1, <1>3, <1>4, RespectAgain
<1>5. CASE cmd' = [cmd EXCEPT !.at = "save", !.queue = q, !.store = file, !.know = NothingKnown]
  <2>1. /\ IsFiniteSet(v.proposals) /\ IsFiniteSet(v.templates)
        /\ \A x \in v.proposals :
              /\ x[2].family \in CandidateFamilies(cmd.input, cmd.know)
              /\ <<x[2].family, x[2].params>> \notin Repeated(cmd.know.memory)
    BY Judged
  <2>2. IsSeq(q) /\ \A n \in 1..Len(q) : PlannerRecord(cmd.input, v, q[n])
    <3> HIDE DEF v
    <3>1. QED
      BY <2>1, RecordsShape
  <2>3. /\ history.barred \subseteq Degraded(cmd.know.memory) \cup cmd.know.stopped
        /\ history.repeated \subseteq Repeated(cmd.know.memory)
        /\ cmd.input.override => history.barred = {}
    BY <1>1 DEF RespectInv, Planning, StopsKept, RejectionsKept, BeforeRead
  <2> HIDE DEF v, q
  <2>4. cmd'.at = "save" /\ cmd'.todo = cmd.todo /\ cmd'.queue = q
    BY <1>5, CmdFields
  <2>5. ~Planning'
    BY <2>4 DEF Planning, BeforeRead
  <2>6. \A n \in 1..Len(q), f \in Families : q[n].id # MarkName(f)
    BY <2>2, PlannerRecordShape
  <2>7. ASSUME NEW n \in 1..Len(q),
               "experiment-proposal" \in q[n].tags, "accepted" \in q[n].tags
        PROVE  /\ q[n].family \notin history.barred
               /\ <<q[n].family, q[n].params>> \notin history.repeated
    <3>1. PICK x \in v.proposals : q[n].family = x[2].family /\ q[n].params = x[2].params
      BY <2>2, <2>7, PlannerRecordShape
    <3>2. q[n].family \in CandidateFamilies(cmd.input, cmd.know)
      BY <2>1, <3>1
    <3>3. q[n].family \notin history.barred
      BY <2>3, <3>2 DEF CandidateFamilies
    <3>4. QED
      BY <2>1, <2>3, <3>1, <3>3
  <2>8. ProposalsRespectMemory'
    BY <2>4, <2>7, <1>3 DEF ProposalsRespectMemory
  <2>9. NamesInv'
    BY <1>1 DEF RespectInv, NamesInv
  <2>10. cmd.todo \subseteq Families
    BY DEF RespectInv
  <2>11. QED
    BY <1>3, <2>2, <2>4, <2>5, <2>6, <2>8, <2>9, <2>10 DEF RespectInv
<1>6. QED
  BY <1>1, <1>4, <1>5

(* The queue gets shorter from its head.                                   *)
LEMMA TailOfQueue ==
    ASSUME NEW q, IsSeq(q), q # <<>>
    PROVE  /\ IsSeq(Tail(q)) /\ Len(q) \in Nat \ {0} /\ Len(Tail(q)) = Len(q) - 1
           /\ 1 \in 1..Len(q) /\ Head(q) = q[1]
           /\ \A n \in 1..Len(Tail(q)) : n + 1 \in 1..Len(q) /\ Tail(q)[n] = q[n + 1]
<1>1. PICK S : q \in Seq(S)
  BY DEF IsSeq
<1>2. /\ Tail(q) \in Seq(S) /\ Len(Tail(q)) = Len(q) - 1
      /\ \A i \in 1..Len(Tail(q)) : Tail(q)[i] = q[i + 1]
  BY <1>1, HeadTailProperties
<1>3. Len(q) \in Nat \ {0} /\ Head(q) = q[1]
  BY <1>1, EmptySeq
<1>4. QED
  BY <1>2, <1>3 DEF IsSeq

LEMMA RespectSave == ASSUME PlanInv, RespectInv, Save, cmd.store = file PROVE RespectInv'
<1> DEFINE q == cmd.queue
<1>1. /\ cmd.at = "save" /\ q # <<>> /\ file' = Upsert(file, Head(q)) /\ UNCHANGED history
      /\ cmd'.at = "save" /\ cmd'.queue = Tail(q) /\ cmd'.todo = cmd.todo
  BY CmdFields DEF Save, At
<1>2. /\ IsSeq(q) /\ \A n \in 1..Len(q), f \in Families : q[n].id # MarkName(f)
      /\ NamesInv /\ cmd.todo \subseteq Families /\ DOMAIN history = HistoryFields
  BY DEF RespectInv
<1> HIDE DEF q
<1>3. /\ IsSeq(Tail(q)) /\ 1 \in 1..Len(q) /\ Head(q) = q[1]
      /\ \A n \in 1..Len(Tail(q)) : n + 1 \in 1..Len(q) /\ Tail(q)[n] = q[n + 1]
  BY <1>1, <1>2, TailOfQueue
<1>4. NamesInv'
  BY <1>1, <1>2, <1>3 DEF NamesInv, Upsert
<1>5. ~Planning'
  BY <1>1 DEF Planning, BeforeRead
<1>6. ProposalsRespectMemory'
  <2>1. \A n \in 1..Len(q) :
          "experiment-proposal" \in q[n].tags /\ "accepted" \in q[n].tags =>
            /\ q[n].family \notin history.barred
            /\ <<q[n].family, q[n].params>> \notin history.repeated
    BY DEF RespectInv, ProposalsRespectMemory, q
  <2>2. QED
    BY <1>1, <1>3, <2>1 DEF ProposalsRespectMemory
<1>7. \A n \in 1..Len(Tail(q)), f \in Families : Tail(q)[n].id # MarkName(f)
  BY <1>2, <1>3
<1>8. QED
  BY <1>1, <1>2, <1>3, <1>4, <1>5, <1>6, <1>7 DEF RespectInv

(* The save works on the file as it is: the store was opened for it, and   *)
(* it writes what it then holds.                                           *)
StoreInv == cmd.at = "save" => cmd.store = file

LEMMA AtSave ==
    ASSUME [Next]_vars, cmd'.at = "save", PlanInv
    PROVE  \/ Save
           \/ \E a \in Answers : Plan(a)
           \/ UNCHANGED planVars
<1>1. ASSUME NEW kind \in Kinds, NEW input \in Inputs, Start(kind, input) PROVE FALSE
  BY <1>1 DEF Start, Command
<1>2. ASSUME NEW exit, End(exit) PROVE FALSE
  BY <1>2 DEF End, Ended, Command
<1>3. ~(ProviderFails \/ Summarize \/ WriteJson \/ Crash)
  BY <1>2 DEF ProviderFails, Summarize, WriteJson, Crash
<1>4. ~Unhealthy /\ ~Saved
  BY <1>2, CmdFields DEF Unhealthy, Saved, Answered, At
<1>5. ~(Healthy \/ MarkingDone \/ WriteMarkdown)
  BY CmdFields DEF Healthy, MarkingDone, WriteMarkdown, GoTo, PlanInv, PlanTypeOK, Kinds
<1>6. ~(\/ Review \/ Mark \/ ReadLedgers \/ ReadTrades \/ ReadMemory
        \/ ReadContext \/ ReadSamples \/ ReadSources \/ ReadStops)
  BY CmdFields DEF Review, Mark, ReadLedgers, ReadTrades, ReadMemory, ReadContext, ReadSamples,
     ReadSources, ReadStops, At
<1>7. ~Iterate
  BY CmdFields DEF Iterate
<1>8. ~Other
  BY DEF Other, At
<1>9. QED
  BY <1>1, <1>3, <1>4, <1>5, <1>6, <1>7, <1>8 DEF Next, Work, vars

LEMMA StoreStep == PlanInv /\ StoreInv /\ [Next]_vars => StoreInv'
<1> SUFFICES ASSUME PlanInv, StoreInv, [Next]_vars, cmd'.at = "save" PROVE cmd'.store = file'
  BY DEF StoreInv
<1>1. CASE Save
  <2>1. /\ cmd.at = "save" /\ file' = Upsert(cmd.store, Head(cmd.queue))
        /\ cmd'.store = Upsert(cmd.store, Head(cmd.queue))
    BY <1>1, CmdFields DEF Save, At
  <2>2. QED
    BY <2>1
<1>2. ASSUME NEW a \in Answers, Plan(a) PROVE cmd'.store = file'
  <2>1. /\ cmd.at = "plan" /\ UNCHANGED file
        /\ \/ cmd' = [cmd EXCEPT !.attempt = @ + 1]
           \/ \E q : cmd' = [cmd EXCEPT !.at = "save", !.queue = q, !.store = file,
                                          !.know = NothingKnown]
    BY <1>2, PlanForms
  <2>2. QED
    BY <2>1, CmdFields
<1>3. CASE UNCHANGED planVars
  BY <1>3 DEF planVars, StoreInv
<1>4. QED
  BY <1>1, <1>2, <1>3, AtSave

LEMMA RespectStep == PlanInv /\ StoreInv /\ RespectInv /\ [Next]_vars => RespectInv'
<1> SUFFICES ASSUME PlanInv, StoreInv, RespectInv, [Next]_vars PROVE RespectInv'
  OBVIOUS
<1>1. ASSUME NEW kind \in Kinds, NEW input \in Inputs, Start(kind, input) PROVE RespectInv'
  BY <1>1, RespectStart
<1>2. ASSUME UNCHANGED planVars PROVE RespectInv'
  <2>1. /\ NamesInv' /\ Planning' = Planning
        /\ StopsKept' = StopsKept /\ RejectionsKept' = RejectionsKept
        /\ Reporting' = Reporting
    BY <1>2 DEF RespectInv, NamesInv, StopsKept, RejectionsKept, Planning, Reporting, Due, planVars
  <2>2. QED
    BY <1>2, <2>1 DEF RespectInv, ProposalsRespectMemory, planVars
<1>3. ASSUME Unhealthy PROVE RespectInv'
  <2>1. CASE cmd.attempt < AnswerAttempts
    BY <1>3, <2>1, RespectAgain DEF Unhealthy, Answered, At, RespectInv
  <2>2. CASE ~(cmd.attempt < AnswerAttempts)
    BY <1>3, <2>2, RespectEnd DEF Unhealthy
  <2>3. QED
    BY <2>1, <2>2
<1>4. ASSUME NEW a \in Answers, Plan(a) PROVE RespectInv'
  BY <1>4, RespectPlan
<1>5. ASSUME Saved PROVE RespectInv'
  <2>1. cmd.kind = "evidence-report" \/ (End("ok") /\ UNCHANGED <<file, history>>)
    BY <1>5 DEF Saved
  <2>2. QED
    BY <1>5, <2>1, RespectSteps, RespectEnd
<1>6. ASSUME ProviderFails \/ Summarize \/ WriteJson \/ Crash PROVE RespectInv'
  <2>1. (\E exit : End(exit)) /\ UNCHANGED <<file, history>>
    BY <1>6 DEF ProviderFails, Summarize, WriteJson, Crash
  <2>2. QED
    BY <2>1, RespectEnd
<1>7. ASSUME Save PROVE RespectInv'
  BY <1>7, RespectSave DEF StoreInv, Save, At
<1>8. QED
  BY <1>1, <1>2, <1>3, <1>4, <1>5, <1>6, <1>7, RespectSteps, RespectReview, RespectMark,
     RespectOther
     DEF Next, Work, vars

(* No stop and no rejection is missed, whatever is written, and however    *)
(* long the answers take (experiment_planner.py, plan_next_experiments).   *)
THEOREM StopsAreRespected == Spec => []ProposalsRespectMemory
<1>1. Init => StoreInv
  <2> SUFFICES ASSUME Init PROVE StoreInv
    OBVIOUS
  <2>1. PICK i \in Inputs : cmd = Ended("plan-experiments", i, "none")
    BY DEF Init
  <2>2. QED
    BY <2>1 DEF StoreInv, Ended, Command
<1>2. Spec => [](PlanInv /\ StoreInv /\ RespectInv)
  BY <1>1, PlanInvInit, PlanInvStep, StoreStep, RespectInit, RespectStep, PTL DEF Spec
<1>3. RespectInv => ProposalsRespectMemory
  BY DEF RespectInv
<1>4. QED
  BY <1>2, <1>3, PTL

----------------------------------------------------------------------------
(* What others wrote survives: the memory loses no name.                   *)

LEMMA FileStep ==
    ASSUME PlanInv, StoreInv, [Next]_vars
    PROVE  UNCHANGED file \/ \E r : file' = Upsert(file, r)
<1>1. CASE Mark
  BY <1>1 DEF Mark
<1>2. CASE Save
  BY <1>2 DEF Save, StoreInv, At
<1>3. CASE Other
  BY <1>3, Zenon DEF Other
<1>4. ~Mark /\ ~Save /\ ~Other => UNCHANGED file
  BY DEF Next, Work, vars, planVars, Start, Healthy, Unhealthy, ProviderFails, Review,
     MarkingDone, ReadLedgers, ReadTrades, ReadMemory, ReadContext, ReadSamples, ReadSources,
     ReadStops, Plan, Saved, Summarize, Iterate, WriteMarkdown, WriteJson, Crash
<1>5. QED
  BY <1>1, <1>2, <1>3, <1>4

LEMMA NamesAreKept ==
    ASSUME NEW records, NEW r, NEW x \in records
    PROVE  \E y \in Upsert(records, r) : y.id = x.id
  BY DEF Upsert

(* Only a command that starts, its review, an answer and others change the *)
(* history.                                                                *)
LEMMA HistoryStep ==
    ASSUME [Next]_vars
    PROVE  \/ UNCHANGED history
           \/ \E kind \in Kinds, input \in Inputs : Start(kind, input)
           \/ \E a \in Answers : Plan(a)
           \/ Review
           \/ Other
  BY DEF Next, Work, vars, planVars, Healthy, Unhealthy, ProviderFails, Mark, MarkingDone,
     ReadLedgers, ReadTrades, ReadMemory, ReadContext, ReadSamples, ReadSources,
     ReadStops, Save, Saved, Summarize, Iterate, WriteMarkdown, WriteJson, Crash

LEMMA SurviveStep ==
    ASSUME PlanInv, StoreInv, RespectInv, OthersSurvivePlanning, [Next]_vars
    PROVE  OthersSurvivePlanning'
<1>1. \A x \in file : \E y \in file' : y.id = x.id
  BY FileStep, NamesAreKept
<1>2. DOMAIN history = HistoryFields
  BY DEF RespectInv
<1>3. CASE history'.others = history.others
  BY <1>1, <1>3 DEF OthersSurvivePlanning
<1>4. CASE Other
  <2>1. CASE UNCHANGED file /\ history'.others = history.others
    BY <2>1 DEF OthersSurvivePlanning
  <2>2. CASE \E r \in Others : /\ file' = Upsert(file, r)
                              /\ history'.others = history.others \cup {r.id}
    <3>1. PICK r \in Others : /\ file' = Upsert(file, r)
                              /\ history'.others = history.others \cup {r.id}
      BY <2>2
    <3>2. r \in file'
      BY <3>1 DEF Upsert
    <3>3. QED
      BY <1>1, <3>1, <3>2 DEF OthersSurvivePlanning
  <2>3. QED
    BY <1>2, <1>4, <2>1, <2>2, OtherLifts
<1>5. ASSUME NEW kind \in Kinds, NEW input \in Inputs, Start(kind, input)
      PROVE  history'.others = history.others
  BY <1>2, <1>5 DEF Start, HistoryFields
<1>6. ASSUME NEW a \in Answers, Plan(a) PROVE history'.others = history.others
  <2>1. \E u : history' = [history EXCEPT !.unsafe = u]
    BY <1>6, PlanForms
  <2>2. QED
    BY <1>2, <2>1 DEF HistoryFields
<1>7. ASSUME Review PROVE history'.others = history.others
  BY <1>2, <1>7 DEF Review, FoundBarred, HistoryFields
<1>8. QED
  BY <1>3, <1>4, <1>5, <1>6, <1>7, HistoryStep
(* A record that another command wrote while the planner waited is there   *)
(* when the planner has saved (memory/store.py, MemoryStore, opened anew   *)
(* for the save).                                                          *)
THEOREM OthersSurvive == Spec => []OthersSurvivePlanning
<1>1. Init => StoreInv /\ OthersSurvivePlanning
  <2> SUFFICES ASSUME Init PROVE StoreInv /\ OthersSurvivePlanning
    OBVIOUS
  <2>1. PICK i \in Inputs : cmd = Ended("plan-experiments", i, "none")
    BY DEF Init
  <2>2. history.others = {}
    BY DEF Init
  <2>3. QED
    BY <2>1, <2>2 DEF StoreInv, Ended, Command, OthersSurvivePlanning
<1>2. QED
  BY <1>1, PlanInvInit, PlanInvStep, StoreStep, RespectInit, RespectStep, SurviveStep, PTL DEF Spec

----------------------------------------------------------------------------
(* An unsafe answer.  Its record is the last of the queue, so that a       *)
(* command that has gone through has saved it.                             *)

ChargedFor(input, r) ==
    /\ r.id \in {<<"rejected", input>>, <<"partial-rejected", input>>}
    /\ "charter_violation" \in r.reasons

RememberInv ==
    /\ cmd.at # "off" => cmd.exit = "none"
    /\ history.unsafe =>
         /\ cmd.at \in {"save", "summary", "off"}
         /\ cmd.at = "save" /\ cmd.queue # <<>> => ChargedFor(cmd.input, cmd.queue[Len(cmd.queue)])
         /\ \/ cmd.at = "save" /\ cmd.queue = <<>>
            \/ cmd.at = "summary"
            \/ cmd.at = "off" /\ cmd.exit = "ok"
            => \E r \in file : ChargedFor(cmd.input, r)

(* A step that goes on with a command leaves its exit open, and its inputs.*)
LEMMA ExitStep ==
    ASSUME PlanInv, [Next]_vars
    PROVE  \/ cmd'.exit = cmd.exit /\ cmd'.input = cmd.input /\ (cmd.at = "off" => cmd'.at = "off")
           \/ \E kind \in Kinds, input \in Inputs : Start(kind, input)
           \/ \E exit : cmd' = Ended(cmd.kind, cmd.input, exit)
<1> DEFINE same == /\ cmd'.exit = cmd.exit /\ cmd'.input = cmd.input
                   /\ cmd.at = "off" => cmd'.at = "off"
           ends == \E exit : cmd' = Ended(cmd.kind, cmd.input, exit)
<1>1. ASSUME ProviderFails \/ Summarize \/ WriteJson \/ Crash PROVE ends
  BY <1>1 DEF ProviderFails, Summarize, WriteJson, Crash, End
<1>2. ASSUME Unhealthy \/ Saved PROVE same \/ ends
  BY <1>2, CmdFields DEF Unhealthy, Saved, End, Answered, At
<1>3. ASSUME Healthy \/ MarkingDone \/ WriteMarkdown \/ Review \/ Mark \/ Iterate PROVE same
  BY <1>3, CmdFields DEF Healthy, MarkingDone, WriteMarkdown, GoTo, Review, Mark, Iterate,
     Answered, At
<1>4. ASSUME \/ ReadLedgers \/ ReadTrades \/ ReadMemory \/ ReadContext \/ ReadSamples
             \/ ReadSources \/ ReadStops \/ Save
      PROVE  same
  BY <1>4, CmdFields DEF ReadLedgers, ReadTrades, ReadMemory, ReadContext, ReadSamples, ReadSources,
     ReadStops, Save, At
<1>5. ASSUME NEW a \in Answers, Plan(a) PROVE same
  <2>1. /\ cmd.at = "plan"
        /\ \/ cmd' = [cmd EXCEPT !.attempt = @ + 1]
           \/ \E q, st : cmd' = [cmd EXCEPT !.at = "save", !.queue = q, !.store = st,
                                             !.know = NothingKnown]
    BY <1>5, PlanForms
  <2>2. QED
    BY <2>1, CmdFields
<1>6. ASSUME UNCHANGED cmd PROVE same
  BY <1>6
<1>7. Other \/ UNCHANGED planVars => UNCHANGED cmd
  BY DEF Other, planVars
<1> HIDE DEF same, ends
<1>8. QED
  BY <1>1, <1>2, <1>3, <1>4, <1>5, <1>6, <1>7 DEF Next, Work, vars, same, ends

(* The steps of a command that has its answer.                             *)
LEMMA LateSteps ==
    ASSUME [Next]_vars, UNCHANGED history, cmd.at \in {"save", "summary", "off"}
    PROVE  \/ Save \/ Saved \/ Summarize \/ ProviderFails \/ Crash \/ UNCHANGED planVars
           \/ Other
           \/ \E kind \in Kinds, input \in Inputs : Start(kind, input)
  BY DEF Next, Work, vars, Healthy, Unhealthy, Review, Mark, MarkingDone, ReadLedgers, ReadTrades,
     ReadMemory, ReadContext, ReadSamples, ReadSources, ReadStops, Plan, Iterate, WriteMarkdown,
     WriteJson, Answered, At

LEMMA RememberExit ==
    ASSUME PlanInv, RememberInv, [Next]_vars
    PROVE  cmd'.at # "off" => cmd'.exit = "none"
<1>1. ASSUME NEW kind, NEW input, Start(kind, input) PROVE cmd'.exit = "none"
  BY <1>1 DEF Start, Command
<1>2. ASSUME NEW exit, cmd' = Ended(cmd.kind, cmd.input, exit) PROVE cmd'.at = "off"
  BY <1>2 DEF Ended, Command
<1>3. QED
  BY <1>1, <1>2, ExitStep DEF RememberInv

(* An answer that is unsafe is not asked for again.                        *)
LEMMA RememberPlan ==
    ASSUME PlanInv, RespectInv, RememberInv, NEW a \in Answers, Plan(a), history'.unsafe
    PROVE  /\ cmd'.at = "save" /\ cmd'.queue # <<>>
           /\ ChargedFor(cmd'.input, cmd'.queue[Len(cmd'.queue)])
<1> DEFINE v == Judge(cmd.input, cmd.know, a)
           q == RecordsOf(cmd.input, v)
           unsafe == Unsafe(v)
<1>1. /\ cmd.at = "plan"
      /\ history' = [history EXCEPT !.unsafe = @ \/ unsafe]
      /\ \/ cmd' = [cmd EXCEPT !.attempt = @ + 1] /\ WorthRetry(v)
         \/ cmd' = [cmd EXCEPT !.at = "save", !.queue = q, !.store = file, !.know = NothingKnown]
  BY PlanForms
<1>2. ~history.unsafe
  BY <1>1 DEF RememberInv
<1>3. unsafe
  <2>1. DOMAIN history = HistoryFields
    BY DEF RespectInv
  <2>2. unsafe \in BOOLEAN
    BY DEF Unsafe
  <2> HIDE DEF unsafe
  <2>3. history'.unsafe = (history.unsafe \/ unsafe)
    BY <1>1, <2>1 DEF HistoryFields
  <2>4. QED
    BY <1>2, <2>3
<1>4. "charter_violation" \in v.reasons
  BY <1>3 DEF Unsafe
<1>5. ~WorthRetry(v)
  BY <1>4 DEF WorthRetry, RetryableCodes
<1>6. IsFiniteSet(v.proposals) /\ IsFiniteSet(v.templates)
  BY Judged
<1> HIDE DEF v, unsafe
<1>7. q # <<>> /\ q[Len(q)] \in {RejectedRecord(cmd.input, v), PartialRecord(cmd.input, v)}
  BY <1>4, <1>6, RecordsShape
<1> HIDE DEF q
<1>8. cmd'.at = "save" /\ cmd'.queue = q /\ cmd'.input = cmd.input
  BY <1>1, <1>5, CmdFields
<1>9. QED
  BY <1>4, <1>7, <1>8 DEF ChargedFor, RejectedRecord, PartialRecord, Record

LEMMA RememberSave ==
    ASSUME PlanInv, StoreInv, RespectInv, RememberInv, Save, history.unsafe
    PROVE  /\ cmd'.at = "save"
           /\ cmd'.queue # <<>> => ChargedFor(cmd'.input, cmd'.queue[Len(cmd'.queue)])
           /\ cmd'.queue = <<>> => \E r \in file' : ChargedFor(cmd'.input, r)
<1> DEFINE q == cmd.queue
<1>1. /\ cmd.at = "save" /\ q # <<>> /\ file' = Upsert(file, Head(q))
      /\ cmd'.at = "save" /\ cmd'.queue = Tail(q) /\ cmd'.input = cmd.input
  BY CmdFields DEF Save, At, StoreInv
<1>2. ChargedFor(cmd.input, q[Len(q)])
  BY <1>1 DEF RememberInv
<1>3. IsSeq(q)
  BY DEF RespectInv
<1> HIDE DEF q
<1>4. /\ IsSeq(Tail(q)) /\ Len(q) \in Nat \ {0} /\ Len(Tail(q)) = Len(q) - 1
      /\ Head(q) = q[1]
      /\ \A n \in 1..Len(Tail(q)) : Tail(q)[n] = q[n + 1]
  BY <1>1, <1>3, TailOfQueue
<1>5. CASE Tail(q) = <<>>
  <2>1. Len(q) = 1
    BY <1>4, <1>5, NothingQueued
  <2>2. q[1] \in file' /\ ChargedFor(cmd'.input, q[1])
    BY <1>1, <1>2, <1>4, <2>1 DEF Upsert, ChargedFor
  <2>3. QED
    BY <1>1, <1>5, <2>2
<1>6. CASE Tail(q) # <<>>
  <2>1. Len(Tail(q)) \in Nat \ {0}
    BY <1>4, <1>6, TailOfQueue
  <2>2. Len(Tail(q)) \in 1..Len(Tail(q)) /\ Len(Tail(q)) + 1 = Len(q)
    BY <1>4, <2>1
  <2>3. Tail(q)[Len(Tail(q))] = q[Len(q)]
    BY <1>4, <2>2
  <2>4. QED
    BY <1>1, <1>2, <1>6, <2>3 DEF ChargedFor
<1>7. QED
  BY <1>5, <1>6

LEMMA RememberStep ==
    ASSUME PlanInv, StoreInv, RespectInv, RememberInv, [Next]_vars
    PROVE  RememberInv'
<1> DEFINE held == \E r \in file' : ChargedFor(cmd'.input, r)
           goal == /\ cmd'.at \in {"save", "summary", "off"}
                   /\ cmd'.at = "save" /\ cmd'.queue # <<>> =>
                        ChargedFor(cmd'.input, cmd'.queue[Len(cmd'.queue)])
                   /\ \/ cmd'.at = "save" /\ cmd'.queue = <<>>
                      \/ cmd'.at = "summary"
                      \/ cmd'.at = "off" /\ cmd'.exit = "ok"
                      => held
<1>1. ASSUME NEW a \in Answers, Plan(a), history'.unsafe PROVE goal
  BY <1>1, RememberPlan
<1>2. ASSUME NEW kind \in Kinds, NEW input \in Inputs, Start(kind, input) PROVE ~history'.unsafe
  BY <1>2 DEF Start, RespectInv, HistoryFields
<1>3. ASSUME Other, history'.unsafe PROVE goal
  <2>1. history.unsafe /\ UNCHANGED cmd /\ cmd.at # "save"
    BY <1>3, OtherLifts DEF RespectInv, Other, At
  <2>2. \A r \in file : ChargedFor(cmd.input, r) => r \in file'
    <3>1. \A r \in file, x \in Others : ChargedFor(cmd.input, r) => r.id # x.id
      BY NamesAssumption DEF ChargedFor, PlanInv, PlanTypeOK
    <3>2. (\E x \in Others : file' = Upsert(file, x)) \/ UNCHANGED file
      BY <1>3, OtherLifts DEF RespectInv
    <3>3. QED
      BY <3>1, <3>2 DEF Upsert
  <2>3. \A r : ChargedFor(cmd'.input, r) <=> ChargedFor(cmd.input, r)
    BY <2>1 DEF ChargedFor
  <2>4. QED
    BY <2>1, <2>2, <2>3 DEF RememberInv
<1>4. ASSUME UNCHANGED history, history.unsafe, ~Other,
             ~(\E kind \in Kinds, input \in Inputs : Start(kind, input))
      PROVE  goal
  <2>1. /\ cmd.at \in {"save", "summary", "off"}
        /\ cmd.at = "save" /\ cmd.queue # <<>> => ChargedFor(cmd.input, cmd.queue[Len(cmd.queue)])
        /\ \/ cmd.at = "save" /\ cmd.queue = <<>>
           \/ cmd.at = "summary"
           \/ cmd.at = "off" /\ cmd.exit = "ok"
           => \E r \in file : ChargedFor(cmd.input, r)
    BY <1>4 DEF RememberInv
  <2>2. Save \/ Saved \/ Summarize \/ ProviderFails \/ Crash \/ UNCHANGED planVars
    BY <1>4, <2>1, LateSteps
  <2>3. CASE Save
    BY <1>4, <2>3, RememberSave
  <2>4. CASE UNCHANGED planVars
    <3>1. UNCHANGED <<cmd, file>>
      BY <2>4 DEF planVars
    <3>2. \A r : ChargedFor(cmd'.input, r) <=> ChargedFor(cmd.input, r)
      BY <3>1 DEF ChargedFor
    <3>3. QED
      BY <2>1, <3>1, <3>2
  <2>5. ASSUME NEW exit, End(exit), UNCHANGED file, exit = "ok" => cmd.at \in {"save", "summary"},
               cmd.at = "save" /\ exit = "ok" => cmd.queue = <<>>
        PROVE  goal
    <3>1. cmd'.at = "off" /\ cmd'.exit = exit /\ cmd'.input = cmd.input
      BY <2>5 DEF End, Ended, Command
    <3>2. \A r : ChargedFor(cmd'.input, r) <=> ChargedFor(cmd.input, r)
      BY <3>1 DEF ChargedFor
    <3>3. QED
      BY <2>1, <2>5, <3>1, <3>2
  <2>6. CASE Saved
    <3>1. CASE cmd.kind = "evidence-report" /\ cmd' = [cmd EXCEPT !.at = "summary", !.store = {}]
      <4>1. cmd'.at = "summary" /\ cmd'.input = cmd.input
        BY <3>1, CmdFields
      <4>2. UNCHANGED file /\ cmd.at = "save" /\ cmd.queue = <<>>
        BY <2>6 DEF Saved, At
      <4>3. \A r : ChargedFor(cmd'.input, r) <=> ChargedFor(cmd.input, r)
        BY <4>1 DEF ChargedFor
      <4>4. QED
        BY <2>1, <4>1, <4>2, <4>3
    <3>2. CASE End("ok")
      BY <2>5, <2>6, <3>2 DEF Saved, At
    <3>3. QED
      BY <2>6, <3>1, <3>2 DEF Saved
  <2>7. CASE Summarize
    BY <2>5, <2>7 DEF Summarize, Answered, At
  <2>8. CASE ProviderFails
    BY <2>5, <2>8 DEF ProviderFails
  <2>9. CASE Crash
    BY <2>5, <2>9 DEF Crash
  <2>10. QED
    BY <2>2, <2>3, <2>4, <2>6, <2>7, <2>8, <2>9
<1>7. ASSUME Review PROVE ~history'.unsafe
  <2>1. cmd.at = "review" /\ history'.unsafe = history.unsafe
    BY <1>7 DEF Review, At, FoundBarred, RespectInv, HistoryFields
  <2>2. QED
    BY <2>1 DEF RememberInv
<1>5. history'.unsafe => goal
  <2> HIDE DEF goal
  <2>1. QED
    BY <1>1, <1>2, <1>3, <1>4, <1>7, HistoryStep
<1>6. QED
  BY <1>5, RememberExit DEF RememberInv

(* An unsafe answer ends the asking, and a command that has gone through   *)
(* leaves its rejection in the memory (experiment_planner.py,              *)
(* _should_retry_planner_output and _persist_experiment_memory).           *)
THEOREM UnsafeIsRemembered == Spec => []UnsafeAnswerIsRemembered
<1>1. Init => StoreInv /\ RememberInv
  <2> SUFFICES ASSUME Init PROVE StoreInv /\ RememberInv
    OBVIOUS
  <2>1. PICK i \in Inputs : cmd = Ended("plan-experiments", i, "none")
    BY DEF Init
  <2>2. ~history.unsafe
    BY DEF Init
  <2>3. QED
    BY <2>1, <2>2 DEF StoreInv, RememberInv, Ended, Command
<1>2. Spec => [](PlanInv /\ StoreInv /\ RespectInv /\ RememberInv)
  BY <1>1, PlanInvInit, PlanInvStep, StoreStep, RespectInit, RespectStep, RememberStep, PTL DEF Spec
<1>3. RememberInv => UnsafeAnswerIsRemembered
  <2> SUFFICES ASSUME RememberInv, history.unsafe
               PROVE  /\ cmd.at # "plan"
                      /\ cmd.exit = "ok" => \E r \in file : ChargedFor(cmd.input, r)
    BY DEF UnsafeAnswerIsRemembered, ChargedFor
  <2>1. QED
    BY DEF RememberInv
<1>4. QED
  BY <1>2, <1>3, PTL
=============================================================================
