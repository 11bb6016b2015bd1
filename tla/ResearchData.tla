---------------------------- MODULE ResearchData ----------------------------
(***************************************************************************)
(* Commands that fill the research database: single ingestions             *)
(* (data/ingestion.py, data/onchain_ingestion.py), source probes           *)
(* (data/source_probe.py), the historical bootstrap                        *)
(* (pipeline/historical_bootstrap.py), the data-depth campaign             *)
(* (pipeline/data_depth_campaign.py), and the labs of cli.py that judge    *)
(* candidates on it and keep what they found in the memory.  The bootstrap *)
(* also validates and paper-trades each strategy family on each window     *)
(* (pipeline/research_loop.py, pipeline/paper_sim_loop.py).                *)
(*                                                                         *)
(* Commands overlap; each write is one SQLite transaction that may raise   *)
(* (the database is locked) and a command may be killed between any two.   *)
(* A source that raises, an empty archive and a page that is cut at its    *)
(* limit are outcomes of a fetch.                                          *)
(***************************************************************************)
EXTENDS StrategyRegistry, TLC

CONSTANTS
    Commands,       \* command |-> what it was asked to do
    Scenarios,      \* the commands that are started, on which stored series
    MaxFaults,      \* bound: fetches, writes and probes that raise
    MaxKills        \* bound: commands that are killed

VARIABLES
    table,          \* source_records without the health rows: id |-> row
    health,         \* the source_health rows, with the rows they speak of
    active,         \* the commands of this behaviour
    lab,            \* of each lab: what it has read and what it reports
    states,         \* the candidate states in the memory
    phase, todo,    \* of each command: where it is, the steps it has left
    fetched,        \* the rows of the step it is at
    results,        \* of each command: what it will report of each step
    verdict,        \* of each command: its manifest status or last report
    families,       \* of each bootstrap: its results of strategy families
    faults, kills

dataVars == <<table, health, active, lab, states, phase, todo, fetched, results, verdict,
              families, faults, kills>>

Cmds == DOMAIN Commands

NoVerdict == [status |-> "none", missing |-> {}, ready |-> FALSE]

ASSUME CommandsAssumption ==
    /\ \A c \in Cmds :
          /\ Commands[c].kind \in {"bootstrap", "campaign", "ingest", "probe", "lab"}
          /\ Commands[c].kind = "probe" =>
                Commands[c].target \in ProbeTargets(Commands[c].target.symbol)
          /\ Commands[c].kind = "ingest" =>
                /\ Commands[c].symbol \in Symbols
                /\ Commands[c].source \in {"binance-public", "binance-usdm", "dune", "thegraph",
                                            "dexscreener", "defillama", "ccxt"}
          /\ Commands[c].kind = "campaign" =>
                /\ Commands[c].symbols \subseteq Symbols /\ IsFiniteSet(Commands[c].symbols)
                /\ IsFiniteSet(Commands[c].months) /\ Commands[c].minMonths \in Nat
          /\ Commands[c].kind = "lab" =>
                Commands[c].symbols \subseteq Symbols /\ IsFiniteSet(Commands[c].symbols)
          /\ Commands[c].kind = "bootstrap" =>
                /\ Commands[c].windows \in Seq([start : Nat, end : Nat])
                /\ Commands[c].families \in Seq(Families)
                /\ Commands[c].capital \in Nat /\ Commands[c].notional \in Nat
    /\ \A s \in Scenarios : s.commands \subseteq Cmds /\ s.stored \subseteq DOMAIN Listed

(* Nothing read yet.                                                       *)
NoLab == [universe |-> {}, first |-> {}, rows |-> {}, screens |-> <<>>, report |-> <<>>]

DataInit ==
    /\ \E s \in Scenarios :
          /\ active = s.commands
          /\ table = Upsert(<<>>, UNION {{Row(q, t) : t \in ListedTimes(q)} : q \in s.stored})
          /\ health = {[by |-> "before", step |-> 0, ok |-> TRUE, rows |-> {}, feed |-> FeedOf(q), n |-> 0] :
                         q \in s.stored}
    /\ lab = [c \in Cmds |-> NoLab] /\ states = <<>>
    /\ phase = [c \in Cmds |-> "idle"] /\ todo = [c \in Cmds |-> <<>>]
    /\ fetched = [c \in Cmds |-> {}] /\ results = [c \in Cmds |-> <<>>]
    /\ verdict = [c \in Cmds |-> NoVerdict] /\ families = [c \in Cmds |-> <<>>]
    /\ faults = 0 /\ kills = 0

----------------------------------------------------------------------------
(* What a command does, as a list of steps.                                *)

(* Candles, funding and open interest of each part of the window.          *)
CollectSegment(sym, g) ==
    <<IngestSpotMonth(sym, g.month, g.start, g.end),
      IngestCcxtFunding(sym, g.start, g.start, g.end),
      IngestCcxtOpenInterest(sym, g.start, g.start, g.end)>>

CollectWindow(sym, w) ==
    LET parts == InOrder(Segments(w), LAMBDA g, h : g.month < h.month)
    IN Joined([i \in DOMAIN parts |-> CollectSegment(sym, parts[i])])

ProbeRequiredSources(sym) ==
    <<ProbeStep(OpenInterestHistory(sym)), ProbeStep(Basis(sym)), ProbeStep(LongShortRatio(sym))>>

FamilySteps(cmd, w) ==
    [i \in DOMAIN cmd.families |->
        [kind |-> "family", family |-> cmd.families[i], start |-> w.start, end |-> w.end]]

(* The sources of a window, the families on it, the next window; at last   *)
(* the probes.                                                             *)
BootstrapSteps(c) ==
    LET cmd == Commands[c]
        window(w) == (IF cmd.network THEN CollectWindow(cmd.symbol, w) ELSE <<>>) \o FamilySteps(cmd, w)
    IN Joined([i \in DOMAIN cmd.windows |-> window(cmd.windows[i])]) \o ProbeRequiredSources(cmd.symbol)

(* Without the network the sources of each window are blocked at once.     *)
BlockedSteps(c) ==
    LET cmd == Commands[c]
        source(i) == CASE i % 3 = 1 -> SpotCandles(cmd.symbol)
                       [] i % 3 = 2 -> CcxtFunding(cmd.symbol)
                       [] OTHER -> CcxtOpenInterest(cmd.symbol)
    IN IF cmd.network THEN <<>>
       ELSE [i \in 1 .. 3 * Len(cmd.windows) |->
               [status |-> "blocked", series |-> source(i), rows |-> {}, known |-> {},
                reason |-> "network_not_allowed"]]

(* One archive for each month that the first report misses.                *)
CampaignJobs(c) ==
    LET missing == CampaignReport(table, Commands[c].symbols, Commands[c].months, Commands[c].minMonths).missing
    IN SetToSeq({IngestFuturesMonth(j[1], j[2], 0, Bars) : j \in missing})

Begin(c) ==
    /\ c \in active /\ phase[c] = "idle"
    /\ phase' = [phase EXCEPT ![c] = "next"]
    /\ todo' = [todo EXCEPT ![c] =
                  CASE Commands[c].kind = "bootstrap" -> BootstrapSteps(c)
                    [] Commands[c].kind \in {"campaign", "lab"} ->
                           IF Commands[c].collect THEN CampaignJobs(c) ELSE <<>>
                    [] Commands[c].kind = "probe" -> <<ProbeStep(Commands[c].target)>>
                    [] OTHER -> <<Ingestion(Commands[c])>>]
    /\ results' = [results EXCEPT ![c] =
                     IF Commands[c].kind = "bootstrap" THEN BlockedSteps(c) ELSE <<>>]
    /\ UNCHANGED <<table, health, active, lab, states, fetched, verdict, families, faults, kills>>

----------------------------------------------------------------------------
(* One step of a command.                                                  *)

At(c, kinds) == phase[c] = "next" /\ todo[c] # <<>> /\ Head(todo[c]).kind \in kinds

Fault == faults < MaxFaults /\ faults' = faults + 1

(* History: the months of a campaign that are stored, whoever stored them. *)
KnownMonths(c) ==
    IF Commands[c].kind # "campaign" THEN {}
    ELSE {j \in Commands[c].symbols \X Commands[c].months : j[2] \in AvailableMonths(table, j[1])}

(* The step's result, and on to the next one.                              *)
Report(c, status, reason) ==
    /\ results' = [results EXCEPT ![c] = Append(@,
                     [status |-> status, series |-> Head(todo[c]).series,
                      rows |-> fetched[c], known |-> KnownMonths(c), reason |-> reason])]
    /\ todo' = [todo EXCEPT ![c] = Tail(@)]
    /\ phase' = [phase EXCEPT ![c] = "next"]
    /\ fetched' = [fetched EXCEPT ![c] = {}]

Answer(step) ==
    IF step.kind = "month" THEN DownloadMonth(step.series, step.from)
    ELSE FetchPage(step.series, step.from)

(* The client's answer, or what it raises: an archive without candles is   *)
(* an error, an empty page is not.                                         *)
Fetch(c) ==
    LET step == Head(todo[c])
        rows == Answer(step)
    IN /\ At(c, {"month", "page"})
       /\ \/ /\ step.kind = "month" => rows # {}
             /\ fetched' = [fetched EXCEPT ![c] = InWindow(rows, step.start, step.end)]
             /\ phase' = [phase EXCEPT ![c] = "store"]
             /\ faults' = faults
          \/ /\ step.kind = "month" /\ rows = {}
             /\ phase' = [phase EXCEPT ![c] = "say_failed"]
             /\ UNCHANGED <<fetched, faults>>
          \/ /\ Fault
             /\ phase' = [phase EXCEPT ![c] = "say_failed"]
             /\ fetched' = fetched
       /\ UNCHANGED <<table, health, active, lab, states, todo, results, verdict, families, kills>>

StoreOrSkip(c) ==               \* mutant: a write that raises is passed over
    /\ phase[c] = "store"
    /\ phase' = [phase EXCEPT ![c] = "say_ok"]
    /\ \/ table' = Upsert(table, fetched[c]) /\ faults' = faults
       \/ Fault /\ table' = table
    /\ UNCHANGED <<health, active, lab, states, todo, fetched, results, verdict, families, kills>>

Store(c) ==
    /\ phase[c] = "store"
    /\ \/ /\ table' = Upsert(table, fetched[c])
          /\ phase' = [phase EXCEPT ![c] = "say_ok"]
          /\ UNCHANGED <<faults, fetched>>
       \/ /\ Fault
          /\ phase' = [phase EXCEPT ![c] = "say_failed"]
          /\ fetched' = [fetched EXCEPT ![c] = {}]
          /\ table' = table
    /\ UNCHANGED <<health, active, lab, states, todo, results, verdict, families, kills>>

Say(c, ok) ==
    LET feed == FeedOf(Head(todo[c]).series)
    IN health' = health \cup
          {[by |-> c, step |-> Len(results[c]) + 1, ok |-> ok, rows |-> fetched[c], feed |-> feed,
            n |-> Cardinality({h \in health : h.feed = feed})]}

(* _write_source_health after the rows; when it raises, the step is taken  *)
(* for failed although its rows are stored.                                *)
SayHealth(c) ==
    /\ phase[c] \in {"say_ok", "say_failed"}
    /\ \/ /\ Say(c, phase[c] = "say_ok")
          /\ IF phase[c] = "say_ok" THEN Report(c, "completed", "none")
             ELSE Report(c, "failed", "source_failed")
          /\ faults' = faults
       \/ /\ Fault /\ health' = health
          /\ Report(c, "failed", "source_failed")
    /\ UNCHANGED <<table, active, lab, states, verdict, families, kills>>

(* Dune and The Graph, by an ingestion: one snapshot, no health row.       *)
Snapshot(c) ==
    LET row == Row(Head(todo[c]).series, 0)
    IN /\ Commands[c].kind = "ingest" /\ At(c, {"snapshot"})
       /\ \/ table' = Upsert(table, {row}) /\ Report(c, "completed", "none") /\ faults' = faults
          \/ Fault /\ table' = table /\ Report(c, "failed", "source_failed")
       /\ UNCHANGED <<health, active, lab, states, verdict, families, kills>>

(* Of the reason, the report keeps here what its readers tell apart.       *)
Probe(c) ==
    /\ At(c, {"probe"})
    /\ \/ /\ \E reason \in ProbeReasons(Commands[c], Head(todo[c]).series) :
                LET usable == ProviderStatus(reason) = "ResearchUsable"
                IN Say(c, usable) /\ Report(c, IF usable THEN "completed" ELSE "blocked",
                                           BlockedBefore(Commands[c], Head(todo[c]).series))
          /\ faults' = faults
       \/ /\ Fault /\ health' = health
          /\ Report(c, "failed", "source_probe_failed")
    /\ UNCHANGED <<table, active, lab, states, verdict, families, kills>>

----------------------------------------------------------------------------
(* A family of a bootstrap on a window: the stored rows are read for the   *)
(* validation and, when the family can be traded on paper, once more for   *)
(* the paper run.                                                          *)

ValidateFamily(c) ==
    LET step == Head(todo[c])
        rows == LoadRecords(table, step.start, step.end)
    IN /\ Commands[c].kind = "bootstrap" /\ At(c, {"family"})
       /\ families' = [families EXCEPT ![c] = Append(@,
            [family |-> step.family, start |-> step.start, end |-> step.end, seen |-> RowsOf(table),
             paperSeen |-> {}, outcomes |-> <<>>, class |-> "none",
             validation |-> ValidateFamilyOn(step.family, rows, Commands[c].symbol, Commands[c].capital)])]
       /\ phase' = [phase EXCEPT ![c] = IF SupportsPaper(step.family) THEN "paper" ELSE "next"]
       /\ todo' = [todo EXCEPT ![c] = IF SupportsPaper(step.family) THEN @ ELSE Tail(@)]
       /\ UNCHANGED <<table, health, active, lab, states, fetched, results, verdict, faults, kills>>

(* A paper run that raises blocks the validation that went before.         *)
PaperFamily(c) ==
    LET step == Head(todo[c])
        n == Len(families[c])
        rows == LoadRecords(table, step.start, step.end)
    IN /\ phase[c] = "paper"
       /\ \/ /\ families' = [families EXCEPT
                    ![c][n].paperSeen = RowsOf(table),
                    ![c][n].outcomes = PaperOutcomes(step.family, rows, Commands[c].symbol,
                                                     Commands[c].capital, Commands[c].notional)]
             /\ faults' = faults
          \/ /\ Fault
             /\ families' = [families EXCEPT
                    ![c][n].validation.reasons = @ \cup {"paper_simulation_error"}]
       /\ phase' = [phase EXCEPT ![c] = "next"]
       /\ todo' = [todo EXCEPT ![c] = Tail(@)]
       /\ UNCHANGED <<table, health, active, lab, states, fetched, results, verdict, kills>>

(* The governance's action on each family, read at the end.                *)
Classified(c) ==
    [i \in DOMAIN families[c] |->
        LET f == families[c][i]
        IN [f EXCEPT !.class =
              Classification(f.family, f.validation.reasons = {}, f.outcomes, Commands[c].governance)]]

----------------------------------------------------------------------------
(* The end of a command.                                                   *)

ManifestStatus(c) ==
    LET steps == ToSet(results[c])
    IN IF ~Commands[c].network THEN "success"
       ELSE IF \E s \in steps : s.status = "failed"
                  \/ (s.status = "blocked" /\ s.reason # "network_not_allowed")
            THEN "failed" ELSE "success"

MergedCampaignReport(c) ==      \* mutant: what the first job found and the own successes
    LET done == {i \in DOMAIN results[c] : results[c][i].status = "completed"}
        own == UNION {{<<r.series.symbol, MonthOf(r.time)>> : r \in results[c][i].rows} : i \in done}
        covered == own \cup (IF results[c] = <<>> THEN KnownMonths(c) ELSE results[c][1].known)
    IN [missing |-> (Commands[c].symbols \X Commands[c].months) \ covered,
        ready |-> \A sym \in Commands[c].symbols :
                     Cardinality({m \in Commands[c].months : <<sym, m>> \in covered}) >= Commands[c].minMonths]

FinalCampaignReport(c) ==
    CampaignReport(table, Commands[c].symbols, Commands[c].months, Commands[c].minMonths)

(* A campaign reports again after its jobs; an ingestion that raised ends  *)
(* the command with the error.                                             *)
Finish(c) ==
    /\ phase[c] = "next" /\ todo[c] = <<>> /\ Commands[c].kind # "lab"
    /\ phase' = [phase EXCEPT ![c] = "done"]
    /\ verdict' = [verdict EXCEPT ![c] =
         CASE Commands[c].kind = "bootstrap" ->
                [status |-> ManifestStatus(c), missing |-> {}, ready |-> FALSE]
           [] Commands[c].kind = "campaign" ->
                LET r == FinalCampaignReport(c)
                IN [status |-> "success", missing |-> r.missing, ready |-> r.ready]
           [] OTHER ->
                [status |-> Last(results[c]).status, missing |-> {}, ready |-> FALSE]]
    /\ families' = [families EXCEPT ![c] = Classified(c)]
    /\ UNCHANGED <<table, health, active, lab, states, todo, fetched, results, faults, kills>>

----------------------------------------------------------------------------
(* A lab, after its collection: the universe, the records and the screen   *)
(* of each candidate are read on connections of their own.                 *)

ReadUniverse(c) ==
    /\ Commands[c].kind = "lab" /\ Commands[c].mode = "multi-hypothesis-lab" /\ phase[c] = "next" /\ todo[c] = <<>>
    /\ phase' = [phase EXCEPT ![c] = "records"]
    /\ lab' = [lab EXCEPT ![c].universe = EvidenceUniverse(RowsOf(table), health, Commands[c]),
                          ![c].first = RowsOf(table)]
    /\ UNCHANGED <<table, health, active, states, todo, fetched, results, verdict, families, faults, kills>>

ReadRecords(c) ==
    /\ phase[c] = "records"
    /\ phase' = [phase EXCEPT ![c] = "screens"]
    /\ lab' = [lab EXCEPT ![c].rows = RowsOf(table)]
    /\ UNCHANGED <<table, health, active, states, todo, fetched, results, verdict, families, faults, kills>>

ReadScreen(c) ==
    LET ids == Commands[c].candidates
        next == Len(lab[c].screens) + 1
    IN /\ phase[c] = "screens"
       /\ lab' = [lab EXCEPT ![c].screens = Append(@, EvaluateScreen(RowsOf(table), ids[next], Commands[c]))]
       /\ phase' = [phase EXCEPT ![c] = IF next = Len(ids) THEN "judge" ELSE "screens"]
       /\ UNCHANGED <<table, health, active, states, todo, fetched, results, verdict, families, faults, kills>>

LabReport(c) ==
    LET ids == Commands[c].candidates
    IN [id \in ToSet(ids) |->
           LET k == CHOOSE i \in DOMAIN ids : ids[i] = id
           IN CandidateMetric(id, lab[c].universe, lab[c].screens[k], lab[c].rows, Commands[c])]

(* All candidate states are replaced by those of the report.               *)
ReplaceStates(entries) == entries

(* The report, then the memory.                                            *)
Judge(c) ==
    /\ phase[c] = "judge"
    /\ phase' = [phase EXCEPT ![c] = "done"]
    /\ lab' = [lab EXCEPT ![c].report = LabReport(c)]
    /\ states' = IF Commands[c].persist THEN ReplaceStates(CandidateStateEntries(lab'[c].report)) ELSE states
    /\ UNCHANGED <<table, health, active, todo, fetched, results, verdict, families, faults, kills>>

(* The older labs: one read, a report, nothing in the memory.              *)
StrategyLab(c) ==
    /\ Commands[c].kind = "lab" /\ Commands[c].mode # "multi-hypothesis-lab"
    /\ phase[c] = "next" /\ todo[c] = <<>>
    /\ phase' = [phase EXCEPT ![c] = "done"]
    /\ lab' = [lab EXCEPT ![c].first = RowsOf(table), ![c].rows = RowsOf(table),
                          ![c].report = StrategyReport(RowsOf(table), Commands[c])]
    /\ UNCHANGED <<table, health, active, states, todo, fetched, results, verdict, families, faults, kills>>

Kill(c) ==
    /\ phase[c] \notin {"idle", "done", "dead"} /\ kills < MaxKills
    /\ kills' = kills + 1
    /\ phase' = [phase EXCEPT ![c] = "dead"]
    /\ UNCHANGED <<table, health, active, lab, states, todo, fetched, results, verdict, families, faults>>

DataNext ==
    \E c \in Cmds :
        \/ Begin(c) \/ Fetch(c) \/ Store(c) \/ SayHealth(c)
        \/ Snapshot(c) \/ Probe(c) \/ Finish(c) \/ Kill(c)
        \/ ReadUniverse(c) \/ ReadRecords(c) \/ ReadScreen(c) \/ Judge(c) \/ StrategyLab(c)
        \/ ValidateFamily(c) \/ PaperFamily(c)

DataSpec == DataInit /\ [][DataNext]_dataVars

----------------------------------------------------------------------------
(* Rows that a health row, a step or a job says were written are stored:   *)
(* the word is given after the commit, and nothing takes rows away.        *)
ReportedRowsAreStored ==
    /\ \A h \in health : h.ok => h.rows \subseteq RowsOf(table)
    /\ \A c \in Cmds : \A i \in DOMAIN results[c] :
          results[c][i].status = "completed" => results[c][i].rows \subseteq RowsOf(table)

(* A row is replaced by another of the same series only: the ids keep the  *)
(* sources, markets, symbols and types apart.                              *)
RowsKeepTheirSeries ==
    [][\A id \in DOMAIN table : id \in DOMAIN table' /\ table'[id] = table[id]]_dataVars

(* When a networked bootstrap's manifest says success, every candle that   *)
(* the exchange has in its windows is stored, at the borders of months and *)
(* windows too; of the paged sources, those within the limit of a page.    *)
SuccessfulBootstrapIsComplete ==
    \A c \in Cmds :
        Commands[c].kind = "bootstrap" /\ Commands[c].network /\ verdict[c].status = "success" =>
            \A i \in DOMAIN Commands[c].windows : \A t \in Times :
                LET w == Commands[c].windows[i]
                    sym == Commands[c].symbol
                    has(s) == Row(s, t) \in RowsOf(table)
                    early(s) == Cardinality({u \in ListedTimes(s) :
                                   u < t /\ u >= w.start /\ MonthOf(u) = MonthOf(t)}) < Limit
                IN w.start <= t /\ t < w.end =>
                     /\ t \in ListedTimes(SpotCandles(sym)) => has(SpotCandles(sym))
                     /\ \A s \in {CcxtFunding(sym), CcxtOpenInterest(sym)} :
                           t \in ListedTimes(s) /\ early(s) => has(s)

(* The campaign's last report is true of the database, which its own jobs  *)
(* and other commands fill while it waits for archives.  It misses no      *)
(* month that anyone had stored when one of its jobs ended, nor one of a   *)
(* job that succeeded, and covers only months that are stored.  Ready      *)
(* means that the exchange has enough months of every symbol, and blocked  *)
(* that for some symbol too few were stored when each of the jobs ended.   *)
CampaignReportIsTrue ==
    \A c \in Cmds :
        Commands[c].kind = "campaign" /\ phase[c] = "done" =>
            /\ \A i \in DOMAIN results[c] :
                  /\ results[c][i].known \cap verdict[c].missing = {}
                  /\ results[c][i].status = "completed" =>
                        \A r \in results[c][i].rows :
                           <<r.series.symbol, MonthOf(r.time)>> \notin verdict[c].missing
                  /\ ~verdict[c].ready => \E sym \in Commands[c].symbols :
                        Cardinality({m \in Commands[c].months : <<sym, m>> \in results[c][i].known})
                          < Commands[c].minMonths
            /\ \A j \in (Commands[c].symbols \X Commands[c].months) \ verdict[c].missing :
                  j[2] \in AvailableMonths(table, j[1])
            /\ verdict[c].ready => \A sym \in Commands[c].symbols :
                  Cardinality({MonthOf(t) : t \in ListedTimes(FuturesCandles(sym))}
                              \cap Commands[c].months) >= Commands[c].minMonths

(* The quality report names exactly the candle and open-interest series    *)
(* with a hole, whatever order, windows and failures their rows came by.   *)
(* No row of a type that it tells apart is stored twice: the only ones it  *)
(* calls duplicates are a candle and an open interest of one bar, which    *)
(* are not (ccxt gives both the same source, venue and period).            *)
QualityReportIsTrue ==
  /\ \A k \in DuplicateIssues(RowsOf(table)) : \A r \in RowsOf(table) :
        SemanticKey(r) = k /\ r.series.type \in {"market_candle", "open_interest", "funding_rate", "dex_pair"} =>
            \E q \in RowsOf(table) :
                /\ SemanticKey(q) = k
                /\ {r.series.type, q.series.type} = {"market_candle", "open_interest"}
  /\ \A s \in {q \in AllSeries : q.type \in {"market_candle", "open_interest"}} :
        LET times == TimesOf(RowsOf(table), s)
        IN times # {} =>
             ([reason |-> "missing_bars", series |-> s] \in ContinuityIssues(RowsOf(table), Bars)
                <=> times # Min(times) .. Max(times))

----------------------------------------------------------------------------
Feasible(c, id) == id \in DOMAIN lab[c].report /\ lab[c].report[id].reasons = {}

(* Nothing was committed between the lab's first two reads.                *)
OneSnapshot(c) == lab[c].first = lab[c].rows

(* The candles a lab trades on, and the trades that rows would give it.    *)
LabCandles(c, sym) ==
    IF Commands[c].mode = "multi-hypothesis-lab"
    THEN ToSet(MarketRows(lab[c].rows, sym, Commands[c].window))
    ELSE StrategyCandles(lab[c].rows, sym)

LabObservations(c, id, rows) ==
    IF Commands[c].mode = "multi-hypothesis-lab"
    THEN HistoricalObservations(id, rows,
            [sym \in Commands[c].symbols |-> MarketRows(rows, sym, Commands[c].window)])
    ELSE StrategyObservations(id, rows, Commands[c])

(* A candidate that a lab lets pass rests on clean rows: where a trade     *)
(* begins and where it ends, later, every symbol has one candle; unless    *)
(* rows were committed between the lab's reads.                            *)
FeasibleOnCleanRows ==
    \A c \in active : \A id \in DOMAIN lab[c].report :
        Feasible(c, id) /\ OneSnapshot(c) =>
            \A i \in DOMAIN lab[c].report[id].observations :
                LET o == lab[c].report[id].observations[i]
                IN /\ o.time < o.until
                   /\ \A sym \in Commands[c].symbols : \A t \in {o.time, o.until} :
                         Cardinality({r \in LabCandles(c, sym) : r.time = t}) = 1

(* What a passing candidate is judged on was known at the time: its        *)
(* observations up to any bar are those that the rows up to it give.       *)
FeasibleWithoutLookahead ==
    \A c \in active : \A id \in DOMAIN lab[c].report :
        Feasible(c, id) /\ OneSnapshot(c) =>
            \A t \in Times :
                LET all == LabObservations(c, id, lab[c].rows)
                IN LabObservations(c, id, {r \in lab[c].rows : r.time <= t})
                     = Picked(all, {i \in DOMAIN all : all[i].until <= t})

RowsInWindow(f) == {r \in f.seen : f.start <= r.time /\ r.time < f.end}

(* A funding validation that passes holds: its trades lie inside the       *)
(* window, in order, on times with one candle, in at most one test fold    *)
(* each, and each would be made on the funding and open interest known     *)
(* when it is entered.                                                     *)
ValidatedTradesHold ==
    \A c \in active : \A i \in DOMAIN families[c] :
        LET f == families[c][i]
            rows == RowsInWindow(f)
            candles == StrategyCandles(rows, Commands[c].symbol)
            known(t) == {r \in rows : r.series.type = "market_candle" \/ r.time <= t}
        IN SupportsPaper(f.family) /\ f.validation.reasons = {} =>
             \A k \in DOMAIN f.validation.trades :
                LET t == f.validation.trades[k]
                    again == PaperTrades(f.family, known(t.time), Commands[c].symbol)
                IN /\ f.start <= t.funding /\ t.funding <= t.time /\ t.time < t.until /\ t.until < f.end
                   /\ \A u \in {t.time, t.until} : Cardinality({r \in candles : r.time = u}) = 1
                   /\ Cardinality({q \in TestFolds(Cardinality(candles)) : InFold(t, q)}) <= 1
                   /\ \E j \in DOMAIN again : again[j] = t

(* The paper run tries exactly the trades of the validation, or reports    *)
(* its reasons, unless rows were committed between the two reads.          *)
PaperFollowsValidation ==
    \A c \in active : \A i \in DOMAIN families[c] :
        LET f == families[c][i]
            tried == f.outcomes
            found == f.validation
        IN f.outcomes # <<>> /\ f.seen = f.paperSeen =>
             IF found.reasons = {}
             THEN DOMAIN tried = DOMAIN found.trades /\ \A k \in DOMAIN tried : tried[k].trade = found.trades[k]
             ELSE DOMAIN tried = {1} /\ tried[1].trade = <<>> /\ tried[1].reasons = found.reasons

(* The candidate states in the memory are those of one report, also when   *)
(* labs with different candidates take turns.                              *)
StatesAreOfOneReport ==
    states # <<>> => \E c \in active : states = CandidateStateEntries(lab[c].report)
=============================================================================
