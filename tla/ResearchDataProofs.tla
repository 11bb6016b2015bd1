------------------------- MODULE ResearchDataProofs -------------------------
(***************************************************************************)
(* That the reports about the research database may be believed, for any   *)
(* commands that overlap, fail and are killed, and any listed bars.        *)
(*                                                                         *)
(* Everything rests on the record ids: no two rows of the known series     *)
(* share one, so an upsert never takes a row of another series away, and   *)
(* what was once stored stays.                                             *)
(***************************************************************************)
EXTENDS ResearchData, SequenceTheorems, FiniteSetTheorems, TLAPS

AllRows == {Row(s, t) : s \in AllSeries, t \in Times}

----------------------------------------------------------------------------
(* Record ids.  A row can be read back from its id.                        *)

CandlesOf(venue, sym) == IF venue = "binance" THEN SpotCandles(sym) ELSE FuturesCandles(sym)

CcxtOf(kind, sym) ==
    IF kind = "ohlcv" THEN CcxtCandles(sym)
    ELSE IF kind = "funding" THEN CcxtFunding(sym) ELSE CcxtOpenInterest(sym)

UsdmOf(kind, sym) ==
    IF kind = "premium_index_kline" THEN PremiumIndex(sym)
    ELSE IF kind = "basis" THEN Basis(sym)
    ELSE IF kind = "funding_rate" THEN FundingHistory(sym)
    ELSE IF kind = "open_interest" THEN OpenInterestHistory(sym)
    ELSE IF kind = "long_short_account_ratio" THEN LongShortRatio(sym) ELSE TakerVolume(sym)

SnapshotOf(source, sym) ==
    IF source = "dexscreener" THEN DexPairs(sym)
    ELSE IF source = "defillama" THEN YieldPools(sym)
    ELSE IF source = "dune" THEN DuneResult(sym) ELSE GraphResult(sym)

SeriesOfId(key) ==
    IF key[1] = "binance_public" THEN CandlesOf(key[2], key[3])
    ELSE IF key[1] = "ccxt" THEN CcxtOf(key[4], key[3])
    ELSE IF key[1] = "binance_usdm" THEN UsdmOf(key[4], key[3])
    ELSE SnapshotOf(key[1], key[3])

LEMMA CandleIds ==
    ASSUME NEW sym \in Symbols, NEW t
    PROVE  /\ RecordId(Row(SpotCandles(sym), t)) = <<<<"binance_public", "binance", sym, "1h">>, t>>
           /\ RecordId(Row(FuturesCandles(sym), t)) = <<<<"binance_public", "binance_usdm", sym, "1h">>, t>>
           /\ RecordId(Row(CcxtCandles(sym), t)) = <<<<"ccxt", "binance", sym, "ohlcv", "1h">>, t>>
  BY DEF RecordId, Row, SpotCandles, FuturesCandles, CcxtCandles, Series, CandleId, CcxtCandleId

LEMMA CcxtIds ==
    ASSUME NEW sym \in Symbols, NEW t
    PROVE  /\ RecordId(Row(CcxtFunding(sym), t)) = <<<<"ccxt", "binance", sym, "funding">>, t>>
           /\ RecordId(Row(CcxtOpenInterest(sym), t))
                = <<<<"ccxt", "binance", sym, "open_interest", "1h">>, t>>
  BY DEF RecordId, Row, CcxtFunding, CcxtOpenInterest, Series, CcxtFundingId, OpenInterestId

LEMMA UsdmIds ==
    ASSUME NEW sym \in Symbols, NEW t
    PROVE  LET id(kind) == <<<<"binance_usdm", "binance", sym, kind, "1h">>, t>>
           IN /\ RecordId(Row(PremiumIndex(sym), t)) = id("premium_index_kline")
              /\ RecordId(Row(Basis(sym), t))
                   = <<<<"binance_usdm", "binance", sym, "basis", "perpetual", "1h">>, t>>
              /\ RecordId(Row(FundingHistory(sym), t))
                   = <<<<"binance_usdm", "binance", sym, "funding_rate">>, t>>
              /\ RecordId(Row(OpenInterestHistory(sym), t)) = id("open_interest")
              /\ RecordId(Row(LongShortRatio(sym), t)) = id("long_short_account_ratio")
              /\ RecordId(Row(TakerVolume(sym), t)) = id("taker_buy_sell_volume")
  BY DEF RecordId, Row, PremiumIndex, Basis, FundingHistory, OpenInterestHistory, LongShortRatio,
         TakerVolume, Series, PremiumId, BasisId, FundingId, OpenInterestId, LongShortId, TakerId

LEMMA SnapshotIds ==
    ASSUME NEW sym \in Symbols, NEW t
    PROVE  /\ RecordId(Row(DexPairs(sym), t)) = <<<<"dexscreener", "dex", sym, "dex_pair">>, t>>
           /\ RecordId(Row(YieldPools(sym), t)) = <<<<"defillama", "project", sym, "defi_yield">>, t>>
           /\ RecordId(Row(DuneResult(sym), t)) = <<<<"dune", "query", sym>>, t>>
           /\ RecordId(Row(GraphResult(sym), t)) = <<<<"thegraph", "subgraph", sym>>, t>>
  BY DEF RecordId, Row, DexPairs, YieldPools, DuneResult, GraphResult, Series,
         PairId, PoolId, DuneId, GraphId

LEMMA IdsReadBack ==
    ASSUME NEW s \in AllSeries, NEW t
    PROVE  RecordId(Row(s, t))[2] = t /\ SeriesOfId(RecordId(Row(s, t))[1]) = s
<1>1. PICK sym \in Symbols :
        s \in {SpotCandles(sym), FuturesCandles(sym), CcxtCandles(sym), CcxtFunding(sym),
               CcxtOpenInterest(sym), PremiumIndex(sym), Basis(sym), FundingHistory(sym),
               OpenInterestHistory(sym), LongShortRatio(sym), TakerVolume(sym), DexPairs(sym),
               YieldPools(sym), DuneResult(sym), GraphResult(sym)}
  BY DEF AllSeries
<1>2. CASE s \in {SpotCandles(sym), FuturesCandles(sym)}
  BY <1>2, CandleIds DEF SeriesOfId, CandlesOf
<1>3. CASE s \in {CcxtCandles(sym), CcxtFunding(sym), CcxtOpenInterest(sym)}
  BY <1>3, CandleIds, CcxtIds DEF SeriesOfId, CcxtOf
<1>4. CASE s \in {PremiumIndex(sym), Basis(sym), FundingHistory(sym),
                  OpenInterestHistory(sym), LongShortRatio(sym), TakerVolume(sym)}
  BY <1>4, UsdmIds DEF SeriesOfId, UsdmOf
<1>5. CASE s \in {DexPairs(sym), YieldPools(sym), DuneResult(sym), GraphResult(sym)}
  BY <1>5, SnapshotIds DEF SeriesOfId, SnapshotOf
<1>6. QED
  BY <1>1, <1>2, <1>3, <1>4, <1>5

(* No two rows share an id.                                                *)
LEMMA IdsDiffer ==
    ASSUME NEW r \in AllRows, NEW q \in AllRows, RecordId(r) = RecordId(q)
    PROVE  r = q
<1>1. PICK s \in AllSeries, t \in Times : r = Row(s, t)
  BY DEF AllRows
<1>2. PICK u \in AllSeries, v \in Times : q = Row(u, v)
  BY DEF AllRows
<1>3. s = u /\ t = v
  BY <1>1, <1>2, IdsReadBack
<1>4. QED
  BY <1>1, <1>2, <1>3

----------------------------------------------------------------------------
(* The table.                                                              *)

TableOfRows(t) == \A id \in DOMAIN t : t[id] \in AllRows /\ RecordId(t[id]) = id

LEMMA UpsertOnlyAdds ==
    ASSUME NEW t, TableOfRows(t), NEW rows \in SUBSET AllRows
    PROVE  /\ TableOfRows(Upsert(t, rows))
           /\ \A id \in DOMAIN t : id \in DOMAIN Upsert(t, rows) /\ Upsert(t, rows)[id] = t[id]
           /\ RowsOf(Upsert(t, rows)) = RowsOf(t) \cup rows
<1> DEFINE new == Upsert(t, rows)
<1>1. DOMAIN new = DOMAIN t \cup {RecordId(r) : r \in rows}
  BY DEF Upsert
<1>2. ASSUME NEW r \in rows PROVE new[RecordId(r)] = r
  <2>1. PICK q \in rows : q = (CHOOSE x \in rows : RecordId(x) = RecordId(r)) /\ RecordId(q) = RecordId(r)
    OBVIOUS
  <2>2. q = r
    BY <2>1, IdsDiffer
  <2>3. QED
    BY <1>1, <2>1, <2>2 DEF Upsert
<1>3. ASSUME NEW id \in DOMAIN t PROVE new[id] = t[id]
  <2>1. CASE \E r \in rows : RecordId(r) = id
    <3>1. PICK r \in rows : RecordId(r) = id
      BY <2>1
    <3>2. t[id] = r
      BY <3>1, IdsDiffer DEF TableOfRows
    <3>3. QED
      BY <1>2, <3>1, <3>2
  <2>2. CASE ~ \E r \in rows : RecordId(r) = id
    BY <1>1, <2>2 DEF Upsert
  <2>3. QED
    BY <2>1, <2>2
<1> HIDE DEF new
<1>4. TableOfRows(new)
  <2> SUFFICES ASSUME NEW id \in DOMAIN new PROVE new[id] \in AllRows /\ RecordId(new[id]) = id
    BY DEF TableOfRows
  <2>1. CASE id \in DOMAIN t
    BY <1>3, <2>1 DEF TableOfRows
  <2>2. CASE \E r \in rows : id = RecordId(r)
    BY <1>2, <2>2
  <2>3. QED
    BY <1>1, <2>1, <2>2
<1>5. RowsOf(new) = RowsOf(t) \cup rows
  BY <1>1, <1>2, <1>3 DEF RowsOf
<1>6. QED
  BY <1>1, <1>3, <1>4, <1>5 DEF new

LEMMA AnswersAreRows == \A step : Answer(step) \in SUBSET AllRows
<1> SUFFICES ASSUME NEW step PROVE Answer(step) \in SUBSET AllRows
  OBVIOUS
<1>1. \A s : \A t \in ListedTimes(s) : Row(s, t) \in AllRows
  BY RowsAssumption DEF ListedTimes, AllRows
<1>2. QED
  BY <1>1 DEF Answer, DownloadMonth, FetchPage

----------------------------------------------------------------------------
(* What commands have at hand, and what they have said.                    *)

(* An ingestion has one step; a command keeps the step that it is at.      *)
OneStep(c) ==
    /\ Commands[c].kind = "ingest" => todo[c] \in {<<>>, <<Ingestion(Commands[c])>>}
    /\ phase[c] \in {"store", "say_ok", "say_failed", "paper"} => todo[c] # <<>>

(* Rows at hand were fetched; when they are said to be stored, they are.   *)
AtHand(c) ==
    /\ fetched[c] \in SUBSET AllRows
    /\ phase[c] \notin {"store", "say_ok", "dead"} => fetched[c] = {}
    /\ phase[c] = "say_ok" => fetched[c] \subseteq RowsOf(table)

IsList(s) == \E n \in Nat : s = [i \in 1 .. n |-> s[i]]

ResultsStored(c) ==
    /\ IsList(results[c])
    /\ \A i \in DOMAIN results[c] :
          results[c][i].status = "completed" => results[c][i].rows \subseteq RowsOf(table)

StoredInv ==
    /\ TableOfRows(table)
    /\ phase = [c \in Cmds |-> phase[c]] /\ todo = [c \in Cmds |-> todo[c]]
    /\ fetched = [c \in Cmds |-> fetched[c]] /\ results = [c \in Cmds |-> results[c]]
    /\ \A h \in health : h.ok => h.rows \subseteq RowsOf(table)
    /\ \A c \in Cmds : OneStep(c) /\ AtHand(c) /\ ResultsStored(c)

LEMMA StoredInit == DataInit => StoredInv
<1> SUFFICES ASSUME DataInit PROVE StoredInv
  OBVIOUS
<1>1. TableOfRows(table)
  <2>1. PICK s \in Scenarios : table = Upsert(<<>>, UNION {{Row(q, t) : t \in ListedTimes(q)} : q \in s.stored})
    BY DEF DataInit
  <2>2. UNION {{Row(q, t) : t \in ListedTimes(q)} : q \in s.stored} \in SUBSET AllRows
    BY RowsAssumption DEF ListedTimes, AllRows
  <2>3. TableOfRows(<<>>)
    BY DEF TableOfRows
  <2>4. QED
    BY <2>1, <2>2, <2>3, UpsertOnlyAdds
<1>2. \A h \in health : h.rows = {}
  BY DEF DataInit
<1>3. \A c \in Cmds : /\ phase[c] = "idle" /\ todo[c] = <<>> /\ fetched[c] = {} /\ results[c] = <<>>
  BY DEF DataInit
<1>4. /\ phase = [c \in Cmds |-> phase[c]] /\ todo = [c \in Cmds |-> todo[c]]
      /\ fetched = [c \in Cmds |-> fetched[c]] /\ results = [c \in Cmds |-> results[c]]
  BY DEF DataInit
<1>5. \A c \in Cmds : OneStep(c) /\ AtHand(c)
  BY <1>3 DEF OneStep, AtHand
<1>6. \A c \in Cmds : ResultsStored(c)
  BY <1>3 DEF ResultsStored, IsList
<1>7. QED
  BY <1>1, <1>2, <1>4, <1>5, <1>6 DEF StoredInv

(* A step of a command on a table that only grows.                         *)
LEMMA StepOf ==
    ASSUME StoredInv, NEW c \in Cmds,
           TableOfRows(table'), RowsOf(table) \subseteq RowsOf(table'),
           phase' = [d \in Cmds |-> phase'[d]], todo' = [d \in Cmds |-> todo'[d]],
           fetched' = [d \in Cmds |-> fetched'[d]], results' = [d \in Cmds |-> results'[d]],
           \A d \in Cmds \ {c} : /\ phase'[d] = phase[d] /\ todo'[d] = todo[d]
                                 /\ fetched'[d] = fetched[d] /\ results'[d] = results[d],
           \A h \in health' \ health : h.ok => h.rows \subseteq RowsOf(table'),
           OneStep(c)', AtHand(c)', ResultsStored(c)'
    PROVE  StoredInv'
<1>1. ASSUME NEW d \in Cmds PROVE OneStep(d)' /\ AtHand(d)' /\ ResultsStored(d)'
  <2>1. CASE d = c
    BY <2>1
  <2>2. CASE d # c
    <3>1. OneStep(d) /\ AtHand(d) /\ ResultsStored(d)
      BY DEF StoredInv
    <3>2. phase'[d] = phase[d] /\ todo'[d] = todo[d] /\ fetched'[d] = fetched[d] /\ results'[d] = results[d]
      BY <2>2
    <3>3. OneStep(d)'
      BY <3>1, <3>2 DEF OneStep
    <3>4. AtHand(d)'
      BY <3>1, <3>2 DEF AtHand
    <3>5. ResultsStored(d)'
      BY <3>1, <3>2 DEF ResultsStored
    <3>6. QED
      BY <3>3, <3>4, <3>5
  <2>3. QED
    BY <2>1, <2>2
<1>2. \A h \in health' : h.ok => h.rows \subseteq RowsOf(table')
  BY DEF StoredInv
<1>3. QED
  BY <1>1, <1>2 DEF StoredInv

LEMMA ChangeOne ==
    ASSUME NEW f, f = [d \in Cmds |-> f[d]], NEW c \in Cmds, NEW x,
           NEW g, g = [f EXCEPT ![c] = x]
    PROVE  g = [d \in Cmds |-> g[d]] /\ g[c] = x /\ \A d \in Cmds \ {c} : g[d] = f[d]
  OBVIOUS

LEMMA AppendToList ==
    ASSUME NEW s, IsList(s), NEW x
    PROVE  /\ IsList(Append(s, x))
           /\ \A i \in DOMAIN Append(s, x) :
                 Append(s, x)[i] = x \/ (i \in DOMAIN s /\ Append(s, x)[i] = s[i])
<1>1. PICK n \in Nat : s = [i \in 1 .. n |-> s[i]]
  BY DEF IsList
<1> DEFINE S == {s[i] : i \in 1 .. n} \cup {x}
<1>2. s \in Seq(S)
  BY <1>1
<1>3. /\ Append(s, x) \in Seq(S) /\ Len(Append(s, x)) = Len(s) + 1
      /\ \A i \in 1 .. Len(s) : Append(s, x)[i] = s[i]
      /\ Append(s, x)[Len(s) + 1] = x
  BY <1>2, AppendProperties
<1> HIDE DEF S
<1>4. /\ DOMAIN s = 1 .. Len(s) /\ Len(s) \in Nat
  BY <1>2, LenProperties
<1>5. \E k \in Nat : Append(s, x) \in [1 .. k -> S]
  BY <1>3, LenProperties
<1>6. PICK k \in Nat : Append(s, x) \in [1 .. k -> S]
  BY <1>5
<1>7. IsList(Append(s, x))
  BY <1>6 DEF IsList
<1>8. DOMAIN Append(s, x) = 1 .. (Len(s) + 1)
  BY <1>3, LenProperties
<1>9. \A i \in 1 .. (Len(s) + 1) : i = Len(s) + 1 \/ i \in 1 .. Len(s)
  BY <1>4
<1>10. QED
  BY <1>3, <1>4, <1>7, <1>8, <1>9

LEMMA LastOfAppend ==
    ASSUME NEW s, IsList(s), NEW x
    PROVE  Len(Append(s, x)) \in DOMAIN Append(s, x) /\ Append(s, x)[Len(Append(s, x))] = x
<1>1. PICK n \in Nat : s = [i \in 1 .. n |-> s[i]]
  BY DEF IsList
<1> DEFINE S == {s[i] : i \in 1 .. n} \cup {x}
<1>2. s \in Seq(S)
  BY <1>1
<1>3. /\ Append(s, x) \in Seq(S) /\ Len(Append(s, x)) = Len(s) + 1 /\ Len(s) \in Nat
      /\ Append(s, x)[Len(s) + 1] = x
  BY <1>2, AppendProperties, LenProperties
<1> HIDE DEF S
<1>4. DOMAIN Append(s, x) = 1 .. Len(Append(s, x))
  BY <1>3, LenProperties
<1>5. QED
  BY <1>3, <1>4

----------------------------------------------------------------------------
(* The steps.                                                              *)

LEMMA BeginStep ==
    ASSUME StoredInv, NEW c \in Cmds, Begin(c)
    PROVE  StoredInv'
<1>1. /\ phase' = [phase EXCEPT ![c] = "next"] /\ phase[c] = "idle"
      /\ table' = table /\ health' = health /\ fetched' = fetched
  BY DEF Begin
<1>2. PICK x : todo' = [todo EXCEPT ![c] = x]
  BY DEF Begin
<1>3. PICK y : results' = [results EXCEPT ![c] = y]
               /\ y = IF Commands[c].kind = "bootstrap" THEN BlockedSteps(c) ELSE <<>>
  BY DEF Begin
<1>4. /\ phase'[c] = "next" /\ todo'[c] = x /\ results'[c] = y /\ fetched'[c] = fetched[c]
      /\ \A d \in Cmds \ {c} : phase'[d] = phase[d] /\ todo'[d] = todo[d] /\ results'[d] = results[d]
      /\ phase' = [d \in Cmds |-> phase'[d]] /\ todo' = [d \in Cmds |-> todo'[d]]
      /\ fetched' = [d \in Cmds |-> fetched'[d]] /\ results' = [d \in Cmds |-> results'[d]]
  BY <1>1, <1>2, <1>3, ChangeOne DEF StoredInv
<1>5. Commands[c].kind = "ingest" => x = <<Ingestion(Commands[c])>>
  BY <1>2, <1>4 DEF Begin, StoredInv
<1>6. OneStep(c)'
  BY <1>4, <1>5 DEF OneStep
<1>7. AtHand(c)'
  BY <1>1, <1>4 DEF AtHand, StoredInv
<1>8. ResultsStored(c)'
  <2>1. CASE Commands[c].kind # "bootstrap" \/ Commands[c].network
    <3>1. y = <<>>
      BY <1>3, <2>1 DEF BlockedSteps
    <3>2. QED
      BY <1>4, <3>1 DEF ResultsStored, IsList
  <2>2. CASE Commands[c].kind = "bootstrap" /\ ~Commands[c].network
    <3>1. 3 * Len(Commands[c].windows) \in Nat
      BY <2>2, CommandsAssumption
    <3>2. /\ y = [i \in 1 .. 3 * Len(Commands[c].windows) |-> y[i]]
          /\ \A i \in DOMAIN y : y[i].status = "blocked"
      BY <1>3, <2>2 DEF BlockedSteps
    <3>3. IsList(y)
      BY <3>1, <3>2 DEF IsList
    <3>4. QED
      BY <1>4, <3>2, <3>3 DEF ResultsStored
  <2>3. QED
    BY <2>1, <2>2
<1>9. QED
  BY <1>1, <1>4, <1>6, <1>7, <1>8, StepOf DEF StoredInv

(* A step that keeps the rows at hand, the lists and the table.            *)
LEMMA PhaseStep ==
    ASSUME StoredInv, NEW c \in Cmds, NEW to, to # "say_ok",
           phase' = [phase EXCEPT ![c] = to],
           to \in {"store", "say_failed", "paper"} => todo[c] # <<>>,
           to # "dead" => phase[c] \notin {"store", "say_ok", "dead"},
           UNCHANGED <<table, health, todo, fetched, results>>
    PROVE  StoredInv'
<1>1. /\ phase'[c] = to /\ \A d \in Cmds \ {c} : phase'[d] = phase[d]
      /\ phase' = [d \in Cmds |-> phase'[d]]
  BY ChangeOne DEF StoredInv
<1>2. OneStep(c)' /\ AtHand(c)' /\ ResultsStored(c)'
  <2>1. OneStep(c) /\ AtHand(c) /\ ResultsStored(c)
    BY DEF StoredInv
  <2>2. OneStep(c)'
    BY <1>1, <2>1 DEF OneStep
  <2>3. AtHand(c)'
    BY <1>1, <2>1 DEF AtHand
  <2>4. ResultsStored(c)'
    BY <2>1 DEF ResultsStored
  <2>5. QED
    BY <2>2, <2>3, <2>4
<1>3. QED
  BY <1>1, <1>2, StepOf DEF StoredInv

LEMMA FetchStep ==
    ASSUME StoredInv, NEW c \in Cmds, Fetch(c)
    PROVE  StoredInv'
<1>1. phase[c] = "next" /\ todo[c] # <<>> /\ UNCHANGED <<table, health, todo, results>>
  BY DEF Fetch, At
<1>2. CASE fetched' = fetched /\ phase' = [phase EXCEPT ![c] = "say_failed"]
  BY <1>1, <1>2, PhaseStep
<1>3. CASE \E rows \in SUBSET AllRows :
              fetched' = [fetched EXCEPT ![c] = rows] /\ phase' = [phase EXCEPT ![c] = "store"]
  <2>1. PICK rows \in SUBSET AllRows :
           fetched' = [fetched EXCEPT ![c] = rows] /\ phase' = [phase EXCEPT ![c] = "store"]
    BY <1>3
  <2>2. /\ phase'[c] = "store" /\ fetched'[c] = rows
        /\ \A d \in Cmds \ {c} : phase'[d] = phase[d] /\ fetched'[d] = fetched[d]
        /\ phase' = [d \in Cmds |-> phase'[d]] /\ fetched' = [d \in Cmds |-> fetched'[d]]
    BY <2>1, ChangeOne DEF StoredInv
  <2>3. OneStep(c)' /\ AtHand(c)' /\ ResultsStored(c)'
    <3>1. OneStep(c) /\ ResultsStored(c)
      BY DEF StoredInv
    <3>2. OneStep(c)'
      BY <1>1, <2>2, <3>1 DEF OneStep
    <3>3. AtHand(c)'
      BY <2>2 DEF AtHand
    <3>4. ResultsStored(c)'
      BY <1>1, <3>1 DEF ResultsStored
    <3>5. QED
      BY <3>2, <3>3, <3>4
  <2>4. QED
    BY <1>1, <2>2, <2>3, StepOf DEF StoredInv
<1>4. InWindow(Answer(Head(todo[c])), Head(todo[c]).start, Head(todo[c]).end) \in SUBSET AllRows
  BY AnswersAreRows DEF InWindow
<1>5. QED
  BY <1>2, <1>3, <1>4 DEF Fetch

LEMMA StoreStep ==
    ASSUME StoredInv, NEW c \in Cmds, Store(c)
    PROVE  StoredInv'
<1>1. phase[c] = "store" /\ UNCHANGED <<health, todo, results>>
  BY DEF Store
<1>2. OneStep(c) /\ AtHand(c) /\ ResultsStored(c) /\ TableOfRows(table)
  BY DEF StoredInv
<1>3. CASE /\ table' = Upsert(table, fetched[c]) /\ fetched' = fetched
           /\ phase' = [phase EXCEPT ![c] = "say_ok"]
  <2>1. /\ phase'[c] = "say_ok" /\ \A d \in Cmds \ {c} : phase'[d] = phase[d]
        /\ phase' = [d \in Cmds |-> phase'[d]]
    BY <1>3, ChangeOne DEF StoredInv
  <2>2. /\ TableOfRows(table') /\ RowsOf(table') = RowsOf(table) \cup fetched[c]
    BY <1>2, <1>3, UpsertOnlyAdds DEF AtHand
  <2>3. OneStep(c)'
    BY <1>1, <1>2, <2>1 DEF OneStep
  <2>4. AtHand(c)'
    BY <1>2, <1>3, <2>1, <2>2 DEF AtHand
  <2>5. ResultsStored(c)'
    BY <1>1, <1>2, <2>2 DEF ResultsStored
  <2>6. QED
    BY <1>1, <1>3, <2>1, <2>2, <2>3, <2>4, <2>5, StepOf DEF StoredInv
<1>4. CASE /\ table' = table /\ fetched' = [fetched EXCEPT ![c] = {}]
           /\ phase' = [phase EXCEPT ![c] = "say_failed"]
  <2>1. /\ phase'[c] = "say_failed" /\ fetched'[c] = {}
        /\ \A d \in Cmds \ {c} : phase'[d] = phase[d] /\ fetched'[d] = fetched[d]
        /\ phase' = [d \in Cmds |-> phase'[d]] /\ fetched' = [d \in Cmds |-> fetched'[d]]
    BY <1>4, ChangeOne DEF StoredInv
  <2>2. OneStep(c)'
    BY <1>1, <1>2, <2>1 DEF OneStep
  <2>3. AtHand(c)'
    BY <2>1 DEF AtHand
  <2>4. ResultsStored(c)'
    BY <1>1, <1>2, <1>4 DEF ResultsStored
  <2>5. QED
    BY <1>1, <1>2, <1>4, <2>1, <2>2, <2>3, <2>4, StepOf DEF StoredInv
<1>5. QED
  BY <1>3, <1>4 DEF Store

(* A step that ends with its result.                                       *)
LEMMA ReportStep ==
    ASSUME StoredInv, NEW c \in Cmds, NEW status, NEW reason, Report(c, status, reason),
           todo[c] # <<>>,
           TableOfRows(table'), RowsOf(table) \subseteq RowsOf(table'),
           status = "completed" => fetched[c] \subseteq RowsOf(table'),
           \A h \in health' \ health : h.ok => h.rows \subseteq RowsOf(table')
    PROVE  StoredInv'
<1> DEFINE result == [status |-> status, series |-> Head(todo[c]).series,
                      rows |-> fetched[c], known |-> KnownMonths(c), reason |-> reason]
<1>1. /\ results' = [results EXCEPT ![c] = Append(results[c], result)]
      /\ todo' = [todo EXCEPT ![c] = Tail(todo[c])]
      /\ phase' = [phase EXCEPT ![c] = "next"]
      /\ fetched' = [fetched EXCEPT ![c] = {}]
  BY DEF Report
<1>2. result.status = status /\ result.rows = fetched[c]
  OBVIOUS
<1> HIDE DEF result
<1>3. /\ results'[c] = Append(results[c], result) /\ todo'[c] = Tail(todo[c])
      /\ phase'[c] = "next" /\ fetched'[c] = {}
      /\ \A d \in Cmds \ {c} : /\ phase'[d] = phase[d] /\ fetched'[d] = fetched[d]
                               /\ todo'[d] = todo[d] /\ results'[d] = results[d]
      /\ phase' = [d \in Cmds |-> phase'[d]] /\ fetched' = [d \in Cmds |-> fetched'[d]]
      /\ todo' = [d \in Cmds |-> todo'[d]] /\ results' = [d \in Cmds |-> results'[d]]
  BY <1>1, ChangeOne DEF StoredInv
<1>4. OneStep(c) /\ ResultsStored(c)
  BY DEF StoredInv
<1>5. OneStep(c)'
  <2>1. Tail(<<Ingestion(Commands[c])>>) = <<>>
    OBVIOUS
  <2>2. QED
    BY <1>3, <1>4, <2>1 DEF OneStep
<1>6. AtHand(c)'
  BY <1>3 DEF AtHand
<1>7. ResultsStored(c)'
  <2>1. IsList(results'[c])
    BY <1>3, <1>4, AppendToList DEF ResultsStored
  <2>2. \A i \in DOMAIN results'[c] :
           results'[c][i] = result \/ (i \in DOMAIN results[c] /\ results'[c][i] = results[c][i])
    BY <1>3, <1>4, AppendToList DEF ResultsStored
  <2>3. ASSUME NEW i \in DOMAIN results'[c], results'[c][i].status = "completed"
        PROVE  results'[c][i].rows \subseteq RowsOf(table')
    <3>1. CASE results'[c][i] = result
      BY <1>2, <2>3, <3>1
    <3>2. CASE i \in DOMAIN results[c] /\ results'[c][i] = results[c][i]
      BY <1>4, <2>3, <3>2 DEF ResultsStored
    <3>3. QED
      BY <2>2, <3>1, <3>2
  <2>4. QED
    BY <2>1, <2>3 DEF ResultsStored
<1>8. QED
  BY <1>3, <1>5, <1>6, <1>7, StepOf

(* A health row with the rows at hand.                                     *)
LEMMA SaidRows ==
    ASSUME NEW c, NEW ok, Say(c, ok)
    PROVE  \A h \in health' \ health : h.ok = ok /\ h.rows = fetched[c]
  BY DEF Say

LEMMA AtStep ==
    ASSUME StoredInv, NEW c \in Cmds, phase[c] \in {"say_ok", "say_failed"}
    PROVE  todo[c] # <<>>
  BY DEF StoredInv, OneStep

LEMMA SayHealthStep ==
    ASSUME StoredInv, NEW c \in Cmds, SayHealth(c)
    PROVE  StoredInv'
<1>1. /\ phase[c] \in {"say_ok", "say_failed"} /\ table' = table
      /\ OneStep(c) /\ AtHand(c) /\ TableOfRows(table)
  BY DEF SayHealth, StoredInv
<1>2. CASE health' = health /\ Report(c, "failed", "source_failed")
  BY <1>1, <1>2, AtStep, ReportStep
<1>3. CASE Say(c, TRUE) /\ phase[c] = "say_ok" /\ Report(c, "completed", "none")
  <2>1. fetched[c] \subseteq RowsOf(table')
    BY <1>1, <1>3 DEF AtHand
  <2>2. \A h \in health' \ health : h.ok => h.rows \subseteq RowsOf(table')
    BY <1>3, <2>1, SaidRows
  <2>3. QED
    BY <1>1, <1>3, <2>1, <2>2, AtStep, ReportStep
<1>4. CASE Say(c, FALSE) /\ Report(c, "failed", "source_failed")
  <2>1. \A h \in health' \ health : ~h.ok
    BY <1>4, SaidRows
  <2>2. QED
    BY <1>1, <1>4, <2>1, AtStep, ReportStep
<1>5. QED
  BY <1>1, <1>2, <1>3, <1>4 DEF SayHealth

(* Only the two query sources take snapshots.                              *)
LEMMA SnapshotsAreKnown ==
    ASSUME NEW c \in Cmds, Commands[c].kind = "ingest", Ingestion(Commands[c]).kind = "snapshot"
    PROVE  Ingestion(Commands[c]).series \in AllSeries
<1> DEFINE cmd == Commands[c]
<1>1. /\ cmd.symbol \in Symbols
      /\ cmd.source \in {"binance-public", "binance-usdm", "dune", "thegraph", "dexscreener",
                          "defillama", "ccxt"}
  BY CommandsAssumption
<1>2. CASE cmd.source \in {"dune", "thegraph"}
  <2>1. Ingestion(cmd) = OnchainIngestion(cmd)
    BY <1>2 DEF Ingestion
  <2>2. OnchainIngestion(cmd).series \in {DuneResult(cmd.symbol), GraphResult(cmd.symbol)}
    BY DEF OnchainIngestion, IngestDune, IngestTheGraph, Step
  <2>3. QED
    BY <1>1, <2>1, <2>2 DEF AllSeries
<1>3. CASE cmd.source \notin {"dune", "thegraph"}
  <2>1. PublicIngestion(cmd).kind = "month"
    BY DEF PublicIngestion, IngestFuturesMonth, IngestSpotMonth, IngestPublicMonth, Step
  <2>2. UsdmIngestion(cmd.feed, cmd.symbol, cmd.since).kind = "page"
    BY DEF UsdmIngestion, IngestPremiumIndex, IngestBasis, IngestFundingHistory,
           IngestOpenInterestHistory, IngestLongShortRatio, IngestTakerVolume, IngestUsdm, Step
  <2>3. DexOrDefiIngestion(cmd).kind = "page"
    BY DEF DexOrDefiIngestion, IngestDexPairs, IngestYieldPools, Step
  <2>4. CcxtIngestion(cmd).kind = "page"
    BY DEF CcxtIngestion, IngestCcxtCandles, IngestCcxtOpenInterest, IngestCcxtFunding, Step
  <2>5. Ingestion(cmd).kind \in {"month", "page"}
    BY <1>1, <1>3, <2>1, <2>2, <2>3, <2>4 DEF Ingestion
  <2>6. QED
    BY <2>5
<1>4. QED
  BY <1>2, <1>3

LEMMA SnapshotIsARow ==
    ASSUME StoredInv, NEW c \in Cmds, Snapshot(c)
    PROVE  Row(Head(todo[c]).series, 0) \in AllRows
<1>1. /\ Commands[c].kind = "ingest" /\ todo[c] # <<>> /\ Head(todo[c]).kind = "snapshot"
      /\ OneStep(c)
  BY DEF Snapshot, At, StoredInv
<1>2. todo[c] = <<Ingestion(Commands[c])>>
  BY <1>1 DEF OneStep
<1>3. Head(todo[c]) = Ingestion(Commands[c])
  BY <1>2
<1>4. Ingestion(Commands[c]).series \in AllSeries
  BY <1>1, <1>3, SnapshotsAreKnown
<1>5. 0 \in Times
  BY RowsAssumption DEF Times
<1>6. QED
  BY <1>3, <1>4, <1>5 DEF AllRows

LEMMA SnapshotStep ==
    ASSUME StoredInv, NEW c \in Cmds, Snapshot(c)
    PROVE  StoredInv'
<1>1. /\ Commands[c].kind = "ingest" /\ phase[c] = "next" /\ todo[c] # <<>>
      /\ Head(todo[c]).kind = "snapshot" /\ health' = health
      /\ OneStep(c) /\ AtHand(c) /\ TableOfRows(table)
  BY DEF Snapshot, At, StoredInv
<1> DEFINE row == Row(Head(todo[c]).series, 0)
<1>2. row \in AllRows
  BY SnapshotIsARow
<1>3. CASE table' = Upsert(table, {row}) /\ Report(c, "completed", "none")
  <2>1. TableOfRows(table') /\ RowsOf(table) \subseteq RowsOf(table')
    BY <1>1, <1>2, <1>3, UpsertOnlyAdds
  <2>2. fetched[c] = {}
    BY <1>1 DEF AtHand
  <2>3. QED
    BY <1>1, <1>3, <2>1, <2>2, ReportStep
<1>4. CASE table' = table /\ Report(c, "failed", "source_failed")
  BY <1>1, <1>4, ReportStep
<1>5. QED
  BY <1>3, <1>4 DEF Snapshot

LEMMA ProbeReportStep ==
    ASSUME StoredInv, NEW c \in Cmds, Probe(c)
    PROVE  StoredInv'
<1>1. /\ phase[c] = "next" /\ todo[c] # <<>> /\ table' = table
      /\ AtHand(c) /\ TableOfRows(table)
  BY DEF Probe, At, StoredInv
<1>2. fetched[c] = {}
  BY <1>1 DEF AtHand
<1>3. \E status, reason : Report(c, status, reason)
  BY DEF Probe
<1>4. \A h \in health' \ health : h.rows = {}
  BY <1>2, SaidRows DEF Probe
<1>5. QED
  BY <1>1, <1>2, <1>3, <1>4, ReportStep

(* A family leaves the rows alone.                                         *)
LEMMA FamilyStep ==
    ASSUME StoredInv, NEW c \in Cmds, ValidateFamily(c) \/ PaperFamily(c)
    PROVE  StoredInv'
<1>1. /\ phase[c] \in {"next", "paper"} /\ todo[c] # <<>>
      /\ UNCHANGED <<table, health, fetched, results>>
      /\ OneStep(c) /\ AtHand(c) /\ ResultsStored(c) /\ TableOfRows(table)
  BY DEF StoredInv, OneStep, ValidateFamily, PaperFamily, At
<1>2. PICK to, steps :
        /\ phase' = [phase EXCEPT ![c] = to] /\ todo' = [todo EXCEPT ![c] = steps]
        /\ \/ to = "next" /\ steps = Tail(todo[c])
           \/ to = "paper" /\ steps = todo[c]
  BY DEF ValidateFamily, PaperFamily
<1>3. /\ phase'[c] = to /\ todo'[c] = steps
      /\ \A d \in Cmds \ {c} : phase'[d] = phase[d] /\ todo'[d] = todo[d]
      /\ phase' = [d \in Cmds |-> phase'[d]] /\ todo' = [d \in Cmds |-> todo'[d]]
  BY <1>2, ChangeOne DEF StoredInv
<1>4. OneStep(c)'
  <2>1. Tail(<<Ingestion(Commands[c])>>) = <<>>
    OBVIOUS
  <2>2. QED
    BY <1>1, <1>2, <1>3, <2>1 DEF OneStep
<1>5. AtHand(c)'
  BY <1>1, <1>2, <1>3 DEF AtHand
<1>6. ResultsStored(c)'
  BY <1>1 DEF ResultsStored
<1>7. QED
  BY <1>1, <1>3, <1>4, <1>5, <1>6, StepOf DEF StoredInv

LEMMA OtherStep ==
    ASSUME StoredInv, NEW c \in Cmds,
           Finish(c) \/ Kill(c) \/ ReadUniverse(c) \/ ReadRecords(c) \/ ReadScreen(c)
           \/ Judge(c) \/ StrategyLab(c)
    PROVE  StoredInv'
<1>1. UNCHANGED <<table, health, todo, fetched, results>>
  BY DEF Finish, Kill, ReadUniverse, ReadRecords, ReadScreen, Judge, StrategyLab
<1>2. CASE Kill(c)
  BY <1>1, <1>2, PhaseStep DEF Kill
<1>3. CASE Finish(c) \/ ReadUniverse(c) \/ ReadRecords(c) \/ ReadScreen(c) \/ Judge(c) \/ StrategyLab(c)
  <2>1. PICK to \in {"done", "records", "screens", "judge"} : phase' = [phase EXCEPT ![c] = to]
    BY <1>3 DEF Finish, ReadUniverse, ReadRecords, ReadScreen, Judge, StrategyLab
  <2>2. phase[c] \in {"next", "records", "screens", "judge"}
    BY <1>3 DEF Finish, ReadUniverse, ReadRecords, ReadScreen, Judge, StrategyLab
  <2>3. QED
    BY <1>1, <2>1, <2>2, PhaseStep
<1>4. QED
  BY <1>2, <1>3

LEMMA StoredStep == StoredInv /\ [DataNext]_dataVars => StoredInv'
<1> SUFFICES ASSUME StoredInv, [DataNext]_dataVars PROVE StoredInv'
  OBVIOUS
<1>1. ASSUME NEW c \in Cmds,
             \/ Begin(c) \/ Fetch(c) \/ Store(c) \/ SayHealth(c)
             \/ Snapshot(c) \/ Probe(c) \/ Finish(c) \/ Kill(c)
             \/ ReadUniverse(c) \/ ReadRecords(c) \/ ReadScreen(c) \/ Judge(c) \/ StrategyLab(c)
             \/ ValidateFamily(c) \/ PaperFamily(c)
      PROVE  StoredInv'
  BY <1>1, BeginStep, FetchStep, StoreStep, SayHealthStep, SnapshotStep, ProbeReportStep,
     FamilyStep, OtherStep
<1>2. CASE UNCHANGED dataVars
  <2>1. \A c \in Cmds : OneStep(c)' /\ AtHand(c)' /\ ResultsStored(c)'
    BY <1>2 DEF StoredInv, OneStep, AtHand, ResultsStored, dataVars
  <2>2. QED
    BY <1>2, <2>1 DEF StoredInv, dataVars
<1>3. QED
  BY <1>1, <1>2 DEF DataNext

(* What health rows and results say was stored is stored, and the ids tell *)
(* all rows of the table apart.                                            *)
THEOREM StoredAlways == DataSpec => []StoredInv
  BY StoredInit, StoredStep, PTL DEF DataSpec

(* Rows that a health row, a step or a job says were written are stored,   *)
(* whatever commands overlap, fail and are killed (data/ingestion.py, the  *)
(* health row after the commit).                                           *)
THEOREM ReportsOfStoredRows == DataSpec => []ReportedRowsAreStored
<1>1. StoredInv => ReportedRowsAreStored
  BY DEF StoredInv, ResultsStored, ReportedRowsAreStored
<1>2. QED
  BY <1>1, StoredAlways, PTL

(* No step of any command takes away a row or replaces it by one of        *)
(* another series (data/store.py, INSERT OR REPLACE on the record id;      *)
(* data/ingestion.py, the ids).                                            *)
THEOREM RowsKeepTheirIds == DataSpec => RowsKeepTheirSeries
<1> DEFINE Kept == \A id \in DOMAIN table : id \in DOMAIN table' /\ table'[id] = table[id]
<1>1. StoredInv /\ [DataNext]_dataVars => [Kept]_dataVars
  <2> SUFFICES ASSUME StoredInv, NEW c \in Cmds,
                      \/ Begin(c) \/ Fetch(c) \/ Store(c) \/ SayHealth(c)
                      \/ Snapshot(c) \/ Probe(c) \/ Finish(c) \/ Kill(c)
                      \/ ReadUniverse(c) \/ ReadRecords(c) \/ ReadScreen(c) \/ Judge(c)
                      \/ StrategyLab(c) \/ ValidateFamily(c) \/ PaperFamily(c)
               PROVE  Kept
    BY DEF DataNext
  <2>1. CASE table' = table
    BY <2>1
  <2>2. CASE \E rows \in SUBSET AllRows : table' = Upsert(table, rows)
    BY <2>2, UpsertOnlyAdds DEF StoredInv
  <2>3. CASE Store(c)
    <3>1. fetched[c] \in SUBSET AllRows
      BY DEF StoredInv, AtHand
    <3>2. QED
      BY <2>1, <2>2, <2>3, <3>1 DEF Store
  <2>4. CASE Snapshot(c)
    <3>1. Row(Head(todo[c]).series, 0) \in AllRows
      BY <2>4, SnapshotIsARow
    <3>2. QED
      BY <2>1, <2>2, <2>4, <3>1 DEF Snapshot
  <2>5. CASE ~Store(c) /\ ~Snapshot(c)
    BY <2>1, <2>5 DEF Begin, Fetch, SayHealth, Probe, Finish, Kill, ReadUniverse, ReadRecords,
                      ReadScreen, Judge, StrategyLab, ValidateFamily, PaperFamily
  <2>6. QED
    BY <2>3, <2>4, <2>5
<1>2. QED
  BY <1>1, StoredAlways, PTL DEF DataSpec, RowsKeepTheirSeries

----------------------------------------------------------------------------
(* The candidate states.  The report that the memory was last replaced by  *)
(* is that of a lab which has ended, so it stays that lab's.               *)

StatesInv ==
    /\ lab = [c \in Cmds |-> lab[c]] /\ phase = [c \in Cmds |-> phase[c]]
    /\ \A c \in Cmds : "report" \in DOMAIN lab[c] /\ (phase[c] # "idle" => c \in active)
    /\ states # <<>> => \E c \in Cmds :
          phase[c] = "done" /\ states = CandidateStateEntries(lab[c].report)

LEMMA StatesInit == DataInit => StatesInv
<1> SUFFICES ASSUME DataInit PROVE StatesInv
  OBVIOUS
<1>1. /\ lab = [c \in Cmds |-> NoLab] /\ phase = [c \in Cmds |-> "idle"] /\ states = <<>>
  BY DEF DataInit
<1>2. QED
  BY <1>1 DEF StatesInv, NoLab

LEMMA StatesStep == StatesInv /\ [DataNext]_dataVars => StatesInv'
<1> SUFFICES ASSUME StatesInv, [DataNext]_dataVars PROVE StatesInv'
  OBVIOUS
<1>1. ASSUME NEW c \in Cmds, NEW to, phase' = [phase EXCEPT ![c] = to],
             active' = active, c \in active
      PROVE  /\ phase' = [d \in Cmds |-> phase'[d]]
             /\ \A d \in Cmds : phase'[d] # "idle" => d \in active'
             /\ \A d \in Cmds : d # c => phase'[d] = phase[d]
  BY <1>1, ChangeOne DEF StatesInv
<1>2. ASSUME NEW c \in Cmds, phase[c] # "done", NEW to, phase' = [phase EXCEPT ![c] = to],
             active' = active, c \in active, states' = states,
             lab' = [d \in Cmds |-> lab'[d]], "report" \in DOMAIN lab'[c],
             \A d \in Cmds : d # c => lab'[d] = lab[d]
      PROVE  StatesInv'
  <2>1. states' # <<>> => \E d \in Cmds :
           phase'[d] = "done" /\ states' = CandidateStateEntries(lab'[d].report)
    <3>1. SUFFICES ASSUME states # <<>>
                   PROVE  \E d \in Cmds : phase'[d] = "done"
                            /\ states' = CandidateStateEntries(lab'[d].report)
      BY <1>2
    <3>2. PICK d \in Cmds : phase[d] = "done" /\ states = CandidateStateEntries(lab[d].report)
      BY <3>1 DEF StatesInv
    <3>3. phase'[d] = "done" /\ lab'[d] = lab[d]
      BY <1>1, <1>2, <3>2
    <3>4. QED
      BY <1>2, <3>2, <3>3
  <2>2. QED
    BY <1>1, <1>2, <2>1 DEF StatesInv
<1>3. ASSUME NEW c \in Cmds, Judge(c) PROVE StatesInv'
  <2>1. /\ phase[c] = "judge" /\ phase' = [phase EXCEPT ![c] = "done"] /\ active' = active
        /\ lab' = [lab EXCEPT ![c].report = LabReport(c)] /\ c \in active
    BY <1>3 DEF Judge, StatesInv
  <2>2. /\ lab' = [d \in Cmds |-> lab'[d]] /\ "report" \in DOMAIN lab'[c]
        /\ \A d \in Cmds : d # c => lab'[d] = lab[d]
    BY <2>1 DEF StatesInv
  <2>3. CASE ~Commands[c].persist
    BY <1>2, <1>3, <2>1, <2>2, <2>3 DEF Judge
  <2>4. CASE Commands[c].persist
    <3>1. states' = CandidateStateEntries(lab'[c].report)
      BY <1>3, <2>4 DEF Judge, ReplaceStates
    <3>2. phase'[c] = "done"
      BY <2>1 DEF StatesInv
    <3>3. QED
      BY <1>1, <2>1, <2>2, <3>1, <3>2 DEF StatesInv
  <2>5. QED
    BY <2>3, <2>4
<1>4. ASSUME NEW c \in Cmds, Begin(c) PROVE StatesInv'
  <2>1. /\ phase[c] = "idle" /\ phase' = [phase EXCEPT ![c] = "next"] /\ c \in active
        /\ UNCHANGED <<active, lab, states>>
    BY <1>4 DEF Begin
  <2>2. QED
    BY <1>2, <2>1 DEF StatesInv
<1>5. ASSUME NEW c \in Cmds, ReadUniverse(c) \/ ReadRecords(c) \/ ReadScreen(c) \/ StrategyLab(c)
      PROVE  StatesInv'
  <2>1. /\ phase[c] \in {"next", "records", "screens"} /\ UNCHANGED <<active, states>>
        /\ \E to : phase' = [phase EXCEPT ![c] = to]
    BY <1>5 DEF ReadUniverse, ReadRecords, ReadScreen, StrategyLab
  <2>2. /\ lab' = [d \in Cmds |-> lab'[d]] /\ "report" \in DOMAIN lab'[c]
        /\ \A d \in Cmds : d # c => lab'[d] = lab[d]
    BY <1>5 DEF ReadUniverse, ReadRecords, ReadScreen, StrategyLab, StatesInv
  <2>3. c \in active
    BY <2>1 DEF StatesInv
  <2>4. QED
    BY <1>2, <2>1, <2>2, <2>3
<1>6. ASSUME NEW c \in Cmds,
             \/ Fetch(c) \/ Store(c) \/ SayHealth(c) \/ Snapshot(c) \/ Probe(c)
             \/ Finish(c) \/ Kill(c) \/ ValidateFamily(c) \/ PaperFamily(c)
      PROVE  StatesInv'
  <2>1. UNCHANGED <<active, lab, states>>
    BY <1>6 DEF Fetch, Store, SayHealth, Snapshot, Probe, Finish, Kill, ValidateFamily, PaperFamily
  <2>2. phase[c] \notin {"idle", "done"}
    BY <1>6 DEF Fetch, Store, SayHealth, Snapshot, Probe, Finish, Kill, ValidateFamily, PaperFamily, At
  <2>3. \E to : phase' = [phase EXCEPT ![c] = to]
    BY <1>6 DEF Fetch, Store, SayHealth, Snapshot, Probe, Finish, Kill, ValidateFamily, PaperFamily, Report
  <2>4. QED
    BY <1>2, <2>1, <2>2, <2>3 DEF StatesInv
<1>7. CASE UNCHANGED dataVars
  BY <1>7 DEF StatesInv, dataVars
<1>8. QED
  BY <1>3, <1>4, <1>5, <1>6, <1>7 DEF DataNext

(* Whatever labs take turns, the candidate states in the memory are those  *)
(* of one report (pipeline/candidate_state_memory.py, replace_matching).   *)
THEOREM StatesComeFromOneReport == DataSpec => []StatesAreOfOneReport
<1>1. StatesInv => StatesAreOfOneReport
  BY DEF StatesInv, StatesAreOfOneReport
<1>2. QED
  BY <1>1, StatesInit, StatesStep, PTL DEF DataSpec

----------------------------------------------------------------------------
(* The paper run of a family.  On the rows that the validation read, it    *)
(* extracts the same trades and finds the same reasons.                    *)

(* What a paper run tried, against what a validation found.                *)
Agree(tried, found) ==
    IF found.reasons = {}
    THEN DOMAIN tried = DOMAIN found.trades /\ \A k \in DOMAIN tried : tried[k].trade = found.trades[k]
    ELSE DOMAIN tried = {1} /\ tried[1].trade = <<>> /\ tried[1].reasons = found.reasons

LEMMA LeastOfThree ==
    ASSUME NEW a \in Int, NEW b \in Int, NEW d \in Int
    PROVE  Min({a, b, d}) \in Int /\ Min({a, b, d}) <= d
<1>1. \E x \in {a, b, d} : \A y \in {a, b, d} : x <= y
  <2>1. CASE a <= b /\ a <= d
    BY <2>1
  <2>2. CASE b <= a /\ b <= d
    BY <2>2
  <2>3. CASE d <= a /\ d <= b
    BY <2>3
  <2>4. QED
    BY <2>1, <2>2, <2>3
<1>2. QED
  BY <1>1 DEF Min

(* No trades are too few, so a validation that passes has some.            *)
LEMMA PassingHasTrades ==
    ASSUME NEW family \in FundingFamilies, NEW rows, NEW sym,
           Validator(family, rows, sym).reasons = {}
    PROVE  Validator(family, rows, sym).trades # <<>>
<1>1. "insufficient_trades" \in PerformanceReasons(<<>>, Rules.minTrades)
  BY ValidatorsAssumption, RegistryAssumption DEF PerformanceReasons
<1>2. CASE family \in {"funding_extremity_price_confirmation", "funding_mean_reversion_after_extreme"}
  <2>1. Validator(family, rows, sym) = ValidateFundingPrice(rows, sym)
    BY <1>2 DEF Validator, ValidateFundingMeanReversion
  <2>2. PerformanceReasons(ValidateFundingPrice(rows, sym).trades, Rules.minTrades)
          \subseteq ValidateFundingPrice(rows, sym).reasons
    BY DEF ValidateFundingPrice, Verdict
  <2>3. QED
    BY <1>1, <2>1, <2>2
<1>3. CASE family = "funding_open_interest_crowding"
  <2>1. Validator(family, rows, sym) = ValidateFundingOiCrowding(rows, sym)
    BY <1>3 DEF Validator
  <2>2. PerformanceReasons(ValidateFundingOiCrowding(rows, sym).trades, Rules.minTrades)
          \subseteq ValidateFundingOiCrowding(rows, sym).reasons
    BY DEF ValidateFundingOiCrowding, Verdict
  <2>3. QED
    BY <1>1, <2>1, <2>2
<1>4. QED
  BY <1>2, <1>3 DEF FundingFamilies

(* When a validation passes, a paper run extracts its trades.              *)
LEMMA SameTrades ==
    ASSUME NEW family \in FundingFamilies, NEW rows, NEW sym,
           Validator(family, rows, sym).reasons = {}
    PROVE  PaperTrades(family, rows, sym) = Validator(family, rows, sym).trades
<1> DEFINE h == FundingHistoryOf(rows, sym)
<1>1. CASE family \in {"funding_extremity_price_confirmation", "funding_mean_reversion_after_extreme"}
  <2>1. Validator(family, rows, sym) = ValidateFundingPrice(rows, sym)
    BY <1>1 DEF Validator, ValidateFundingMeanReversion
  <2>2. HistoryReasons(h, sym) \subseteq ValidateFundingPrice(rows, sym).reasons
    BY DEF ValidateFundingPrice, Verdict
  <2>3. "funding_alignment_invalid" \notin HistoryReasons(h, sym)
    BY <2>1, <2>2
  <2>4. ValidateFundingPrice(rows, sym).trades = ExtractFromRecords(h)
    BY <2>3 DEF ValidateFundingPrice, Verdict
  <2>5. QED
    BY <1>1, <2>1, <2>4 DEF PaperTrades
<1>2. CASE family = "funding_open_interest_crowding"
  <2>1. Validator(family, rows, sym) = ValidateFundingOiCrowding(rows, sym)
    BY <1>2 DEF Validator
  <2>2. /\ h.interest = {} => "missing_open_interest_records" \in ValidateFundingOiCrowding(rows, sym).reasons
        /\ HasDuplicates(h.interest) =>
              "duplicate_open_interest_timestamp" \in ValidateFundingOiCrowding(rows, sym).reasons
    BY DEF ValidateFundingOiCrowding, Verdict
  <2>3. h.interest # {} /\ ~HasDuplicates(h.interest)
    BY <2>1, <2>2
  <2>4. ValidateFundingOiCrowding(rows, sym).trades = ConfirmedTrades(ExtractFromRecords(h), h.interest)
    BY <2>3 DEF ValidateFundingOiCrowding, Verdict
  <2>5. QED
    BY <1>2, <2>1, <2>3, <2>4 DEF PaperTrades, ExtractCrowdingTrades
<1>3. QED
  BY <1>1, <1>2 DEF FundingFamilies

LEMMA OutcomeNamesTrade == \A trade, notional : EstimateExecutionCost(trade, notional).trade = trade
  BY DEF EstimateExecutionCost, Tradeable

LEMMA PaperAgrees ==
    ASSUME NEW family \in FundingFamilies, NEW rows, NEW sym,
           NEW capital \in Nat, NEW notional \in Nat
    PROVE  Agree(PaperOutcomes(family, rows, sym, capital, notional),
                 ValidateFamilyOn(family, rows, sym, capital))
<1> DEFINE capped == Min({notional, capital, Rules.maxNotional})
           found == ValidateFamilyOn(family, rows, sym, capital)
           report == PaperReport(family, rows, sym, capital, capped)
           tried == PaperOutcomes(family, rows, sym, capital, notional)
<1>1. ~(capped > Rules.maxNotional)
  <2>1. Rules.maxNotional \in Int
    BY RegistryAssumption
  <2>2. notional \in Int /\ capital \in Int
    OBVIOUS
  <2>3. capped \in Int /\ capped <= Rules.maxNotional
    BY <2>1, <2>2, LeastOfThree
  <2> HIDE DEF capped
  <2>4. QED
    BY <2>1, <2>3
<1>2. /\ report.reasons = found.reasons
      /\ report.trades = IF found.reasons = {} THEN PaperTrades(family, rows, sym) ELSE <<>>
  BY <1>1 DEF PaperReport, Verdict
<1>3. tried = IF report.reasons # {} THEN BlockedOutcome(report.reasons)
              ELSE IF report.trades = <<>> THEN BlockedOutcome({"no_signal"})
              ELSE [i \in DOMAIN report.trades |-> EstimateExecutionCost(report.trades[i], capped)]
  BY DEF PaperOutcomes
<1> HIDE DEF tried, report, capped
<1>4. CASE found.reasons # {}
  <2>1. tried = BlockedOutcome(found.reasons)
    BY <1>2, <1>3, <1>4
  <2>2. DOMAIN tried = {1} /\ tried[1].trade = <<>> /\ tried[1].reasons = found.reasons
    BY <2>1 DEF BlockedOutcome
  <2>3. QED
    BY <1>4, <2>2 DEF Agree, tried
<1>5. CASE found.reasons = {}
  <2>1. found = Validator(family, rows, sym)
    <3>1. Verdict(<<>>, {"insufficient_current_capital"}).reasons # {}
      BY DEF Verdict
    <3>2. QED
      BY <1>5, <3>1 DEF ValidateFamilyOn
  <2>2. report.trades = found.trades /\ found.trades # <<>>
    BY <1>2, <1>5, <2>1, SameTrades, PassingHasTrades
  <2>3. tried = [i \in DOMAIN found.trades |-> EstimateExecutionCost(found.trades[i], capped)]
    BY <1>2, <1>3, <1>5, <2>2
  <2>4. DOMAIN tried = DOMAIN found.trades /\ \A k \in DOMAIN tried : tried[k].trade = found.trades[k]
    BY <2>3, OutcomeNamesTrade
  <2>5. QED
    BY <1>5, <2>4 DEF Agree, tried
<1>6. QED
  BY <1>4, <1>5

EntryFields == {"family", "start", "end", "seen", "paperSeen", "outcomes", "class", "validation"}

(* An entry's paper run agrees with its validation when nothing was        *)
(* committed in between.                                                   *)
EntryAgrees(f) ==
    /\ DOMAIN f = EntryFields
    /\ f.outcomes # <<>> /\ f.seen = f.paperSeen => Agree(f.outcomes, f.validation)

(* The entry that a paper run is about to complete.                        *)
Awaiting(c, f) ==
    LET step == Head(todo[c])
        rows == {r \in f.seen : step.start <= r.time /\ r.time < step.end}
    IN /\ SupportsPaper(step.family) /\ f.outcomes = <<>>
       /\ f.validation = ValidateFamilyOn(step.family, rows, Commands[c].symbol, Commands[c].capital)

FamiliesInv ==
    /\ families = [c \in Cmds |-> families[c]] /\ todo = [c \in Cmds |-> todo[c]]
    /\ phase = [c \in Cmds |-> phase[c]]
    /\ \A c \in Cmds :
          /\ IsList(families[c])
          /\ \A i \in DOMAIN families[c] : EntryAgrees(families[c][i])
          /\ phase[c] = "paper" =>
                /\ Commands[c].kind = "bootstrap" /\ Len(families[c]) \in DOMAIN families[c]
                /\ Awaiting(c, families[c][Len(families[c])])

LEMMA FamiliesInit == DataInit => FamiliesInv
<1> SUFFICES ASSUME DataInit PROVE FamiliesInv
  OBVIOUS
<1>1. /\ families = [c \in Cmds |-> <<>>] /\ todo = [c \in Cmds |-> <<>>]
      /\ phase = [c \in Cmds |-> "idle"]
  BY DEF DataInit
<1>2. IsList(<<>>)
  BY DEF IsList
<1>3. QED
  BY <1>1, <1>2 DEF FamiliesInv

(* A step of a command that does not await a paper run afterwards.         *)
LEMMA FamiliesStepOf ==
    ASSUME FamiliesInv, NEW c \in Cmds,
           families' = [d \in Cmds |-> families'[d]], todo' = [d \in Cmds |-> todo'[d]],
           phase' = [d \in Cmds |-> phase'[d]],
           \A d \in Cmds : d # c => families'[d] = families[d] /\ todo'[d] = todo[d] /\ phase'[d] = phase[d],
           IsList(families'[c]),
           \A i \in DOMAIN families'[c] : EntryAgrees(families'[c][i]),
           phase'[c] = "paper" =>
                /\ Commands[c].kind = "bootstrap" /\ Len(families'[c]) \in DOMAIN families'[c]
                /\ Awaiting(c, families[c][Len(families[c])])'
    PROVE  FamiliesInv'
<1>1. ASSUME NEW d \in Cmds
      PROVE  /\ IsList(families'[d])
             /\ \A i \in DOMAIN families'[d] : EntryAgrees(families'[d][i])
             /\ phase'[d] = "paper" =>
                   /\ Commands[d].kind = "bootstrap" /\ Len(families'[d]) \in DOMAIN families'[d]
                   /\ Awaiting(d, families[d][Len(families[d])])'
  <2>1. CASE d = c
    BY <2>1
  <2>2. CASE d # c
    BY <2>2 DEF FamiliesInv, Awaiting
  <2>3. QED
    BY <2>1, <2>2
<1>2. QED
  BY <1>1 DEF FamiliesInv

LEMMA ValidatedEntry ==
    ASSUME FamiliesInv, NEW c \in Cmds, ValidateFamily(c)
    PROVE  FamiliesInv'
<1> DEFINE step == Head(todo[c])
           rows == LoadRecords(table, step.start, step.end)
           entry == [family |-> step.family, start |-> step.start, end |-> step.end, seen |-> RowsOf(table),
                     paperSeen |-> {}, outcomes |-> <<>>, class |-> "none",
                     validation |-> ValidateFamilyOn(step.family, rows, Commands[c].symbol, Commands[c].capital)]
           paper == SupportsPaper(step.family)
<1>1. /\ Commands[c].kind = "bootstrap"
      /\ families' = [families EXCEPT ![c] = Append(families[c], entry)]
      /\ phase' = [phase EXCEPT ![c] = IF paper THEN "paper" ELSE "next"]
      /\ todo' = [todo EXCEPT ![c] = IF paper THEN todo[c] ELSE Tail(todo[c])]
  BY DEF ValidateFamily
<1>2. entry.outcomes = <<>> /\ DOMAIN entry = EntryFields
  BY DEF EntryFields
<1>3. paper => Awaiting(c, entry)
  BY DEF Awaiting, LoadRecords
<1> HIDE DEF entry, paper
<1>4. /\ families'[c] = Append(families[c], entry)
      /\ phase'[c] = IF paper THEN "paper" ELSE "next"
      /\ todo'[c] = IF paper THEN todo[c] ELSE Tail(todo[c])
      /\ families' = [d \in Cmds |-> families'[d]] /\ todo' = [d \in Cmds |-> todo'[d]]
      /\ phase' = [d \in Cmds |-> phase'[d]]
      /\ \A d \in Cmds : d # c => families'[d] = families[d] /\ todo'[d] = todo[d] /\ phase'[d] = phase[d]
  BY <1>1 DEF FamiliesInv
<1>5. IsList(families'[c])
  BY <1>4, AppendToList DEF FamiliesInv
<1>6. \A i \in DOMAIN families'[c] : EntryAgrees(families'[c][i])
  <2>1. \A i \in DOMAIN families'[c] :
           families'[c][i] = entry \/ (i \in DOMAIN families[c] /\ families'[c][i] = families[c][i])
    BY <1>4, AppendToList DEF FamiliesInv
  <2>2. EntryAgrees(entry)
    BY <1>2 DEF EntryAgrees
  <2>3. QED
    BY <2>1, <2>2 DEF FamiliesInv
<1>7. Len(families'[c]) \in DOMAIN families'[c] /\ families'[c][Len(families'[c])] = entry
  BY <1>4, LastOfAppend DEF FamiliesInv
<1>8. paper => Awaiting(c, families[c][Len(families[c])])'
  BY <1>3, <1>4, <1>7 DEF Awaiting
<1>9. QED
  BY <1>1, <1>4, <1>5, <1>6, <1>7, <1>8, FamiliesStepOf

LEMMA PaperedEntry ==
    ASSUME FamiliesInv, NEW c \in Cmds, PaperFamily(c)
    PROVE  FamiliesInv'
<1> DEFINE step == Head(todo[c])
           rows == LoadRecords(table, step.start, step.end)
           n == Len(families[c])
           old == families[c][n]
           tried == PaperOutcomes(step.family, rows, Commands[c].symbol,
                                  Commands[c].capital, Commands[c].notional)
<1>1. /\ Commands[c].kind = "bootstrap" /\ n \in DOMAIN families[c] /\ Awaiting(c, old)
      /\ IsList(families[c]) /\ EntryAgrees(old)
      /\ \A i \in DOMAIN families[c] : EntryAgrees(families[c][i])
  BY DEF FamiliesInv, PaperFamily
<1>2. PICK new : /\ families' = [families EXCEPT ![c] = [families[c] EXCEPT ![n] = new]]
                 /\ \/ new = [old EXCEPT !.paperSeen = RowsOf(table), !.outcomes = tried]
                    \/ \E v : new = [old EXCEPT !.validation = v]
  <2>1. CASE families' = [families EXCEPT ![c][n].paperSeen = RowsOf(table), ![c][n].outcomes = tried]
    <3>1. families' = [families EXCEPT ![c] = [families[c] EXCEPT ![n] =
                         [old EXCEPT !.paperSeen = RowsOf(table), !.outcomes = tried]]]
      BY <2>1
    <3>2. QED
      BY <3>1
  <2>2. CASE families' = [families EXCEPT ![c][n].validation.reasons = @ \cup {"paper_simulation_error"}]
    <3>1. families' = [families EXCEPT ![c] = [families[c] EXCEPT ![n] =
                         [old EXCEPT !.validation = [old.validation EXCEPT !.reasons =
                                                        @ \cup {"paper_simulation_error"}]]]]
      BY <2>2
    <3>2. QED
      BY <3>1
  <2>3. QED
    BY <2>1, <2>2 DEF PaperFamily
<1>3. EntryAgrees(new)
  <2>1. DOMAIN old = EntryFields /\ old.outcomes = <<>>
    BY <1>1 DEF EntryAgrees, Awaiting
  <2>2. CASE new = [old EXCEPT !.paperSeen = RowsOf(table), !.outcomes = tried]
    <3>1. /\ DOMAIN new = EntryFields /\ new.outcomes = tried /\ new.seen = old.seen
          /\ new.paperSeen = RowsOf(table) /\ new.validation = old.validation
      BY <2>1, <2>2 DEF EntryFields
    <3>2. ASSUME new.seen = new.paperSeen PROVE Agree(new.outcomes, new.validation)
      <4>1. old.validation = ValidateFamilyOn(step.family, rows, Commands[c].symbol, Commands[c].capital)
        BY <1>1, <3>1, <3>2 DEF Awaiting, LoadRecords
      <4>2. /\ step.family \in FundingFamilies
            /\ Commands[c].capital \in Nat /\ Commands[c].notional \in Nat
        BY <1>1, CommandsAssumption DEF Awaiting, SupportsPaper
      <4>3. QED
        BY <3>1, <4>1, <4>2, PaperAgrees
    <3>3. QED
      BY <3>1, <3>2 DEF EntryAgrees
  <2>3. CASE \E v : new = [old EXCEPT !.validation = v]
    <3>1. DOMAIN new = EntryFields /\ new.outcomes = <<>>
      BY <2>1, <2>3 DEF EntryFields
    <3>2. QED
      BY <3>1 DEF EntryAgrees
  <2>4. QED
    BY <1>2, <2>2, <2>3
<1>4. /\ families'[c] = [families[c] EXCEPT ![n] = new] /\ phase'[c] = "next"
      /\ families' = [d \in Cmds |-> families'[d]] /\ todo' = [d \in Cmds |-> todo'[d]]
      /\ phase' = [d \in Cmds |-> phase'[d]]
      /\ \A d \in Cmds : d # c => families'[d] = families[d] /\ todo'[d] = todo[d] /\ phase'[d] = phase[d]
  BY <1>2 DEF FamiliesInv, PaperFamily
<1>5. /\ IsList(families'[c]) /\ DOMAIN families'[c] = DOMAIN families[c]
      /\ \A i \in DOMAIN families'[c] : families'[c][i] = IF i = n THEN new ELSE families[c][i]
  BY <1>1, <1>4 DEF IsList
<1>6. QED
  BY <1>1, <1>3, <1>4, <1>5, FamiliesStepOf

LEMMA FinishedEntries ==
    ASSUME FamiliesInv, NEW c \in Cmds, Finish(c)
    PROVE  FamiliesInv'
<1>1. /\ families' = [families EXCEPT ![c] = Classified(c)] /\ phase' = [phase EXCEPT ![c] = "done"]
      /\ todo' = todo /\ IsList(families[c]) /\ \A i \in DOMAIN families[c] : EntryAgrees(families[c][i])
  BY DEF Finish, FamiliesInv
<1>2. /\ families'[c] = Classified(c) /\ phase'[c] = "done"
      /\ families' = [d \in Cmds |-> families'[d]] /\ todo' = [d \in Cmds |-> todo'[d]]
      /\ phase' = [d \in Cmds |-> phase'[d]]
      /\ \A d \in Cmds : d # c => families'[d] = families[d] /\ todo'[d] = todo[d] /\ phase'[d] = phase[d]
  BY <1>1 DEF FamiliesInv
<1>3. /\ IsList(Classified(c)) /\ DOMAIN Classified(c) = DOMAIN families[c]
  BY <1>1 DEF Classified, IsList
<1>4. ASSUME NEW i \in DOMAIN families[c] PROVE EntryAgrees(Classified(c)[i])
  <2>1. \E class : Classified(c)[i] = [families[c][i] EXCEPT !.class = class]
    BY DEF Classified
  <2>2. PICK class : Classified(c)[i] = [families[c][i] EXCEPT !.class = class]
    BY <2>1
  <2>3. DOMAIN families[c][i] = EntryFields
    BY <1>1 DEF EntryAgrees
  <2>4. /\ DOMAIN Classified(c)[i] = EntryFields
        /\ Classified(c)[i].outcomes = families[c][i].outcomes
        /\ Classified(c)[i].validation = families[c][i].validation
        /\ Classified(c)[i].seen = families[c][i].seen
        /\ Classified(c)[i].paperSeen = families[c][i].paperSeen
    BY <2>2, <2>3 DEF EntryFields
  <2>5. QED
    BY <1>1, <2>4 DEF EntryAgrees
<1>5. QED
  BY <1>2, <1>3, <1>4, FamiliesStepOf

(* The other steps of a command do not touch its families.                 *)
LEMMA OtherEntries ==
    ASSUME FamiliesInv, NEW c \in Cmds,
           \/ Begin(c) \/ Fetch(c) \/ Store(c) \/ SayHealth(c) \/ Snapshot(c) \/ Probe(c) \/ Kill(c)
           \/ ReadUniverse(c) \/ ReadRecords(c) \/ ReadScreen(c) \/ Judge(c) \/ StrategyLab(c)
    PROVE  FamiliesInv'
<1>1. families' = families
  BY DEF Begin, Fetch, Store, SayHealth, Snapshot, Probe, Kill, ReadUniverse, ReadRecords,
         ReadScreen, Judge, StrategyLab
<1>2. \E to \in {"next", "store", "say_ok", "say_failed", "done", "dead", "records", "screens", "judge"} :
         phase' = [phase EXCEPT ![c] = to]
  BY DEF Begin, Fetch, Store, SayHealth, Snapshot, Probe, Kill, ReadUniverse, ReadRecords,
         ReadScreen, Judge, StrategyLab, Report
<1>3. todo' = todo \/ \E steps : todo' = [todo EXCEPT ![c] = steps]
  BY DEF Begin, Fetch, Store, SayHealth, Snapshot, Probe, Kill, ReadUniverse, ReadRecords,
         ReadScreen, Judge, StrategyLab, Report
<1>4. /\ phase'[c] # "paper" /\ todo' = [d \in Cmds |-> todo'[d]] /\ phase' = [d \in Cmds |-> phase'[d]]
      /\ \A d \in Cmds : d # c => todo'[d] = todo[d] /\ phase'[d] = phase[d]
  BY <1>2, <1>3 DEF FamiliesInv
<1>5. QED
  BY <1>1, <1>4, FamiliesStepOf DEF FamiliesInv

LEMMA FamiliesStep == FamiliesInv /\ [DataNext]_dataVars => FamiliesInv'
<1>1. FamiliesInv /\ DataNext => FamiliesInv'
  BY ValidatedEntry, PaperedEntry, FinishedEntries, OtherEntries DEF DataNext
<1>2. FamiliesInv /\ UNCHANGED dataVars => FamiliesInv'
  BY DEF FamiliesInv, Awaiting, dataVars
<1>3. QED
  BY <1>1, <1>2

LEMMA ActiveAreCommands == DataSpec => [](active \subseteq Cmds)
<1>1. DataInit => active \subseteq Cmds
  BY CommandsAssumption DEF DataInit
<1>2. active \subseteq Cmds /\ [DataNext]_dataVars => (active \subseteq Cmds)'
  <2>1. DataNext => active' = active
    BY DEF DataNext, Begin, Fetch, Store, SayHealth, Snapshot, Probe, Kill, ReadUniverse, ReadRecords,
           ReadScreen, Judge, StrategyLab, Finish, ValidateFamily, PaperFamily
  <2>2. QED
    BY <2>1 DEF dataVars
<1>3. QED
  BY <1>1, <1>2, PTL DEF DataSpec

(* A paper run tries exactly the trades of its validation, or gives its    *)
(* reasons, when no rows were committed between their reads                *)
(* (pipeline/historical_bootstrap.py, the two loops it calls;              *)
(* strategy/registry.py, run_paper).                                       *)
THEOREM PaperRunsFollow == DataSpec => []PaperFollowsValidation
<1>1. active \subseteq Cmds /\ FamiliesInv => PaperFollowsValidation
  BY DEF FamiliesInv, EntryAgrees, Agree, PaperFollowsValidation
<1>2. DataSpec => []FamiliesInv
  BY FamiliesInit, FamiliesStep, PTL DEF DataSpec
<1>3. QED
  BY <1>1, <1>2, ActiveAreCommands, PTL

----------------------------------------------------------------------------
(* The quality report: holes.                                              *)

LEMMA LeastOf ==
    ASSUME NEW S, S \subseteq Nat, S # {}
    PROVE  \E m \in S : \A y \in S : m <= y
<1>1. PICK m \in S : \A y \in S : ~(<<y, m>> \in OpToRel(<, Nat))
  BY WFMin, NatLessThanWellFounded
<1>2. \A y \in S : ~(y < m)
  BY <1>1 DEF OpToRel
<1>3. QED
  BY <1>2

LEMMA GreatestOf ==
    ASSUME NEW n \in Nat, NEW S, S \subseteq 0 .. n, S # {}
    PROVE  \E m \in S : \A y \in S : y <= m
<1> DEFINE D == {n - x : x \in S}
<1>1. PICK d \in D : \A y \in D : d <= y
  <2>1. D \subseteq Nat
    <3> SUFFICES ASSUME NEW x \in S PROVE n - x \in Nat
      OBVIOUS
    <3>1. x \in 0 .. n
      OBVIOUS
    <3>2. QED
      BY <3>1
  <2>2. D # {}
    <3>1. PICK x \in S : TRUE
      OBVIOUS
    <3>2. n - x \in D
      OBVIOUS
    <3>3. QED
      BY <3>2
  <2> HIDE DEF D
  <2>3. QED
    BY <2>1, <2>2, LeastOf
<1>2. PICK m \in S : d = n - m
  OBVIOUS
<1>3. ASSUME NEW y \in S PROVE y <= m
  <2>1. n - m <= n - y
    BY <1>1, <1>2
  <2>2. n \in Nat /\ m \in Nat /\ y \in Nat
    OBVIOUS
  <2>3. QED
    BY <2>1, <2>2
<1>4. QED
  BY <1>3

LEMMA Ends ==
    ASSUME NEW n \in Nat, NEW S, S \subseteq 0 .. n, S # {}
    PROVE  /\ Min(S) \in S /\ \A y \in S : Min(S) <= y
           /\ Max(S) \in S /\ \A y \in S : y <= Max(S)
<1>1. PICK a \in S : \A y \in S : a <= y
  <2>1. S \subseteq Nat
    OBVIOUS
  <2>2. QED
    BY <2>1, LeastOf
<1>2. PICK b \in S : \A y \in S : y <= b
  BY GreatestOf
<1>3. \A y \in S : b >= y
  BY <1>2
<1>4. Max(S) \in S /\ \A y \in S : Max(S) >= y
  BY <1>3 DEF Max
<1>5. Min(S) \in S /\ \A y \in S : Min(S) =< y
  BY <1>1 DEF Min
<1>6. QED
  BY <1>4, <1>5

(* Around a hole there are two neighbours more than one bar apart.         *)
LEMMA NeighboursOfHole ==
    ASSUME NEW n \in Nat, NEW S, S \subseteq 0 .. n, NEW h \in 0 .. n, h \notin S,
           NEW a \in S, a < h, NEW b \in S, h < b
    PROVE  \E p \in S \X S :
              /\ p[1] < p[2] /\ \A u \in S : ~(p[1] < u /\ u < p[2])
              /\ MissingBars(p[1], p[2]) > 0
<1> DEFINE below == {x \in S : x < h}
           above == {x \in S : h < x}
<1>1. PICK x \in below : \A y \in below : y <= x
  <2>1. below \subseteq 0 .. n /\ below # {}
    OBVIOUS
  <2> HIDE DEF below
  <2>2. QED
    BY <2>1, GreatestOf
<1>2. PICK z \in above : \A y \in above : z <= y
  <2>1. above \subseteq 0 .. n /\ above # {}
    OBVIOUS
  <2>2. above \subseteq Nat
    BY <2>1
  <2> HIDE DEF above
  <2>3. QED
    BY <2>1, <2>2, LeastOf
<1>3. x \in Nat /\ z \in Nat /\ h \in Nat /\ x < h /\ h < z /\ x \in S /\ z \in S
  OBVIOUS
<1>4. ASSUME NEW u \in S, x < u, u < z PROVE FALSE
  <2>1. u \in Nat
    OBVIOUS
  <2>2. u < h \/ h < u
    BY <1>3, <2>1
  <2>3. CASE u < h
    BY <1>1, <1>3, <1>4, <2>1, <2>3
  <2>4. CASE h < u
    BY <1>2, <1>3, <1>4, <2>1, <2>4
  <2>5. QED
    BY <2>2, <2>3, <2>4
<1>5. z - x - 1 > 0 /\ x < z
  BY <1>3
<1>6. MissingBars(x, z) > 0
  BY <1>3, <1>5 DEF MissingBars
<1>7. <<x, z>> \in S \X S /\ <<x, z>>[1] = x /\ <<x, z>>[2] = z
  BY <1>3
<1>8. QED
  BY <1>4, <1>5, <1>6, <1>7

(* A series is reported to miss bars exactly when it has a hole.           *)
LEMMA HolesAreReported ==
    ASSUME NEW rows \in SUBSET AllRows, NEW s, NEW now,
           s.type \in {"market_candle", "open_interest"}, TimesOf(rows, s) # {}
    PROVE  [reason |-> "missing_bars", series |-> s] \in ContinuityIssues(rows, now)
             <=> TimesOf(rows, s) # Min(TimesOf(rows, s)) .. Max(TimesOf(rows, s))
<1> DEFINE S == TimesOf(rows, s)
           Gap == \E p \in S \X S :
                     /\ p[1] < p[2] /\ \A u \in S : ~(p[1] < u /\ u < p[2])
                     /\ MissingBars(p[1], p[2]) > 0
<1>1. Bars - 1 \in Nat /\ Times = 0 .. Bars - 1
  BY RowsAssumption DEF Times
<1>2. S \subseteq 0 .. Bars - 1
  BY <1>1 DEF TimesOf, AllRows, Row
<1>3. s \in {r.series : r \in rows}
  BY DEF TimesOf
<1>4. [reason |-> "missing_bars", series |-> s] \in ContinuityIssues(rows, now) <=> Gap
  BY <1>3 DEF ContinuityIssues
<1>5. S # {}
  OBVIOUS
<1> HIDE DEF S
<1>6. /\ Min(S) \in S /\ \A y \in S : Min(S) <= y
      /\ Max(S) \in S /\ \A y \in S : y <= Max(S)
  BY <1>1, <1>2, <1>5, Ends
<1>7. S \subseteq Min(S) .. Max(S)
  BY <1>1, <1>2, <1>6
<1>8. ASSUME Gap PROVE S # Min(S) .. Max(S)
  <2>1. PICK p \in S \X S : /\ p[1] < p[2] /\ \A u \in S : ~(p[1] < u /\ u < p[2])
                            /\ MissingBars(p[1], p[2]) > 0
    BY <1>8
  <2>2. PICK x \in S, z \in S : x = p[1] /\ z = p[2]
    OBVIOUS
  <2>3. x \in Nat /\ z \in Nat /\ Min(S) \in Nat /\ Max(S) \in Nat
    <3>1. \A y \in S : y \in Nat
      BY <1>1, <1>2
    <3>2. QED
      BY <1>6, <3>1
  <2>4. x + 1 < z
    BY <2>1, <2>2, <2>3 DEF MissingBars
  <2>5. x + 1 \notin S
    BY <2>1, <2>2, <2>3, <2>4
  <2>6. Min(S) <= x /\ z <= Max(S)
    BY <1>6
  <2>7. x + 1 \in Min(S) .. Max(S)
    BY <2>3, <2>4, <2>6
  <2>8. QED
    BY <2>5, <2>7
<1>9. ASSUME S # Min(S) .. Max(S) PROVE Gap
  <2>1. PICK h \in Min(S) .. Max(S) : h \notin S
    BY <1>7, <1>9
  <2>2. Min(S) \in Nat /\ Max(S) \in Nat /\ Max(S) <= Bars - 1
    <3>1. \A y \in S : y \in Nat /\ y <= Bars - 1
      BY <1>1, <1>2
    <3>2. QED
      BY <1>6, <3>1
  <2>3. Min(S) < h /\ h < Max(S) /\ h \in 0 .. Bars - 1
    BY <1>1, <1>6, <2>1, <2>2
  <2>4. QED
    BY <1>1, <1>2, <1>6, <2>1, <2>3, NeighboursOfHole
<1>10. QED
  BY <1>4, <1>8, <1>9 DEF S

----------------------------------------------------------------------------
(* The quality report: duplicates.                                         *)

(* The keys, by their length.                                              *)
LEMMA LongKeys ==
    ASSUME NEW sym \in Symbols, NEW t
    PROVE  LET key(source, venue) == <<source, venue, sym, "1h", t>>
           IN /\ SemanticKey(Row(SpotCandles(sym), t)) = key("binance_public", "binance")
              /\ SemanticKey(Row(FuturesCandles(sym), t)) = key("binance_public", "binance_usdm")
              /\ SemanticKey(Row(CcxtCandles(sym), t)) = key("ccxt", "binance")
              /\ SemanticKey(Row(CcxtOpenInterest(sym), t)) = key("ccxt", "binance")
              /\ SemanticKey(Row(OpenInterestHistory(sym), t)) = key("binance_usdm", "binance")
  BY DEF SemanticKey, Row, SpotCandles, FuturesCandles, CcxtCandles, CcxtOpenInterest,
         OpenInterestHistory, Series

LEMMA MiddleKeys ==
    ASSUME NEW sym \in Symbols, NEW t
    PROVE  /\ SemanticKey(Row(CcxtFunding(sym), t)) = <<"ccxt", "binance", sym, t>>
           /\ SemanticKey(Row(FundingHistory(sym), t)) = <<"binance_usdm", "binance", sym, t>>
           /\ SemanticKey(Row(DexPairs(sym), t)) = <<"dexscreener", "dex", sym, t>>
           /\ SemanticKey(Row(YieldPools(sym), t)) = <<"defillama", "project", sym, t>>
  BY DEF SemanticKey, Row, CcxtFunding, FundingHistory, DexPairs, YieldPools, Series

LEMMA ShortKeys ==
    ASSUME NEW sym \in Symbols, NEW t,
           NEW s \in {PremiumIndex(sym), Basis(sym), LongShortRatio(sym), TakerVolume(sym),
                      DuneResult(sym), GraphResult(sym)}
    PROVE  Len(SemanticKey(Row(s, t))) = 3
<1>1. SemanticKey(Row(s, t)) = <<s.source, s.type, t>>
  BY DEF SemanticKey, Row, PremiumIndex, Basis, LongShortRatio, TakerVolume, DuneResult,
         GraphResult, Series
<1>2. QED
  BY <1>1

LongSeries(sym) ==
    {SpotCandles(sym), FuturesCandles(sym), CcxtCandles(sym), CcxtOpenInterest(sym),
     OpenInterestHistory(sym)}

MiddleSeries(sym) == {CcxtFunding(sym), FundingHistory(sym), DexPairs(sym), YieldPools(sym)}

LEMMA KeyLengths ==
    ASSUME NEW s \in AllSeries, NEW t
    PROVE  \E sym \in Symbols :
              \/ s \in LongSeries(sym) /\ Len(SemanticKey(Row(s, t))) = 5
              \/ s \in MiddleSeries(sym) /\ Len(SemanticKey(Row(s, t))) = 4
              \/ /\ s.type \notin {"market_candle", "open_interest", "funding_rate", "dex_pair"}
                 /\ Len(SemanticKey(Row(s, t))) = 3
<1>1. PICK sym \in Symbols :
        s \in LongSeries(sym) \cup MiddleSeries(sym)
              \cup {PremiumIndex(sym), Basis(sym), LongShortRatio(sym), TakerVolume(sym),
                    DuneResult(sym), GraphResult(sym)}
  BY DEF AllSeries, LongSeries, MiddleSeries
<1>2. CASE s \in LongSeries(sym)
  <2>1. PICK a, b : SemanticKey(Row(s, t)) = <<a, b, sym, "1h", t>>
    BY <1>2, LongKeys DEF LongSeries
  <2>2. QED
    BY <1>2, <2>1
<1>3. CASE s \in MiddleSeries(sym)
  <2>1. PICK a, b : SemanticKey(Row(s, t)) = <<a, b, sym, t>>
    BY <1>3, MiddleKeys DEF MiddleSeries
  <2>2. QED
    BY <1>3, <2>1
<1>4. CASE s \in {PremiumIndex(sym), Basis(sym), LongShortRatio(sym), TakerVolume(sym),
                  DuneResult(sym), GraphResult(sym)}
  <2>1. s.type \notin {"market_candle", "open_interest", "funding_rate", "dex_pair"}
    BY <1>4 DEF PremiumIndex, Basis, LongShortRatio, TakerVolume, DuneResult, GraphResult, Series
  <2>2. QED
    BY <1>4, <2>1, ShortKeys
<1>5. QED
  BY <1>1, <1>2, <1>3, <1>4

(* Two rows of one key are the same, or a candle and an open interest.     *)
LEMMA KeysTellApart ==
    ASSUME NEW r \in AllRows, NEW q \in AllRows, r # q, SemanticKey(r) = SemanticKey(q),
           r.series.type \in {"market_candle", "open_interest", "funding_rate", "dex_pair"}
    PROVE  {r.series.type, q.series.type} = {"market_candle", "open_interest"}
<1>1. PICK s \in AllSeries, t \in Times : r = Row(s, t)
  BY DEF AllRows
<1>2. PICK u \in AllSeries, v \in Times : q = Row(u, v)
  BY DEF AllRows
<1>3. r.series = s /\ q.series = u
  BY <1>1, <1>2 DEF Row
<1>4. SemanticKey(Row(s, t)) = SemanticKey(Row(u, v))
  BY <1>1, <1>2
<1>5. PICK a \in Symbols :
        \/ s \in LongSeries(a) /\ Len(SemanticKey(Row(s, t))) = 5
        \/ s \in MiddleSeries(a) /\ Len(SemanticKey(Row(s, t))) = 4
  BY <1>3, KeyLengths
<1>6. PICK b \in Symbols :
        \/ u \in LongSeries(b) /\ Len(SemanticKey(Row(s, t))) = 5
        \/ u \in MiddleSeries(b) /\ Len(SemanticKey(Row(s, t))) = 4
  BY <1>4, <1>5, KeyLengths
<1>7. CASE s \in LongSeries(a) /\ u \in LongSeries(b)
  <2>1. a = b /\ t = v
    BY <1>4, <1>7, LongKeys DEF LongSeries
  <2>2. s # u
    BY <1>1, <1>2, <2>1
  <2>3. {s, u} = {CcxtCandles(a), CcxtOpenInterest(a)}
    BY <1>4, <1>7, <2>1, <2>2, LongKeys DEF LongSeries
  <2>4. CcxtCandles(a).type = "market_candle" /\ CcxtOpenInterest(a).type = "open_interest"
    BY DEF CcxtCandles, CcxtOpenInterest, Series
  <2>5. QED
    BY <1>3, <2>3, <2>4
<1>8. CASE s \in MiddleSeries(a) /\ u \in MiddleSeries(b)
  <2>1. a = b /\ t = v
    BY <1>4, <1>8, MiddleKeys DEF MiddleSeries
  <2>2. s = u
    BY <1>4, <1>8, <2>1, MiddleKeys DEF MiddleSeries
  <2>3. QED
    BY <1>1, <1>2, <2>1, <2>2
<1>9. QED
  BY <1>5, <1>6, <1>7, <1>8

(* A set with more than one element has another one.                       *)
LEMMA AnotherOne ==
    ASSUME NEW S, Cardinality(S) > 1, NEW x \in S
    PROVE  \E y \in S : y # x
<1> SUFFICES ASSUME \A y \in S : y = x PROVE FALSE
  OBVIOUS
<1>1. S = {x}
  OBVIOUS
<1>2. Cardinality(S) = 1
  BY <1>1, FS_Singleton
<1>3. QED
  BY <1>2

(* The quality report names exactly the candle and open-interest series    *)
(* with a hole, for any commands and listed bars, and calls nothing a      *)
(* duplicate that it tells apart but a candle and the open interest of the *)
(* same bar (data/quality.py).                                             *)
THEOREM QualityReported == DataSpec => []QualityReportIsTrue
<1>1. ASSUME StoredInv PROVE QualityReportIsTrue
  <2>1. RowsOf(table) \in SUBSET AllRows
    BY <1>1 DEF StoredInv, TableOfRows, RowsOf
  <2>2. ASSUME NEW k \in DuplicateIssues(RowsOf(table)), NEW r \in RowsOf(table),
               SemanticKey(r) = k,
               r.series.type \in {"market_candle", "open_interest", "funding_rate", "dex_pair"}
        PROVE  \E q \in RowsOf(table) :
                   /\ SemanticKey(q) = k
                   /\ {r.series.type, q.series.type} = {"market_candle", "open_interest"}
    <3> DEFINE same == {x \in RowsOf(table) : SemanticKey(x) = k}
    <3>1. Cardinality(same) > 1 /\ r \in same
      BY <2>2 DEF DuplicateIssues
    <3>2. PICK q \in same : q # r
      <4> HIDE DEF same
      <4>1. QED
        BY <3>1, AnotherOne
    <3>3. QED
      BY <2>1, <2>2, <3>2, KeysTellApart
  <2>3. ASSUME NEW s \in {q \in AllSeries : q.type \in {"market_candle", "open_interest"}},
               TimesOf(RowsOf(table), s) # {}
        PROVE  [reason |-> "missing_bars", series |-> s] \in ContinuityIssues(RowsOf(table), Bars)
                 <=> TimesOf(RowsOf(table), s)
                       # Min(TimesOf(RowsOf(table), s)) .. Max(TimesOf(RowsOf(table), s))
    BY <2>1, <2>3, HolesAreReported
  <2>4. QED
    BY <2>2, <2>3 DEF QualityReportIsTrue
<1>2. QED
  BY <1>1, StoredAlways, PTL

----------------------------------------------------------------------------
(* The campaign's report.  Rows are those that the exchanges have, and a   *)
(* campaign fetches candles of the futures market only.                    *)

IsListed(r) == r.time \in ListedTimes(r.series)

ListedInv ==
    /\ \A r \in RowsOf(table) : r.series.type = "research_snapshot" \/ IsListed(r)
    /\ \A c \in Cmds : \A r \in fetched[c] : IsListed(r)

LEMMA AnswersAreListed ==
    ASSUME NEW step, NEW r \in Answer(step)
    PROVE  r.series = step.series /\ IsListed(r)
<1>1. PICK t \in ListedTimes(step.series) : r = Row(step.series, t)
  <2>1. \A x \in DownloadMonth(step.series, step.from) :
           \E t \in ListedTimes(step.series) : x = Row(step.series, t)
    BY DEF DownloadMonth
  <2>2. \A x \in FetchPage(step.series, step.from) :
           \E t \in ListedTimes(step.series) : x = Row(step.series, t)
    BY DEF FetchPage
  <2>3. QED
    BY <2>1, <2>2 DEF Answer
<1>2. QED
  BY <1>1 DEF Row, IsListed

LEMMA ListedInit == DataInit => ListedInv
<1> SUFFICES ASSUME DataInit PROVE ListedInv
  OBVIOUS
<1>1. PICK s \in Scenarios : table = Upsert(<<>>, UNION {{Row(q, t) : t \in ListedTimes(q)} : q \in s.stored})
  BY DEF DataInit
<1> DEFINE stored == UNION {{Row(q, t) : t \in ListedTimes(q)} : q \in s.stored}
<1>2. \A r \in stored : r \in AllRows /\ IsListed(r)
  BY RowsAssumption DEF ListedTimes, AllRows, IsListed, Row
<1>3. TableOfRows(<<>>) /\ RowsOf(<<>>) = {}
  BY DEF TableOfRows, RowsOf
<1>4. RowsOf(table) = stored
  BY <1>1, <1>2, <1>3, UpsertOnlyAdds
<1>5. \A c \in Cmds : fetched[c] = {}
  BY DEF DataInit
<1>6. QED
  BY <1>2, <1>4, <1>5 DEF ListedInv

(* The rows at hand and the table, in one step of a command.               *)
LEMMA RowsOfAStep ==
    ASSUME StoredInv, NEW c \in Cmds,
           \/ Begin(c) \/ Fetch(c) \/ Store(c) \/ SayHealth(c)
           \/ Snapshot(c) \/ Probe(c) \/ Finish(c) \/ Kill(c)
           \/ ReadUniverse(c) \/ ReadRecords(c) \/ ReadScreen(c) \/ Judge(c) \/ StrategyLab(c)
           \/ ValidateFamily(c) \/ PaperFamily(c)
    PROVE  /\ \/ fetched' = fetched
              \/ fetched' = [fetched EXCEPT ![c] = {}]
              \/ \E rows \in SUBSET Answer(Head(todo[c])) :
                    At(c, {"month", "page"}) /\ fetched' = [fetched EXCEPT ![c] = rows]
           /\ \/ table' = table
              \/ table' = Upsert(table, fetched[c])
              \/ Snapshot(c) /\ table' = Upsert(table, {Row(Head(todo[c]).series, 0)})
<1>1. CASE Fetch(c)
  <2>1. InWindow(Answer(Head(todo[c])), Head(todo[c]).start, Head(todo[c]).end)
          \in SUBSET Answer(Head(todo[c]))
    BY DEF InWindow
  <2>2. QED
    BY <1>1, <2>1 DEF Fetch
<1>2. CASE Store(c)
  BY <1>2 DEF Store
<1>3. CASE SayHealth(c) \/ Probe(c) \/ Snapshot(c)
  BY <1>3 DEF SayHealth, Probe, Snapshot, Report
<1>4. CASE \/ Begin(c) \/ Finish(c) \/ Kill(c)
           \/ ReadUniverse(c) \/ ReadRecords(c) \/ ReadScreen(c) \/ Judge(c) \/ StrategyLab(c)
           \/ ValidateFamily(c) \/ PaperFamily(c)
  BY <1>4 DEF Begin, Finish, Kill, ReadUniverse, ReadRecords, ReadScreen, Judge, StrategyLab,
              ValidateFamily, PaperFamily
<1>5. QED
  BY <1>1, <1>2, <1>3, <1>4

LEMMA SnapshotsAreOfQueries ==
    ASSUME StoredInv, NEW c \in Cmds, Snapshot(c)
    PROVE  Head(todo[c]).series.type = "research_snapshot"
<1>1. /\ Commands[c].kind = "ingest" /\ todo[c] # <<>> /\ Head(todo[c]).kind = "snapshot"
      /\ OneStep(c)
  BY DEF Snapshot, At, StoredInv
<1>2. Head(todo[c]) = Ingestion(Commands[c])
  <2>1. todo[c] = <<Ingestion(Commands[c])>>
    BY <1>1 DEF OneStep
  <2>2. QED
    BY <2>1
<1>3. Commands[c].source \in {"dune", "thegraph"}
  <2> DEFINE cmd == Commands[c]
  <2>1. cmd.source \in {"binance-public", "binance-usdm", "dune", "thegraph", "dexscreener",
                        "defillama", "ccxt"}
    BY <1>1, CommandsAssumption
  <2>2. PublicIngestion(cmd).kind = "month"
    BY DEF PublicIngestion, IngestFuturesMonth, IngestSpotMonth, IngestPublicMonth, Step
  <2>3. UsdmIngestion(cmd.feed, cmd.symbol, cmd.since).kind = "page"
    BY DEF UsdmIngestion, IngestPremiumIndex, IngestBasis, IngestFundingHistory,
           IngestOpenInterestHistory, IngestLongShortRatio, IngestTakerVolume, IngestUsdm, Step
  <2>4. DexOrDefiIngestion(cmd).kind = "page" /\ CcxtIngestion(cmd).kind = "page"
    BY DEF DexOrDefiIngestion, IngestDexPairs, IngestYieldPools, CcxtIngestion,
           IngestCcxtCandles, IngestCcxtOpenInterest, IngestCcxtFunding, Step
  <2>5. QED
    BY <1>1, <1>2, <2>1, <2>2, <2>3, <2>4 DEF Ingestion
<1>4. Ingestion(Commands[c]).series.type = "research_snapshot"
  BY <1>3 DEF Ingestion, OnchainIngestion, IngestDune, IngestTheGraph, Step, DuneResult,
              GraphResult, Series
<1>5. QED
  BY <1>2, <1>4

LEMMA ListedStep == StoredInv /\ ListedInv /\ [DataNext]_dataVars => ListedInv'
<1> SUFFICES ASSUME StoredInv, ListedInv, [DataNext]_dataVars PROVE ListedInv'
  OBVIOUS
<1>1. CASE UNCHANGED dataVars
  BY <1>1 DEF ListedInv, dataVars, RowsOf
<1>2. ASSUME NEW c \in Cmds,
             \/ Begin(c) \/ Fetch(c) \/ Store(c) \/ SayHealth(c)
             \/ Snapshot(c) \/ Probe(c) \/ Finish(c) \/ Kill(c)
             \/ ReadUniverse(c) \/ ReadRecords(c) \/ ReadScreen(c) \/ Judge(c) \/ StrategyLab(c)
             \/ ValidateFamily(c) \/ PaperFamily(c)
      PROVE  ListedInv'
  <2>1. \A d \in Cmds : \A r \in fetched'[d] : IsListed(r)
    <3>1. fetched = [d \in Cmds |-> fetched[d]]
      BY DEF StoredInv
    <3>2. \A rows : fetched' = [fetched EXCEPT ![c] = rows] =>
             fetched'[c] = rows /\ \A d \in Cmds \ {c} : fetched'[d] = fetched[d]
      BY <3>1
    <3>3. CASE fetched' = fetched
      BY <3>3 DEF ListedInv
    <3>4. CASE fetched' = [fetched EXCEPT ![c] = {}]
      BY <3>2, <3>4 DEF ListedInv
    <3>5. CASE \E rows \in SUBSET Answer(Head(todo[c])) : fetched' = [fetched EXCEPT ![c] = rows]
      BY <3>2, <3>5, AnswersAreListed DEF ListedInv
    <3>6. QED
      BY <1>2, <3>3, <3>4, <3>5, RowsOfAStep
  <2>2. \A r \in RowsOf(table') : r.series.type = "research_snapshot" \/ IsListed(r)
    <3>1. TableOfRows(table) /\ fetched[c] \in SUBSET AllRows
      BY DEF StoredInv, AtHand
    <3>2. CASE table' = table
      BY <3>2 DEF ListedInv
    <3>3. CASE table' = Upsert(table, fetched[c])
      BY <3>1, <3>3, UpsertOnlyAdds DEF ListedInv
    <3>4. CASE Snapshot(c) /\ table' = Upsert(table, {Row(Head(todo[c]).series, 0)})
      <4>1. Row(Head(todo[c]).series, 0) \in AllRows
        BY <3>4, SnapshotIsARow
      <4>2. Row(Head(todo[c]).series, 0).series.type = "research_snapshot"
        BY <3>4, SnapshotsAreOfQueries DEF Row
      <4>3. QED
        BY <3>1, <3>4, <4>1, <4>2, UpsertOnlyAdds DEF ListedInv
    <3>5. QED
      BY <1>2, <3>2, <3>3, <3>4, RowsOfAStep
  <2>3. QED
    BY <2>1, <2>2 DEF ListedInv
<1>3. QED
  BY <1>1, <1>2 DEF DataNext

(* Rows are only added.                                                    *)
LEMMA RowsStay ==
    ASSUME StoredInv, NEW c \in Cmds,
           \/ Begin(c) \/ Fetch(c) \/ Store(c) \/ SayHealth(c)
           \/ Snapshot(c) \/ Probe(c) \/ Finish(c) \/ Kill(c)
           \/ ReadUniverse(c) \/ ReadRecords(c) \/ ReadScreen(c) \/ Judge(c) \/ StrategyLab(c)
           \/ ValidateFamily(c) \/ PaperFamily(c)
    PROVE  RowsOf(table) \subseteq RowsOf(table')
<1>1. \/ table' = table
      \/ table' = Upsert(table, fetched[c])
      \/ Snapshot(c) /\ table' = Upsert(table, {Row(Head(todo[c]).series, 0)})
  BY RowsOfAStep
<1>2. TableOfRows(table) /\ fetched[c] \in SUBSET AllRows
  BY DEF StoredInv, AtHand
<1>3. CASE table' = Upsert(table, fetched[c])
  BY <1>2, <1>3, UpsertOnlyAdds
<1>4. CASE Snapshot(c) /\ table' = Upsert(table, {Row(Head(todo[c]).series, 0)})
  <2>1. {Row(Head(todo[c]).series, 0)} \in SUBSET AllRows
    BY <1>4, SnapshotIsARow
  <2>2. QED
    BY <1>2, <1>4, <2>1, UpsertOnlyAdds
<1>5. QED
  BY <1>1, <1>3, <1>4

JobSteps(c) ==
    {IngestFuturesMonth(sym, m, 0, Bars) : sym \in Commands[c].symbols, m \in Commands[c].months}

OfCampaign(c, r) == \E sym \in Commands[c].symbols : r.series = FuturesCandles(sym)

(* The campaign's part of CampaignReportIsTrue, once it has ended: what it *)
(* says beside each of its results, and of the table.                      *)
ResultAgrees(c, i) ==
    /\ results[c][i].known \cap verdict[c].missing = {}
    /\ results[c][i].status = "completed" =>
          \A r \in results[c][i].rows :
             <<r.series.symbol, MonthOf(r.time)>> \notin verdict[c].missing
    /\ ~verdict[c].ready => \E sym \in Commands[c].symbols :
          Cardinality({m \in Commands[c].months : <<sym, m>> \in results[c][i].known})
            < Commands[c].minMonths

CoveredIsStored(c) ==
    \A j \in (Commands[c].symbols \X Commands[c].months) \ verdict[c].missing :
        j[2] \in AvailableMonths(table, j[1])

ReadyIsListed(c) ==
    verdict[c].ready => \A sym \in Commands[c].symbols :
        Cardinality({MonthOf(t) : t \in ListedTimes(FuturesCandles(sym))}
                    \cap Commands[c].months) >= Commands[c].minMonths

ReportTrue(c) ==
    /\ \A i \in DOMAIN results[c] : ResultAgrees(c, i)
    /\ CoveredIsStored(c)
    /\ ReadyIsListed(c)

InCampaign(c) ==
    /\ phase[c] \in {"idle", "next", "store", "say_ok", "say_failed", "done", "dead"}
    /\ todo[c] \in Seq(JobSteps(c))
    /\ \A r \in fetched[c] : OfCampaign(c, r)
    /\ \A i \in DOMAIN results[c] : \A r \in results[c][i].rows : OfCampaign(c, r)
    /\ \A i \in DOMAIN results[c] : results[c][i].known \subseteq KnownMonths(c)
    /\ phase[c] = "done" => ReportTrue(c)

CampaignInv ==
    /\ verdict = [c \in Cmds |-> verdict[c]]
    /\ \A c \in Cmds : Commands[c].kind = "campaign" => InCampaign(c)

LEMMA CampaignInit == DataInit => CampaignInv
<1> SUFFICES ASSUME DataInit PROVE CampaignInv
  OBVIOUS
<1>1. \A c \in Cmds : /\ phase[c] = "idle" /\ todo[c] = <<>> /\ fetched[c] = {}
                      /\ results[c] = <<>>
  BY DEF DataInit
<1>2. verdict = [c \in Cmds |-> verdict[c]]
  BY DEF DataInit
<1>3. ASSUME NEW c \in Cmds PROVE InCampaign(c)
  <2>1. phase[c] = "idle" /\ todo[c] = <<>> /\ fetched[c] = {} /\ results[c] = <<>>
    BY <1>1
  <2>2. todo[c] \in Seq(JobSteps(c))
    <3> DEFINE S == JobSteps(c)
    <3> HIDE DEF S
    <3>1. <<>> \in Seq(S)
      BY EmptySeq
    <3>2. QED
      BY <2>1, <3>1 DEF S
  <2>3. \A i \in DOMAIN results[c] : FALSE
    BY <2>1
  <2>4. QED
    BY <2>1, <2>2, <2>3 DEF InCampaign
<1>4. QED
  BY <1>2, <1>3 DEF CampaignInv

(* The jobs of a campaign are a list of archives of its symbols and months. *)
LEMMA JobsAreSteps ==
    ASSUME NEW c \in Cmds, Commands[c].kind = "campaign"
    PROVE  CampaignJobs(c) \in Seq(JobSteps(c))
<1> DEFINE all == Commands[c].symbols \X Commands[c].months
           missing == CampaignReport(table, Commands[c].symbols, Commands[c].months,
                                     Commands[c].minMonths).missing
           jobs == {IngestFuturesMonth(j[1], j[2], 0, Bars) : j \in missing}
           job == [j \in missing |-> IngestFuturesMonth(j[1], j[2], 0, Bars)]
<1>1. IsFiniteSet(all)
  BY CommandsAssumption, FS_Product
<1>2. missing \in SUBSET all
  BY DEF CampaignReport
<1>3. IsFiniteSet(jobs)
  <2>1. IsFiniteSet(missing)
    <3> HIDE DEF all, missing
    <3>1. QED
      BY <1>1, <1>2, FS_Subset
  <2>2. job \in Surjection(missing, jobs)
    <3> HIDE DEF missing
    <3>1. QED
      BY DEF Surjection
  <2> HIDE DEF missing, jobs, job
  <2>3. QED
    BY <2>1, <2>2, FS_Surjection
<1>4. jobs \subseteq JobSteps(c)
  BY <1>2 DEF JobSteps
<1>5. CampaignJobs(c) = SetToSeq(jobs)
  BY DEF CampaignJobs
<1> HIDE DEF jobs
<1>6. PICK n \in Nat : ExistsBijection(1 .. n, jobs)
  BY <1>3, FS_NatBijection
<1>7. Cardinality(jobs) = n
  BY <1>6, FS_CountingElements
<1>8. \E f \in [1 .. n -> jobs] : IsInjective(f)
  BY <1>6 DEF ExistsBijection, Bijection, Injection
<1>9. SetToSeq(jobs) \in [1 .. n -> jobs]
  BY <1>7, <1>8 DEF SetToSeq
<1>10. QED
  BY <1>4, <1>5, <1>9

(* A month with a stored candle of the futures market is available; and a  *)
(* month that is available, the exchange has.                              *)
LEMMA StoredMonthsAreAvailable ==
    ASSUME NEW r \in RowsOf(table), NEW sym, r.series = FuturesCandles(sym)
    PROVE  MonthOf(r.time) \in AvailableMonths(table, sym) /\ r.series.symbol = sym
  BY DEF AvailableMonths, FuturesCandles, Series

LEMMA AvailableMonthsAreListed ==
    ASSUME StoredInv, ListedInv, NEW sym, NEW m \in AvailableMonths(table, sym)
    PROVE  m \in {MonthOf(t) : t \in ListedTimes(FuturesCandles(sym))}
<1>1. PICK r \in RowsOf(table) :
        /\ m = MonthOf(r.time) /\ r.series.type = "market_candle"
        /\ r.series.venue = "binance_usdm" /\ r.series.symbol = sym
  BY DEF AvailableMonths
<1>2. r \in AllRows
  BY DEF StoredInv, TableOfRows, RowsOf
<1>3. PICK s \in AllSeries : r.series = s
  BY <1>2 DEF AllRows, Row
<1>4. s = FuturesCandles(sym)
  <2>1. PICK a \in Symbols :
          s \in {SpotCandles(a), FuturesCandles(a), CcxtCandles(a), CcxtFunding(a),
                 CcxtOpenInterest(a), PremiumIndex(a), Basis(a), FundingHistory(a),
                 OpenInterestHistory(a), LongShortRatio(a), TakerVolume(a), DexPairs(a),
                 YieldPools(a), DuneResult(a), GraphResult(a)}
    BY DEF AllSeries
  <2>2. s.type = "market_candle" /\ s.venue = "binance_usdm" /\ s.symbol = sym
    BY <1>1, <1>3
  <2>3. s = FuturesCandles(a)
    BY <2>1, <2>2 DEF SpotCandles, FuturesCandles, CcxtCandles, CcxtFunding, CcxtOpenInterest,
           PremiumIndex, Basis, FundingHistory, OpenInterestHistory, LongShortRatio,
           TakerVolume, DexPairs, YieldPools, DuneResult, GraphResult, Series
  <2>4. a = sym
    BY <2>2, <2>3 DEF FuturesCandles, Series
  <2>5. QED
    BY <2>3, <2>4
<1>5. IsListed(r)
  BY <1>1 DEF ListedInv
<1>6. QED
  BY <1>1, <1>3, <1>4, <1>5 DEF IsListed

(* A month that is stored stays so.                                        *)
LEMMA MonthsStay ==
    ASSUME RowsOf(table) \subseteq RowsOf(table'), NEW sym
    PROVE  AvailableMonths(table, sym) \subseteq AvailableMonths(table', sym)
  BY DEF AvailableMonths

LEMMA KnownMonthsStay ==
    ASSUME RowsOf(table) \subseteq RowsOf(table'), NEW c \in Cmds
    PROVE  KnownMonths(c) \subseteq KnownMonths(c)'
<1>1. ASSUME NEW j \in Commands[c].symbols \X Commands[c].months, j[2] \in AvailableMonths(table, j[1])
      PROVE  j[2] \in AvailableMonths(table', j[1])
  BY <1>1, MonthsStay
<1>2. QED
  BY <1>1 DEF KnownMonths

(* Of what was known when a job ended, the last report misses nothing.     *)
LEMMA FewerWereKnown ==
    ASSUME NEW known, NEW sym, NEW months, IsFiniteSet(months), NEW available \in SUBSET months,
           \A m : <<sym, m>> \in known => m \in available,
           NEW least \in Nat, ~(Cardinality(available) >= least)
    PROVE  Cardinality({m \in months : <<sym, m>> \in known}) < least
<1> DEFINE before == {m \in months : <<sym, m>> \in known}
<1>1. before \subseteq available
  OBVIOUS
<1>2. IsFiniteSet(available)
  BY FS_Subset
<1> HIDE DEF before
<1>3. IsFiniteSet(before) /\ Cardinality(before) <= Cardinality(available)
  BY <1>1, <1>2, FS_Subset
<1>4. Cardinality(before) \in Nat /\ Cardinality(available) \in Nat
  BY <1>2, <1>3, FS_CardinalityType
<1>5. Cardinality(before) < least
  BY <1>3, <1>4
<1>6. QED
  BY <1>5 DEF before

(* The report that a campaign ends with is true.                           *)
LEMMA FinalReportTrue ==
    ASSUME StoredInv, ListedInv, NEW c \in Cmds, Commands[c].kind = "campaign", InCampaign(c),
           verdict = [d \in Cmds |-> verdict[d]], Finish(c)
    PROVE  ReportTrue(c)'
<1> DEFINE symbols == Commands[c].symbols
           months == Commands[c].months
           final == FinalCampaignReport(c)
           available(sym) == AvailableMonths(table, sym) \cap months
           listed(sym) == {MonthOf(t) : t \in ListedTimes(FuturesCandles(sym))}
<1>1. /\ verdict'[c].missing = final.missing /\ verdict'[c].ready = final.ready
      /\ results' = results /\ table' = table
  <2>1. Commands[c].kind \notin {"bootstrap"}
    OBVIOUS
  <2>2. verdict' = [verdict EXCEPT ![c] =
            [status |-> "success", missing |-> final.missing, ready |-> final.ready]]
    BY <2>1 DEF Finish
  <2> HIDE DEF final
  <2>3. verdict'[c] = [status |-> "success", missing |-> final.missing, ready |-> final.ready]
    BY <2>2
  <2>4. QED
    BY <2>3 DEF Finish
<1>2. /\ final.missing = {j \in symbols \X months : j[2] \notin available(j[1])}
      /\ final.ready = (\A sym \in symbols : Cardinality(available(sym)) >= Commands[c].minMonths)
  BY DEF FinalCampaignReport, CampaignReport
<1>3. \A j \in symbols \X months : j \notin final.missing <=> j[2] \in AvailableMonths(table, j[1])
  <2> HIDE DEF final
  <2>1. QED
    BY <1>2
<1>4. ASSUME NEW i \in DOMAIN results[c], results[c][i].status = "completed",
             NEW r \in results[c][i].rows
      PROVE  <<r.series.symbol, MonthOf(r.time)>> \notin final.missing
  <2>1. r \in RowsOf(table)
    BY <1>4 DEF StoredInv, ResultsStored
  <2>2. PICK sym \in symbols : r.series = FuturesCandles(sym)
    BY <1>4 DEF InCampaign, OfCampaign
  <2>3. MonthOf(r.time) \in AvailableMonths(table, sym) /\ r.series.symbol = sym
    BY <2>1, <2>2, StoredMonthsAreAvailable
  <2> HIDE DEF final
  <2>4. QED
    BY <1>2, <2>3
<1>5. ASSUME NEW i \in DOMAIN results[c], NEW j \in results[c][i].known
      PROVE  j \in symbols \X months /\ j[2] \in AvailableMonths(table, j[1])
  BY <1>5 DEF InCampaign, KnownMonths
<1>6. ASSUME NEW i \in DOMAIN results[c], ~final.ready
      PROVE  \E sym \in symbols : Cardinality({m \in months : <<sym, m>> \in results[c][i].known})
                                     < Commands[c].minMonths
  <2> DEFINE known == results[c][i].known
  <2> HIDE DEF final
  <2>1. PICK sym \in symbols : ~(Cardinality(available(sym)) >= Commands[c].minMonths)
    BY <1>2, <1>6
  <2>2. ASSUME NEW m, <<sym, m>> \in known PROVE m \in available(sym)
    BY <1>5, <2>2
  <2>3. IsFiniteSet(months) /\ Commands[c].minMonths \in Nat /\ available(sym) \in SUBSET months
    BY CommandsAssumption
  <2> HIDE DEF known, available
  <2>4. \A m : <<sym, m>> \in known => m \in available(sym)
    BY <2>2
  <2>5. Cardinality({m \in months : <<sym, m>> \in known}) < Commands[c].minMonths
    BY <2>1, <2>3, <2>4, FewerWereKnown
  <2>6. QED
    BY <2>1, <2>5 DEF known
<1>7. ASSUME final.ready, NEW sym \in symbols
      PROVE  Cardinality(listed(sym) \cap months) >= Commands[c].minMonths
  <2>1. available(sym) \subseteq listed(sym) \cap months
    BY AvailableMonthsAreListed
  <2>2. IsFiniteSet(months) /\ Commands[c].minMonths \in Nat
    BY CommandsAssumption
  <2>3. IsFiniteSet(listed(sym) \cap months)
    <3>1. listed(sym) \cap months \in SUBSET months
      OBVIOUS
    <3> HIDE DEF listed, months
    <3>2. QED
      BY <2>2, <3>1, FS_Subset
  <2>4. Cardinality(available(sym)) >= Commands[c].minMonths
    BY <1>2, <1>7
  <2> HIDE DEF available, listed, months
  <2>5. IsFiniteSet(available(sym)) /\ Cardinality(available(sym)) <= Cardinality(listed(sym) \cap months)
    BY <2>1, <2>3, FS_Subset
  <2>6. Cardinality(available(sym)) \in Nat /\ Cardinality(listed(sym) \cap months) \in Nat
    BY <2>3, <2>5, FS_CardinalityType
  <2>7. QED
    BY <2>2, <2>4, <2>5, <2>6
<1> HIDE DEF final
<1>8. ASSUME NEW i \in DOMAIN results[c], NEW j \in results[c][i].known PROVE j \notin final.missing
  BY <1>3, <1>5
<1>9. CoveredIsStored(c)'
  BY <1>1, <1>3 DEF CoveredIsStored
<1>10. ReadyIsListed(c)'
  BY <1>1, <1>7 DEF ReadyIsListed
<1>11. ASSUME NEW i \in DOMAIN results[c] PROVE ResultAgrees(c, i)'
  <2>1. results[c][i].known \cap final.missing = {}
    BY <1>8
  <2>2. results[c][i].status = "completed" =>
           \A r \in results[c][i].rows : <<r.series.symbol, MonthOf(r.time)>> \notin final.missing
    BY <1>4
  <2>3. ~final.ready => \E sym \in Commands[c].symbols :
           Cardinality({m \in Commands[c].months : <<sym, m>> \in results[c][i].known}) < Commands[c].minMonths
    BY <1>6
  <2>4. QED
    BY <1>1, <2>1, <2>2, <2>3 DEF ResultAgrees
<1>12. QED
  BY <1>1, <1>9, <1>10, <1>11 DEF ReportTrue

(* A step of a command changes where that command is, and its verdict when *)
(* it finishes.                                                            *)
LEMMA OneCommandSteps ==
    ASSUME StoredInv, verdict = [d \in Cmds |-> verdict[d]], NEW c \in Cmds,
           \/ Begin(c) \/ Fetch(c) \/ Store(c) \/ SayHealth(c)
           \/ Snapshot(c) \/ Probe(c) \/ Finish(c) \/ Kill(c)
           \/ ReadUniverse(c) \/ ReadRecords(c) \/ ReadScreen(c) \/ Judge(c) \/ StrategyLab(c)
           \/ ValidateFamily(c) \/ PaperFamily(c)
    PROVE  /\ verdict' = [d \in Cmds |-> verdict'[d]]
           /\ \A d \in Cmds \ {c} : /\ phase'[d] = phase[d] /\ todo'[d] = todo[d]
                                    /\ fetched'[d] = fetched[d] /\ results'[d] = results[d]
                                    /\ verdict'[d] = verdict[d]
<1>1. \E x : phase' = [phase EXCEPT ![c] = x]
  BY DEF Begin, Fetch, Store, SayHealth, Report, Snapshot, Probe, Finish, Kill, ReadUniverse,
         ReadRecords, ReadScreen, Judge, StrategyLab, ValidateFamily, PaperFamily
<1>2. todo' = todo \/ \E x : todo' = [todo EXCEPT ![c] = x]
  BY DEF Begin, Fetch, Store, SayHealth, Report, Snapshot, Probe, Finish, Kill, ReadUniverse,
         ReadRecords, ReadScreen, Judge, StrategyLab, ValidateFamily, PaperFamily
<1>3. fetched' = fetched \/ \E x : fetched' = [fetched EXCEPT ![c] = x]
  BY RowsOfAStep
<1>4. results' = results \/ \E x : results' = [results EXCEPT ![c] = x]
  BY DEF Begin, Fetch, Store, SayHealth, Report, Snapshot, Probe, Finish, Kill, ReadUniverse,
         ReadRecords, ReadScreen, Judge, StrategyLab, ValidateFamily, PaperFamily
<1>5. verdict' = verdict \/ \E x : verdict' = [verdict EXCEPT ![c] = x]
  BY DEF Begin, Fetch, Store, SayHealth, Report, Snapshot, Probe, Finish, Kill, ReadUniverse,
         ReadRecords, ReadScreen, Judge, StrategyLab, ValidateFamily, PaperFamily
<1>6. \A d \in Cmds \ {c} : phase'[d] = phase[d]
  BY <1>1, ChangeOne DEF StoredInv
<1>7. \A d \in Cmds \ {c} : todo'[d] = todo[d]
  BY <1>2, ChangeOne DEF StoredInv
<1>8. \A d \in Cmds \ {c} : fetched'[d] = fetched[d]
  BY <1>3, ChangeOne DEF StoredInv
<1>9. \A d \in Cmds \ {c} : results'[d] = results[d]
  BY <1>4, ChangeOne DEF StoredInv
<1>10. /\ verdict' = [d \in Cmds |-> verdict'[d]]
       /\ \A d \in Cmds \ {c} : verdict'[d] = verdict[d]
  BY <1>5, ChangeOne
<1>11. QED
  BY <1>6, <1>7, <1>8, <1>9, <1>10

(* A campaign whose place and reports are as before, while rows are added. *)
LEMMA CampaignKept ==
    ASSUME NEW c \in Cmds, InCampaign(c), RowsOf(table) \subseteq RowsOf(table'),
           phase'[c] = phase[c], todo'[c] = todo[c], fetched'[c] = fetched[c],
           results'[c] = results[c], verdict'[c] = verdict[c]
    PROVE  InCampaign(c)'
<1>1. KnownMonths(c) \subseteq KnownMonths(c)'
  BY KnownMonthsStay
<1>2. ASSUME NEW i \in DOMAIN results[c], ResultAgrees(c, i) PROVE ResultAgrees(c, i)'
  BY <1>2 DEF ResultAgrees
<1>3. ASSUME CoveredIsStored(c) PROVE CoveredIsStored(c)'
  <2>1. ASSUME NEW j \in (Commands[c].symbols \X Commands[c].months) \ verdict[c].missing
        PROVE  j[2] \in AvailableMonths(table', j[1])
    <3>1. j[2] \in AvailableMonths(table, j[1])
      BY <1>3, <2>1 DEF CoveredIsStored
    <3>2. QED
      BY <3>1, MonthsStay
  <2>2. QED
    BY <2>1 DEF CoveredIsStored
<1>4. ReadyIsListed(c) => ReadyIsListed(c)'
  BY DEF ReadyIsListed
<1>5. ReportTrue(c) => ReportTrue(c)'
  BY <1>2, <1>3, <1>4 DEF ReportTrue
<1>6. \A i \in DOMAIN results'[c] : results'[c][i].known \subseteq KnownMonths(c)'
  BY <1>1 DEF InCampaign
<1>7. QED
  BY <1>5, <1>6 DEF InCampaign

LEMMA JobsAreOfCampaign ==
    ASSUME NEW c \in Cmds, InCampaign(c), todo[c] # <<>>
    PROVE  /\ Head(todo[c]).kind = "month" /\ Tail(todo[c]) \in Seq(JobSteps(c))
           /\ \E sym \in Commands[c].symbols : Head(todo[c]).series = FuturesCandles(sym)
<1>1. Head(todo[c]) \in JobSteps(c) /\ Tail(todo[c]) \in Seq(JobSteps(c))
  <2> DEFINE S == JobSteps(c)
  <2>1. todo[c] \in Seq(S)
    BY DEF InCampaign
  <2> HIDE DEF S
  <2>2. Head(todo[c]) \in S /\ Tail(todo[c]) \in Seq(S)
    BY <2>1, HeadTailProperties
  <2>3. QED
    BY <2>2 DEF S
<1>2. QED
  BY <1>1 DEF JobSteps, IngestFuturesMonth, IngestPublicMonth, Step

LEMMA CampaignReports ==
    ASSUME StoredInv, NEW c \in Cmds, InCampaign(c), todo[c] # <<>>, table' = table,
           NEW status, NEW reason, Report(c, status, reason)
    PROVE  InCampaign(c)'
<1> DEFINE result == [status |-> status, series |-> Head(todo[c]).series,
                      rows |-> fetched[c], known |-> KnownMonths(c), reason |-> reason]
<1>1. /\ results' = [results EXCEPT ![c] = Append(results[c], result)]
      /\ todo' = [todo EXCEPT ![c] = Tail(todo[c])]
      /\ phase' = [phase EXCEPT ![c] = "next"]
      /\ fetched' = [fetched EXCEPT ![c] = {}]
  BY DEF Report
<1>2. result.rows = fetched[c] /\ result.known = KnownMonths(c)
  OBVIOUS
<1> HIDE DEF result
<1>3. /\ results'[c] = Append(results[c], result) /\ todo'[c] = Tail(todo[c])
      /\ phase'[c] = "next" /\ fetched'[c] = {}
  BY <1>1, ChangeOne DEF StoredInv
<1>4. \A i \in DOMAIN results'[c] :
         results'[c][i] = result \/ (i \in DOMAIN results[c] /\ results'[c][i] = results[c][i])
  <2>1. IsList(results[c])
    BY DEF StoredInv, ResultsStored
  <2>2. QED
    BY <1>3, <2>1, AppendToList
<1>5. ASSUME NEW i \in DOMAIN results'[c], NEW r \in results'[c][i].rows
      PROVE  OfCampaign(c, r)
  <2>1. CASE results'[c][i] = result
    BY <1>2, <1>5, <2>1 DEF InCampaign
  <2>2. CASE i \in DOMAIN results[c] /\ results'[c][i] = results[c][i]
    BY <1>5, <2>2 DEF InCampaign
  <2>3. QED
    BY <1>4, <2>1, <2>2
<1>6. Tail(todo[c]) \in Seq(JobSteps(c))
  BY JobsAreOfCampaign
<1>7. KnownMonths(c)' = KnownMonths(c)
  BY DEF KnownMonths
<1>8. ASSUME NEW i \in DOMAIN results'[c] PROVE results'[c][i].known \subseteq KnownMonths(c)'
  BY <1>2, <1>4, <1>7, <1>8 DEF InCampaign
<1>9. QED
  BY <1>3, <1>5, <1>6, <1>8 DEF InCampaign

(* The campaign's own steps.                                               *)
LEMMA CampaignsOwnStep ==
    ASSUME StoredInv, ListedInv, verdict = [d \in Cmds |-> verdict[d]],
           NEW c \in Cmds, Commands[c].kind = "campaign", InCampaign(c),
           \/ Begin(c) \/ Fetch(c) \/ Store(c) \/ SayHealth(c)
           \/ Snapshot(c) \/ Probe(c) \/ Finish(c) \/ Kill(c)
           \/ ReadUniverse(c) \/ ReadRecords(c) \/ ReadScreen(c) \/ Judge(c) \/ StrategyLab(c)
           \/ ValidateFamily(c) \/ PaperFamily(c)
    PROVE  InCampaign(c)'
<1>0. KnownMonths(c) \subseteq KnownMonths(c)'
  BY RowsStay, KnownMonthsStay
<1>1. CASE Begin(c)
  <2>1. /\ phase' = [phase EXCEPT ![c] = "next"] /\ fetched' = fetched
        /\ results' = [results EXCEPT ![c] = <<>>]
        /\ \/ todo' = [todo EXCEPT ![c] = CampaignJobs(c)]
           \/ todo' = [todo EXCEPT ![c] = <<>>]
    BY <1>1 DEF Begin
  <2>2. /\ phase'[c] = "next" /\ results'[c] = <<>>
        /\ todo'[c] = CampaignJobs(c) \/ todo'[c] = <<>>
    BY <2>1, ChangeOne DEF StoredInv
  <2>3. todo'[c] \in Seq(JobSteps(c))
    <3> DEFINE S == JobSteps(c)
    <3> HIDE DEF S
    <3>1. <<>> \in Seq(S)
      BY EmptySeq
    <3>2. CampaignJobs(c) \in Seq(S)
      BY JobsAreSteps DEF S
    <3>3. QED
      BY <2>2, <3>1, <3>2 DEF S
  <2>4. \A i \in DOMAIN results'[c] : FALSE
    BY <2>2
  <2>5. QED
    BY <2>1, <2>2, <2>3, <2>4 DEF InCampaign
<1>2. CASE Fetch(c)
  <2>1. /\ phase[c] = "next" /\ todo[c] # <<>> /\ UNCHANGED <<todo, results>>
        /\ \E p \in {"store", "say_failed"} : phase' = [phase EXCEPT ![c] = p]
    BY <1>2 DEF Fetch, At
  <2>2. phase'[c] \in {"store", "say_failed"}
    BY <2>1, ChangeOne DEF StoredInv
  <2>3. fetched' = fetched
          \/ fetched' = [fetched EXCEPT ![c] =
                InWindow(Answer(Head(todo[c])), Head(todo[c]).start, Head(todo[c]).end)]
    BY <1>2 DEF Fetch
  <2>4. fetched'[c] = fetched[c] \/ fetched'[c] \subseteq Answer(Head(todo[c]))
    <3>1. InWindow(Answer(Head(todo[c])), Head(todo[c]).start, Head(todo[c]).end)
            \in SUBSET Answer(Head(todo[c]))
      BY DEF InWindow
    <3>2. QED
      BY <2>3, <3>1, ChangeOne DEF StoredInv
  <2>5. \A r \in fetched'[c] : OfCampaign(c, r)
    <3>1. PICK sym \in Commands[c].symbols : Head(todo[c]).series = FuturesCandles(sym)
      BY <2>1, JobsAreOfCampaign
    <3>2. \A r \in Answer(Head(todo[c])) : OfCampaign(c, r)
      BY <3>1, AnswersAreListed DEF OfCampaign
    <3>3. QED
      BY <2>4, <3>2 DEF InCampaign
  <2>6. QED
    BY <1>0, <2>1, <2>2, <2>5 DEF InCampaign
<1>3. CASE Store(c)
  <2>1. /\ UNCHANGED <<todo, results>>
        /\ \E p \in {"say_ok", "say_failed"} : phase' = [phase EXCEPT ![c] = p]
        /\ fetched' = fetched \/ fetched' = [fetched EXCEPT ![c] = {}]
    BY <1>3 DEF Store
  <2>2. phase'[c] \in {"say_ok", "say_failed"} /\ (fetched'[c] = fetched[c] \/ fetched'[c] = {})
    BY <2>1, ChangeOne DEF StoredInv
  <2>3. QED
    BY <1>0, <2>1, <2>2 DEF InCampaign
<1>4. CASE SayHealth(c)
  <2>1. phase[c] \in {"say_ok", "say_failed"} /\ table' = table
    BY <1>4 DEF SayHealth
  <2>2. \E status, reason : Report(c, status, reason)
    BY <1>4 DEF SayHealth
  <2>3. QED
    BY <2>1, <2>2, AtStep, CampaignReports
<1>5. CASE Finish(c)
  <2>1. /\ phase' = [phase EXCEPT ![c] = "done"] /\ UNCHANGED <<todo, fetched, results>>
    BY <1>5 DEF Finish
  <2>2. phase'[c] = "done"
    BY <2>1, ChangeOne DEF StoredInv
  <2>3. ReportTrue(c)'
    BY <1>5, FinalReportTrue
  <2>4. QED
    BY <1>0, <2>1, <2>2, <2>3 DEF InCampaign
<1>6. CASE Kill(c)
  <2>1. phase' = [phase EXCEPT ![c] = "dead"] /\ UNCHANGED <<todo, fetched, results>>
    BY <1>6 DEF Kill
  <2>2. phase'[c] = "dead"
    BY <2>1, ChangeOne DEF StoredInv
  <2>3. QED
    BY <1>0, <2>1, <2>2 DEF InCampaign
<1>7. ~Probe(c) /\ ~Snapshot(c)
  BY JobsAreOfCampaign DEF Probe, Snapshot, At
<1>8. ~ValidateFamily(c) /\ ~ReadUniverse(c) /\ ~StrategyLab(c)
  BY DEF ValidateFamily, ReadUniverse, StrategyLab
<1>9. ~PaperFamily(c) /\ ~ReadRecords(c) /\ ~ReadScreen(c) /\ ~Judge(c)
  BY DEF InCampaign, PaperFamily, ReadRecords, ReadScreen, Judge
<1>10. QED
  BY <1>1, <1>2, <1>3, <1>4, <1>5, <1>6, <1>7, <1>8, <1>9

LEMMA CampaignStep ==
    StoredInv /\ ListedInv /\ CampaignInv /\ [DataNext]_dataVars => CampaignInv'
<1> SUFFICES ASSUME StoredInv, ListedInv, CampaignInv, [DataNext]_dataVars PROVE CampaignInv'
  OBVIOUS
<1>1. CASE UNCHANGED dataVars
  <2>1. ASSUME NEW c \in Cmds, InCampaign(c) PROVE InCampaign(c)'
    <3>1. /\ table' = table /\ phase' = phase /\ todo' = todo /\ fetched' = fetched
          /\ results' = results /\ verdict' = verdict
      BY <1>1 DEF dataVars
    <3>2. RowsOf(table) \subseteq RowsOf(table')
      BY <3>1
    <3>3. QED
      BY <2>1, <3>1, <3>2, CampaignKept
  <2>2. QED
    BY <1>1, <2>1 DEF CampaignInv, dataVars
<1>2. ASSUME NEW c \in Cmds,
             \/ Begin(c) \/ Fetch(c) \/ Store(c) \/ SayHealth(c)
             \/ Snapshot(c) \/ Probe(c) \/ Finish(c) \/ Kill(c)
             \/ ReadUniverse(c) \/ ReadRecords(c) \/ ReadScreen(c) \/ Judge(c) \/ StrategyLab(c)
             \/ ValidateFamily(c) \/ PaperFamily(c)
      PROVE  CampaignInv'
  <2>1. verdict = [d \in Cmds |-> verdict[d]]
    BY DEF CampaignInv
  <2>2. /\ verdict' = [d \in Cmds |-> verdict'[d]]
        /\ \A d \in Cmds \ {c} : /\ phase'[d] = phase[d] /\ todo'[d] = todo[d]
                                 /\ fetched'[d] = fetched[d] /\ results'[d] = results[d]
                                 /\ verdict'[d] = verdict[d]
    BY <1>2, <2>1, OneCommandSteps
  <2>3. RowsOf(table) \subseteq RowsOf(table')
    BY <1>2, RowsStay
  <2>4. ASSUME NEW d \in Cmds, Commands[d].kind = "campaign" PROVE InCampaign(d)'
    <3>1. InCampaign(d)
      BY <2>4 DEF CampaignInv
    <3>2. CASE d = c
      BY <1>2, <2>1, <2>4, <3>1, <3>2, CampaignsOwnStep
    <3>3. CASE d # c
      BY <2>2, <2>3, <3>1, <3>3, CampaignKept
    <3>4. QED
      BY <3>2, <3>3
  <2>5. QED
    BY <2>2, <2>4 DEF CampaignInv
<1>3. QED
  BY <1>1, <1>2 DEF DataNext

(* When a data-depth campaign has ended, its report misses no month that   *)
(* any command had stored when one of its jobs ended, covers only months   *)
(* that are stored, and says ready only when the exchange has enough       *)
(* months of every symbol and blocked only when too few were stored,       *)
(* whatever other commands write, fail and are killed meanwhile            *)
(* (pipeline/data_depth_campaign.py, the second report after the jobs).    *)
THEOREM CampaignsReportTruly == DataSpec => []CampaignReportIsTrue
<1>1. DataInit => StoredInv /\ ListedInv /\ CampaignInv
  BY StoredInit, ListedInit, CampaignInit
<1>2. StoredInv /\ ListedInv /\ CampaignInv /\ [DataNext]_dataVars
        => (StoredInv /\ ListedInv /\ CampaignInv)'
  BY StoredStep, ListedStep, CampaignStep
<1>3. CampaignInv => CampaignReportIsTrue
  BY DEF CampaignInv, InCampaign, ReportTrue, ResultAgrees, CoveredIsStored, ReadyIsListed,
         CampaignReportIsTrue
<1>4. QED
  BY <1>1, <1>2, <1>3, PTL DEF DataSpec

----------------------------------------------------------------------------
(* Finite sets in a strict total order.                                    *)

(* As many places as elements, no place given twice: every place is given. *)
LEMMA EveryPlaceIsTaken ==
    ASSUME NEW S, IsFiniteSet(S), NEW rank \in [S -> Nat],
           \A x \in S : rank[x] < Cardinality(S),
           \A x, y \in S : rank[x] = rank[y] => x = y
    PROVE  \A i \in 1 .. Cardinality(S) : \E x \in S : rank[x] = i - 1
<1> DEFINE n == Cardinality(S)
           T == 0 .. n - 1
<1>1. n \in Nat
  BY FS_CardinalityType
<1>2. IsFiniteSet(T) /\ Cardinality(T) = n
  <2> HIDE DEF n
  <2>1. QED
    BY <1>1, FS_Interval
<1>3. rank \in Injection(S, T)
  <2>1. \A x \in S : rank[x] \in T
    BY <1>1
  <2>2. rank \in [S -> T]
    <3> HIDE DEF T
    <3>1. QED
      BY <2>1
  <2>3. QED
    BY <2>2 DEF Injection, IsInjective
<1>4. rank \in Surjection(S, T)
  <2> HIDE DEF T
  <2>1. QED
    BY <1>2, <1>3, FS_Injection
<1>5. \A i \in 1 .. n : i - 1 \in T
  BY <1>1
<1> HIDE DEF T, n
<1>6. QED
  BY <1>4, <1>5 DEF Surjection, n

(* A strict total order of a finite set, as a set of pairs.                *)
Orders(R, S) ==
    /\ IsFiniteSet(S)
    /\ \A x \in S : <<x, x>> \notin R
    /\ \A x, y, z \in S : <<x, y>> \in R /\ <<y, z>> \in R => <<x, z>> \in R
    /\ \A x, y \in S : x = y \/ <<x, y>> \in R \/ <<y, x>> \in R

Below(R, S, x) == {y \in S : <<y, x>> \in R}

(* What InOrder gives for an operator with those pairs: at each place the  *)
(* element with as many below it, if there is one.                         *)
InPlace(at, R, S) ==
    /\ DOMAIN at = 1 .. Cardinality(S)
    /\ \A i \in DOMAIN at : \A x \in S :
          Cardinality(Below(R, S, x)) = i - 1 => at[i] \in S /\ Cardinality(Below(R, S, at[i])) = i - 1

LEMMA BelowGrows ==
    ASSUME NEW S, NEW R, Orders(R, S), NEW x \in S
    PROVE  /\ Cardinality(Below(R, S, x)) \in Nat /\ Cardinality(S) \in Nat
           /\ Cardinality(Below(R, S, x)) < Cardinality(S)
           /\ \A y \in S : <<y, x>> \in R => Cardinality(Below(R, S, y)) < Cardinality(Below(R, S, x))
<1> DEFINE B == Below(R, S, x)
<1>1. IsFiniteSet(S) /\ Cardinality(S) \in Nat
  BY FS_CardinalityType DEF Orders
<1>2. B \in SUBSET S /\ B # S
  BY DEF Orders, Below
<1>3. ASSUME NEW y \in S, <<y, x>> \in R
      PROVE  Below(R, S, y) \in SUBSET B /\ Below(R, S, y) # B
  BY <1>3 DEF Orders, Below
<1> HIDE DEF B
<1>4. IsFiniteSet(B) /\ Cardinality(B) \in Nat /\ Cardinality(B) <= Cardinality(S)
      /\ Cardinality(B) # Cardinality(S)
  BY <1>1, <1>2, FS_Subset, FS_CardinalityType
<1>5. ASSUME NEW y \in S, <<y, x>> \in R
      PROVE  Cardinality(Below(R, S, y)) < Cardinality(B)
  <2> DEFINE A == Below(R, S, y)
  <2>1. A \in SUBSET B /\ A # B
    BY <1>3, <1>5
  <2> HIDE DEF A
  <2>2. Cardinality(A) \in Nat /\ Cardinality(A) <= Cardinality(B) /\ Cardinality(A) # Cardinality(B)
    BY <1>4, <2>1, FS_Subset, FS_CardinalityType
  <2>3. Cardinality(A) < Cardinality(B)
    BY <1>4, <2>2
  <2>4. QED
    BY <2>3 DEF A
<1>6. Cardinality(B) < Cardinality(S)
  BY <1>1, <1>4
<1>7. QED
  BY <1>1, <1>4, <1>5, <1>6 DEF B

LEMMA OrderedElements ==
    ASSUME NEW S, NEW R, Orders(R, S), NEW at, InPlace(at, R, S)
    PROVE  /\ DOMAIN at = 1 .. Cardinality(S) /\ Cardinality(S) \in Nat
           /\ \A i \in DOMAIN at : at[i] \in S /\ Cardinality(Below(R, S, at[i])) = i - 1
           /\ \A x \in S : /\ 1 + Cardinality(Below(R, S, x)) \in DOMAIN at
                           /\ at[1 + Cardinality(Below(R, S, x))] = x
           /\ \A i, j \in DOMAIN at : i < j => <<at[i], at[j]>> \in R
<1> DEFINE n == Cardinality(S)
           place(x) == Cardinality(Below(R, S, x))
           rank == [x \in S |-> place(x)]
<1>1. /\ DOMAIN at = 1 .. n
      /\ \A i \in DOMAIN at : \A x \in S : place(x) = i - 1 => at[i] \in S /\ place(at[i]) = i - 1
  BY DEF InPlace
<1>2. n \in Nat /\ \A x \in S : place(x) \in Nat /\ place(x) < n
  BY BelowGrows, FS_CardinalityType DEF Orders
<1>3. \A x, y \in S : <<x, y>> \in R => place(x) < place(y)
  BY BelowGrows
<1> HIDE DEF place, n
<1>4. \A x, y \in S : place(x) = place(y) => x = y
  <2> SUFFICES ASSUME NEW x \in S, NEW y \in S, place(x) = place(y) PROVE x = y
    OBVIOUS
  <2>1. <<x, y>> \notin R /\ <<y, x>> \notin R
    BY <1>2, <1>3
  <2>2. QED
    BY <2>1 DEF Orders
<1>5. \A i \in 1 .. n : \E x \in S : place(x) = i - 1
  <2>1. rank \in [S -> Nat] /\ \A x \in S : rank[x] < n
    BY <1>2
  <2>2. \A x, y \in S : rank[x] = rank[y] => x = y
    BY <1>4
  <2>3. IsFiniteSet(S)
    BY DEF Orders
  <2> HIDE DEF rank
  <2>4. \A i \in 1 .. Cardinality(S) : \E x \in S : rank[x] = i - 1
    BY <2>1, <2>2, <2>3, EveryPlaceIsTaken DEF n
  <2>5. QED
    BY <2>4 DEF rank, n
<1>6. DOMAIN at = 1 .. n /\ \A i \in 1 .. n : at[i] \in S /\ place(at[i]) = i - 1
  BY <1>1, <1>5
<1>7. \A x \in S : 1 + place(x) \in 1 .. n /\ at[1 + place(x)] = x
  BY <1>2, <1>4, <1>6
<1>8. ASSUME NEW i \in 1 .. n, NEW j \in 1 .. n, i < j PROVE <<at[i], at[j]>> \in R
  <2>1. at[i] \in S /\ at[j] \in S /\ place(at[i]) = i - 1 /\ place(at[j]) = j - 1
    BY <1>6
  <2>2. place(at[i]) < place(at[j])
    BY <1>2, <1>8, <2>1
  <2>3. at[i] # at[j]
    BY <1>2, <2>1, <2>2
  <2>4. <<at[j], at[i]>> \notin R
    BY <1>2, <1>3, <2>1, <2>2
  <2>5. QED
    BY <2>1, <2>3, <2>4 DEF Orders
<1>9. QED
  BY <1>2, <1>6, <1>7, <1>8 DEF place, n

(* Rows with a time each, no two with the same.                            *)
OneEach(S) ==
    /\ IsFiniteSet(S)
    /\ \A x \in S : x.time \in Nat
    /\ \A x, y \in S : x.time = y.time => x = y

EarlierOf(S, t) == {y \in S : y.time < t}

LEMMA EarlierRank ==
    ASSUME NEW S, OneEach(S), NEW t \in Nat
    PROVE  IsFiniteSet(EarlierOf(S, t)) /\ Cardinality(EarlierOf(S, t)) \in Nat
           /\ Cardinality(EarlierOf(S, t)) <= Cardinality(S) /\ Cardinality(S) \in Nat
<1>1. EarlierOf(S, t) \in SUBSET S
  BY DEF EarlierOf
<1>2. QED
  BY <1>1, FS_Subset, FS_CardinalityType DEF OneEach

LEMMA EarlierGrows ==
    ASSUME NEW S, OneEach(S), NEW x \in S, NEW t \in Nat, x.time < t
    PROVE  Cardinality(EarlierOf(S, x.time)) < Cardinality(EarlierOf(S, t))
<1>1. x.time \in Nat
  BY DEF OneEach
<1>2. EarlierOf(S, x.time) \in SUBSET EarlierOf(S, t)
  BY <1>1 DEF EarlierOf, OneEach
<1>3. x \in EarlierOf(S, t) /\ x \notin EarlierOf(S, x.time)
  BY <1>1 DEF EarlierOf
<1> DEFINE A == EarlierOf(S, x.time)
           B == EarlierOf(S, t)
<1>4. IsFiniteSet(B) /\ Cardinality(A) \in Nat /\ Cardinality(B) \in Nat
  BY <1>1, EarlierRank
<1> HIDE DEF A, B
<1>5. A \in SUBSET B /\ A # B
  BY <1>2, <1>3 DEF A, B
<1>6. Cardinality(A) <= Cardinality(B) /\ Cardinality(A) # Cardinality(B)
  BY <1>4, <1>5, FS_Subset
<1>7. Cardinality(A) < Cardinality(B)
  BY <1>4, <1>6
<1>8. QED
  BY <1>7 DEF A, B

(* A set of rows in the order of time.                                     *)
LEMMA RowsInOrder ==
    ASSUME NEW S, OneEach(S), NEW at, at = ByTime(S)
    PROVE  /\ DOMAIN at = 1 .. Cardinality(S) /\ Cardinality(S) \in Nat
           /\ \A i \in DOMAIN at : at[i] \in S /\ Cardinality(EarlierOf(S, at[i].time)) = i - 1
           /\ \A x \in S : /\ 1 + Cardinality(EarlierOf(S, x.time)) \in DOMAIN at
                           /\ at[1 + Cardinality(EarlierOf(S, x.time))] = x
           /\ \A i, j \in DOMAIN at : i < j => at[i].time < at[j].time
<1> DEFINE R == {p \in S \X S : p[1].time < p[2].time}
<1>1. Orders(R, S)
  BY DEF Orders, OneEach
<1>2. \A x \in S : Below(R, S, x) = EarlierOf(S, x.time)
  BY DEF Below, EarlierOf
<1>3. InPlace(at, R, S)
  <2>1. at = [i \in 1 .. Cardinality(S) |-> CHOOSE x \in S : Cardinality(EarlierOf(S, x.time)) = i - 1]
    BY DEF ByTime, InOrder, EarlierOf
  <2> HIDE DEF R
  <2>2. QED
    BY <1>2, <2>1 DEF InPlace
<1>4. \A x, y \in S : <<x, y>> \in R => x.time < y.time
  OBVIOUS
<1> HIDE DEF R
<1>5. /\ DOMAIN at = 1 .. Cardinality(S) /\ Cardinality(S) \in Nat
      /\ \A i \in DOMAIN at : at[i] \in S /\ Cardinality(Below(R, S, at[i])) = i - 1
      /\ \A x \in S : /\ 1 + Cardinality(Below(R, S, x)) \in DOMAIN at
                      /\ at[1 + Cardinality(Below(R, S, x))] = x
      /\ \A i, j \in DOMAIN at : i < j => <<at[i], at[j]>> \in R
  BY <1>1, <1>3, OrderedElements
<1>6. QED
  BY <1>2, <1>4, <1>5

(* Numbers in their order.                                                 *)
Numbers(K) == IsFiniteSet(K) /\ K \in SUBSET Nat

LEMMA NumbersInOrder ==
    ASSUME NEW K, Numbers(K), NEW at, at = Ascending(K)
    PROVE  /\ DOMAIN at = 1 .. Cardinality(K) /\ Cardinality(K) \in Nat
           /\ \A i \in DOMAIN at : at[i] \in K
           /\ \A k \in K : \E i \in DOMAIN at : at[i] = k
           /\ \A i, j \in DOMAIN at : i < j => at[i] < at[j]
<1> DEFINE R == {p \in K \X K : p[1] < p[2]}
           smaller(k) == {j \in K : j < k}
<1>1. Orders(R, K)
  BY DEF Orders, Numbers
<1>2. \A k \in K : Below(R, K, k) = smaller(k)
  BY DEF Below
<1>3. InPlace(at, R, K)
  <2>1. at = [i \in 1 .. Cardinality(K) |-> CHOOSE k \in K : Cardinality(smaller(k)) = i - 1]
    BY DEF Ascending, InOrder
  <2> HIDE DEF R, smaller
  <2>2. QED
    BY <1>2, <2>1 DEF InPlace
<1>4. \A j, k \in K : <<j, k>> \in R => j < k
  OBVIOUS
<1> HIDE DEF R
<1>5. /\ DOMAIN at = 1 .. Cardinality(K) /\ Cardinality(K) \in Nat
      /\ \A i \in DOMAIN at : at[i] \in K
      /\ \A k \in K : /\ 1 + Cardinality(Below(R, K, k)) \in DOMAIN at
                      /\ at[1 + Cardinality(Below(R, K, k))] = k
      /\ \A i, j \in DOMAIN at : i < j => <<at[i], at[j]>> \in R
  BY <1>1, <1>3, OrderedElements
<1>6. QED
  BY <1>4, <1>5

(* The elements at some places of a sequence.                              *)
LEMMA PickedElements ==
    ASSUME NEW K, Numbers(K), NEW s
    PROVE  /\ \A i \in DOMAIN Picked(s, K) : \E k \in K : Picked(s, K)[i] = s[k]
           /\ \A k \in K : \E i \in DOMAIN Picked(s, K) : Picked(s, K)[i] = s[k]
<1> DEFINE order == Ascending(K)
<1>1. Picked(s, K) = [i \in DOMAIN order |-> s[order[i]]]
  BY DEF Picked
<1>2. /\ \A i \in DOMAIN order : order[i] \in K
      /\ \A k \in K : \E i \in DOMAIN order : order[i] = k
  BY NumbersInOrder
<1> HIDE DEF order
<1>3. QED
  BY <1>1, <1>2

----------------------------------------------------------------------------
(* The trades of the funding validators.                                   *)

TradeOf(bars, f) ==
    LET i == EntryIndex(bars, f)
        enter == ByTime(bars)[i]
        leave == ByTime(bars)[i + Rules.hold]
        change == Return(Number(enter), Number(leave))
    IN [funding |-> f.time, side |-> IF Number(f) >= 0 THEN "short" ELSE "long",
        entry |-> i, exit |-> i + Rules.hold, time |-> enter.time, until |-> leave.time,
        entryBar |-> enter, exitBar |-> leave,
        gross |-> IF Number(f) >= 0 THEN -change ELSE change]

Traded(bars, funding) == {f \in Extremes(funding) : HasExit(bars, f)}

LEMMA TradesInOrder ==
    ASSUME NEW bars, NEW funding, OneEach(funding)
    PROVE  /\ \A k \in DOMAIN ExtractTrades(bars, funding) : \E f \in Traded(bars, funding) :
                 ExtractTrades(bars, funding)[k] = TradeOf(bars, f)
           /\ \A f \in Traded(bars, funding) : \E k \in DOMAIN ExtractTrades(bars, funding) :
                 ExtractTrades(bars, funding)[k] = TradeOf(bars, f)
           /\ \E n \in Nat : DOMAIN ExtractTrades(bars, funding) = 1 .. n
<1> DEFINE S == Traded(bars, funding)
           traded == ByTime(S)
<1>1. OneEach(S)
  <2>1. S \in SUBSET funding
    BY DEF Traded, Extremes
  <2> HIDE DEF S
  <2>2. QED
    BY <2>1, FS_Subset DEF OneEach
<1>2. ExtractTrades(bars, funding) = [k \in DOMAIN traded |-> TradeOf(bars, traded[k])]
  BY DEF ExtractTrades, TradeOf, Traded
<1>3. /\ \A k \in DOMAIN traded : traded[k] \in S
      /\ \A f \in S : \E k \in DOMAIN traded : traded[k] = f
      /\ \E n \in Nat : DOMAIN traded = 1 .. n
  <2> HIDE DEF S
  <2>1. QED
    BY <1>1, RowsInOrder
<1> HIDE DEF S, traded
<1>4. /\ DOMAIN ExtractTrades(bars, funding) = DOMAIN traded
      /\ \A k \in DOMAIN traded : ExtractTrades(bars, funding)[k] = TradeOf(bars, traded[k])
  BY <1>2
<1>5. ASSUME NEW k \in DOMAIN ExtractTrades(bars, funding)
      PROVE  \E f \in S : ExtractTrades(bars, funding)[k] = TradeOf(bars, f)
  BY <1>3, <1>4
<1>6. ASSUME NEW f \in S
      PROVE  \E k \in DOMAIN ExtractTrades(bars, funding) : ExtractTrades(bars, funding)[k] = TradeOf(bars, f)
  BY <1>3, <1>4
<1>7. QED
  BY <1>3, <1>4, <1>5, <1>6 DEF S

(* A trade is entered at the first bar not before its funding and left     *)
(* some bars later.                                                        *)
LEMMA TradeIsOfBars ==
    ASSUME NEW bars, OneEach(bars), NEW f, f.time \in Nat, HasExit(bars, f), NEW t, t = TradeOf(bars, f)
    PROVE  /\ t.funding = f.time /\ t.time \in Nat /\ t.until \in Nat
           /\ f.time <= t.time /\ t.time < t.until
           /\ t.entry \in Nat /\ t.exit = t.entry + Rules.hold
           /\ \E b \in bars : b.time = t.time
           /\ \E b \in bars : b.time = t.until
<1> DEFINE at == ByTime(bars)
           i == EntryIndex(bars, f)
           n == Cardinality(bars)
<1>1. /\ DOMAIN at = 1 .. n /\ n \in Nat
      /\ \A j \in DOMAIN at : at[j] \in bars /\ Cardinality(EarlierOf(bars, at[j].time)) = j - 1
      /\ \A j, k \in DOMAIN at : j < k => at[j].time < at[k].time
  BY RowsInOrder
<1>2. i = 1 + Cardinality(EarlierOf(bars, f.time)) /\ Cardinality(EarlierOf(bars, f.time)) \in Nat
  BY EarlierRank DEF EntryIndex, EarlierOf
<1>3. Rules.hold \in Nat \ {0} /\ i + Rules.hold <= n
  BY ValidatorsAssumption DEF HasExit
<1>4. /\ t.funding = f.time /\ t.time = at[i].time /\ t.until = at[i + Rules.hold].time
      /\ t.entry = i /\ t.exit = i + Rules.hold
  BY DEF TradeOf
<1> HIDE DEF at, i, n
<1>5. i \in DOMAIN at /\ i + Rules.hold \in DOMAIN at /\ i < i + Rules.hold /\ i \in Nat
  BY <1>1, <1>2, <1>3
<1>6. at[i] \in bars /\ at[i + Rules.hold] \in bars /\ at[i].time < at[i + Rules.hold].time
  BY <1>1, <1>5
<1>7. f.time <= at[i].time
  <2> SUFFICES ASSUME at[i].time < f.time PROVE FALSE
    BY <1>6 DEF OneEach
  <2>1. Cardinality(EarlierOf(bars, at[i].time)) < Cardinality(EarlierOf(bars, f.time))
    BY <1>6, EarlierGrows
  <2>2. Cardinality(EarlierOf(bars, at[i].time)) = i - 1
    BY <1>1, <1>5
  <2>3. QED
    BY <1>2, <2>1, <2>2
<1>8. QED
  BY <1>4, <1>5, <1>6, <1>7 DEF OneEach

LEMMA FoldsGrow ==
    ASSUME NEW k \in Nat, NEW m \in Nat, NEW x \in Nat, k < m
    PROVE  (k + 1) * x <= m * x
<1>1. PICK d \in Nat : m = (k + 1) + d
  <2>1. m - (k + 1) \in Nat /\ m = (k + 1) + (m - (k + 1))
    OBVIOUS
  <2>2. QED
    BY <2>1
<1> DEFINE a == k + 1
<1>2. a \in Nat
  OBVIOUS
<1> HIDE DEF a
<1>3. (a + d) * x = a * x + d * x
  BY <1>2
<1>4. d * x \in Nat /\ a * x \in Nat
  BY <1>2
<1>5. a * x <= (a + d) * x
  BY <1>3, <1>4
<1>6. QED
  BY <1>1, <1>5 DEF a

(* The test folds lie one after the other.                                 *)
LEMMA FoldsAreApart ==
    ASSUME NEW total, NEW t, t.entry \in Nat, t.exit = t.entry + Rules.hold
    PROVE  Cardinality({q \in TestFolds(total) : InFold(t, q)}) <= 1
<1> DEFINE S == {q \in TestFolds(total) : InFold(t, q)}
<1>1. Rules.hold \in Nat \ {0} /\ Rules.train \in Nat /\ Rules.test \in Nat \ {0}
  BY ValidatorsAssumption
<1>2. ASSUME NEW k \in Nat, NEW m \in Nat, k < m
      PROVE  (k + 1) * Rules.test <= m * Rules.test
  BY <1>1, <1>2, FoldsGrow
<1>3. ASSUME NEW p \in S, NEW q \in S PROVE p = q
  <2>1. PICK k \in Nat : p = [first |-> Rules.train + k * Rules.test,
                              last |-> Rules.train + (k + 1) * Rules.test]
    BY DEF TestFolds
  <2>2. PICK m \in Nat : q = [first |-> Rules.train + m * Rules.test,
                              last |-> Rules.train + (m + 1) * Rules.test]
    BY DEF TestFolds
  <2>3. /\ Rules.train + k * Rules.test < t.entry /\ t.exit <= Rules.train + (k + 1) * Rules.test
        /\ Rules.train + m * Rules.test < t.entry /\ t.exit <= Rules.train + (m + 1) * Rules.test
    BY <2>1, <2>2 DEF InFold
  <2>4. k * Rules.test \in Nat /\ m * Rules.test \in Nat
        /\ (k + 1) * Rules.test \in Nat /\ (m + 1) * Rules.test \in Nat
    BY <1>1
  <2>5. ~(k < m)
    <3> SUFFICES ASSUME k < m PROVE FALSE
      OBVIOUS
    <3>1. (k + 1) * Rules.test <= m * Rules.test
      BY <1>2
    <3>2. QED
      BY <1>1, <2>3, <2>4, <3>1
  <2>6. ~(m < k)
    <3> SUFFICES ASSUME m < k PROVE FALSE
      OBVIOUS
    <3>1. (m + 1) * Rules.test <= k * Rules.test
      BY <1>2
    <3>2. QED
      BY <1>1, <2>3, <2>4, <3>1
  <2>7. k = m
    BY <2>5, <2>6
  <2>8. QED
    BY <2>1, <2>2, <2>7
<1>4. S = {} \/ \E x : S = {x}
  <2> HIDE DEF S
  <2>1. QED
    BY <1>3
<1> HIDE DEF S
<1>5. Cardinality(S) <= 1
  <2>1. CASE S = {}
    BY <2>1, FS_EmptySet
  <2>2. CASE \E x : S = {x}
    <3>1. PICK x : S = {x}
      BY <2>2
    <3>2. Cardinality(S) = 1
      BY <3>1, FS_Singleton
    <3>3. QED
      BY <3>2
  <2>3. QED
    BY <1>4, <2>1, <2>2
<1>6. QED
  BY <1>5 DEF S

(* Rows of one type without duplicates.                                    *)
LEMMA OneTypeOneEach ==
    ASSUME NEW rows \in SUBSET AllRows, ~HasDuplicates(rows),
           NEW type, \A r \in rows : r.series.type = type
    PROVE  OneEach(rows)
<1>1. \A r \in rows : r.time \in Times
  BY DEF AllRows, Row
<1>2. \A a, b \in rows : a.time = b.time => a = b
  BY DEF HasDuplicates
<1>3. IsFiniteSet(Times)
  BY RowsAssumption, FS_Interval DEF Times
<1>4. [r \in rows |-> r.time] \in Injection(rows, Times)
  BY <1>1, <1>2 DEF Injection, IsInjective
<1>5. IsFiniteSet(rows)
  BY <1>3, <1>4, FS_Injection
<1>6. \A r \in rows : r.time \in Nat
  BY <1>1, RowsAssumption DEF Times
<1>7. QED
  BY <1>2, <1>5, <1>6 DEF OneEach

LEMMA SomeOfOneEach ==
    ASSUME NEW S, OneEach(S), NEW K \in SUBSET S
    PROVE  OneEach(K)
  BY FS_Subset DEF OneEach

(* What is known at a time has the same order as all there will be.        *)
LEMMA KnownInOrder ==
    ASSUME NEW S, OneEach(S), NEW T \in Nat, NEW t \in Nat, t <= T,
           NEW K, K = {o \in S : o.time <= T}
    PROVE  /\ InterestKnown(K, t) = InterestKnown(S, t) /\ InterestKnown(S, t) \in Nat
           /\ \A i \in 1 .. InterestKnown(S, t) : ByTime(K)[i] = ByTime(S)[i]
<1> DEFINE c == Cardinality(EarlierOf(S, t + 1))
<1>1. OneEach(K) /\ \A x \in S : x.time \in Nat
  BY SomeOfOneEach DEF OneEach
<1>2. {o \in S : o.time <= t} = EarlierOf(S, t + 1) /\ {o \in K : o.time <= t} = EarlierOf(S, t + 1)
  BY <1>1 DEF EarlierOf
<1>3. InterestKnown(K, t) = c /\ InterestKnown(S, t) = c
  BY <1>2 DEF InterestKnown
<1>4. c \in Nat /\ c <= Cardinality(S) /\ Cardinality(S) \in Nat
  BY EarlierRank
<1>5. ASSUME NEW i \in 1 .. c PROVE ByTime(K)[i] = ByTime(S)[i]
  <2> DEFINE x == ByTime(S)[i]
  <2>1. x \in S /\ Cardinality(EarlierOf(S, x.time)) = i - 1
    <3>1. DOMAIN ByTime(S) = 1 .. Cardinality(S)
          /\ \A j \in DOMAIN ByTime(S) : ByTime(S)[j] \in S /\ Cardinality(EarlierOf(S, ByTime(S)[j].time)) = j - 1
      BY RowsInOrder
    <3> HIDE DEF c
    <3>2. i \in 1 .. Cardinality(S)
      BY <1>4
    <3>3. QED
      BY <3>1, <3>2
  <2> HIDE DEF x
  <2>2. x.time \in Nat
    BY <1>1, <2>1
  <2>3. x.time <= t
    <3> SUFFICES ASSUME ~(x.time <= t) PROVE FALSE
      OBVIOUS
    <3> DEFINE A == EarlierOf(S, t + 1)
               B == EarlierOf(S, x.time)
    <3>1. A \in SUBSET B
      BY <1>1, <2>2 DEF EarlierOf
    <3>2. IsFiniteSet(B) /\ Cardinality(B) = i - 1 /\ Cardinality(A) = c
      BY <2>1, <2>2, EarlierRank
    <3> HIDE DEF A, B
    <3>3. Cardinality(A) <= Cardinality(B)
      BY <3>1, <3>2, FS_Subset
    <3> HIDE DEF c
    <3>4. QED
      BY <1>4, <3>2, <3>3
  <2>4. x \in K /\ EarlierOf(K, x.time) = EarlierOf(S, x.time)
    BY <1>1, <2>1, <2>2, <2>3 DEF EarlierOf
  <2>5. ByTime(K)[1 + Cardinality(EarlierOf(K, x.time))] = x
    BY <1>1, <2>4, RowsInOrder
  <2> HIDE DEF c
  <2>6. 1 + (i - 1) = i
    BY <1>4
  <2>7. QED
    BY <2>1, <2>4, <2>5, <2>6 DEF x
<1> HIDE DEF c
<1>6. QED
  BY <1>3, <1>4, <1>5

(* What the open interest confirmed was known.                             *)
LEMMA ConfirmedIsKnown ==
    ASSUME NEW S, OneEach(S), NEW T \in Nat, NEW t \in Nat, t <= T,
           NEW K, K = {o \in S : o.time <= T}, InterestSays(S, t) = "confirmed"
    PROVE  InterestSays(K, t) = "confirmed" /\ K # {}
<1> DEFINE current == InterestKnown(S, t)
           previous == current - Rules.oiLookback
<1>1. /\ InterestKnown(K, t) = current /\ current \in Nat
      /\ \A i \in 1 .. current : ByTime(K)[i] = ByTime(S)[i]
  BY KnownInOrder
<1>2. ~(previous < 1)
  BY DEF InterestSays
<1>3. Rules.oiLookback \in Nat \ {0}
  BY ValidatorsAssumption
<1>4. previous \in 1 .. current /\ current \in 1 .. current
  <2> HIDE DEF current
  <2>1. QED
    BY <1>1, <1>2, <1>3
<1>5. ByTime(K)[previous] = ByTime(S)[previous] /\ ByTime(K)[current] = ByTime(S)[current]
  BY <1>1, <1>4
<1>6. InterestSays(K, t) = "confirmed"
  BY <1>1, <1>5 DEF InterestSays
<1>7. K # {}
  <2> SUFFICES ASSUME K = {} PROVE FALSE
    OBVIOUS
  <2>1. {o \in K : o.time <= t} = {}
    OBVIOUS
  <2>2. current = 0
    BY <1>1, <2>1, FS_EmptySet DEF InterestKnown
  <2>3. QED
    BY <1>4, <2>2
<1>8. QED
  BY <1>6, <1>7

LEMMA HistoryOneEach ==
    ASSUME NEW rows \in SUBSET AllRows, NEW sym, NEW h, h = FundingHistoryOf(rows, sym)
    PROVE  /\ ~HasDuplicates(h.bars) => OneEach(h.bars)
           /\ ~HasDuplicates(h.funding) => OneEach(h.funding)
           /\ ~HasDuplicates(h.interest) => OneEach(h.interest)
<1>1. /\ h.bars = StrategyCandles(rows, sym)
      /\ h.funding = {r \in rows : r.series = CcxtFunding(sym)}
      /\ h.interest = {r \in rows : r.series = CcxtOpenInterest(sym)}
  BY DEF FundingHistoryOf
<1>2. h.bars \in SUBSET AllRows /\ h.funding \in SUBSET AllRows /\ h.interest \in SUBSET AllRows
  BY <1>1 DEF StrategyCandles
<1>3. \A r \in h.bars : r.series.type = "market_candle"
  BY <1>1 DEF StrategyCandles
<1>4. \A r \in h.funding : r.series.type = "funding_rate"
  BY <1>1 DEF CcxtFunding, Series
<1>5. \A r \in h.interest : r.series.type = "open_interest"
  BY <1>1 DEF CcxtOpenInterest, Series
<1>6. QED
  BY <1>2, <1>3, <1>4, <1>5, OneTypeOneEach

(* A trade of a history is that of one of its funding rates, and is also   *)
(* extracted when funding and open interest end with its entry.            *)
ExtractedHolds(rows, sym, t) ==
    LET h == FundingHistoryOf(rows, sym)
        known == {r \in rows : r.series.type = "market_candle" \/ r.time <= t.time}
        again == ExtractFromRecords(FundingHistoryOf(known, sym))
    IN /\ OneEach(h.bars) /\ \E f \in h.funding : f.time = t.funding
       /\ t.funding \in Nat /\ t.time \in Nat /\ t.until \in Nat
       /\ t.funding <= t.time /\ t.time < t.until
       /\ t.entry \in Nat /\ t.exit = t.entry + Rules.hold
       /\ \E b \in h.bars : b.time = t.time
       /\ \E b \in h.bars : b.time = t.until
       /\ \E j \in DOMAIN again : again[j] = t

LEMMA ExtractedTrades ==
    ASSUME NEW rows \in SUBSET AllRows, NEW sym, NEW k,
           k \in DOMAIN ExtractFromRecords(FundingHistoryOf(rows, sym))
    PROVE  ExtractedHolds(rows, sym, ExtractFromRecords(FundingHistoryOf(rows, sym))[k])
<1> DEFINE h == FundingHistoryOf(rows, sym)
           t == ExtractFromRecords(h)[k]
           known == {r \in rows : r.series.type = "market_candle" \/ r.time <= t.time}
           g == FundingHistoryOf(known, sym)
<1>1. /\ ~HasDuplicates(h.bars) /\ ~HasDuplicates(h.funding) /\ ~NonPositivePrice(h.bars, h.funding)
      /\ ExtractFromRecords(h) = ExtractTrades(h.bars, h.funding)
  BY DEF ExtractFromRecords
<1>2. OneEach(h.bars) /\ OneEach(h.funding)
  BY <1>1, HistoryOneEach
<1>3. \E f \in Traded(h.bars, h.funding) : t = TradeOf(h.bars, f)
  <2>1. k \in DOMAIN ExtractTrades(h.bars, h.funding) /\ t = ExtractTrades(h.bars, h.funding)[k]
    BY <1>1
  <2> HIDE DEF h, t
  <2>2. QED
    BY <1>2, <2>1, TradesInOrder
<1>4. PICK f \in Traded(h.bars, h.funding) : t = TradeOf(h.bars, f)
  BY <1>3
<1> HIDE DEF t
<1>5. f \in h.funding /\ f.time \in Nat /\ f \in Extremes(h.funding) /\ HasExit(h.bars, f)
  <2> HIDE DEF h
  <2>1. QED
    BY <1>2 DEF Traded, Extremes, OneEach
<1>6. /\ t.funding = f.time /\ t.time \in Nat /\ t.until \in Nat
      /\ f.time <= t.time /\ t.time < t.until
      /\ t.entry \in Nat /\ t.exit = t.entry + Rules.hold
      /\ \E b \in h.bars : b.time = t.time
      /\ \E b \in h.bars : b.time = t.until
  <2> HIDE DEF h
  <2>1. QED
    BY <1>2, <1>4, <1>5, TradeIsOfBars
<1>7. g.bars = h.bars /\ g.funding \in SUBSET h.funding /\ f \in g.funding
  <2>1. /\ h.bars = StrategyCandles(rows, sym) /\ g.bars = StrategyCandles(known, sym)
        /\ h.funding = {r \in rows : r.series = CcxtFunding(sym)}
        /\ g.funding = {r \in known : r.series = CcxtFunding(sym)}
    BY DEF FundingHistoryOf
  <2>2. g.bars = h.bars
    BY <2>1 DEF StrategyCandles
  <2>3. f \in known
    BY <1>5, <1>6, <2>1
  <2> HIDE DEF g, h
  <2>4. QED
    BY <1>5, <2>1, <2>2, <2>3
<1> HIDE DEF g, h
<1>8. Extremes(g.funding) \in SUBSET Extremes(h.funding) /\ f \in Extremes(g.funding)
  BY <1>5, <1>7 DEF Extremes
<1>9. ~HasDuplicates(g.bars) /\ ~HasDuplicates(g.funding) /\ ~NonPositivePrice(g.bars, g.funding)
  <2>1. ~NonPositivePrice(h.bars, g.funding)
    BY <1>1, <1>8 DEF NonPositivePrice
  <2>2. ~HasDuplicates(g.funding)
    BY <1>1, <1>7 DEF HasDuplicates
  <2>3. QED
    BY <1>1, <1>7, <2>1, <2>2
<1>10. ExtractFromRecords(g) = ExtractTrades(g.bars, g.funding)
  BY <1>9 DEF ExtractFromRecords
<1>11. OneEach(g.funding) /\ f \in Traded(g.bars, g.funding)
  BY <1>2, <1>5, <1>7, <1>8, SomeOfOneEach DEF Traded
<1>12. \E j \in DOMAIN ExtractFromRecords(g) : ExtractFromRecords(g)[j] = t
  <2>1. \E j \in DOMAIN ExtractTrades(g.bars, g.funding) : ExtractTrades(g.bars, g.funding)[j] = TradeOf(g.bars, f)
    BY <1>11, TradesInOrder
  <2>2. TradeOf(g.bars, f) = t
    BY <1>4, <1>7
  <2>3. QED
    BY <1>10, <2>1, <2>2
<1>13. QED
  BY <1>2, <1>5, <1>6, <1>12 DEF ExtractedHolds, g, h, t

(* The same for the trades of a paper run, that the open interest confirms.*)
PaperHolds(family, rows, sym, t) ==
    LET again == PaperTrades(family, {r \in rows : r.series.type = "market_candle" \/ r.time <= t.time}, sym)
    IN /\ ExtractedHolds(rows, sym, t)
       /\ \E j \in DOMAIN again : again[j] = t

Numbered(s) == \E n \in Nat : DOMAIN s = 1 .. n

LEMMA ConfirmedOf ==
    ASSUME NEW trades, Numbered(trades), NEW interest
    PROVE  /\ \A i \in DOMAIN ConfirmedTrades(trades, interest) : \E k \in DOMAIN trades :
                 /\ ConfirmedTrades(trades, interest)[i] = trades[k]
                 /\ InterestSays(interest, trades[k].funding) = "confirmed"
           /\ \A k \in DOMAIN trades : InterestSays(interest, trades[k].funding) = "confirmed" =>
                 \E i \in DOMAIN ConfirmedTrades(trades, interest) : ConfirmedTrades(trades, interest)[i] = trades[k]
<1> DEFINE chosen == {k \in DOMAIN trades : InterestSays(interest, trades[k].funding) = "confirmed"}
<1>2. Numbers(chosen)
  <2>1. PICK n \in Nat : DOMAIN trades = 1 .. n
    BY DEF Numbered
  <2>2. chosen \in SUBSET (1 .. n) /\ IsFiniteSet(1 .. n)
    BY <2>1, FS_Interval
  <2> HIDE DEF chosen
  <2>3. IsFiniteSet(chosen)
    BY <2>2, FS_Subset
  <2>4. 1 .. n \in SUBSET Nat
    OBVIOUS
  <2>5. QED
    BY <2>2, <2>3, <2>4 DEF Numbers
<1>3. ConfirmedTrades(trades, interest) = Picked(trades, chosen)
  BY DEF ConfirmedTrades
<1>4. /\ \A i \in DOMAIN Picked(trades, chosen) : \E k \in chosen : Picked(trades, chosen)[i] = trades[k]
      /\ \A k \in chosen : \E i \in DOMAIN Picked(trades, chosen) : Picked(trades, chosen)[i] = trades[k]
  <2> HIDE DEF chosen
  <2>1. QED
    BY <1>2, PickedElements
<1>5. QED
  BY <1>3, <1>4

LEMMA ExtractedList ==
    ASSUME NEW rows \in SUBSET AllRows, NEW sym
    PROVE  Numbered(ExtractFromRecords(FundingHistoryOf(rows, sym)))
<1> DEFINE h == FundingHistoryOf(rows, sym)
<1>1. CASE HasDuplicates(h.bars) \/ HasDuplicates(h.funding) \/ NonPositivePrice(h.bars, h.funding)
  <2>1. ExtractFromRecords(h) = <<>>
    BY <1>1 DEF ExtractFromRecords
  <2>2. DOMAIN <<>> = 1 .. 0
    OBVIOUS
  <2>3. QED
    BY <2>1, <2>2 DEF Numbered
<1>2. CASE ~(HasDuplicates(h.bars) \/ HasDuplicates(h.funding) \/ NonPositivePrice(h.bars, h.funding))
  <2>1. ExtractFromRecords(h) = ExtractTrades(h.bars, h.funding)
    BY <1>2 DEF ExtractFromRecords
  <2>2. OneEach(h.funding)
    BY <1>2, HistoryOneEach
  <2> HIDE DEF h
  <2>3. QED
    BY <2>1, <2>2, TradesInOrder DEF h, Numbered
<1>3. QED
  BY <1>1, <1>2

LEMMA PaperTradesHold ==
    ASSUME NEW family \in FundingFamilies, NEW rows \in SUBSET AllRows, NEW sym, NEW k,
           k \in DOMAIN PaperTrades(family, rows, sym)
    PROVE  PaperHolds(family, rows, sym, PaperTrades(family, rows, sym)[k])
<1> DEFINE h == FundingHistoryOf(rows, sym)
           t == PaperTrades(family, rows, sym)[k]
           known == {r \in rows : r.series.type = "market_candle" \/ r.time <= t.time}
           g == FundingHistoryOf(known, sym)
<1>1. CASE family # "funding_open_interest_crowding"
  <2>1. PaperTrades(family, rows, sym) = ExtractFromRecords(h)
        /\ PaperTrades(family, known, sym) = ExtractFromRecords(g)
    BY <1>1 DEF PaperTrades
  <2>2. ExtractedHolds(rows, sym, t)
    BY <2>1, ExtractedTrades
  <2>3. QED
    BY <2>1, <2>2 DEF ExtractedHolds, PaperHolds
<1>2. CASE family = "funding_open_interest_crowding"
  <2>1. PaperTrades(family, rows, sym) = ExtractCrowdingTrades(h)
        /\ PaperTrades(family, known, sym) = ExtractCrowdingTrades(g)
    BY <1>2 DEF PaperTrades
  <2>2. ~HasDuplicates(h.interest) /\ ExtractCrowdingTrades(h) = ConfirmedTrades(ExtractFromRecords(h), h.interest)
    BY <2>1 DEF ExtractCrowdingTrades
  <2>3. OneEach(h.interest)
    BY <2>2, HistoryOneEach
  <2>4. PICK i \in DOMAIN ExtractFromRecords(h) :
           t = ExtractFromRecords(h)[i] /\ InterestSays(h.interest, t.funding) = "confirmed"
    <3>1. Numbered(ExtractFromRecords(h))
      BY ExtractedList
    <3>2. k \in DOMAIN ConfirmedTrades(ExtractFromRecords(h), h.interest)
          /\ t = ConfirmedTrades(ExtractFromRecords(h), h.interest)[k]
      BY <2>1, <2>2
    <3> HIDE DEF t, h
    <3>3. QED
      BY <3>1, <3>2, ConfirmedOf
  <2>5. ExtractedHolds(rows, sym, t)
    BY <2>4, ExtractedTrades
  <2> HIDE DEF t
  <2>6. t.funding \in Nat /\ t.time \in Nat /\ t.funding <= t.time
    BY <2>5 DEF ExtractedHolds
  <2>7. g.interest = {o \in h.interest : o.time <= t.time}
    <3>1. h.interest = {r \in rows : r.series = CcxtOpenInterest(sym)}
          /\ g.interest = {r \in known : r.series = CcxtOpenInterest(sym)}
      BY DEF FundingHistoryOf
    <3>2. CcxtOpenInterest(sym).type # "market_candle"
      BY DEF CcxtOpenInterest, Series
    <3> HIDE DEF g, h
    <3>3. QED
      BY <3>1, <3>2
  <2>8. PICK j \in DOMAIN ExtractFromRecords(g) : ExtractFromRecords(g)[j] = t
    BY <2>5 DEF ExtractedHolds
  <2>9. Numbered(ExtractFromRecords(g))
    <3>1. known \in SUBSET AllRows
      OBVIOUS
    <3> HIDE DEF known
    <3>2. QED
      BY <3>1, ExtractedList
  <2> HIDE DEF g, h
  <2>10. InterestSays(g.interest, t.funding) = "confirmed" /\ g.interest # {}
    BY <2>3, <2>4, <2>6, <2>7, ConfirmedIsKnown
  <2>11. ~HasDuplicates(g.interest)
    BY <2>2, <2>7 DEF HasDuplicates
  <2>12. ExtractCrowdingTrades(g) = ConfirmedTrades(ExtractFromRecords(g), g.interest)
    BY <2>10, <2>11 DEF ExtractCrowdingTrades
  <2>13. \E q \in DOMAIN ConfirmedTrades(ExtractFromRecords(g), g.interest) :
            ConfirmedTrades(ExtractFromRecords(g), g.interest)[q] = t
    BY <2>8, <2>9, <2>10, ConfirmedOf
  <2>14. \E q \in DOMAIN PaperTrades(family, known, sym) : PaperTrades(family, known, sym)[q] = t
    BY <2>1, <2>12, <2>13
  <2>15. QED
    BY <2>5, <2>14 DEF PaperHolds, t
<1>3. QED
  BY <1>1, <1>2

(* The entries of a bootstrap that passed hold what their families' rows   *)
(* in the window give.                                                     *)
EntryHolds(c, f) ==
    /\ DOMAIN f = EntryFields /\ f.seen \in SUBSET AllRows
    /\ SupportsPaper(f.family) /\ f.validation.reasons = {} =>
          f.validation = ValidateFamilyOn(f.family, RowsInWindow(f), Commands[c].symbol, Commands[c].capital)

EntriesInv == \A c \in Cmds : \A i \in DOMAIN families[c] : EntryHolds(c, families[c][i])

(* One trade of a passing validation, as ValidatedTradesHold has it.       *)
TradeHolds(family, rows, sym, start, end, t) ==
    LET candles == StrategyCandles(rows, sym)
        again == PaperTrades(family, {r \in rows : r.series.type = "market_candle" \/ r.time <= t.time}, sym)
    IN /\ start <= t.funding /\ t.funding <= t.time /\ t.time < t.until /\ t.until < end
       /\ \A u \in {t.time, t.until} : Cardinality({r \in candles : r.time = u}) = 1
       /\ Cardinality({q \in TestFolds(Cardinality(candles)) : InFold(t, q)}) <= 1
       /\ \E j \in DOMAIN again : again[j] = t

LEMMA OneAtATime ==
    ASSUME NEW S, OneEach(S), NEW u, \E b \in S : b.time = u
    PROVE  Cardinality({r \in S : r.time = u}) = 1
<1>1. PICK b \in S : b.time = u
  OBVIOUS
<1>2. {r \in S : r.time = u} = {b}
  BY <1>1 DEF OneEach
<1>3. QED
  BY <1>2, FS_Singleton

LEMMA TradesHoldInWindow ==
    ASSUME NEW family \in FundingFamilies, NEW sym, NEW start, NEW end, NEW rows \in SUBSET AllRows,
           \A r \in rows : start <= r.time /\ r.time < end,
           Validator(family, rows, sym).reasons = {}, NEW k \in DOMAIN Validator(family, rows, sym).trades
    PROVE  TradeHolds(family, rows, sym, start, end, Validator(family, rows, sym).trades[k])
<1> DEFINE t == Validator(family, rows, sym).trades[k]
           h == FundingHistoryOf(rows, sym)
<1>1. PaperHolds(family, rows, sym, t)
  <2>1. PaperTrades(family, rows, sym) = Validator(family, rows, sym).trades
    BY SameTrades
  <2>2. QED
    BY <2>1, PaperTradesHold
<1> HIDE DEF t
<1>2. ExtractedHolds(rows, sym, t)
  BY <1>1 DEF PaperHolds
<1>3. h.bars = StrategyCandles(rows, sym) /\ h.bars \in SUBSET rows /\ h.funding \in SUBSET rows
  BY DEF FundingHistoryOf, StrategyCandles
<1>4. /\ OneEach(h.bars) /\ \E f \in h.funding : f.time = t.funding
      /\ t.funding <= t.time /\ t.time < t.until
      /\ t.entry \in Nat /\ t.exit = t.entry + Rules.hold
      /\ \E b \in h.bars : b.time = t.time
      /\ \E b \in h.bars : b.time = t.until
  BY <1>2 DEF ExtractedHolds
<1> HIDE DEF h
<1>5. start <= t.funding /\ t.until < end
  BY <1>3, <1>4
<1>6. ASSUME NEW u \in {t.time, t.until} PROVE Cardinality({r \in h.bars : r.time = u}) = 1
  <2> DEFINE S == h.bars
  <2>1. OneEach(S) /\ \E b \in S : b.time = u
    BY <1>4
  <2> HIDE DEF S
  <2>2. Cardinality({r \in S : r.time = u}) = 1
    BY <2>1, OneAtATime
  <2>3. QED
    BY <2>2 DEF S
<1>7. Cardinality({q \in TestFolds(Cardinality(h.bars)) : InFold(t, q)}) <= 1
  BY <1>4, FoldsAreApart
<1>8. QED
  BY <1>1, <1>3, <1>4, <1>5, <1>6, <1>7 DEF TradeHolds, PaperHolds, t

LEMMA PassingEntryHolds ==
    ASSUME NEW c, NEW f, EntryHolds(c, f), SupportsPaper(f.family), f.validation.reasons = {},
           NEW k \in DOMAIN f.validation.trades
    PROVE  TradeHolds(f.family, RowsInWindow(f), Commands[c].symbol, f.start, f.end, f.validation.trades[k])
<1> DEFINE rows == RowsInWindow(f)
           sym == Commands[c].symbol
<1>1. f.family \in FundingFamilies
  BY DEF SupportsPaper
<1>2. rows \in SUBSET AllRows /\ \A r \in rows : f.start <= r.time /\ r.time < f.end
  BY DEF EntryHolds, RowsInWindow
<1>3. f.validation = ValidateFamilyOn(f.family, rows, sym, Commands[c].capital)
  BY DEF EntryHolds
<1> HIDE DEF rows, sym
<1>4. f.validation = Validator(f.family, rows, sym)
  <2>1. Verdict(<<>>, {"insufficient_current_capital"}).reasons # {}
    BY DEF Verdict
  <2>2. QED
    BY <1>3, <2>1 DEF ValidateFamilyOn
<1>5. TradeHolds(f.family, rows, sym, f.start, f.end, f.validation.trades[k])
  BY <1>1, <1>2, <1>4, TradesHoldInWindow
<1>6. QED
  BY <1>5 DEF rows, sym

LEMMA EntriesInit == DataInit => EntriesInv
  BY DEF DataInit, EntriesInv

LEMMA VerdictsAreRecords ==
    ASSUME NEW family \in FundingFamilies, NEW rows, NEW sym, NEW capital
    PROVE  \E trades, reasons : ValidateFamilyOn(family, rows, sym, capital) = Verdict(trades, reasons)
<1>1. \E trades, reasons : ValidateFundingPrice(rows, sym) = Verdict(trades, reasons)
  BY DEF ValidateFundingPrice
<1>2. \E trades, reasons : ValidateFundingOiCrowding(rows, sym) = Verdict(trades, reasons)
  BY DEF ValidateFundingOiCrowding
<1>3. \E trades, reasons : Validator(family, rows, sym) = Verdict(trades, reasons)
  BY <1>1, <1>2 DEF Validator, ValidateFundingMeanReversion, FundingFamilies
<1>4. QED
  BY <1>3 DEF ValidateFamilyOn

(* Each step adds, completes or classifies entries of one command.         *)
LEMMA EntriesOfOne ==
    ASSUME FamiliesInv, EntriesInv, NEW c \in Cmds, NEW g, families' = [families EXCEPT ![c] = g],
           \A i \in DOMAIN g : EntryHolds(c, g[i])
    PROVE  EntriesInv'
<1>1. families'[c] = g /\ \A d \in Cmds : d # c => families'[d] = families[d]
  BY DEF FamiliesInv
<1>2. QED
  BY <1>1 DEF EntriesInv

LEMMA ValidatedHolds ==
    ASSUME StoredInv, FamiliesInv, EntriesInv, NEW c \in Cmds, ValidateFamily(c)
    PROVE  EntriesInv'
<1> DEFINE step == Head(todo[c])
           rows == LoadRecords(table, step.start, step.end)
           entry == [family |-> step.family, start |-> step.start, end |-> step.end, seen |-> RowsOf(table),
                     paperSeen |-> {}, outcomes |-> <<>>, class |-> "none",
                     validation |-> ValidateFamilyOn(step.family, rows, Commands[c].symbol, Commands[c].capital)]
<1>1. families' = [families EXCEPT ![c] = Append(families[c], entry)]
  BY DEF ValidateFamily, FamiliesInv
<1>2. EntryHolds(c, entry)
  <2>1. RowsOf(table) \in SUBSET AllRows
    BY DEF StoredInv, TableOfRows, RowsOf
  <2>2. RowsInWindow(entry) = rows
    BY DEF RowsInWindow, LoadRecords
  <2>3. DOMAIN entry = EntryFields /\ entry.seen = RowsOf(table) /\ entry.family = step.family
        /\ entry.validation = ValidateFamilyOn(step.family, rows, Commands[c].symbol, Commands[c].capital)
    BY DEF EntryFields
  <2> HIDE DEF entry, rows
  <2>4. QED
    BY <2>1, <2>2, <2>3 DEF EntryHolds
<1> HIDE DEF entry
<1>3. \A i \in DOMAIN Append(families[c], entry) : EntryHolds(c, Append(families[c], entry)[i])
  <2>1. IsList(families[c]) /\ \A i \in DOMAIN families[c] : EntryHolds(c, families[c][i])
    BY DEF FamiliesInv, EntriesInv
  <2>2. QED
    BY <1>2, <2>1, AppendToList
<1>4. QED
  BY <1>1, <1>3, EntriesOfOne

LEMMA PaperedHolds ==
    ASSUME FamiliesInv, EntriesInv, NEW c \in Cmds, PaperFamily(c)
    PROVE  EntriesInv'
<1> DEFINE n == Len(families[c])
           old == families[c][n]
           blocked == [old.validation EXCEPT !.reasons = @ \cup {"paper_simulation_error"}]
<1>1. n \in DOMAIN families[c] /\ Awaiting(c, old) /\ EntryHolds(c, old) /\ IsList(families[c])
  BY DEF FamiliesInv, EntriesInv, PaperFamily
<1>2. PICK new : /\ families' = [families EXCEPT ![c] = [families[c] EXCEPT ![n] = new]]
                 /\ \/ \E seen, tried : new = [old EXCEPT !.paperSeen = seen, !.outcomes = tried]
                    \/ new = [old EXCEPT !.validation = blocked]
  <2>1. CASE \E seen, tried : families' = [families EXCEPT ![c][n].paperSeen = seen, ![c][n].outcomes = tried]
    <3>1. PICK seen, tried : families' = [families EXCEPT ![c][n].paperSeen = seen, ![c][n].outcomes = tried]
      BY <2>1
    <3>2. families' = [families EXCEPT ![c] = [families[c] EXCEPT ![n] =
                         [old EXCEPT !.paperSeen = seen, !.outcomes = tried]]]
      BY <3>1
    <3>3. QED
      BY <3>2
  <2>2. CASE families' = [families EXCEPT ![c][n].validation.reasons = @ \cup {"paper_simulation_error"}]
    <3>1. families' = [families EXCEPT ![c] = [families[c] EXCEPT ![n] = [old EXCEPT !.validation = blocked]]]
      BY <2>2
    <3>2. QED
      BY <3>1
  <2>3. QED
    BY <2>1, <2>2 DEF PaperFamily
<1>3. blocked.reasons # {}
  <2> DEFINE step == Head(todo[c])
             rows == {r \in old.seen : step.start <= r.time /\ r.time < step.end}
  <2>1. step.family \in FundingFamilies
        /\ old.validation = ValidateFamilyOn(step.family, rows, Commands[c].symbol, Commands[c].capital)
    BY <1>1 DEF Awaiting, SupportsPaper
  <2> HIDE DEF step, rows
  <2>2. \E trades, reasons : old.validation = Verdict(trades, reasons)
    BY <2>1, VerdictsAreRecords
  <2>3. QED
    BY <2>2 DEF Verdict
<1>4. EntryHolds(c, new)
  <2>1. DOMAIN old = EntryFields /\ old.seen \in SUBSET AllRows
    BY <1>1 DEF EntryHolds
  <2>2. CASE new = [old EXCEPT !.validation = blocked]
    <3> HIDE DEF blocked, old
    <3>1. DOMAIN new = EntryFields /\ new.seen = old.seen /\ new.validation = blocked
      BY <2>1, <2>2 DEF EntryFields
    <3>2. QED
      BY <1>3, <2>1, <3>1 DEF EntryHolds
  <2>3. CASE \E seen, tried : new = [old EXCEPT !.paperSeen = seen, !.outcomes = tried]
    <3> HIDE DEF old
    <3>1. /\ DOMAIN new = EntryFields /\ new.seen = old.seen /\ new.validation = old.validation
          /\ new.family = old.family /\ new.start = old.start /\ new.end = old.end
      BY <2>1, <2>3 DEF EntryFields
    <3>2. QED
      BY <1>1, <3>1 DEF EntryHolds, RowsInWindow
  <2>4. QED
    BY <1>2, <2>2, <2>3
<1> HIDE DEF n, old, blocked
<1>5. \A i \in DOMAIN [families[c] EXCEPT ![n] = new] : EntryHolds(c, [families[c] EXCEPT ![n] = new][i])
  BY <1>1, <1>4 DEF EntriesInv, IsList
<1>6. QED
  BY <1>2, <1>5, EntriesOfOne

LEMMA FinishedHolds ==
    ASSUME FamiliesInv, EntriesInv, NEW c \in Cmds, Finish(c)
    PROVE  EntriesInv'
<1>1. families' = [families EXCEPT ![c] = Classified(c)]
  BY DEF Finish
<1>2. DOMAIN Classified(c) = DOMAIN families[c]
  BY DEF Classified
<1>3. ASSUME NEW i \in DOMAIN families[c] PROVE EntryHolds(c, Classified(c)[i])
  <2> DEFINE old == families[c][i]
             new == Classified(c)[i]
  <2>1. EntryHolds(c, old)
    BY DEF EntriesInv
  <2>2. \E class : new = [old EXCEPT !.class = class]
    BY DEF Classified
  <2> HIDE DEF old, new
  <2>3. /\ DOMAIN new = EntryFields /\ new.seen = old.seen /\ new.validation = old.validation
        /\ new.family = old.family /\ new.start = old.start /\ new.end = old.end
    BY <2>1, <2>2 DEF EntryHolds, EntryFields
  <2>4. EntryHolds(c, new)
    BY <2>1, <2>3 DEF EntryHolds, RowsInWindow
  <2>5. QED
    BY <2>4 DEF new
<1>4. QED
  BY <1>1, <1>2, <1>3, EntriesOfOne

LEMMA EntriesStep == StoredInv /\ FamiliesInv /\ EntriesInv /\ [DataNext]_dataVars => EntriesInv'
<1>1. ASSUME NEW c \in Cmds,
             \/ Begin(c) \/ Fetch(c) \/ Store(c) \/ SayHealth(c) \/ Snapshot(c) \/ Probe(c) \/ Kill(c)
             \/ ReadUniverse(c) \/ ReadRecords(c) \/ ReadScreen(c) \/ Judge(c) \/ StrategyLab(c)
      PROVE  families' = families
  BY <1>1 DEF Begin, Fetch, Store, SayHealth, Snapshot, Probe, Kill, ReadUniverse, ReadRecords,
              ReadScreen, Judge, StrategyLab
<1>2. EntriesInv /\ families' = families => EntriesInv'
  BY DEF EntriesInv
<1>3. StoredInv /\ FamiliesInv /\ EntriesInv /\ DataNext => EntriesInv'
  BY <1>1, <1>2, ValidatedHolds, PaperedHolds, FinishedHolds DEF DataNext
<1>4. EntriesInv /\ UNCHANGED dataVars => EntriesInv'
  BY <1>2 DEF dataVars
<1>5. QED
  BY <1>3, <1>4

(* A funding validation that passes holds: its trades lie inside the       *)
(* window, in order, on times with one candle, in at most one test fold    *)
(* each, and each would be made on the funding and open interest known     *)
(* when it is entered, however the commands overlap (validation/           *)
(* funding_price.py, strategy/funding_oi_crowding.py,                      *)
(* pipeline/historical_bootstrap.py).                                      *)
THEOREM PassingValidationsHold == DataSpec => []ValidatedTradesHold
<1>1. active \subseteq Cmds /\ EntriesInv => ValidatedTradesHold
  <2> SUFFICES ASSUME active \subseteq Cmds, EntriesInv, NEW c \in active, NEW i \in DOMAIN families[c],
                      SupportsPaper(families[c][i].family), families[c][i].validation.reasons = {},
                      NEW k \in DOMAIN families[c][i].validation.trades
               PROVE  TradeHolds(families[c][i].family, RowsInWindow(families[c][i]), Commands[c].symbol,
                                 families[c][i].start, families[c][i].end,
                                 families[c][i].validation.trades[k])
    BY DEF ValidatedTradesHold, TradeHolds
  <2>1. EntryHolds(c, families[c][i])
    BY DEF EntriesInv
  <2>2. QED
    BY <2>1, PassingEntryHolds
<1>2. DataSpec => []StoredInv
  BY StoredAlways
<1>3. DataSpec => []FamiliesInv
  BY FamiliesInit, FamiliesStep, PTL DEF DataSpec
<1>4. DataSpec => []EntriesInv
  BY <1>2, <1>3, EntriesInit, EntriesStep, PTL DEF DataSpec
<1>5. QED
  BY <1>1, <1>4, ActiveAreCommands, PTL

----------------------------------------------------------------------------
(* Lists put one after the other have the elements of the lists.           *)

LEMMA PlacesAreOrdered ==
    ASSUME NEW P, IsFiniteSet(P), P \in SUBSET (Nat \X Nat),
           NEW R, R = {x \in P \X P : x[1][1] < x[2][1] \/ (x[1][1] = x[2][1] /\ x[1][2] < x[2][2])}
    PROVE  Orders(R, P)
<1>1. \A x \in P : \E a, b \in Nat : x = <<a, b>>
  OBVIOUS
<1>2. \A x, y \in P : <<x, y>> \in R <=> (x[1] < y[1] \/ (x[1] = y[1] /\ x[2] < y[2]))
  OBVIOUS
<1>3. \A x \in P : <<x, x>> \notin R
  BY <1>1, <1>2
<1>4. ASSUME NEW x \in P, NEW y \in P, NEW z \in P, <<x, y>> \in R, <<y, z>> \in R
      PROVE  <<x, z>> \in R
  <2>1. /\ x[1] \in Nat /\ x[2] \in Nat /\ y[1] \in Nat /\ y[2] \in Nat /\ z[1] \in Nat /\ z[2] \in Nat
    BY <1>1
  <2>2. (x[1] < y[1] \/ (x[1] = y[1] /\ x[2] < y[2])) /\ (y[1] < z[1] \/ (y[1] = z[1] /\ y[2] < z[2]))
    BY <1>2, <1>4
  <2>3. x[1] < z[1] \/ (x[1] = z[1] /\ x[2] < z[2])
    BY <2>1, <2>2
  <2>4. QED
    BY <1>2, <2>3
<1>5. ASSUME NEW x \in P, NEW y \in P PROVE x = y \/ <<x, y>> \in R \/ <<y, x>> \in R
  <2>1. PICK a \in Nat, b \in Nat : x = <<a, b>>
    BY <1>1
  <2>2. PICK c \in Nat, d \in Nat : y = <<c, d>>
    BY <1>1
  <2>3. (a = c /\ b = d) \/ a < c \/ (a = c /\ b < d) \/ c < a \/ (c = a /\ d < b)
    BY <2>1, <2>2
  <2>4. QED
    BY <1>2, <2>1, <2>2, <2>3
<1>6. QED
  BY <1>3, <1>4, <1>5 DEF Orders

LEMMA JoinedElements ==
    ASSUME NEW lists, IsList(lists), \A i \in DOMAIN lists : IsList(lists[i])
    PROVE  /\ IsList(Joined(lists))
           /\ \A i \in DOMAIN lists : \A j \in DOMAIN lists[i] :
                 \E k \in DOMAIN Joined(lists) : Joined(lists)[k] = lists[i][j]
<1> DEFINE P == UNION {{i} \X DOMAIN lists[i] : i \in DOMAIN lists}
           R == {x \in P \X P : x[1][1] < x[2][1] \/ (x[1][1] = x[2][1] /\ x[1][2] < x[2][2])}
           order == InOrder(P, LAMBDA p, q : p[1] < q[1] \/ (p[1] = q[1] /\ p[2] < q[2]))
           below(p) == {q \in P : q[1] < p[1] \/ (q[1] = p[1] /\ q[2] < p[2])}
<1>1. PICK n \in Nat : DOMAIN lists = 1 .. n
  BY DEF IsList
<1>2. \A i \in DOMAIN lists : \E m \in Nat : DOMAIN lists[i] = 1 .. m
  BY DEF IsList
<1>3. \A i \in DOMAIN lists : \A j \in DOMAIN lists[i] : <<i, j>> \in P
  OBVIOUS
<1>4. \A p \in P : p[1] \in DOMAIN lists /\ p[2] \in DOMAIN lists[p[1]] /\ p \in Nat \X Nat
  BY <1>1, <1>2
<1>5. IsFiniteSet(P)
  <2> DEFINE row(i) == {i} \X DOMAIN lists[i]
             rows == {row(i) : i \in DOMAIN lists}
  <2>1. \A i \in DOMAIN lists : IsFiniteSet(row(i))
    <3> SUFFICES ASSUME NEW i \in DOMAIN lists PROVE IsFiniteSet({i} \X DOMAIN lists[i])
      OBVIOUS
    <3>1. PICK m \in Nat : DOMAIN lists[i] = 1 .. m
      BY <1>2
    <3>2. IsFiniteSet(1 .. m)
      BY FS_Interval
    <3> DEFINE A == {i}
               B == DOMAIN lists[i]
    <3>3. IsFiniteSet(A) /\ IsFiniteSet(B)
      BY <3>1, <3>2, FS_Singleton
    <3> HIDE DEF A, B
    <3>4. IsFiniteSet(A \X B)
      BY <3>3, FS_Product
    <3>5. QED
      BY <3>4 DEF A, B
  <2>2. IsFiniteSet(DOMAIN lists)
    BY <1>1, FS_Interval
  <2>3. IsFiniteSet(rows)
    <3> DEFINE f == [i \in DOMAIN lists |-> row(i)]
    <3>1. f \in Surjection(DOMAIN lists, rows)
      <4> HIDE DEF row
      <4>1. QED
        BY DEF Surjection
    <3> HIDE DEF f, rows
    <3>2. QED
      BY <2>2, <3>1, FS_Surjection
  <2>4. \A T \in rows : IsFiniteSet(T)
    BY <2>1
  <2> HIDE DEF rows
  <2>5. IsFiniteSet(UNION rows)
    BY <2>3, <2>4, FS_UNION
  <2>6. QED
    BY <2>5 DEF rows
<1>6. Orders(R, P)
  <2>1. P \in SUBSET (Nat \X Nat)
    BY <1>4
  <2> HIDE DEF P
  <2>2. QED
    BY <1>5, <2>1, PlacesAreOrdered
<1>7. \A p \in P : Below(R, P, p) = below(p)
  <2> HIDE DEF P
  <2>1. QED
    BY DEF Below
<1>8. order = [i \in 1 .. Cardinality(P) |-> CHOOSE p \in P : Cardinality(below(p)) = i - 1]
  <2> HIDE DEF P
  <2>1. QED
    BY DEF InOrder
<1>9. Joined(lists) = [k \in DOMAIN order |-> lists[order[k][1]][order[k][2]]]
  BY DEF Joined
<1> HIDE DEF P, R, order, below
<1>10. InPlace(order, R, P)
  BY <1>7, <1>8 DEF InPlace
<1>11. /\ DOMAIN order = 1 .. Cardinality(P) /\ Cardinality(P) \in Nat
       /\ \A p \in P : \E k \in DOMAIN order : order[k] = p
  BY <1>6, <1>10, OrderedElements
<1>12. IsList(Joined(lists))
  BY <1>9, <1>11 DEF IsList
<1>13. ASSUME NEW i \in DOMAIN lists, NEW j \in DOMAIN lists[i]
       PROVE  \E k \in DOMAIN Joined(lists) : Joined(lists)[k] = lists[i][j]
  <2>1. PICK k \in DOMAIN order : order[k] = <<i, j>>
    BY <1>3, <1>11
  <2>2. QED
    BY <1>9, <2>1
<1>14. QED
  BY <1>12, <1>13

LEMMA ListsAreSequences ==
    ASSUME NEW s, IsList(s), NEW S, \A i \in DOMAIN s : s[i] \in S
    PROVE  s \in Seq(S) /\ Len(s) \in Nat /\ DOMAIN s = 1 .. Len(s)
<1>1. PICK n \in Nat : s = [i \in 1 .. n |-> s[i]]
  BY DEF IsList
<1>2. DOMAIN s = 1 .. n
  BY <1>1
<1>3. s \in [1 .. n -> S]
  BY <1>1, <1>2
<1>4. s \in Seq(S)
  BY <1>3
<1>5. QED
  BY <1>4, LenProperties

LEMMA SequencesAreLists ==
    ASSUME NEW S, NEW s \in Seq(S)
    PROVE  IsList(s)
<1>1. s \in [1 .. Len(s) -> S] /\ Len(s) \in Nat
  BY LenProperties
<1>2. QED
  BY <1>1 DEF IsList

LEMMA ConcatenatedElements ==
    ASSUME NEW s, IsList(s), NEW t, IsList(t)
    PROVE  IsList(s \o t) /\ \A k \in DOMAIN s : k \in DOMAIN (s \o t) /\ (s \o t)[k] = s[k]
<1> DEFINE S == {s[i] : i \in DOMAIN s} \cup {t[i] : i \in DOMAIN t}
<1>1. (\A i \in DOMAIN s : s[i] \in S) /\ \A i \in DOMAIN t : t[i] \in S
  OBVIOUS
<1> HIDE DEF S
<1>2. /\ s \in Seq(S) /\ Len(s) \in Nat /\ DOMAIN s = 1 .. Len(s)
      /\ t \in Seq(S) /\ Len(t) \in Nat
  BY <1>1, ListsAreSequences
<1>3. /\ s \o t \in Seq(S) /\ Len(s \o t) = Len(s) + Len(t)
      /\ \A i \in 1 .. Len(s) + Len(t) : (s \o t)[i] = IF i <= Len(s) THEN s[i] ELSE t[i - Len(s)]
  BY <1>2, ConcatProperties
<1>4. DOMAIN (s \o t) = 1 .. Len(s) + Len(t)
  BY <1>3, LenProperties
<1>5. IsList(s \o t)
  BY <1>3, SequencesAreLists
<1>6. \A k \in DOMAIN s : k \in 1 .. Len(s) + Len(t) /\ k <= Len(s)
  BY <1>2
<1>7. QED
  BY <1>3, <1>4, <1>5, <1>6

LEMMA RestOfList ==
    ASSUME NEW s, IsList(s), s # <<>>
    PROVE  /\ IsList(Tail(s)) /\ 1 \in DOMAIN s /\ s[1] = Head(s)
           /\ \A k \in DOMAIN s : k = 1 \/ (k - 1 \in DOMAIN Tail(s) /\ Tail(s)[k - 1] = s[k])
<1> DEFINE S == {s[i] : i \in DOMAIN s}
<1>1. \A i \in DOMAIN s : s[i] \in S
  OBVIOUS
<1> HIDE DEF S
<1>2. s \in Seq(S) /\ Len(s) \in Nat /\ DOMAIN s = 1 .. Len(s)
  BY <1>1, ListsAreSequences
<1>3. /\ Head(s) \in S /\ Tail(s) \in Seq(S) /\ Len(Tail(s)) = Len(s) - 1
      /\ \A i \in 1 .. Len(Tail(s)) : Tail(s)[i] = s[i + 1]
  BY <1>2, HeadTailProperties
<1>4. IsList(Tail(s))
  BY <1>3, SequencesAreLists
<1>5. Len(s) # 0
  BY <1>2, EmptySeq
<1>6. DOMAIN Tail(s) = 1 .. Len(s) - 1
  BY <1>3, LenProperties
<1>7. \A k \in DOMAIN s : k = 1 \/ (k - 1 \in 1 .. Len(s) - 1 /\ (k - 1) + 1 = k)
  BY <1>2
<1>8. s[1] = Head(s) /\ 1 \in DOMAIN s
  BY <1>2, <1>5
<1>9. QED
  BY <1>3, <1>4, <1>6, <1>7, <1>8

----------------------------------------------------------------------------
(* What a networked bootstrap has to collect for a candle to be stored.    *)

(* The multiple of b at or below a number.                                 *)
LEMMA MultipleBelow ==
    ASSUME NEW a \in Nat, NEW b \in Nat \ {0}
    PROVE  /\ a \div b \in Nat /\ (a \div b) * b <= a /\ a < (a \div b + 1) * b
  OBVIOUS

LEMMA OneMultipleBelow ==
    ASSUME NEW a \in Nat, NEW b \in Nat \ {0}, NEW q \in Nat, q * b <= a, a < (q + 1) * b
    PROVE  a \div b = q
  OBVIOUS

LEMMA QuotientsGrow ==
    ASSUME NEW a \in Nat, NEW c \in Nat, a <= c, NEW b \in Nat \ {0}
    PROVE  (a \div b) * b <= (c \div b) * b
  OBVIOUS

LEMMA ExtremesOfTwo ==
    ASSUME NEW a \in Nat, NEW b \in Nat
    PROVE  /\ Max({a, b}) \in {a, b} /\ a <= Max({a, b}) /\ b <= Max({a, b})
           /\ Min({a, b}) \in {a, b} /\ Min({a, b}) <= a /\ Min({a, b}) <= b
<1>1. \E x \in {a, b} : \A y \in {a, b} : x >= y
  OBVIOUS
<1>2. \E x \in {a, b} : \A y \in {a, b} : x <= y
  OBVIOUS
<1>3. Max({a, b}) \in {a, b} /\ \A y \in {a, b} : Max({a, b}) >= y
  BY <1>1 DEF Max
<1>4. Min({a, b}) \in {a, b} /\ \A y \in {a, b} : Min({a, b}) <= y
  BY <1>2 DEF Min
<1>5. QED
  BY <1>3, <1>4

(* The part of a window that a bar falls in; of the bars before it, those  *)
(* of the part are those of the window and of the month.                   *)
LEMMA SegmentOfTime ==
    ASSUME NEW w, w.start \in Nat, w.end \in Nat, NEW t \in Times, w.start <= t, t < w.end
    PROVE  \E g \in Segments(w) :
              /\ g.month = MonthOf(t) /\ g.start <= t /\ t < g.end
              /\ \A u \in Times : u < t =>
                    (u >= g.start <=> u >= w.start /\ MonthOf(u) = MonthOf(t))
<1> DEFINE m == MonthOf(t)
           g == [month |-> m, start |-> Max({w.start, MonthStart(m)}), end |-> Min({w.end, MonthStart(m + 1)})]
<1>1. t \in Nat /\ MonthLength \in Nat \ {0} /\ Times \subseteq Nat
  BY RowsAssumption DEF Times
<1>2. m \in Nat /\ MonthStart(m) \in Nat /\ MonthStart(m + 1) \in Nat
      /\ MonthStart(m) <= t /\ t < MonthStart(m + 1)
  BY <1>1, MultipleBelow DEF MonthOf, MonthStart
<1>3. MonthStart(MonthOf(w.start)) <= MonthStart(m)
  BY <1>1, QuotientsGrow DEF MonthOf, MonthStart
<1>4. m \in Months
  BY DEF Months
<1>5. MonthStart(MonthOf(w.start)) \in Nat
  BY <1>1, MultipleBelow DEF MonthOf, MonthStart
<1>6. \A u \in Times : MonthStart(m) <= u /\ u < t <=> MonthOf(u) = m /\ u < t
  <2> SUFFICES ASSUME NEW u \in Times, u < t PROVE MonthStart(m) <= u <=> MonthOf(u) = m
    OBVIOUS
  <2>1. u \in Nat
    BY <1>1
  <2>2. CASE MonthStart(m) <= u
    <3>1. u < MonthStart(m + 1)
      BY <1>1, <1>2, <2>1
    <3>2. MonthOf(u) = m
      BY <1>1, <1>2, <2>1, <2>2, <3>1, OneMultipleBelow DEF MonthOf, MonthStart
    <3>3. QED
      BY <2>2, <3>2
  <2>3. CASE MonthOf(u) = m
    BY <1>1, <2>1, <2>3, MultipleBelow DEF MonthOf, MonthStart
  <2>4. QED
    BY <2>2, <2>3
<1> HIDE DEF m
<1>7. g \in Segments(w)
  <2>1. MonthStart(m) >= MonthStart(MonthOf(w.start)) /\ MonthStart(m) < w.end
    BY <1>1, <1>2, <1>3, <1>5
  <2>2. QED
    BY <1>4, <2>1 DEF Segments
<1>8. /\ g.start \in {w.start, MonthStart(m)} /\ w.start <= g.start /\ MonthStart(m) <= g.start
      /\ g.end \in {w.end, MonthStart(m + 1)}
  BY <1>2, ExtremesOfTwo
<1>9. g.month = m
  OBVIOUS
<1> HIDE DEF g
<1>10. g.start <= t /\ t < g.end
  BY <1>2, <1>8
<1>11. \A u \in Times : u < t => (u >= g.start <=> u >= w.start /\ MonthOf(u) = m)
  BY <1>1, <1>2, <1>6, <1>8
<1>12. QED
  BY <1>7, <1>9, <1>10, <1>11 DEF m

(* The parts of a window in the order of the months, each collected in     *)
(* three steps.                                                            *)
PartsOf(w) == InOrder(Segments(w), LAMBDA g, h : g.month < h.month)

LEMMA PartsInOrder ==
    ASSUME NEW w
    PROVE  IsList(PartsOf(w)) /\ \A g \in Segments(w) : \E i \in DOMAIN PartsOf(w) : PartsOf(w)[i] = g
<1> DEFINE parts == PartsOf(w)
           S == Segments(w)
           R == {p \in S \X S : p[1].month < p[2].month}
           earlier(g) == {h \in S : h.month < g.month}
<1>1. IsFiniteSet(Months) /\ Months \subseteq Nat
  <2>1. IsFiniteSet(Times)
    BY RowsAssumption, FS_Interval DEF Times
  <2>2. [t \in Times |-> MonthOf(t)] \in Surjection(Times, Months)
    BY DEF Surjection, Months
  <2>3. IsFiniteSet(Months)
    BY <2>1, <2>2, FS_Surjection
  <2>4. \A t \in Times : MonthOf(t) \in Nat
    BY RowsAssumption, MultipleBelow DEF Times, MonthOf
  <2>5. QED
    BY <2>3, <2>4 DEF Months
<1>2. /\ \A g \in S : g.month \in Months
      /\ \A g, h \in S : g.month = h.month => g = h
  <2> DEFINE part(m) == [month |-> m, start |-> Max({w.start, MonthStart(m)}),
                         end |-> Min({w.end, MonthStart(m + 1)})]
  <2>1. \A g \in S : \E m \in Months : g = part(m)
    BY DEF Segments
  <2>2. \A m : part(m).month = m
    OBVIOUS
  <2> HIDE DEF S, part
  <2>3. QED
    BY <2>1, <2>2
<1>3. IsFiniteSet(S)
  <2> HIDE DEF S
  <2>1. [g \in S |-> g.month] \in Injection(S, Months)
    BY <1>2 DEF Injection, IsInjective
  <2>2. QED
    BY <1>1, <2>1, FS_Injection
<1>4. parts = [i \in 1 .. Cardinality(S) |-> CHOOSE g \in S : Cardinality(earlier(g)) = i - 1]
  BY DEF PartsOf, InOrder
<1> HIDE DEF S, parts
<1>5. Orders(R, S)
  <2>1. \A g \in S : g.month \in Nat
    BY <1>1, <1>2
  <2>2. \A g, h \in S : <<g, h>> \in R <=> g.month < h.month
    OBVIOUS
  <2> HIDE DEF R
  <2>3. \A x, y, z \in S : <<x, y>> \in R /\ <<y, z>> \in R => <<x, z>> \in R
    BY <2>1, <2>2
  <2>4. ASSUME NEW x \in S, NEW y \in S PROVE x = y \/ <<x, y>> \in R \/ <<y, x>> \in R
    <3>1. x.month = y.month \/ x.month < y.month \/ y.month < x.month
      BY <2>1
    <3>2. QED
      BY <1>2, <2>2, <3>1
  <2>5. \A x \in S : <<x, x>> \notin R
    BY <2>1, <2>2
  <2>6. QED
    BY <1>3, <2>3, <2>4, <2>5 DEF Orders
<1>6. \A g \in S : Below(R, S, g) = earlier(g)
  BY DEF Below
<1> HIDE DEF R, earlier
<1>7. InPlace(parts, R, S)
  BY <1>4, <1>6 DEF InPlace
<1>8. /\ DOMAIN parts = 1 .. Cardinality(S) /\ Cardinality(S) \in Nat
      /\ \A g \in S : \E i \in DOMAIN parts : parts[i] = g
  BY <1>5, <1>7, OrderedElements
<1>9. IsList(parts)
  BY <1>4, <1>8 DEF IsList
<1>10. QED
  BY <1>8, <1>9 DEF S, parts

LEMMA CollectSegmentIsList ==
    ASSUME NEW sym, NEW g
    PROVE  IsList(CollectSegment(sym, g)) /\ DOMAIN CollectSegment(sym, g) = 1 .. 3
<1> DEFINE s == CollectSegment(sym, g)
<1>1. s = [i \in 1 .. 3 |-> s[i]] /\ DOMAIN s = 1 .. 3
  BY DEF CollectSegment
<1>2. QED
  BY <1>1 DEF IsList

LEMMA WindowIsCollected ==
    ASSUME NEW sym, NEW w
    PROVE  /\ IsList(CollectWindow(sym, w))
           /\ \A g \in Segments(w) : \A j \in 1 .. 3 : \E k \in DOMAIN CollectWindow(sym, w) :
                 CollectWindow(sym, w)[k] = CollectSegment(sym, g)[j]
<1> DEFINE parts == PartsOf(w)
           lists == [i \in DOMAIN parts |-> CollectSegment(sym, parts[i])]
<1>1. IsList(parts) /\ \A g \in Segments(w) : \E i \in DOMAIN parts : parts[i] = g
  BY PartsInOrder
<1>2. CollectWindow(sym, w) = Joined(lists)
  BY DEF CollectWindow, PartsOf
<1> HIDE DEF parts
<1>3. DOMAIN lists = DOMAIN parts /\ \A i \in DOMAIN lists : lists[i] = CollectSegment(sym, parts[i])
  OBVIOUS
<1>4. IsList(lists)
  BY <1>1 DEF IsList
<1> HIDE DEF lists
<1>5. \A i \in DOMAIN lists : IsList(lists[i]) /\ DOMAIN lists[i] = 1 .. 3
  BY <1>3, CollectSegmentIsList
<1>6. /\ IsList(Joined(lists))
      /\ \A i \in DOMAIN lists : \A j \in DOMAIN lists[i] :
            \E k \in DOMAIN Joined(lists) : Joined(lists)[k] = lists[i][j]
  BY <1>4, <1>5, JoinedElements
<1>7. ASSUME NEW g \in Segments(w), NEW j \in 1 .. 3
      PROVE  \E k \in DOMAIN Joined(lists) : Joined(lists)[k] = CollectSegment(sym, g)[j]
  <2>1. PICK i \in DOMAIN parts : parts[i] = g
    BY <1>1
  <2>2. i \in DOMAIN lists /\ lists[i] = CollectSegment(sym, g) /\ j \in DOMAIN lists[i]
    BY <1>3, <1>5, <2>1
  <2>3. QED
    BY <1>6, <2>2
<1>8. QED
  BY <1>2, <1>6, <1>7

(* A step that collects a part of a window of a bootstrap.                 *)
Collects(c, s) ==
    \E i \in DOMAIN Commands[c].windows : \E g \in Segments(Commands[c].windows[i]) : \E j \in 1 .. 3 :
        s = CollectSegment(Commands[c].symbol, g)[j]

LEMMA BootstrapCollects ==
    ASSUME NEW c \in Cmds, Commands[c].kind = "bootstrap", Commands[c].network
    PROVE  /\ IsList(BootstrapSteps(c))
           /\ \A s : Collects(c, s) => \E k \in DOMAIN BootstrapSteps(c) : BootstrapSteps(c)[k] = s
<1> DEFINE cmd == Commands[c]
           window(w) == CollectWindow(cmd.symbol, w) \o FamilySteps(cmd, w)
           lists == [i \in DOMAIN cmd.windows |-> window(cmd.windows[i])]
           probes == ProbeRequiredSources(cmd.symbol)
<1>1. BootstrapSteps(c) = Joined(lists) \o probes
  BY DEF BootstrapSteps
<1>2. IsList(cmd.windows) /\ IsList(cmd.families)
  BY CommandsAssumption, SequencesAreLists
<1>3. ASSUME NEW w PROVE /\ IsList(window(w))
                         /\ \A k \in DOMAIN CollectWindow(cmd.symbol, w) :
                               k \in DOMAIN window(w) /\ window(w)[k] = CollectWindow(cmd.symbol, w)[k]
  <2>1. IsList(CollectWindow(cmd.symbol, w))
    BY WindowIsCollected
  <2>2. IsList(FamilySteps(cmd, w))
    BY <1>2 DEF FamilySteps, IsList
  <2>3. QED
    BY <2>1, <2>2, ConcatenatedElements
<1>4. IsList(probes)
  BY DEF ProbeRequiredSources, IsList
<1> HIDE DEF window, probes
<1>5. DOMAIN lists = DOMAIN cmd.windows /\ \A i \in DOMAIN lists : lists[i] = window(cmd.windows[i])
  OBVIOUS
<1>6. IsList(lists)
  BY <1>2 DEF IsList
<1> HIDE DEF lists
<1>7. \A i \in DOMAIN lists : IsList(lists[i])
  BY <1>3, <1>5
<1>8. /\ IsList(Joined(lists))
      /\ \A i \in DOMAIN lists : \A j \in DOMAIN lists[i] :
            \E k \in DOMAIN Joined(lists) : Joined(lists)[k] = lists[i][j]
  BY <1>6, <1>7, JoinedElements
<1>9. /\ IsList(BootstrapSteps(c))
      /\ \A k \in DOMAIN Joined(lists) : k \in DOMAIN BootstrapSteps(c)
                                         /\ BootstrapSteps(c)[k] = Joined(lists)[k]
  BY <1>1, <1>4, <1>8, ConcatenatedElements
<1>10. ASSUME NEW s, Collects(c, s) PROVE \E k \in DOMAIN BootstrapSteps(c) : BootstrapSteps(c)[k] = s
  <2>1. PICK i \in DOMAIN cmd.windows : \E g \in Segments(cmd.windows[i]) : \E j \in 1 .. 3 :
          s = CollectSegment(cmd.symbol, g)[j]
    BY <1>10 DEF Collects
  <2> DEFINE w == cmd.windows[i]
  <2>2. PICK k \in DOMAIN CollectWindow(cmd.symbol, w) : CollectWindow(cmd.symbol, w)[k] = s
    BY <2>1, WindowIsCollected
  <2>3. k \in DOMAIN lists[i] /\ lists[i][k] = s
    BY <1>3, <1>5, <2>2
  <2>4. PICK n \in DOMAIN Joined(lists) : Joined(lists)[n] = s
    BY <1>5, <1>8, <2>3
  <2>5. QED
    BY <1>9, <2>4
<1>11. QED
  BY <1>9, <1>10

----------------------------------------------------------------------------
(* What a bootstrap still has to collect, and what it has.                 *)

(* What a step keeps of the answer to its request.                         *)
KeptBy(s) == InWindow(Answer(s), s.start, s.end)

Networked(c) == Commands[c].kind = "bootstrap" /\ Commands[c].network

(* A result for which the manifest says failed.                            *)
Fails(r) == r.status = "failed" \/ (r.status = "blocked" /\ r.reason # "network_not_allowed")
HasFailed(c) == \E i \in DOMAIN results[c] : Fails(results[c][i])

InTodo(c, s) == \E k \in DOMAIN todo[c] : todo[c][k] = s

(* Of each collecting step of a networked bootstrap: it lies ahead, or its *)
(* rows are stored, or the manifest will say failed.                       *)
Collecting(c) ==
    /\ phase[c] \in {"idle", "next", "store", "say_ok", "say_failed", "paper", "done", "dead"}
    /\ IsList(todo[c])
    /\ phase[c] \in {"store", "say_ok"} => fetched[c] = KeptBy(Head(todo[c]))
    /\ phase[c] = "paper" => Head(todo[c]).kind = "family"
    /\ phase[c] # "idle" => \A s : Collects(c, s) =>
          InTodo(c, s) \/ HasFailed(c) \/ KeptBy(s) \subseteq RowsOf(table)
    /\ verdict[c].status = "success" => phase[c] = "done" /\ todo[c] = <<>> /\ ~HasFailed(c)

BootstrapInv ==
    /\ verdict = [c \in Cmds |-> verdict[c]]
    /\ \A c \in Cmds : Networked(c) => Collecting(c)

LEMMA BootstrapInit == DataInit => BootstrapInv
<1> SUFFICES ASSUME DataInit PROVE BootstrapInv
  OBVIOUS
<1>1. verdict = [c \in Cmds |-> verdict[c]]
  BY DEF DataInit
<1>2. ASSUME NEW c \in Cmds PROVE Collecting(c)
  <2>1. phase[c] = "idle" /\ todo[c] = <<>> /\ verdict[c].status = "none"
    BY DEF DataInit, NoVerdict
  <2>2. IsList(todo[c])
    BY <2>1 DEF IsList
  <2>3. QED
    BY <2>1, <2>2 DEF Collecting
<1>3. QED
  BY <1>1, <1>2 DEF BootstrapInv

(* A bootstrap of which nothing is undone.                                 *)
LEMMA CollectingKept ==
    ASSUME NEW c \in Cmds, Collecting(c), RowsOf(table) \subseteq RowsOf(table'),
           phase'[c] = phase[c], todo'[c] = todo[c], fetched'[c] = fetched[c],
           results'[c] = results[c], verdict'[c] = verdict[c]
    PROVE  Collecting(c)'
<1>1. (\A s : InTodo(c, s) => InTodo(c, s)') /\ (HasFailed(c) <=> HasFailed(c)')
  BY DEF InTodo, HasFailed
<1>2. QED
  BY <1>1 DEF Collecting

(* A step ahead of the first is not lost with the first.                   *)
LEMMA FirstIsLeft ==
    ASSUME NEW c \in Cmds, IsList(todo[c]), todo[c] # <<>>, todo'[c] = Tail(todo[c])
    PROVE  IsList(todo[c])' /\ \A s : InTodo(c, s) => s = Head(todo[c]) \/ InTodo(c, s)'
<1> DEFINE before == todo[c]
           after == todo'[c]
<1>1. /\ IsList(after) /\ before[1] = Head(before)
      /\ \A k \in DOMAIN before : k = 1 \/ (k - 1 \in DOMAIN after /\ after[k - 1] = before[k])
  BY RestOfList
<1>2. ASSUME NEW s, InTodo(c, s), s # Head(before) PROVE InTodo(c, s)'
  <2>1. PICK k \in DOMAIN before : before[k] = s
    BY <1>2 DEF InTodo
  <2>2. k - 1 \in DOMAIN after /\ after[k - 1] = s
    BY <1>1, <1>2, <2>1
  <2>3. QED
    BY <2>2 DEF InTodo
<1>3. QED
  BY <1>1, <1>2

LEMMA FailuresStay ==
    ASSUME NEW c \in Cmds, IsList(results[c]), NEW r, results'[c] = Append(results[c], r)
    PROVE  HasFailed(c)' <=> HasFailed(c) \/ Fails(r)
<1> DEFINE before == results[c]
           after == results'[c]
           S == {before[i] : i \in DOMAIN before} \cup {r}
<1>1. (\A i \in DOMAIN before : before[i] \in S) /\ r \in S
  OBVIOUS
<1> HIDE DEF S
<1>2. before \in Seq(S) /\ Len(before) \in Nat /\ DOMAIN before = 1 .. Len(before)
  BY <1>1, ListsAreSequences
<1>3. /\ after \in Seq(S) /\ Len(after) = Len(before) + 1
      /\ \A i \in 1 .. Len(before) : after[i] = before[i]
      /\ after[Len(before) + 1] = r
  BY <1>1, <1>2, AppendProperties
<1>4. DOMAIN after = 1 .. Len(before) + 1
  BY <1>3, LenProperties
<1>5. \A i : i \in DOMAIN after <=> i \in DOMAIN before \/ i = Len(before) + 1
  BY <1>2, <1>4
<1>6. HasFailed(c) <=> \E i \in DOMAIN before : Fails(before[i])
  BY DEF HasFailed
<1>7. HasFailed(c)' <=> \E i \in DOMAIN after : Fails(after[i])
  BY DEF HasFailed, Fails
<1> HIDE DEF before, after
<1>8. QED
  BY <1>2, <1>3, <1>5, <1>6, <1>7

(* A report of the first step, whose rows are stored if it collects any,   *)
(* or which fails.                                                         *)
LEMMA CollectingReports ==
    ASSUME StoredInv, NEW c \in Cmds, Networked(c), Collecting(c), phase[c] \in {"next", "say_ok", "say_failed"},
           todo[c] # <<>>, table' = table, verdict' = verdict,
           NEW status, NEW reason, Report(c, status, reason),
           \/ status = "failed"
           \/ ~Collects(c, Head(todo[c]))
           \/ KeptBy(Head(todo[c])) \subseteq RowsOf(table)
    PROVE  Collecting(c)'
<1> DEFINE result == [status |-> status, series |-> Head(todo[c]).series,
                      rows |-> fetched[c], known |-> KnownMonths(c), reason |-> reason]
<1>1. /\ results' = [results EXCEPT ![c] = Append(results[c], result)]
      /\ todo' = [todo EXCEPT ![c] = Tail(todo[c])]
      /\ phase' = [phase EXCEPT ![c] = "next"]
  BY DEF Report
<1>2. status = "failed" => Fails(result)
  BY DEF Fails
<1> HIDE DEF result
<1>3. /\ results'[c] = Append(results[c], result) /\ todo'[c] = Tail(todo[c]) /\ phase'[c] = "next"
  BY <1>1, ChangeOne DEF StoredInv
<1>4. /\ IsList(todo[c])'
      /\ \A s : InTodo(c, s) => s = Head(todo[c]) \/ InTodo(c, s)'
  BY <1>3, FirstIsLeft DEF Collecting
<1>5. HasFailed(c)' <=> HasFailed(c) \/ Fails(result)
  BY <1>3, FailuresStay DEF StoredInv, ResultsStored
<1>6. verdict'[c].status # "success"
  BY DEF Collecting
<1>7. ASSUME NEW s, Collects(c, s)
      PROVE  InTodo(c, s)' \/ HasFailed(c)' \/ KeptBy(s) \subseteq RowsOf(table')
  <2>1. InTodo(c, s) \/ HasFailed(c) \/ KeptBy(s) \subseteq RowsOf(table)
    BY <1>7 DEF Collecting
  <2>2. QED
    BY <1>2, <1>4, <1>5, <1>7, <2>1
<1>8. (\A s : Collects(c, s)' <=> Collects(c, s)) /\ \A s : KeptBy(s)' = KeptBy(s)
  BY DEF Collects, KeptBy
<1>9. QED
  BY <1>3, <1>4, <1>6, <1>7, <1>8 DEF Collecting

LEMMA CollectedKinds ==
    ASSUME NEW c \in Cmds, NEW s, Collects(c, s)
    PROVE  s.kind \in {"month", "page"}
<1>1. \E g : \E j \in 1 .. 3 : s = CollectSegment(Commands[c].symbol, g)[j]
  BY DEF Collects
<1>2. PICK g : \E j \in 1 .. 3 : s = CollectSegment(Commands[c].symbol, g)[j]
  BY <1>1
<1>3. PICK j \in 1 .. 3 : s = CollectSegment(Commands[c].symbol, g)[j]
  BY <1>2
<1>4. j = 1 \/ j = 2 \/ j = 3
  OBVIOUS
<1>5. QED
  BY <1>3, <1>4 DEF CollectSegment, IngestSpotMonth, IngestPublicMonth, IngestCcxtFunding,
                    IngestCcxtOpenInterest, Step

----------------------------------------------------------------------------
(* The bootstrap's steps keep the account of what it has collected.        *)

(* A step that leaves the list and the results.                            *)
LEMMA CollectingMoves ==
    ASSUME NEW c \in Cmds, Collecting(c), RowsOf(table) \subseteq RowsOf(table'),
           phase[c] \notin {"idle", "done"}, NEW to, phase'[c] = to,
           to \in {"next", "store", "say_ok", "say_failed", "paper", "dead"},
           todo'[c] = todo[c], results'[c] = results[c], verdict'[c] = verdict[c],
           to \in {"store", "say_ok"} => fetched'[c] = KeptBy(Head(todo[c])),
           to = "paper" => Head(todo[c]).kind = "family"
    PROVE  Collecting(c)'
<1>1. (\A s : InTodo(c, s) => InTodo(c, s)') /\ (HasFailed(c) <=> HasFailed(c)')
  BY DEF InTodo, HasFailed
<1>2. (\A s : Collects(c, s)' <=> Collects(c, s)) /\ \A s : KeptBy(s)' = KeptBy(s)
  BY DEF Collects, KeptBy
<1>3. verdict'[c].status # "success"
  BY DEF Collecting
<1>4. IsList(todo'[c]) /\ IsList(todo[c])'
  BY DEF Collecting
<1>5. ASSUME NEW s, Collects(c, s)
      PROVE  InTodo(c, s)' \/ HasFailed(c)' \/ KeptBy(s) \subseteq RowsOf(table')
  BY <1>1, <1>5 DEF Collecting
<1>6. QED
  BY <1>2, <1>3, <1>4, <1>5 DEF Collecting

(* A step that drops the first, which collects nothing.                    *)
LEMMA CollectingDrops ==
    ASSUME NEW c \in Cmds, Collecting(c), table' = table, todo[c] # <<>>,
           phase[c] \in {"next", "paper"}, phase'[c] = "next", Head(todo[c]).kind = "family",
           todo'[c] = Tail(todo[c]), results'[c] = results[c], verdict'[c] = verdict[c]
    PROVE  Collecting(c)'
<1>1. IsList(todo[c])' /\ \A s : InTodo(c, s) => s = Head(todo[c]) \/ InTodo(c, s)'
  BY FirstIsLeft DEF Collecting
<1>2. HasFailed(c) <=> HasFailed(c)'
  BY DEF HasFailed
<1>3. ~Collects(c, Head(todo[c]))
  BY CollectedKinds
<1>4. (\A s : Collects(c, s)' <=> Collects(c, s)) /\ \A s : KeptBy(s)' = KeptBy(s)
  BY DEF Collects, KeptBy
<1>5. verdict'[c].status # "success"
  BY DEF Collecting
<1>6. ASSUME NEW s, Collects(c, s)
      PROVE  InTodo(c, s)' \/ HasFailed(c)' \/ KeptBy(s) \subseteq RowsOf(table')
  <2>1. InTodo(c, s) \/ HasFailed(c) \/ KeptBy(s) \subseteq RowsOf(table)
    BY <1>6 DEF Collecting
  <2>2. QED
    BY <1>1, <1>2, <1>3, <1>6, <2>1
<1>7. QED
  BY <1>1, <1>4, <1>5, <1>6 DEF Collecting

LEMMA CollectingBegins ==
    ASSUME StoredInv, NEW c \in Cmds, Networked(c), Collecting(c), Begin(c)
    PROVE  Collecting(c)'
<1>1. /\ phase[c] = "idle" /\ phase' = [phase EXCEPT ![c] = "next"] /\ verdict' = verdict
      /\ todo' = [todo EXCEPT ![c] = BootstrapSteps(c)]
  BY DEF Begin, Networked
<1>2. phase'[c] = "next" /\ todo'[c] = BootstrapSteps(c)
  BY <1>1, ChangeOne DEF StoredInv
<1>3. /\ IsList(todo'[c]) /\ IsList(todo[c])'
      /\ \A s : Collects(c, s) => \E k \in DOMAIN todo'[c] : todo'[c][k] = s
  BY <1>2, BootstrapCollects DEF Networked
<1>4. \A s : Collects(c, s) => InTodo(c, s)'
  BY <1>3 DEF InTodo
<1>5. \A s : Collects(c, s)' <=> Collects(c, s)
  BY DEF Collects
<1>6. verdict'[c].status # "success"
  BY <1>1 DEF Collecting
<1>7. QED
  BY <1>2, <1>3, <1>4, <1>5, <1>6 DEF Collecting

LEMMA CollectingFinishes ==
    ASSUME StoredInv, verdict = [d \in Cmds |-> verdict[d]],
           NEW c \in Cmds, Networked(c), Collecting(c), Finish(c)
    PROVE  Collecting(c)'
<1>1. /\ phase[c] = "next" /\ todo[c] = <<>> /\ phase' = [phase EXCEPT ![c] = "done"]
      /\ \E m, r : verdict' = [verdict EXCEPT ![c] = [status |-> ManifestStatus(c), missing |-> m, ready |-> r]]
      /\ UNCHANGED <<table, todo, fetched, results>>
  BY DEF Finish, Networked
<1>2. phase'[c] = "done"
  BY <1>1, ChangeOne DEF StoredInv
<1>3. verdict'[c].status = ManifestStatus(c)
  <2>1. PICK m : \E r : verdict' = [verdict EXCEPT ![c] = [status |-> ManifestStatus(c), missing |-> m, ready |-> r]]
    BY <1>1
  <2>2. PICK r : verdict' = [verdict EXCEPT ![c] = [status |-> ManifestStatus(c), missing |-> m, ready |-> r]]
    BY <2>1
  <2> DEFINE new == [status |-> ManifestStatus(c), missing |-> m, ready |-> r]
  <2>3. new.status = ManifestStatus(c)
    OBVIOUS
  <2>4. verdict' = [verdict EXCEPT ![c] = new]
    BY <2>2
  <2> HIDE DEF new
  <2>5. verdict'[c] = new
    BY <2>4, ChangeOne
  <2>6. QED
    BY <2>3, <2>5
<1>4. ManifestStatus(c) = "success" => ~HasFailed(c)
  BY DEF ManifestStatus, Networked, HasFailed, Fails, ToSet
<1>5. HasFailed(c) <=> HasFailed(c)'
  BY <1>1 DEF HasFailed
<1>6. \A s : InTodo(c, s) <=> InTodo(c, s)'
  BY <1>1 DEF InTodo
<1>7. QED
  BY <1>1, <1>2, <1>3, <1>4, <1>5, <1>6 DEF Collecting

(* The bootstrap's own steps.                                              *)
LEMMA CollectingStep ==
    ASSUME StoredInv, verdict = [d \in Cmds |-> verdict[d]],
           NEW c \in Cmds, Networked(c), Collecting(c),
           \/ Begin(c) \/ Fetch(c) \/ Store(c) \/ SayHealth(c)
           \/ Snapshot(c) \/ Probe(c) \/ Finish(c) \/ Kill(c)
           \/ ReadUniverse(c) \/ ReadRecords(c) \/ ReadScreen(c) \/ Judge(c) \/ StrategyLab(c)
           \/ ValidateFamily(c) \/ PaperFamily(c)
    PROVE  Collecting(c)'
<1>1. CASE Fetch(c)
  <2>1. /\ phase[c] = "next" /\ UNCHANGED <<table, todo, results, verdict>>
        /\ \/ /\ fetched' = [fetched EXCEPT ![c] = KeptBy(Head(todo[c]))]
              /\ phase' = [phase EXCEPT ![c] = "store"]
           \/ phase' = [phase EXCEPT ![c] = "say_failed"]
    BY <1>1 DEF Fetch, At, KeptBy
  <2>2. \/ phase'[c] = "store" /\ fetched'[c] = KeptBy(Head(todo[c]))
        \/ phase'[c] = "say_failed"
    BY <2>1, ChangeOne DEF StoredInv
  <2>3. QED
    BY <2>1, <2>2, CollectingMoves
<1>2. CASE Store(c)
  <2>1. /\ phase[c] = "store" /\ UNCHANGED <<todo, results, verdict>>
        /\ \/ fetched' = fetched /\ phase' = [phase EXCEPT ![c] = "say_ok"]
           \/ phase' = [phase EXCEPT ![c] = "say_failed"]
    BY <1>2 DEF Store
  <2>2. \/ phase'[c] = "say_ok" /\ fetched'[c] = fetched[c]
        \/ phase'[c] = "say_failed"
    BY <2>1, ChangeOne DEF StoredInv
  <2>3. fetched[c] = KeptBy(Head(todo[c]))
    BY <2>1 DEF Collecting
  <2>4. RowsOf(table) \subseteq RowsOf(table')
    BY <1>2, RowsStay
  <2>5. QED
    BY <2>1, <2>2, <2>3, <2>4, CollectingMoves
<1>3. CASE SayHealth(c)
  <2>1. /\ phase[c] \in {"say_ok", "say_failed"} /\ UNCHANGED <<table, verdict>>
        /\ \/ phase[c] = "say_ok" /\ Report(c, "completed", "none")
           \/ Report(c, "failed", "source_failed")
    BY <1>3 DEF SayHealth
  <2>2. todo[c] # <<>>
    BY <2>1, AtStep
  <2>3. phase[c] = "say_ok" => KeptBy(Head(todo[c])) \subseteq RowsOf(table)
    BY DEF Collecting, StoredInv, AtHand
  <2>4. QED
    BY <2>1, <2>2, <2>3, CollectingReports
<1>4. CASE Probe(c)
  <2>1. /\ phase[c] = "next" /\ todo[c] # <<>> /\ Head(todo[c]).kind = "probe" /\ UNCHANGED <<table, verdict>>
        /\ \E status, reason : Report(c, status, reason)
    BY <1>4 DEF Probe, At
  <2>2. ~Collects(c, Head(todo[c]))
    BY <2>1, CollectedKinds
  <2>3. QED
    BY <2>1, <2>2, CollectingReports
<1>5. CASE ValidateFamily(c)
  <2>1. /\ phase[c] = "next" /\ todo[c] # <<>> /\ Head(todo[c]).kind = "family"
        /\ UNCHANGED <<table, results, verdict>>
        /\ \/ phase' = [phase EXCEPT ![c] = "paper"] /\ todo' = [todo EXCEPT ![c] = todo[c]]
           \/ phase' = [phase EXCEPT ![c] = "next"] /\ todo' = [todo EXCEPT ![c] = Tail(todo[c])]
    BY <1>5 DEF ValidateFamily, At
  <2>2. \/ phase'[c] = "paper" /\ todo'[c] = todo[c]
        \/ phase'[c] = "next" /\ todo'[c] = Tail(todo[c])
    BY <2>1, ChangeOne DEF StoredInv
  <2>3. QED
    BY <2>1, <2>2, CollectingMoves, CollectingDrops
<1>6. CASE PaperFamily(c)
  <2>1. /\ phase[c] = "paper" /\ UNCHANGED <<table, results, verdict>>
        /\ phase' = [phase EXCEPT ![c] = "next"] /\ todo' = [todo EXCEPT ![c] = Tail(todo[c])]
    BY <1>6 DEF PaperFamily
  <2>2. phase'[c] = "next" /\ todo'[c] = Tail(todo[c])
    BY <2>1, ChangeOne DEF StoredInv
  <2>3. todo[c] # <<>>
    BY <2>1 DEF StoredInv, OneStep
  <2>4. Head(todo[c]).kind = "family"
    BY <2>1 DEF Collecting
  <2>5. QED
    BY <2>1, <2>2, <2>3, <2>4, CollectingDrops
<1>7. CASE Kill(c)
  <2>1. /\ phase[c] \notin {"idle", "done"} /\ UNCHANGED <<table, todo, fetched, results, verdict>>
        /\ phase' = [phase EXCEPT ![c] = "dead"]
    BY <1>7 DEF Kill
  <2>2. phase'[c] = "dead"
    BY <2>1, ChangeOne DEF StoredInv
  <2>3. QED
    BY <2>1, <2>2, CollectingMoves
<1>8. ~Snapshot(c) /\ ~ReadUniverse(c) /\ ~StrategyLab(c)
  BY DEF Networked, Snapshot, ReadUniverse, StrategyLab
<1>9. ~ReadRecords(c) /\ ~ReadScreen(c) /\ ~Judge(c)
  BY DEF Collecting, ReadRecords, ReadScreen, Judge
<1>10. QED
  BY <1>1, <1>2, <1>3, <1>4, <1>5, <1>6, <1>7, <1>8, <1>9, CollectingBegins, CollectingFinishes

LEMMA BootstrapStep == StoredInv /\ BootstrapInv /\ [DataNext]_dataVars => BootstrapInv'
<1> SUFFICES ASSUME StoredInv, BootstrapInv, [DataNext]_dataVars PROVE BootstrapInv'
  OBVIOUS
<1>1. CASE UNCHANGED dataVars
  <2>1. ASSUME NEW c \in Cmds, Collecting(c) PROVE Collecting(c)'
    BY <1>1, <2>1, CollectingKept DEF dataVars
  <2>2. QED
    BY <1>1, <2>1 DEF BootstrapInv, dataVars, Networked
<1>2. ASSUME NEW c \in Cmds,
             \/ Begin(c) \/ Fetch(c) \/ Store(c) \/ SayHealth(c)
             \/ Snapshot(c) \/ Probe(c) \/ Finish(c) \/ Kill(c)
             \/ ReadUniverse(c) \/ ReadRecords(c) \/ ReadScreen(c) \/ Judge(c) \/ StrategyLab(c)
             \/ ValidateFamily(c) \/ PaperFamily(c)
      PROVE  BootstrapInv'
  <2>1. verdict = [d \in Cmds |-> verdict[d]]
    BY DEF BootstrapInv
  <2>2. /\ verdict' = [d \in Cmds |-> verdict'[d]]
        /\ \A d \in Cmds \ {c} : /\ phase'[d] = phase[d] /\ todo'[d] = todo[d]
                                 /\ fetched'[d] = fetched[d] /\ results'[d] = results[d]
                                 /\ verdict'[d] = verdict[d]
    BY <1>2, <2>1, OneCommandSteps
  <2>3. RowsOf(table) \subseteq RowsOf(table')
    BY <1>2, RowsStay
  <2>4. ASSUME NEW d \in Cmds, Networked(d) PROVE Collecting(d)'
    <3>1. Collecting(d)
      BY <2>4 DEF BootstrapInv
    <3>2. CASE d = c
      BY <1>2, <2>1, <2>4, <3>1, <3>2, CollectingStep
    <3>3. CASE d # c
      BY <2>2, <2>3, <3>1, <3>3, CollectingKept
    <3>4. QED
      BY <3>2, <3>3
  <2>5. QED
    BY <2>2, <2>4 DEF BootstrapInv, Networked
<1>3. QED
  BY <1>1, <1>2 DEF DataNext

(* What the steps of a part keep of what the exchange has at a bar of it.  *)
LEMMA CollectedCandle ==
    ASSUME NEW sym, NEW w, w.start \in Nat, w.end \in Nat,
           NEW t \in Times, w.start <= t, t < w.end, t \in ListedTimes(SpotCandles(sym))
    PROVE  \E g \in Segments(w) : Row(SpotCandles(sym), t) \in KeptBy(CollectSegment(sym, g)[1])
<1>1. PICK g \in Segments(w) : g.month = MonthOf(t) /\ g.start <= t /\ t < g.end
  BY SegmentOfTime
<1> DEFINE s == CollectSegment(sym, g)[1]
<1>2. s = [kind |-> "month", series |-> SpotCandles(sym), from |-> g.month, start |-> g.start, end |-> g.end]
  BY DEF CollectSegment, IngestSpotMonth, IngestPublicMonth, Step
<1>3. Row(SpotCandles(sym), t) \in Answer(s)
  BY <1>1, <1>2 DEF Answer, DownloadMonth
<1>4. Row(SpotCandles(sym), t) \in KeptBy(s)
  BY <1>1, <1>2, <1>3 DEF KeptBy, InWindow, Row
<1>5. QED
  BY <1>4

LEMMA CollectedEarly ==
    ASSUME NEW sym, NEW w, w.start \in Nat, w.end \in Nat,
           NEW t \in Times, w.start <= t, t < w.end,
           NEW s \in {CcxtFunding(sym), CcxtOpenInterest(sym)}, t \in ListedTimes(s),
           Cardinality({u \in ListedTimes(s) : u < t /\ u >= w.start /\ MonthOf(u) = MonthOf(t)}) < Limit
    PROVE  \E g \in Segments(w) : \E j \in 1 .. 3 : Row(s, t) \in KeptBy(CollectSegment(sym, g)[j])
<1>1. PICK g \in Segments(w) :
         /\ g.month = MonthOf(t) /\ g.start <= t /\ t < g.end
         /\ \A u \in Times : u < t => (u >= g.start <=> u >= w.start /\ MonthOf(u) = MonthOf(t))
  BY SegmentOfTime
<1> DEFINE after == {v \in ListedTimes(s) : v >= g.start}
<1>2. ListedTimes(s) \subseteq Times
  BY RowsAssumption DEF ListedTimes
<1>3. {v \in after : v < t} = {u \in ListedTimes(s) : u < t /\ u >= w.start /\ MonthOf(u) = MonthOf(t)}
  BY <1>1, <1>2
<1>4. Row(s, t) \in FetchPage(s, g.start)
  <2>1. t \in after /\ Cardinality({v \in after : v < t}) < Limit
    BY <1>1, <1>3
  <2>2. QED
    BY <2>1 DEF FetchPage
<1> DEFINE step == [kind |-> "page", series |-> s, from |-> g.start, start |-> g.start, end |-> g.end]
<1>5. \E j \in 1 .. 3 : CollectSegment(sym, g)[j] = step
  <2>1. CASE s = CcxtFunding(sym)
    <3>1. CollectSegment(sym, g)[2] = step
      BY <2>1 DEF CollectSegment, IngestCcxtFunding, Step
    <3>2. QED
      BY <3>1
  <2>2. CASE s = CcxtOpenInterest(sym)
    <3>1. CollectSegment(sym, g)[3] = step
      BY <2>2 DEF CollectSegment, IngestCcxtOpenInterest, Step
    <3>2. QED
      BY <3>1
  <2>3. QED
    BY <2>1, <2>2
<1>6. Row(s, t) \in KeptBy(step)
  <2>1. Answer(step) = FetchPage(s, g.start)
    BY DEF Answer
  <2>2. QED
    BY <1>1, <1>4, <2>1 DEF KeptBy, InWindow, Row
<1> HIDE DEF step
<1>7. QED
  BY <1>5, <1>6

(* An element of a list over a set is in that set.                         *)
LEMMA ListedIsIn == ASSUME NEW S, NEW list \in Seq(S), NEW i \in DOMAIN list
                    PROVE  list[i] \in S
  OBVIOUS

(* When a networked bootstrap's manifest says success, every candle that   *)
(* the exchange has in its windows is stored, and of the paged sources     *)
(* what lies within the limit of a page, whatever other commands write,    *)
(* fail and are killed meanwhile (pipeline/historical_bootstrap.py, the    *)
(* parts of a window and the manifest's status).                           *)
THEOREM BootstrapsAreComplete == DataSpec => []SuccessfulBootstrapIsComplete
<1>1. StoredInv /\ BootstrapInv => SuccessfulBootstrapIsComplete
  <2> SUFFICES ASSUME BootstrapInv, NEW c \in Cmds, Networked(c), verdict[c].status = "success",
                      NEW i \in DOMAIN Commands[c].windows, NEW t \in Times,
                      Commands[c].windows[i].start <= t, t < Commands[c].windows[i].end
               PROVE  LET w == Commands[c].windows[i]
                          sym == Commands[c].symbol
                          has(s) == Row(s, t) \in RowsOf(table)
                          early(s) == Cardinality({u \in ListedTimes(s) :
                                         u < t /\ u >= w.start /\ MonthOf(u) = MonthOf(t)}) < Limit
                      IN /\ t \in ListedTimes(SpotCandles(sym)) => has(SpotCandles(sym))
                         /\ \A s \in {CcxtFunding(sym), CcxtOpenInterest(sym)} :
                               t \in ListedTimes(s) /\ early(s) => has(s)
    BY DEF SuccessfulBootstrapIsComplete, Networked
  <2> DEFINE w == Commands[c].windows[i]
             sym == Commands[c].symbol
  <2>1. w.start \in Nat /\ w.end \in Nat
    <3>1. Commands[c].windows \in Seq([start : Nat, end : Nat])
      BY CommandsAssumption DEF Networked
    <3>2. w \in [start : Nat, end : Nat]
      BY <3>1, ListedIsIn, Zenon
    <3>3. QED
      BY <3>2
  <2>2. \A s : ~InTodo(c, s)
    BY DEF BootstrapInv, Collecting, InTodo
  <2>3. ASSUME NEW s, Collects(c, s) PROVE KeptBy(s) \subseteq RowsOf(table)
    BY <2>2, <2>3 DEF BootstrapInv, Collecting
  <2>4. ASSUME NEW g \in Segments(w), NEW j \in 1 .. 3
        PROVE  KeptBy(CollectSegment(sym, g)[j]) \subseteq RowsOf(table)
    BY <2>3 DEF Collects
  <2> HIDE DEF w, sym
  <2>5. t \in ListedTimes(SpotCandles(sym)) => Row(SpotCandles(sym), t) \in RowsOf(table)
    BY <2>1, <2>4, CollectedCandle DEF w
  <2>6. ASSUME NEW s \in {CcxtFunding(sym), CcxtOpenInterest(sym)}, t \in ListedTimes(s),
               Cardinality({u \in ListedTimes(s) : u < t /\ u >= w.start /\ MonthOf(u) = MonthOf(t)}) < Limit
        PROVE  Row(s, t) \in RowsOf(table)
    BY <2>1, <2>4, <2>6, CollectedEarly DEF w
  <2>7. QED
    BY <2>5, <2>6 DEF w, sym
<1>2. DataInit => StoredInv /\ BootstrapInv
  BY StoredInit, BootstrapInit
<1>3. StoredInv /\ BootstrapInv /\ [DataNext]_dataVars => (StoredInv /\ BootstrapInv)'
  BY StoredStep, BootstrapStep
<1>4. QED
  BY <1>1, <1>2, <1>3, PTL DEF DataSpec

----------------------------------------------------------------------------
(* The older labs trade from a shared time to the next.                    *)

RowsAt(S, t) == {r \in S : r.time = t}

(* A trade of one time to a later one, both of which all symbols have, on  *)
(* candles of which no two share a time.                                   *)
OnCandles(candles, symbols, o) ==
    /\ o.time < o.until
    /\ \A sym \in symbols : \A t \in {o.time, o.until} : Cardinality(RowsAt(candles[sym], t)) = 1

LEMMA OneRowAt ==
    ASSUME NEW S, OneEach(S), NEW u, \E b \in S : b.time = u
    PROVE  Cardinality(RowsAt(S, u)) = 1
  BY OneAtATime DEF RowsAt

LEMMA OnOneEach ==
    ASSUME NEW candles, NEW symbols, \A sym \in symbols : OneEach(candles[sym]),
           NEW o, o.time < o.until,
           \A sym \in symbols : \A t \in {o.time, o.until} : \E r \in candles[sym] : r.time = t
    PROVE  OnCandles(candles, symbols, o)
  BY OneRowAt DEF OnCandles

LEMMA SharedTimes ==
    ASSUME NEW rows, NEW symbols, NEW at, at = AlignedTimes(rows, symbols)
    PROVE  /\ \E n \in Nat : DOMAIN at = 1 .. n /\ Len(at) = n
           /\ \A i \in DOMAIN at : \A sym \in symbols : \E r \in StrategyCandles(rows, sym) : r.time = at[i]
           /\ \A i, j \in DOMAIN at : i < j => at[i] < at[j]
<1> DEFINE K == {t \in Times : /\ symbols # {}
                              /\ \A sym \in symbols : \E r \in StrategyCandles(rows, sym) : r.time = t}
<1>1. Numbers(K)
  <2>1. IsFiniteSet(Times) /\ Times \in SUBSET Nat
    BY RowsAssumption, FS_Interval DEF Times
  <2>2. K \in SUBSET Times
    OBVIOUS
  <2> HIDE DEF K
  <2>3. QED
    BY <2>1, <2>2, FS_Subset DEF Numbers
<1>2. at = Ascending(K)
  BY DEF AlignedTimes
<1>3. \A t \in K : \A sym \in symbols : \E r \in StrategyCandles(rows, sym) : r.time = t
  OBVIOUS
<1> HIDE DEF K
<1>4. /\ DOMAIN at = 1 .. Cardinality(K) /\ Cardinality(K) \in Nat
      /\ \A i \in DOMAIN at : at[i] \in K
      /\ \A i, j \in DOMAIN at : i < j => at[i] < at[j]
  BY <1>1, <1>2, NumbersInOrder
<1>5. Len(at) = Cardinality(K)
  <2>1. at = [i \in 1 .. Cardinality(K) |-> at[i]]
    BY <1>2, <1>4 DEF Ascending, InOrder
  <2>2. at \in Seq(K)
    BY <1>4, <2>1
  <2>3. QED
    BY <1>4, <2>2
<1>6. QED
  BY <1>3, <1>4, <1>5

LEMMA OnSharedTimes ==
    ASSUME NEW rows \in SUBSET AllRows, NEW symbols,
           \A sym \in symbols : ~HasDuplicates(StrategyCandles(rows, sym)),
           NEW at, at = AlignedTimes(rows, symbols), NEW i \in Nat \ {0}, i < Len(at),
           NEW o, o.time = at[i], o.until = at[i + 1],
           NEW candles, \A sym \in symbols : candles[sym] = StrategyCandles(rows, sym)
    PROVE  OnCandles(candles, symbols, o)
<1>1. PICK n \in Nat : DOMAIN at = 1 .. n /\ Len(at) = n
  BY SharedTimes
<1>2. i \in DOMAIN at /\ i + 1 \in DOMAIN at /\ i < i + 1
  BY <1>1
<1>3. o.time < o.until
  BY <1>2, SharedTimes
<1>4. ASSUME NEW sym \in symbols PROVE OneEach(candles[sym])
  <2>1. candles[sym] \in SUBSET AllRows /\ \A r \in candles[sym] : r.series.type = "market_candle"
    BY DEF StrategyCandles
  <2>2. ~HasDuplicates(candles[sym])
    OBVIOUS
  <2>3. QED
    BY <2>1, <2>2, OneTypeOneEach
<1>5. \A sym \in symbols : \A t \in {o.time, o.until} : \E r \in candles[sym] : r.time = t
  BY <1>2, SharedTimes
<1>6. QED
  BY <1>3, <1>4, <1>5, OnOneEach

LEMMA MomentumOnCleanRows ==
    ASSUME NEW rows \in SUBSET AllRows, NEW job, MomentumLab(rows, job).reasons = {},
           NEW k, k \in DOMAIN MomentumLab(rows, job).observations,
           NEW candles, \A sym \in job.symbols : candles[sym] = StrategyCandles(rows, sym)
    PROVE  OnCandles(candles, job.symbols, MomentumLab(rows, job).observations[k])
<1> DEFINE obs == MomentumObservations(rows, job.symbols)
           at == AlignedTimes(rows, job.symbols)
           i == k + LongLookback
<1>1. MomentumLab(rows, job).observations = obs
      /\ \A sym \in job.symbols : "duplicate_timestamps" \notin SymbolReport(rows, sym)
  <2> DEFINE duplicates == (UNION {SymbolReport(rows, sym) : sym \in job.symbols}) \cap {"duplicate_timestamps"}
             short == Len(at) < LongLookback + job.splits + 1
             before == duplicates \cup (IF short THEN {"insufficient_aligned_history"} ELSE {})
  <2>1. before = {}
    BY DEF MomentumLab
  <2>2. duplicates = {}
    BY <2>1
  <2> DEFINE reports == UNION {SymbolReport(rows, sym) : sym \in job.symbols}
  <2>3. \A sym \in job.symbols : "duplicate_timestamps" \notin SymbolReport(rows, sym)
    <3>1. reports \cap {"duplicate_timestamps"} = {}
      BY <2>2
    <3>2. \A sym \in job.symbols : SymbolReport(rows, sym) \subseteq reports
      OBVIOUS
    <3> HIDE DEF reports
    <3>3. QED
      BY <3>1, <3>2
  <2>4. MomentumLab(rows, job).observations = IF before # {} THEN <<>> ELSE obs
    BY DEF MomentumLab
  <2>5. QED
    BY <2>1, <2>3, <2>4
<1>2. \A sym \in job.symbols : ~HasDuplicates(StrategyCandles(rows, sym))
  BY <1>1 DEF SymbolReport
<1>3. /\ k \in 1 .. Max({0, Len(at) - 1 - LongLookback})
      /\ obs[k].time = at[i] /\ obs[k].until = at[i + 1]
  <2>1. DOMAIN obs = 1 .. Max({0, Len(at) - 1 - LongLookback})
    BY DEF MomentumObservations
  <2>2. k \in 1 .. Max({0, Len(at) - 1 - LongLookback})
    BY <1>1, <2>1
  <2>3. QED
    BY <2>2 DEF MomentumObservations
<1>4. i \in Nat \ {0} /\ i < Len(at)
  <2> HIDE DEF at
  <2>1. Len(at) \in Nat
    BY SharedTimes DEF at
  <2>2. LongLookback \in Nat
    BY LabsAssumption
  <2> DEFINE x == Len(at) - 1 - LongLookback
  <2>3. x \in Int
    BY <2>1, <2>2
  <2> HIDE DEF x
  <2>4. Max({0, x}) = IF x > 0 THEN x ELSE 0
    <3>1. CASE x > 0
      BY <2>3, <3>1 DEF Max
    <3>2. CASE ~(x > 0)
      BY <2>3, <3>2 DEF Max
    <3>3. QED
      BY <3>1, <3>2
  <2>5. k \in 1 .. x
    BY <1>3, <2>3, <2>4 DEF x
  <2>6. QED
    BY <2>1, <2>2, <2>5 DEF x
<1> HIDE DEF obs, at, i
<1>5. OnCandles(candles, job.symbols, obs[k])
  BY <1>2, <1>3, <1>4, OnSharedTimes DEF at
<1>6. QED
  BY <1>1, <1>5

LEMMA DerivativesOnCleanRows ==
    ASSUME NEW rows \in SUBSET AllRows, NEW job, NEW id, id \in DOMAIN DerivativesLab(rows, job),
           DerivativesLab(rows, job)[id].reasons = {},
           NEW k, k \in DOMAIN DerivativesLab(rows, job)[id].observations,
           NEW candles, \A sym \in job.symbols : candles[sym] = StrategyCandles(rows, sym)
    PROVE  OnCandles(candles, job.symbols, DerivativesLab(rows, job)[id].observations[k])
<1> DEFINE obs == DerivativesObservations(id, rows, job)
           at == AlignedTimes(rows, job.symbols)
<1>1. DerivativesLab(rows, job)[id].observations = obs
      /\ \A sym \in job.symbols : "duplicate_timestamps" \notin DerivativesCoverage(rows, job, sym)
  <2> DEFINE before == (UNION {DerivativesCoverage(rows, job, sym) : sym \in job.symbols})
                       \cap {"ambiguous_derivatives_symbol_mapping", "duplicate_timestamps"}
  <2>1. DerivativesLab(rows, job)[id] = IF before # {} THEN [observations |-> <<>>, reasons |-> before]
                                        ELSE DerivativesMetric(id, rows, job)
    BY DEF DerivativesLab
  <2>2. before = {}
    BY <2>1
  <2> DEFINE reports == UNION {DerivativesCoverage(rows, job, sym) : sym \in job.symbols}
  <2>3. \A sym \in job.symbols : "duplicate_timestamps" \notin DerivativesCoverage(rows, job, sym)
    <3>1. reports \cap {"ambiguous_derivatives_symbol_mapping", "duplicate_timestamps"} = {}
      BY <2>2
    <3>2. \A sym \in job.symbols : DerivativesCoverage(rows, job, sym) \subseteq reports
      OBVIOUS
    <3> HIDE DEF reports
    <3>3. QED
      BY <3>1, <3>2
  <2>4. DerivativesMetric(id, rows, job).observations = obs
    BY DEF DerivativesMetric
  <2>5. QED
    BY <2>1, <2>2, <2>3, <2>4
<1>2. \A sym \in job.symbols : ~HasDuplicates(StrategyCandles(rows, sym))
  BY <1>1 DEF DerivativesCoverage
<1>3. \E i \in Nat \ {0} : i < Len(at) /\ obs[k].time = at[i] /\ obs[k].until = at[i + 1]
  <2>1. \E K : /\ K \in SUBSET {i \in DOMAIN at : i > ShortLookback /\ i < Len(at)}
               /\ DOMAIN obs = DOMAIN Ascending(K)
               /\ \A q \in DOMAIN obs : /\ obs[q].time = at[Ascending(K)[q]]
                                        /\ obs[q].until = at[Ascending(K)[q] + 1]
    BY DEF DerivativesObservations
  <2>2. PICK K : /\ K \in SUBSET {i \in DOMAIN at : i > ShortLookback /\ i < Len(at)}
                 /\ DOMAIN obs = DOMAIN Ascending(K)
                 /\ \A q \in DOMAIN obs : /\ obs[q].time = at[Ascending(K)[q]]
                                          /\ obs[q].until = at[Ascending(K)[q] + 1]
    BY <2>1
  <2> HIDE DEF at, obs
  <2>3. PICK n \in Nat : DOMAIN at = 1 .. n
    BY SharedTimes DEF at
  <2>4. Numbers(K)
    <3>1. IsFiniteSet(1 .. n) /\ K \in SUBSET (1 .. n) /\ 1 .. n \in SUBSET Nat
      BY <2>2, <2>3, FS_Interval
    <3>2. QED
      BY <3>1, FS_Subset DEF Numbers
  <2>5. k \in DOMAIN Ascending(K)
    BY <1>1, <2>2
  <2>6. Ascending(K)[k] \in K
    BY <2>4, <2>5, NumbersInOrder
  <2>7. Ascending(K)[k] \in Nat \ {0} /\ Ascending(K)[k] < Len(at)
    BY <2>2, <2>3, <2>6
  <2>8. QED
    BY <1>1, <2>2, <2>7
<1> HIDE DEF obs, at
<1>4. OnCandles(candles, job.symbols, obs[k])
  BY <1>2, <1>3, OnSharedTimes DEF at
<1>5. QED
  BY <1>1, <1>4

----------------------------------------------------------------------------
(* Candles in the order of the candle normalisation.                      *)

(* A lab's candles of a symbol, by their times.                            *)
Prior(a, b) == a.time < b.time \/ (a.time = b.time /\ a.series.venue = "binance"
                                                   /\ b.series.venue # "binance")
Preceding(C, x) == {y \in C : Prior(y, x)}

LEMMA CandleSources ==
    ASSUME NEW r \in AllRows, r.series.type = "market_candle"
    PROVE  r.series.source \in {"binance_public", "ccxt"}
<1>1. PICK s \in AllSeries, t \in Times : r = Row(s, t)
  BY DEF AllRows
<1>2. r.series = s /\ s.type = "market_candle"
  BY <1>1 DEF Row
<1>3. PICK sym \in Symbols :
        s \in {SpotCandles(sym), FuturesCandles(sym), CcxtCandles(sym), CcxtFunding(sym),
               CcxtOpenInterest(sym), PremiumIndex(sym), Basis(sym), FundingHistory(sym),
               OpenInterestHistory(sym), LongShortRatio(sym), TakerVolume(sym), DexPairs(sym),
               YieldPools(sym), DuneResult(sym), GraphResult(sym)}
  BY DEF AllSeries
<1>4. s \in {SpotCandles(sym), FuturesCandles(sym), CcxtCandles(sym)}
  BY <1>2, <1>3 DEF CcxtFunding, CcxtOpenInterest, PremiumIndex, Basis, FundingHistory,
                    OpenInterestHistory, LongShortRatio, TakerVolume, DexPairs, YieldPools,
                    DuneResult, GraphResult, Series
<1>5. QED
  BY <1>2, <1>4 DEF SpotCandles, FuturesCandles, CcxtCandles, Series

LEMMA MarketIsOfTheUniverse ==
    ASSUME NEW rows \in SUBSET AllRows, NEW sym, NEW w, NEW C, C = UniverseCandles(rows, sym, w)
    PROVE  MarketRows(rows, sym, w)
             = [i \in 1 .. Cardinality(C) |-> CHOOSE x \in C : Cardinality(Preceding(C, x)) = i - 1]
<1> DEFINE given == {r \in rows : r.series.type = "market_candle" /\ r.series.symbol = sym /\ Within(r, w)}
           taken == {r \in rows : /\ r.series.type = "market_candle" /\ r.series.symbol = sym
                                  /\ r.series.source \in {"binance_public", "ccxt"} /\ Within(r, w)}
<1>1. taken = given
  <2>1. \A r \in rows : r \in AllRows
    OBVIOUS
  <2>2. QED
    BY <2>1, CandleSources
<1>2. C = Canonical(taken)
  BY <1>1 DEF UniverseCandles
<1>3. MarketRows(rows, sym, w)
        = [i \in 1 .. Cardinality(Canonical(taken)) |->
              CHOOSE x \in Canonical(taken) : Cardinality(Preceding(Canonical(taken), x)) = i - 1]
  BY DEF MarketRows, InOrder, Preceding, Prior
<1> HIDE DEF taken
<1>4. QED
  BY <1>2, <1>3

(* A list of rows in the order of time: each has its place by how many     *)
(* are earlier.                                                            *)
ListsByTime(at, C) ==
    /\ DOMAIN at = 1 .. Cardinality(C) /\ Cardinality(C) \in Nat /\ Len(at) = Cardinality(C)
    /\ \A i \in DOMAIN at : at[i] \in C /\ Cardinality(EarlierOf(C, at[i].time)) = i - 1
    /\ \A x \in C : /\ 1 + Cardinality(EarlierOf(C, x.time)) \in DOMAIN at
                    /\ at[1 + Cardinality(EarlierOf(C, x.time))] = x
    /\ \A i, j \in DOMAIN at : i < j => at[i].time < at[j].time

LEMMA MarketInOrder ==
    ASSUME NEW rows \in SUBSET AllRows, NEW sym, NEW w, NEW C, C = UniverseCandles(rows, sym, w),
           OneEach(C), NEW at, at = MarketRows(rows, sym, w)
    PROVE  ListsByTime(at, C)
<1> DEFINE R == {p \in C \X C : p[1].time < p[2].time}
<1>1. Orders(R, C)
  BY DEF Orders, OneEach
<1>2. \A x \in C : Below(R, C, x) = Preceding(C, x)
  <2>1. \A x, y \in C : Prior(y, x) <=> <<y, x>> \in R
    BY DEF Prior, OneEach
  <2> HIDE DEF R
  <2>2. QED
    BY <2>1 DEF Below, Preceding
<1>3. at = [i \in 1 .. Cardinality(C) |-> CHOOSE x \in C : Cardinality(Preceding(C, x)) = i - 1]
  BY MarketIsOfTheUniverse
<1>4. /\ \A x, y \in C : <<x, y>> \in R => x.time < y.time
      /\ \A x \in C : Below(R, C, x) = EarlierOf(C, x.time)
  BY DEF Below, EarlierOf
<1> HIDE DEF R
<1>5. InPlace(at, R, C)
  BY <1>2, <1>3 DEF InPlace
<1>6. /\ DOMAIN at = 1 .. Cardinality(C) /\ Cardinality(C) \in Nat
      /\ \A i \in DOMAIN at : at[i] \in C /\ Cardinality(Below(R, C, at[i])) = i - 1
      /\ \A x \in C : /\ 1 + Cardinality(Below(R, C, x)) \in DOMAIN at
                      /\ at[1 + Cardinality(Below(R, C, x))] = x
      /\ \A i, j \in DOMAIN at : i < j => <<at[i], at[j]>> \in R
  BY <1>1, <1>5, OrderedElements
<1>7. Len(at) = Cardinality(C)
  <2>1. at = [i \in 1 .. Cardinality(C) |-> at[i]]
    BY <1>3, <1>6
  <2>2. at \in Seq(C)
    BY <1>6, <2>1
  <2>3. QED
    BY <1>6, <2>2
<1>8. QED
  BY <1>4, <1>6, <1>7 DEF ListsByTime

----------------------------------------------------------------------------
(* A universe without gaps: all symbols have one candle at the same times. *)

TimesIn(C) == {r.time : r \in C}

LEMMA CandlesAreRows ==
    ASSUME NEW rows \in SUBSET AllRows, NEW sym, NEW w
    PROVE  /\ UniverseCandles(rows, sym, w) \in SUBSET AllRows
           /\ \A r \in UniverseCandles(rows, sym, w) : r.series.type = "market_candle"
           /\ TimesIn(UniverseCandles(rows, sym, w)) \in SUBSET Times
<1>1. /\ UniverseCandles(rows, sym, w) \in SUBSET AllRows
      /\ \A r \in UniverseCandles(rows, sym, w) : r.series.type = "market_candle"
  BY DEF UniverseCandles, Canonical
<1>2. \A r \in AllRows : r.time \in Times
  BY DEF AllRows, Row
<1>3. QED
  BY <1>1, <1>2 DEF TimesIn

LEMMA NoGap ==
    ASSUME NEW timesets, \A ts \in timesets : ts # {} /\ ts \in SUBSET Times,
           "timestamp_alignment_gap" \notin AlignmentReasons(timesets)
    PROVE  \E T : \A ts \in timesets : ts = T
<1> DEFINE aligned == {t \in Times : \A ts \in timesets : t \in ts}
<1>1. timesets \ {{}} = timesets
  OBVIOUS
<1>2. \A ts \in timesets : ~(Cardinality(aligned) < Cardinality(ts))
  BY <1>1 DEF AlignmentReasons
<1>3. \A ts \in timesets : aligned \in SUBSET ts
  OBVIOUS
<1> HIDE DEF aligned
<1>4. IsFiniteSet(Times)
  BY RowsAssumption, FS_Interval DEF Times
<1>5. ASSUME NEW ts \in timesets PROVE ts = aligned
  <2>1. IsFiniteSet(ts)
    BY <1>4, FS_Subset
  <2>2. /\ Cardinality(ts) \in Nat /\ Cardinality(aligned) \in Nat
        /\ Cardinality(aligned) <= Cardinality(ts)
        /\ Cardinality(aligned) = Cardinality(ts) => aligned = ts
    BY <1>3, <2>1, FS_Subset, FS_CardinalityType
  <2>3. QED
    BY <1>2, <2>2
<1>6. QED
  BY <1>5

LEMMA CleanUniverse ==
    ASSUME NEW rows \in SUBSET AllRows, NEW h, NEW job,
           EvidenceUniverse(rows, h, job) \cap CoverageGaps = {}
    PROVE  /\ \A sym \in job.symbols : OneEach(UniverseCandles(rows, sym, job.window))
           /\ \E T : \A sym \in job.symbols : TimesIn(UniverseCandles(rows, sym, job.window)) = T
<1> DEFINE candles(sym) == UniverseCandles(rows, sym, job.window)
           asset(sym) == AssetReasons(candles(sym), job.months, job.minMonths)
           assets == UNION {asset(sym) : sym \in job.symbols}
           duplicates == UNION {DuplicateMarketTimestamps(candles(sym)) : sym \in job.symbols}
           timesets == {{r.time : r \in candles(sym)} : sym \in job.symbols}
<1>1. /\ assets \subseteq EvidenceUniverse(rows, h, job)
      /\ duplicates \subseteq EvidenceUniverse(rows, h, job)
      /\ AlignmentReasons(timesets) \subseteq EvidenceUniverse(rows, h, job)
  BY DEF EvidenceUniverse
<1>2. /\ \A sym \in job.symbols : asset(sym) \subseteq assets
      /\ \A sym \in job.symbols : DuplicateMarketTimestamps(candles(sym)) \subseteq duplicates
  <2> HIDE DEF candles
  <2>1. QED
    OBVIOUS
<1>3. timesets = {TimesIn(candles(sym)) : sym \in job.symbols}
  BY DEF TimesIn
<1> HIDE DEF candles, assets, duplicates, timesets
<1>4. /\ "missing_market_history" \notin EvidenceUniverse(rows, h, job)
      /\ "duplicate_timestamps" \notin EvidenceUniverse(rows, h, job)
      /\ "timestamp_alignment_gap" \notin EvidenceUniverse(rows, h, job)
  BY DEF CoverageGaps
<1>5. \A sym \in job.symbols : /\ candles(sym) \in SUBSET AllRows
                               /\ \A r \in candles(sym) : r.series.type = "market_candle"
                               /\ TimesIn(candles(sym)) \in SUBSET Times
  BY CandlesAreRows DEF candles
<1>6. ASSUME NEW sym \in job.symbols PROVE OneEach(candles(sym))
  <2>1. "duplicate_timestamps" \notin DuplicateMarketTimestamps(candles(sym))
    BY <1>1, <1>2, <1>4
  <2>2. ~HasDuplicates(candles(sym))
    BY <2>1 DEF DuplicateMarketTimestamps, HasDuplicates
  <2>3. QED
    BY <1>5, <2>2, OneTypeOneEach
<1>7. ASSUME NEW sym \in job.symbols PROVE TimesIn(candles(sym)) # {}
  <2>1. "missing_market_history" \notin asset(sym)
    BY <1>1, <1>2, <1>4
  <2>2. QED
    BY <2>1 DEF AssetReasons, TimesIn
<1>8. "timestamp_alignment_gap" \notin AlignmentReasons(timesets)
  BY <1>1, <1>4
<1>9. \A ts \in timesets : ts # {} /\ ts \in SUBSET Times
  BY <1>3, <1>5, <1>7
<1>10. PICK T : \A ts \in timesets : ts = T
  BY <1>8, <1>9, NoGap
<1>11. \A sym \in job.symbols : TimesIn(candles(sym)) = T
  BY <1>3, <1>10
<1>12. QED
  BY <1>6, <1>11 DEF candles

----------------------------------------------------------------------------
(* The places of a market's lists.                                        *)

(* Pairs of an element of a finite set and one of its places.              *)
PlacesOf(I, size) == UNION {{i} \X (1 .. size[i]) : i \in I}

LEMMA PairsAreFinite ==
    ASSUME NEW I, IsFiniteSet(I), NEW size, \A i \in I : size[i] \in Nat
    PROVE  IsFiniteSet(PlacesOf(I, size))
<1> DEFINE row(i) == {i} \X (1 .. size[i])
           rows == {row(i) : i \in I}
<1>1. \A i \in I : IsFiniteSet(row(i))
  <2> SUFFICES ASSUME NEW i \in I PROVE IsFiniteSet({i} \X (1 .. size[i]))
    OBVIOUS
  <2> DEFINE A == {i}
             B == 1 .. size[i]
  <2>1. IsFiniteSet(A) /\ IsFiniteSet(B)
    <3>1. size[i] \in Nat
      OBVIOUS
    <3>2. IsFiniteSet(1 .. size[i])
      BY <3>1, FS_Interval
    <3>3. QED
      BY <3>2, FS_Singleton
  <2> HIDE DEF A, B
  <2>2. IsFiniteSet(A \X B)
    BY <2>1, FS_Product
  <2>3. QED
    BY <2>2 DEF A, B
<1>2. IsFiniteSet(rows)
  <2> DEFINE f == [i \in I |-> row(i)]
  <2>1. f \in Surjection(I, rows)
    <3> HIDE DEF row
    <3>1. QED
      BY DEF Surjection
  <2> HIDE DEF f, rows
  <2>2. QED
    BY <2>1, FS_Surjection
<1>3. \A T \in rows : IsFiniteSet(T)
  BY <1>1
<1> HIDE DEF rows
<1>4. IsFiniteSet(UNION rows)
  BY <1>2, <1>3, FS_UNION
<1>5. QED
  BY <1>4 DEF rows, PlacesOf

(* A set given as a list: each element has a place of its own.             *)
PlaceIn(rank, x) == CHOOSE i \in DOMAIN rank : rank[i] = x

LEMMA RanksAreApart ==
    ASSUME NEW S, IsFiniteSet(S), NEW rank, rank = SetToSeq(S)
    PROVE  /\ \A x \in S : PlaceIn(rank, x) \in Nat
           /\ \A x, y \in S : PlaceIn(rank, x) = PlaceIn(rank, y) => x = y
<1> DEFINE n == Cardinality(S)
<1>1. n \in Nat
  BY FS_CardinalityType
<1>2. ExistsBijection(1 .. n, S)
  BY FS_CardinalityType
<1>3. \E f \in [1 .. n -> S] : IsInjective(f)
  BY <1>2 DEF ExistsBijection, Bijection, Injection
<1>4. rank \in [1 .. n -> S] /\ IsInjective(rank)
  BY <1>3 DEF SetToSeq
<1>5. IsFiniteSet(1 .. n) /\ Cardinality(1 .. n) = n
  BY <1>1, FS_Interval
<1>6. rank \in Injection(1 .. n, S)
  BY <1>4 DEF Injection
<1> DEFINE D == 1 .. n
<1>7. rank \in Surjection(D, S)
  <2>1. IsFiniteSet(D) /\ Cardinality(D) = Cardinality(S) /\ rank \in Injection(D, S)
    BY <1>5, <1>6
  <2> HIDE DEF D
  <2>2. QED
    BY <2>1, FS_Injection
<1>8. \A x \in S : \E i \in D : rank[i] = x
  BY <1>7 DEF Surjection
<1>9. DOMAIN rank = D /\ D \in SUBSET Nat
  BY <1>1, <1>4
<1> HIDE DEF D, n
<1>10. \A x \in S : PlaceIn(rank, x) \in D /\ rank[PlaceIn(rank, x)] = x
  BY <1>8, <1>9 DEF PlaceIn
<1>11. QED
  BY <1>9, <1>10

----------------------------------------------------------------------------
(* Sorted observations are among those that were taken.                    *)

TimeAt(market, p) == market[p[1]][p[2]].time

Sooner(market, rank, a, b) ==
    \/ TimeAt(market, a) < TimeAt(market, b)
    \/ TimeAt(market, a) = TimeAt(market, b) /\ a[1] # b[1] /\ PlaceIn(rank, a[1]) < PlaceIn(rank, b[1])
    \/ TimeAt(market, a) = TimeAt(market, b) /\ a[1] = b[1] /\ a[2] < b[2]

SoonerOf(market, rank, S, x) == {y \in S : Sooner(market, rank, y, x)}

TakenPlaces(market, take) ==
    {p \in UNION {{sym} \X (1 .. Len(market[sym])) : sym \in DOMAIN market} : take[p[1]][p[2]] # <<>>}

PlacesInOrder(market, rank, S) ==
    [i \in 1 .. Cardinality(S) |-> CHOOSE x \in S : Cardinality(SoonerOf(market, rank, S, x)) = i - 1]

LEMMA SortedPlaces ==
    ASSUME NEW market, NEW take
    PROVE  LET order == PlacesInOrder(market, SetToSeq(DOMAIN market), TakenPlaces(market, take))
           IN Sorted(market, take) = [i \in DOMAIN order |-> take[order[i][1]][order[i][2]][1]]
  BY Zenon DEF Sorted, PlacesInOrder, SoonerOf, Sooner, TimeAt, PlaceIn, InOrder, TakenPlaces

(* What the order needs of a market: candles in lists, times and ranks.    *)
Ranked(market, rank) ==
    /\ IsFiniteSet(DOMAIN market)
    /\ \A sym \in DOMAIN market : /\ Len(market[sym]) \in Nat
                                  /\ \A i \in 1 .. Len(market[sym]) : market[sym][i].time \in Nat
    /\ \A x \in DOMAIN market : PlaceIn(rank, x) \in Nat
    /\ \A x, y \in DOMAIN market : PlaceIn(rank, x) = PlaceIn(rank, y) => x = y

LEMMA TakenAreOrdered ==
    ASSUME NEW market, NEW rank, Ranked(market, rank), NEW take,
           NEW S, S = TakenPlaces(market, take), NEW R, R = {x \in S \X S : Sooner(market, rank, x[1], x[2])}
    PROVE  Orders(R, S)
<1>1. \A p \in S : /\ p[1] \in DOMAIN market /\ p[2] \in 1 .. Len(market[p[1]])
                   /\ p = <<p[1], p[2]>>
  BY DEF TakenPlaces
<1>2. IsFiniteSet(S)
  <2> DEFINE size == [sym \in DOMAIN market |-> Len(market[sym])]
  <2>1. S \subseteq PlacesOf(DOMAIN market, size)
    BY DEF TakenPlaces, PlacesOf
  <2>2. IsFiniteSet(DOMAIN market) /\ \A sym \in DOMAIN market : size[sym] \in Nat
    BY DEF Ranked
  <2> HIDE DEF size
  <2>3. QED
    BY <2>1, <2>2, PairsAreFinite, FS_Subset
<1>3. \A x, y \in S : <<x, y>> \in R <=> Sooner(market, rank, x, y)
  OBVIOUS
<1>4. \A p \in S : TimeAt(market, p) \in Nat /\ PlaceIn(rank, p[1]) \in Nat /\ p[2] \in Nat
  BY <1>1 DEF Ranked, TimeAt
<1>5. \A p, q \in S : PlaceIn(rank, p[1]) = PlaceIn(rank, q[1]) => p[1] = q[1]
  BY <1>1 DEF Ranked
<1>6. \A x, y \in S : Sooner(market, rank, x, y) <=>
         \/ TimeAt(market, x) < TimeAt(market, y)
         \/ TimeAt(market, x) = TimeAt(market, y) /\ PlaceIn(rank, x[1]) < PlaceIn(rank, y[1])
         \/ TimeAt(market, x) = TimeAt(market, y) /\ x[1] = y[1] /\ x[2] < y[2]
  BY <1>4 DEF Sooner
<1>7. \A x \in S : <<x, x>> \notin R
  BY <1>3, <1>4, <1>6
<1>8. ASSUME NEW x \in S, NEW y \in S, NEW z \in S, <<x, y>> \in R, <<y, z>> \in R
      PROVE  <<x, z>> \in R
  <2>1. Sooner(market, rank, x, y) /\ Sooner(market, rank, y, z)
    BY <1>3, <1>8
  <2>2. Sooner(market, rank, x, z)
    BY <1>4, <1>6, <2>1
  <2>3. QED
    BY <1>3, <2>2
<1>9. ASSUME NEW x \in S, NEW y \in S, x # y PROVE <<x, y>> \in R \/ <<y, x>> \in R
  <2>1. x[1] # y[1] \/ x[2] # y[2]
    BY <1>1, <1>9
  <2>2. Sooner(market, rank, x, y) \/ Sooner(market, rank, y, x)
    BY <1>4, <1>5, <1>6, <2>1
  <2>3. QED
    BY <1>3, <2>2
<1>10. QED
  BY <1>2, <1>7, <1>8, <1>9 DEF Orders

LEMMA SortedElements ==
    ASSUME NEW market, Ranked(market, SetToSeq(DOMAIN market)), NEW take,
           NEW k, k \in DOMAIN Sorted(market, take)
    PROVE  \E sym \in DOMAIN market : \E i \in 1 .. Len(market[sym]) :
              take[sym][i] # <<>> /\ Sorted(market, take)[k] = take[sym][i][1]
<1> DEFINE rank == SetToSeq(DOMAIN market)
           S == TakenPlaces(market, take)
           R == {x \in S \X S : Sooner(market, rank, x[1], x[2])}
           order == PlacesInOrder(market, rank, S)
<1>1. Orders(R, S)
  <2> HIDE DEF rank, S
  <2>1. Ranked(market, rank) /\ S = TakenPlaces(market, take)
    BY DEF rank, S
  <2>2. QED
    BY <2>1, TakenAreOrdered
<1>2. Sorted(market, take) = [i \in DOMAIN order |-> take[order[i][1]][order[i][2]][1]]
  BY SortedPlaces
<1>3. \A p \in S : /\ p[1] \in DOMAIN market /\ p[2] \in 1 .. Len(market[p[1]])
                   /\ take[p[1]][p[2]] # <<>>
  BY DEF TakenPlaces
<1>4. \A x \in S : Below(R, S, x) = SoonerOf(market, rank, S, x)
  <2> HIDE DEF rank, S
  <2>1. QED
    BY DEF Below, SoonerOf
<1> HIDE DEF rank, S, R
<1>5. InPlace(order, R, S)
  BY <1>4 DEF InPlace, PlacesInOrder
<1> HIDE DEF order
<1>6. k \in DOMAIN order /\ order[k] \in S
  BY <1>1, <1>2, <1>5, OrderedElements
<1>7. QED
  BY <1>2, <1>3, <1>6

----------------------------------------------------------------------------
(* A universe without coverage gaps.                                      *)

(* The lists of a market: candles at the same times, each of them once.    *)
CleanList(list, T) ==
    /\ Len(list) \in Nat /\ DOMAIN list = 1 .. Len(list)
    /\ \A i \in DOMAIN list : list[i].time \in T
    /\ \A i, j \in DOMAIN list : i < j => list[i].time < list[j].time

CleanMarket(market, T) ==
    /\ IsFiniteSet(DOMAIN market) /\ T \in SUBSET Nat
    /\ \A sym \in DOMAIN market : CleanList(market[sym], T)

(* From one of these times to a later one.                                 *)
TradeBetween(T, o) == o.time \in T /\ o.until \in T /\ o.time < o.until

LEMMA CleanIsRanked ==
    ASSUME NEW market, NEW T, CleanMarket(market, T)
    PROVE  Ranked(market, SetToSeq(DOMAIN market))
<1>1. /\ \A x \in DOMAIN market : PlaceIn(SetToSeq(DOMAIN market), x) \in Nat
      /\ \A x, y \in DOMAIN market :
            PlaceIn(SetToSeq(DOMAIN market), x) = PlaceIn(SetToSeq(DOMAIN market), y) => x = y
  BY RanksAreApart DEF CleanMarket
<1>2. \A sym \in DOMAIN market : /\ Len(market[sym]) \in Nat
                                 /\ \A i \in 1 .. Len(market[sym]) : market[sym][i].time \in Nat
  BY DEF CleanMarket, CleanList
<1>3. QED
  BY <1>1, <1>2 DEF Ranked, CleanMarket

(* What is taken of a candle: nothing, or a trade to the next one.         *)
TakesTrades(market, take) ==
    \A sym \in DOMAIN market : \A i \in DOMAIN market[sym] :
        \/ take[sym][i] = <<>>
        \/ /\ i # Len(market[sym])
           /\ \E score : take[sym][i] = <<Observation(market[sym][i], market[sym][i + 1], score)>>

LEMMA SortedTrades ==
    ASSUME NEW market, NEW T, CleanMarket(market, T), NEW take, TakesTrades(market, take),
           NEW k, k \in DOMAIN Sorted(market, take)
    PROVE  TradeBetween(T, Sorted(market, take)[k])
<1>1. PICK sym \in DOMAIN market :
        \E i \in 1 .. Len(market[sym]) :
           take[sym][i] # <<>> /\ Sorted(market, take)[k] = take[sym][i][1]
  BY CleanIsRanked, SortedElements
<1> DEFINE list == market[sym]
<1>2. CleanList(list, T)
  BY DEF CleanMarket
<1>3. PICK i \in DOMAIN list : take[sym][i] # <<>> /\ Sorted(market, take)[k] = take[sym][i][1]
  BY <1>1, <1>2 DEF CleanList
<1>4. PICK score : i # Len(list) /\ take[sym][i] = <<Observation(list[i], list[i + 1], score)>>
  BY <1>3 DEF TakesTrades
<1>5. Sorted(market, take)[k] = Observation(list[i], list[i + 1], score)
  BY <1>3, <1>4
<1> HIDE DEF list
<1>6. i + 1 \in DOMAIN list /\ i < i + 1
  BY <1>2, <1>4 DEF CleanList
<1>7. list[i].time \in T /\ list[i + 1].time \in T /\ list[i].time < list[i + 1].time
  BY <1>2, <1>6 DEF CleanList
<1>8. QED
  BY <1>5, <1>7 DEF TradeBetween, Observation

LEMMA ReturnsAreTrades ==
    ASSUME NEW market, NEW T, CleanMarket(market, T), NEW lookback, NEW mode,
           NEW k, k \in DOMAIN PerSymbolReturns(market, lookback, mode)
    PROVE  TradeBetween(T, PerSymbolReturns(market, lookback, mode)[k])
<1> DEFINE taken(sym, i) ==
             IF i <= lookback \/ i = Len(market[sym]) THEN <<>>
             ELSE LET then == Number(market[sym][i - lookback])
                      now == Number(market[sym][i])
                  IN IF /\ then > 0 /\ now > 0
                        /\ IF mode = "momentum" THEN now > then ELSE now < then
                     THEN <<Observation(market[sym][i], market[sym][i + 1], Magnitude(Return(then, now)))>>
                     ELSE <<>>
           take == [sym \in DOMAIN market |-> [i \in DOMAIN market[sym] |-> taken(sym, i)]]
<1>1. PerSymbolReturns(market, lookback, mode) = Sorted(market, take)
  BY Zenon DEF PerSymbolReturns
<1>2. \A sym \in DOMAIN market : \A i \in DOMAIN market[sym] :
         \/ taken(sym, i) = <<>>
         \/ /\ i # Len(market[sym])
            /\ \E score : taken(sym, i) = <<Observation(market[sym][i], market[sym][i + 1], score)>>
  BY Zenon
<1> HIDE DEF taken
<1>3. TakesTrades(market, take)
  BY <1>2 DEF TakesTrades
<1> HIDE DEF take
<1>4. QED
  BY <1>1, <1>3, SortedTrades

LEMMA DerivativesAreTrades ==
    ASSUME NEW market, NEW T, CleanMarket(market, T), NEW rows, NEW types,
           NEW k, k \in DOMAIN WithDerivatives(rows, market, types)
    PROVE  TradeBetween(T, WithDerivatives(rows, market, types)[k])
<1> DEFINE records(sym, type) == {r \in rows : QualifiedDerivative(r.series) /\ r.series.type = type
                                            /\ r.series.symbol = sym}
           matched(sym, type, t) == LatestRecordAtOrBefore(records(sym, type), t)
           score(sym, t) == Total([type \in types |-> Magnitude(Number(AnyOf(matched(sym, type, t))))])
           taken(sym, i) ==
             LET now == market[sym][i]
             IN IF \/ i = Len(market[sym]) \/ Number(now) = 0
                   \/ \E type \in types : matched(sym, type, now.time) = {}
                THEN <<>>
                ELSE IF score(sym, now.time) = 0 THEN <<>>
                ELSE <<Observation(now, market[sym][i + 1], score(sym, now.time))>>
           take == [sym \in DOMAIN market |-> [i \in DOMAIN market[sym] |-> taken(sym, i)]]
<1>1. WithDerivatives(rows, market, types) = Sorted(market, take)
  BY Zenon DEF WithDerivatives
<1> HIDE DEF score, matched
<1>2. \A sym \in DOMAIN market : \A i \in DOMAIN market[sym] :
         \/ taken(sym, i) = <<>>
         \/ /\ i # Len(market[sym])
            /\ \E s : taken(sym, i) = <<Observation(market[sym][i], market[sym][i + 1], s)>>
  BY Zenon
<1> HIDE DEF taken
<1>3. TakesTrades(market, take)
  BY <1>2 DEF TakesTrades
<1> HIDE DEF take
<1>4. QED
  BY <1>1, <1>3, SortedTrades
----------------------------------------------------------------------------
(* The ranking of assets.                                                  *)

LEMMA LastIsGreatest ==
    ASSUME NEW V, V \in SUBSET Int, V # {}, NEW n \in Nat, NEW list, DOMAIN list = 1 .. n,
           \A i \in DOMAIN list : list[i] \in V,
           \A x \in V : \E i \in DOMAIN list : list[i] = x,
           \A i, j \in DOMAIN list : i < j => list[i] < list[j]
    PROVE  \E m \in V : \A v \in V : v <= m
<1>1. n \in DOMAIN list
  <2>1. \E i \in DOMAIN list : TRUE
    OBVIOUS
  <2>2. QED
    BY <2>1
<1>2. \A i \in DOMAIN list : list[i] <= list[n]
  <2> SUFFICES ASSUME NEW i \in DOMAIN list PROVE list[i] <= list[n]
    OBVIOUS
  <2>1. list[i] \in Int /\ list[n] \in Int
    BY <1>1
  <2>2. i = n \/ i < n
    OBVIOUS
  <2>3. list[i] = list[n] \/ list[i] < list[n]
    BY <1>1, <2>2
  <2>4. QED
    BY <2>1, <2>3
<1>3. list[n] \in V /\ \A v \in V : v <= list[n]
  BY <1>1, <1>2
<1>4. QED
  BY <1>3

LEMMA LargestOf ==
    ASSUME NEW V, IsFiniteSet(V), V \in SUBSET Int, V # {}
    PROVE  \E m \in V : \A v \in V : v <= m
<1> DEFINE R == {p \in V \X V : p[1] < p[2]}
           list == [i \in 1 .. Cardinality(V) |-> CHOOSE x \in V : Cardinality(Below(R, V, x)) = i - 1]
<1>1. Orders(R, V)
  BY DEF Orders
<1>2. \A x, y \in V : <<x, y>> \in R => x < y
  OBVIOUS
<1> HIDE DEF R
<1>3. InPlace(list, R, V)
  BY DEF InPlace
<1> HIDE DEF list
<1>4. /\ DOMAIN list = 1 .. Cardinality(V) /\ Cardinality(V) \in Nat
      /\ \A i \in DOMAIN list : list[i] \in V /\ Cardinality(Below(R, V, list[i])) = i - 1
      /\ \A x \in V : /\ 1 + Cardinality(Below(R, V, x)) \in DOMAIN list
                      /\ list[1 + Cardinality(Below(R, V, x))] = x
      /\ \A i, j \in DOMAIN list : i < j => <<list[i], list[j]>> \in R
  BY <1>1, <1>3, OrderedElements
<1>5. /\ \A x \in V : \E i \in DOMAIN list : list[i] = x
      /\ \A i, j \in DOMAIN list : i < j => list[i] < list[j]
  BY <1>2, <1>4
<1>6. QED
  BY <1>4, <1>5, LastIsGreatest

LEMMA BestOf ==
    ASSUME NEW S, IsFiniteSet(S), S # {}, NEW f, \A x \in S : f[x] \in Int
    PROVE  \E x \in S : \A y \in S : f[y] <= f[x]
<1> DEFINE values == {f[x] : x \in S}
           g == [x \in S |-> f[x]]
<1>1. g \in Surjection(S, values)
  BY DEF Surjection
<1>2. values \in SUBSET Int /\ values # {}
  OBVIOUS
<1>3. \A x \in S : f[x] \in values
  OBVIOUS
<1>4. \A v \in values : \E x \in S : v = f[x]
  OBVIOUS
<1> HIDE DEF values, g
<1>5. IsFiniteSet(values)
  BY <1>1, FS_Surjection
<1>6. PICK m \in values : \A v \in values : v <= m
  BY <1>2, <1>5, LargestOf
<1>7. QED
  BY <1>3, <1>4, <1>6

LEMMA AscendingIsFunction ==
    ASSUME NEW K
    PROVE  Ascending(K) = [i \in DOMAIN Ascending(K) |-> Ascending(K)[i]]
<1> DEFINE f == [i \in 1 .. Cardinality(K) |-> CHOOSE x \in K : Cardinality({y \in K : y < x}) = i - 1]
<1>1. Ascending(K) = f
  BY Zenon DEF Ascending, InOrder
<1>2. f = [i \in DOMAIN f |-> f[i]]
  OBVIOUS
<1> HIDE DEF f
<1>3. QED
  BY <1>1, <1>2

LEMMA NumbersListed ==
    ASSUME NEW K, Numbers(K), NEW at, at = Ascending(K)
    PROVE  /\ Len(at) \in Nat /\ DOMAIN at = 1 .. Len(at)
           /\ \A i \in DOMAIN at : at[i] \in K
           /\ \A i, j \in DOMAIN at : i < j => at[i] < at[j]
<1>1. /\ DOMAIN at = 1 .. Cardinality(K) /\ Cardinality(K) \in Nat
      /\ \A i \in DOMAIN at : at[i] \in K
      /\ \A i, j \in DOMAIN at : i < j => at[i] < at[j]
  BY NumbersInOrder
<1>2. at = [i \in 1 .. Cardinality(K) |-> at[i]]
  BY <1>1, AscendingIsFunction
<1>3. at \in Seq(K)
  BY <1>1, <1>2
<1>4. Len(at) = Cardinality(K)
  BY <1>1, <1>3
<1>5. QED
  BY <1>1, <1>4

LEMMA ReturnIsWhole == ASSUME NEW from \in Int, from > 0, NEW to \in Int PROVE Return(from, to) \in Int
  BY DEF Return

LEMMA NumbersAreWhole ==
    ASSUME NEW r, r.time \in Times
    PROVE  Number(r) \in Int
  BY LabsAssumption DEF Number

----------------------------------------------------------------------------
(* The trades of the templates.                                           *)

LEMMA CleanPlaces ==
    ASSUME NEW list, NEW T, CleanList(list, T), T \in SUBSET Nat
    PROVE  /\ \A i \in DOMAIN list : i \in Nat /\ list[i].time \in Nat
           /\ \A i, j \in DOMAIN list : i < j => list[i].time < list[j].time
<1>1. \A i \in DOMAIN list : list[i].time \in Nat
  BY DEF CleanList
<1>2. \A i \in DOMAIN list : i \in Nat
  BY DEF CleanList
<1>3. \A i, j \in DOMAIN list : i < j => list[i].time < list[j].time
  BY Zenon DEF CleanList
<1>4. QED
  BY <1>1, <1>2, <1>3

(* The row of a list at a time.                                            *)
RowOn(list, u) == list[Max({j \in DOMAIN list : list[j].time = u})]

LEMMA RowOnTime ==
    ASSUME NEW list, NEW T, CleanList(list, T), T \in SUBSET Nat, NEW u,
           \E j \in DOMAIN list : list[j].time = u
    PROVE  RowOn(list, u).time = u
<1>1. PICK j \in DOMAIN list : list[j].time = u
  OBVIOUS
<1> DEFINE places == {i \in DOMAIN list : list[i].time = u}
<1>0. /\ \A i \in DOMAIN list : i \in Nat /\ list[i].time \in Nat
      /\ \A i, q \in DOMAIN list : i < q => list[i].time < list[q].time
  BY CleanPlaces
<1>2. ASSUME NEW i \in places PROVE i = j
  <2>1. i \in DOMAIN list /\ list[i].time = list[j].time
    BY <1>1
  <2>2. ~(i < j) /\ ~(j < i)
    BY <1>0, <2>1
  <2>3. QED
    BY <1>0, <2>1, <2>2
<1>3. places = {j} /\ j \in Nat
  BY <1>1, <1>2 DEF CleanList
<1> HIDE DEF places
<1>4. Max(places) = j
  BY <1>3 DEF Max
<1>5. QED
  BY <1>1, <1>4 DEF RowOn, places

(* A candidate with the best score.                                        *)
LEMMA BestIsOne ==
    ASSUME NEW S, IsFiniteSet(S), S # {}, NEW f, DOMAIN f = S, \A x \in S : f[x] \in Int
    PROVE  Greatest(f) \in S
<1>1. \E x \in S : \A y \in S : f[y] <= f[x]
  BY BestOf
<1>2. QED
  BY <1>1 DEF Greatest

LEMMA RankingTrades ==
    ASSUME NEW market, NEW T, CleanMarket(market, T), T \in SUBSET Times, NEW lookback \in Nat,
           NEW k, k \in DOMAIN CrossAssetRanking(market, lookback)
    PROVE  TradeBetween(T, CrossAssetRanking(market, lookback)[k])
<1> DEFINE traded == {sym \in DOMAIN market : market[sym] # <<>>}
           times == {t \in Times : traded # {} /\ \A sym \in traded : \E r \in ToSet(market[sym]) : r.time = t}
           aligned == Ascending(times)
           at(sym, i) == market[sym][Max({j \in DOMAIN market[sym] : market[sym][j].time = aligned[i]})]
           score(sym, i) == Return(Number(at(sym, i - lookback)), Number(at(sym, i)))
           rising(i) == {sym \in traded : Number(at(sym, i - lookback)) > 0 /\ score(sym, i) > 0}
           best(i) == Greatest([sym \in rising(i) |-> score(sym, i)])
           places == {i \in DOMAIN aligned : i > lookback /\ i < Len(aligned) /\ rising(i) # {}}
           picks == Ascending(places)
           obs == CrossAssetRanking(market, lookback)
<1>1. obs = [q \in DOMAIN picks |->
               Observation(at(best(picks[q]), picks[q]), at(best(picks[q]), picks[q] + 1),
                           score(best(picks[q]), picks[q]))]
  BY Zenon DEF CrossAssetRanking
<1>2. \A t \in times : t \in Times /\ traded # {} /\ \A sym \in traded : \E r \in ToSet(market[sym]) : r.time = t
  OBVIOUS
<1>3. traded \subseteq DOMAIN market /\ IsFiniteSet(traded)
  BY FS_Subset DEF CleanMarket
<1>4. \A sym, i : at(sym, i) = RowOn(market[sym], aligned[i])
  BY DEF RowOn
<1>5. \A i : rising(i) \subseteq traded /\ \A s \in rising(i) : Number(at(s, i - lookback)) > 0
  OBVIOUS
<1>6. \A i \in places : i \in DOMAIN aligned /\ i > lookback /\ i < Len(aligned) /\ rising(i) # {}
  OBVIOUS
<1>7. Numbers(times)
  <2>1. IsFiniteSet(Times) /\ Times \in SUBSET Nat
    BY RowsAssumption, FS_Interval DEF Times
  <2>2. times \in SUBSET Times
    OBVIOUS
  <2> HIDE DEF times
  <2>3. QED
    BY <2>1, <2>2, FS_Subset DEF Numbers
<1>8. /\ Len(aligned) \in Nat /\ DOMAIN aligned = 1 .. Len(aligned)
      /\ \A i \in DOMAIN aligned : aligned[i] \in times
      /\ \A i, j \in DOMAIN aligned : i < j => aligned[i] < aligned[j]
  <2> HIDE DEF times
  <2>1. QED
    BY <1>7, NumbersListed
<1>9. Numbers(places)
  <2>1. IsFiniteSet(DOMAIN aligned) /\ DOMAIN aligned \in SUBSET Nat
    <3> HIDE DEF aligned
    <3>1. IsFiniteSet(1 .. Len(aligned))
      BY <1>8, FS_Interval
    <3>2. QED
      BY <1>8, <3>1
  <2>2. places \in SUBSET DOMAIN aligned
    OBVIOUS
  <2> HIDE DEF places, aligned
  <2>3. QED
    BY <2>1, <2>2, FS_Subset DEF Numbers
<1> HIDE DEF traded, times, aligned, at, places
<1>10. k \in DOMAIN picks /\ picks[k] \in places
  <2>1. k \in DOMAIN picks
    BY <1>1
  <2>2. QED
    BY <1>9, <2>1, NumbersListed
<1> HIDE DEF picks
<1>11. PICK i \in places : i = picks[k]
  BY <1>10
<1>12. obs[k] = Observation(at(best(i), i), at(best(i), i + 1), score(best(i), i))
  BY <1>1, <1>10, <1>11
<1>13. i \in DOMAIN aligned /\ i + 1 \in DOMAIN aligned /\ i - lookback \in DOMAIN aligned /\ i < i + 1
  BY <1>6, <1>8
<1>14. ASSUME NEW sym \in traded, NEW j \in DOMAIN aligned
       PROVE  at(sym, j).time = aligned[j]
  <2>1. CleanList(market[sym], T)
    BY <1>3 DEF CleanMarket
  <2>2. PICK r \in ToSet(market[sym]) : r.time = aligned[j]
    BY <1>2, <1>8
  <2>3. \E p \in DOMAIN market[sym] : market[sym][p].time = aligned[j]
    BY <2>2 DEF ToSet
  <2>4. QED
    BY <1>4, <2>1, <2>3, RowOnTime DEF CleanMarket
<1>15. \A sym \in traded : \A j \in DOMAIN aligned : Number(at(sym, j)) \in Int
  BY <1>2, <1>8, <1>14, NumbersAreWhole
<1>16. \A s \in rising(i) : score(s, i) \in Int
  BY <1>5, <1>13, <1>15, ReturnIsWhole
<1>17. best(i) \in traded
  <2> DEFINE S == rising(i)
             f == [s \in S |-> score(s, i)]
  <2>1. S # {} /\ IsFiniteSet(S)
    BY <1>3, <1>5, <1>6, FS_Subset
  <2>2. \A s \in S : f[s] \in Int
    BY <1>16
  <2>3. best(i) = Greatest(f) /\ DOMAIN f = S
    OBVIOUS
  <2> HIDE DEF best, S, f
  <2>4. best(i) \in S
    BY <2>1, <2>2, <2>3, BestIsOne
  <2>5. QED
    BY <1>5, <2>4 DEF S
<1> HIDE DEF best, score, rising
<1>18. obs[k].time = aligned[i] /\ obs[k].until = aligned[i + 1]
  BY <1>12, <1>13, <1>14, <1>17 DEF Observation
<1>19. \A t \in times : t \in T
  <2> SUFFICES ASSUME NEW t \in times PROVE t \in T
    OBVIOUS
  <2>1. PICK sym \in traded : \E r \in ToSet(market[sym]) : r.time = t
    BY <1>2, <1>17
  <2>2. CleanList(market[sym], T)
    BY <1>3 DEF CleanMarket
  <2>3. QED
    BY <2>1, <2>2 DEF ToSet, CleanList
<1>20. QED
  BY <1>8, <1>13, <1>18, <1>19 DEF TradeBetween

(* Every observation of a clean market is a trade between times at which   *)
(* all its symbols have one candle.                                        *)
LEMMA HistoricalTrades ==
    ASSUME NEW market, NEW T, CleanMarket(market, T), T \in SUBSET Times, NEW id, NEW rows,
           NEW k, k \in DOMAIN HistoricalObservations(id, rows, market)
    PROVE  TradeBetween(T, HistoricalObservations(id, rows, market)[k])
<1> DEFINE obs == HistoricalObservations(id, rows, market)
<1>1. \/ \E types : obs = WithDerivatives(rows, market, types)
      \/ obs = CrossAssetRanking(market, LongLookback)
      \/ \E lookback, mode : obs = PerSymbolReturns(market, lookback, mode)
      \/ obs = <<>>
  BY Zenon DEF HistoricalObservations, BasisFundingObservations, CrowdingObservations
<1> HIDE DEF obs
<1>2. k \in DOMAIN obs
  BY DEF obs
<1>3. TradeBetween(T, obs[k])
  <2>1. CASE \E types : obs = WithDerivatives(rows, market, types)
    BY <1>2, <2>1, DerivativesAreTrades
  <2>2. CASE obs = CrossAssetRanking(market, LongLookback)
    BY <1>2, <2>2, RankingTrades, LabsAssumption
  <2>3. CASE \E lookback, mode : obs = PerSymbolReturns(market, lookback, mode)
    BY <1>2, <2>3, ReturnsAreTrades
  <2>4. CASE obs = <<>>
    BY <1>2, <2>4
  <2>5. QED
    BY <1>1, <2>1, <2>2, <2>3, <2>4
<1>4. QED
  BY <1>3 DEF obs

----------------------------------------------------------------------------
(* A metric's observations.                                               *)

LEMMA NoneNumbered == Numbered(<<>>)
<1>1. DOMAIN <<>> = 1 .. 0
  OBVIOUS
<1>2. QED
  BY <1>1 DEF Numbered

LEMMA SortedIsList ==
    ASSUME NEW market, Ranked(market, SetToSeq(DOMAIN market)), NEW take
    PROVE  Numbered(Sorted(market, take))
<1> DEFINE rank == SetToSeq(DOMAIN market)
           S == TakenPlaces(market, take)
           R == {x \in S \X S : Sooner(market, rank, x[1], x[2])}
           order == PlacesInOrder(market, rank, S)
<1>1. IsFiniteSet(S)
  <2> HIDE DEF rank, S
  <2>1. Ranked(market, rank) /\ S = TakenPlaces(market, take)
    BY DEF rank, S
  <2>2. QED
    BY <2>1, TakenAreOrdered DEF Orders
<1>2. DOMAIN Sorted(market, take) = DOMAIN order
  BY SortedPlaces
<1> HIDE DEF S, rank
<1>3. DOMAIN order = 1 .. Cardinality(S)
  BY DEF PlacesInOrder
<1> HIDE DEF order
<1>4. Cardinality(S) \in Nat
  BY <1>1, FS_CardinalityType
<1>5. QED
  BY <1>2, <1>3, <1>4 DEF Numbered

LEMMA RankingIsList ==
    ASSUME NEW market, NEW lookback
    PROVE  Numbered(CrossAssetRanking(market, lookback))
<1> DEFINE traded == {sym \in DOMAIN market : market[sym] # <<>>}
           times == {t \in Times : traded # {} /\ \A sym \in traded : \E r \in ToSet(market[sym]) : r.time = t}
           aligned == Ascending(times)
           at(sym, i) == market[sym][Max({j \in DOMAIN market[sym] : market[sym][j].time = aligned[i]})]
           score(sym, i) == Return(Number(at(sym, i - lookback)), Number(at(sym, i)))
           rising(i) == {sym \in traded : Number(at(sym, i - lookback)) > 0 /\ score(sym, i) > 0}
           best(i) == Greatest([sym \in rising(i) |-> score(sym, i)])
           places == {i \in DOMAIN aligned : i > lookback /\ i < Len(aligned) /\ rising(i) # {}}
           picks == Ascending(places)
           obs == CrossAssetRanking(market, lookback)
<1>1. obs = [q \in DOMAIN picks |->
               Observation(at(best(picks[q]), picks[q]), at(best(picks[q]), picks[q] + 1),
                           score(best(picks[q]), picks[q]))]
  BY Zenon DEF CrossAssetRanking
<1>2. times \in SUBSET Times
  OBVIOUS
<1>3. places \in SUBSET DOMAIN aligned
  OBVIOUS
<1> HIDE DEF obs, best, rising, at, score, times, traded
<1>4. DOMAIN obs = DOMAIN picks
  BY <1>1
<1>5. Numbers(times)
  <2>1. IsFiniteSet(Times) /\ Times \in SUBSET Nat
    BY RowsAssumption, FS_Interval DEF Times
  <2>2. QED
    BY <1>2, <2>1, FS_Subset DEF Numbers
<1>6. IsFiniteSet(DOMAIN aligned) /\ DOMAIN aligned \in SUBSET Nat
  <2>1. Cardinality(times) \in Nat /\ DOMAIN aligned = 1 .. Cardinality(times)
    BY <1>5, NumbersInOrder
  <2>2. IsFiniteSet(1 .. Cardinality(times))
    BY <2>1, FS_Interval
  <2> HIDE DEF aligned
  <2>3. QED
    BY <2>1, <2>2
<1> HIDE DEF aligned, places
<1>7. Numbers(places)
  BY <1>3, <1>6, FS_Subset DEF Numbers
<1>8. Cardinality(places) \in Nat /\ DOMAIN picks = 1 .. Cardinality(places)
  BY <1>7, NumbersInOrder
<1>9. Numbered(obs)
  BY <1>4, <1>8 DEF Numbered
<1>10. QED
  BY <1>9 DEF obs

LEMMA HistoricalIsList ==
    ASSUME NEW market, NEW T, CleanMarket(market, T), NEW id, NEW rows
    PROVE  Numbered(HistoricalObservations(id, rows, market))
<1> DEFINE obs == HistoricalObservations(id, rows, market)
<1>1. \/ \E types : obs = WithDerivatives(rows, market, types)
      \/ obs = CrossAssetRanking(market, LongLookback)
      \/ \E lookback, mode : obs = PerSymbolReturns(market, lookback, mode)
      \/ obs = <<>>
  BY Zenon DEF HistoricalObservations, BasisFundingObservations, CrowdingObservations
<1>2. ASSUME NEW types PROVE \E take : WithDerivatives(rows, market, types) = Sorted(market, take)
  BY DEF WithDerivatives
<1>3. ASSUME NEW lookback, NEW mode
      PROVE  \E take : PerSymbolReturns(market, lookback, mode) = Sorted(market, take)
  BY DEF PerSymbolReturns
<1> HIDE DEF obs
<1>4. \/ \E take : obs = Sorted(market, take)
      \/ obs = CrossAssetRanking(market, LongLookback)
      \/ obs = <<>>
  BY <1>1, <1>2, <1>3
<1>6. Numbered(obs)
  BY <1>4, NoneNumbered, CleanIsRanked, SortedIsList, RankingIsList
<1>7. QED
  BY <1>6 DEF obs

(* With or without the filter of costs, observations are some of the raw.  *)
LEMMA CostAwareElements ==
    ASSUME NEW raw, Numbered(raw), NEW cost, NEW job, NEW k, k \in DOMAIN CostAware(raw, cost, job)
    PROVE  \E i \in DOMAIN raw : CostAware(raw, cost, job)[k] = raw[i]
<1> DEFINE K == {i \in DOMAIN raw : raw[i].score >= cost * job.multiplier}
           obs == CostAware(raw, cost, job)
<1>1. obs = IF job.multiplier = 0 THEN raw ELSE Picked(raw, K)
  BY DEF CostAware
<1>2. PICK n \in Nat : DOMAIN raw = 1 .. n
  BY DEF Numbered
<1>3. K \in SUBSET (1 .. n)
  BY <1>2
<1> HIDE DEF K
<1>4. Numbers(K)
  <2>1. IsFiniteSet(1 .. n) /\ 1 .. n \in SUBSET Nat
    BY FS_Interval
  <2>2. QED
    BY <1>3, <2>1, FS_Subset DEF Numbers
<1>5. \A i \in DOMAIN Picked(raw, K) : \E q \in K : Picked(raw, K)[i] = raw[q]
  BY <1>4, PickedElements
<1>6. k \in DOMAIN obs
  OBVIOUS
<1> HIDE DEF obs
<1>7. \E i \in DOMAIN raw : obs[k] = raw[i]
  BY <1>1, <1>2, <1>3, <1>5, <1>6
<1>8. QED
  BY <1>7 DEF obs

----------------------------------------------------------------------------
(* A candidate that passes the lab of many hypotheses.                     *)

LabMarket(rows, job) == [sym \in job.symbols |-> MarketRows(rows, sym, job.window)]

LEMMA MarketIsClean ==
    ASSUME NEW rows \in SUBSET AllRows, NEW h, NEW job, IsFiniteSet(job.symbols),
           EvidenceUniverse(rows, h, job) \cap CoverageGaps = {}
    PROVE  \E T \in SUBSET Times :
              /\ CleanMarket(LabMarket(rows, job), T)
              /\ \A sym \in job.symbols : /\ OneEach(ToSet(MarketRows(rows, sym, job.window)))
                                          /\ TimesIn(ToSet(MarketRows(rows, sym, job.window))) = T
<1> DEFINE candles(sym) == UniverseCandles(rows, sym, job.window)
           list(sym) == MarketRows(rows, sym, job.window)
<1>1. \A sym \in job.symbols : OneEach(candles(sym))
  BY CleanUniverse
<1>2. PICK T0 : \A sym \in job.symbols : TimesIn(candles(sym)) = T0
  BY CleanUniverse
<1> DEFINE T == T0 \cap Times
<1>3. \A sym \in job.symbols : TimesIn(candles(sym)) = T
  BY <1>2, CandlesAreRows
<1>4. T \in SUBSET Times /\ T \in SUBSET Nat
  BY RowsAssumption DEF Times
<1>5. \A sym \in job.symbols : ListsByTime(list(sym), candles(sym))
  BY <1>1, MarketInOrder
<1> HIDE DEF candles, list, T
<1>6. \A sym \in job.symbols : ToSet(list(sym)) = candles(sym)
  BY <1>5 DEF ListsByTime, ToSet
<1>7. \A sym \in job.symbols : CleanList(list(sym), T)
  BY <1>3, <1>5 DEF ListsByTime, CleanList, TimesIn
<1>8. CleanMarket(LabMarket(rows, job), T)
  BY <1>4, <1>7 DEF CleanMarket, LabMarket, list
<1>9. \A sym \in job.symbols : OneEach(ToSet(list(sym))) /\ TimesIn(ToSet(list(sym))) = T
  BY <1>1, <1>3, <1>6
<1>10. QED
  BY <1>4, <1>8, <1>9 DEF list

LEMMA MetricOnCleanRows ==
    ASSUME NEW rows \in SUBSET AllRows, NEW h, NEW job, IsFiniteSet(job.symbols), NEW id, NEW screen,
           CandidateMetric(id, EvidenceUniverse(rows, h, job), screen, rows, job).reasons = {},
           NEW k, k \in DOMAIN CandidateMetric(id, EvidenceUniverse(rows, h, job), screen, rows, job).observations,
           NEW candles, \A sym \in job.symbols : candles[sym] = ToSet(MarketRows(rows, sym, job.window))
    PROVE  OnCandles(candles, job.symbols,
             CandidateMetric(id, EvidenceUniverse(rows, h, job), screen, rows, job).observations[k])
<1> DEFINE universe == EvidenceUniverse(rows, h, job)
           metric == CandidateMetric(id, universe, screen, rows, job)
           market == LabMarket(rows, job)
           before == CoverageReasons(id, universe, screen)
           hist == HistoricalObservations(id, rows, market)
<1>1. /\ before \subseteq metric.reasons
      /\ \/ metric.observations = CostAware(hist, BaselineCost(job), job)
         \/ metric.observations = CostAware(<<>>, BaselineCost(job), job)
  BY DEF CandidateMetric, LabMarket
<1>2. universe \cap CoverageGaps = {}
  <2>1. "insufficient_universe_coverage" \notin before
    BY <1>1
  <2> HIDE DEF universe
  <2>2. QED
    BY <2>1 DEF CoverageReasons, HasUniverseCoverageGap
<1>3. k \in DOMAIN metric.observations
  OBVIOUS
<1>4. PICK T \in SUBSET Times :
         /\ CleanMarket(market, T)
         /\ \A sym \in job.symbols : /\ OneEach(ToSet(MarketRows(rows, sym, job.window)))
                                     /\ TimesIn(ToSet(MarketRows(rows, sym, job.window))) = T
  BY <1>2, MarketIsClean
<1> HIDE DEF universe, metric, market, before, hist
<1>5. \E i \in DOMAIN hist : metric.observations[k] = hist[i]
  <2>1. Numbered(hist) /\ Numbered(<<>>)
    BY <1>4, HistoricalIsList, NoneNumbered DEF hist
  <2>2. CASE metric.observations = CostAware(hist, BaselineCost(job), job)
    BY <1>3, <2>1, <2>2, CostAwareElements
  <2>3. CASE metric.observations = CostAware(<<>>, BaselineCost(job), job)
    BY <1>3, <2>1, <2>3, CostAwareElements
  <2>4. QED
    BY <1>1, <2>2, <2>3
<1>6. TradeBetween(T, metric.observations[k])
  BY <1>4, <1>5, HistoricalTrades DEF hist
<1> DEFINE o == metric.observations[k]
<1>7. o.time < o.until /\ o.time \in T /\ o.until \in T
  BY <1>6 DEF TradeBetween
<1>8. \A sym \in job.symbols : OneEach(candles[sym]) /\ TimesIn(candles[sym]) = T
  BY <1>4
<1> HIDE DEF o
<1>9. \A sym \in job.symbols : \A t \in {o.time, o.until} : \E r \in candles[sym] : r.time = t
  BY <1>7, <1>8 DEF TimesIn
<1>10. OnCandles(candles, job.symbols, o)
  BY <1>7, <1>8, <1>9, OnOneEach
<1>11. QED
  BY <1>10 DEF o, metric, universe

----------------------------------------------------------------------------
(* What a lab has read, and what its report is made of.                   *)

Lab == "multi-hypothesis-lab"

IsLab(x) == x = [universe |-> x.universe, first |-> x.first, rows |-> x.rows,
                 screens |-> x.screens, report |-> x.report]

OfUniverse(c) == \E h : lab[c].universe = EvidenceUniverse(lab[c].first, h, Commands[c])

(* What a report is made of.                                               *)
Reported(c) ==
    IF Commands[c].mode = Lab
    THEN /\ OfUniverse(c)
         /\ \A id \in DOMAIN lab[c].report : \E screen :
               lab[c].report[id] = CandidateMetric(id, lab[c].universe, screen, lab[c].rows, Commands[c])
    ELSE lab[c].report = StrategyReport(lab[c].rows, Commands[c])

LabHolds(c) ==
    /\ IsLab(lab[c]) /\ lab[c].rows \in SUBSET AllRows
    /\ phase[c] \in {"records", "screens", "judge"} =>
          Commands[c].kind = "lab" /\ Commands[c].mode = Lab /\ OfUniverse(c)
    /\ phase[c] # "done" => lab[c].report = <<>>
    /\ lab[c].report # <<>> => Commands[c].kind = "lab" /\ Reported(c)

LabInv ==
    /\ lab = [c \in Cmds |-> lab[c]]
    /\ \A c \in Cmds : LabHolds(c)

LEMMA LabInit == DataInit => LabInv
<1> SUFFICES ASSUME DataInit PROVE LabInv
  OBVIOUS
<1>1. lab = [c \in Cmds |-> NoLab] /\ phase = [c \in Cmds |-> "idle"]
  BY DEF DataInit
<1>2. ASSUME NEW c \in Cmds PROVE LabHolds(c)
  BY <1>1 DEF LabHolds, IsLab, NoLab
<1>3. QED
  BY <1>1, <1>2 DEF LabInv

(* Another command's lab.                                                  *)
LEMMA OtherLab ==
    ASSUME NEW d \in Cmds, LabHolds(d), lab'[d] = lab[d], phase'[d] = phase[d]
    PROVE  LabHolds(d)'
  BY DEF LabHolds, Reported, OfUniverse

LEMMA LabKept ==
    ASSUME StoredInv, LabInv, NEW c \in Cmds, NEW to, phase' = [phase EXCEPT ![c] = to],
           phase[c] # "done", to \notin {"records", "screens", "judge"}, lab' = lab
    PROVE  LabInv'
<1>1. /\ phase'[c] = to /\ \A d \in Cmds \ {c} : phase'[d] = phase[d]
  BY ChangeOne DEF StoredInv
<1>2. LabHolds(c)'
  BY <1>1 DEF LabInv, LabHolds
<1>3. \A d \in Cmds \ {c} : LabHolds(d)'
  BY <1>1, OtherLab DEF LabInv
<1>4. QED
  BY <1>2, <1>3 DEF LabInv

(* A step of a lab.                                                        *)
LEMMA LabMoves ==
    ASSUME StoredInv, LabInv, NEW c \in Cmds, NEW to, NEW x,
           phase' = [phase EXCEPT ![c] = to], lab' = [lab EXCEPT ![c] = x],
           (lab'[c] = x /\ phase'[c] = to) => LabHolds(c)'
    PROVE  LabInv'
<1>1. phase'[c] = to /\ \A d \in Cmds \ {c} : phase'[d] = phase[d]
  BY ChangeOne DEF StoredInv
<1>2. /\ lab' = [d \in Cmds |-> lab'[d]] /\ lab'[c] = x
      /\ \A d \in Cmds \ {c} : lab'[d] = lab[d]
  BY ChangeOne DEF LabInv
<1>3. \A d \in Cmds \ {c} : LabHolds(d)'
  BY <1>1, <1>2, OtherLab DEF LabInv
<1>4. QED
  BY <1>1, <1>2, <1>3 DEF LabInv

(* What a lab has read replaces what it had.                               *)
LabRead(l, universe, first) == [l EXCEPT !.universe = universe, !.first = first]

LabReported(l, read, report) == [l EXCEPT !.first = read, !.rows = read, !.report = report]

LEMMA LabUniverse ==
    ASSUME NEW l, IsLab(l), NEW U
    PROVE  LET x == [l EXCEPT !.universe = U]
           IN IsLab(x) /\ x.universe = U /\ x.rows = l.rows /\ x.report = l.report
  BY DEF IsLab

LEMMA LabFirst ==
    ASSUME NEW l, IsLab(l), NEW F
    PROVE  LET x == [l EXCEPT !.first = F]
           IN /\ IsLab(x) /\ x.universe = l.universe /\ x.first = F
              /\ x.rows = l.rows /\ x.report = l.report
  BY DEF IsLab

LEMMA LabRows ==
    ASSUME NEW l, IsLab(l), NEW R
    PROVE  LET x == [l EXCEPT !.rows = R]
           IN IsLab(x) /\ x.rows = R /\ x.report = l.report
  BY DEF IsLab

LEMMA LabReportMade ==
    ASSUME NEW l, IsLab(l), NEW rep
    PROVE  LET x == [l EXCEPT !.report = rep]
           IN IsLab(x) /\ x.rows = l.rows /\ x.report = rep
  BY DEF IsLab

LEMMA LabReads ==
    ASSUME NEW l, IsLab(l), NEW U, NEW F
    PROVE  LET x == LabRead(l, U, F)
           IN IsLab(x) /\ x.universe = U /\ x.first = F /\ x.rows = l.rows /\ x.report = l.report
<1> DEFINE m == [l EXCEPT !.universe = U]
<1>1. LabRead(l, U, F) = [m EXCEPT !.first = F]
  BY DEF LabRead
<1>2. IsLab(m) /\ m.universe = U /\ m.rows = l.rows /\ m.report = l.report
  BY LabUniverse
<1> HIDE DEF m
<1>3. QED
  BY <1>1, <1>2, LabFirst

LEMMA LabReports ==
    ASSUME NEW l, IsLab(l), NEW R, NEW rep
    PROVE  LET x == LabReported(l, R, rep)
           IN IsLab(x) /\ x.rows = R /\ x.report = rep
<1> DEFINE m == [l EXCEPT !.first = R]
           n == [m EXCEPT !.rows = R]
<1>1. LabReported(l, R, rep) = [n EXCEPT !.report = rep]
  BY DEF LabReported
<1>2. IsLab(m)
  BY LabFirst
<1> HIDE DEF m
<1>3. IsLab(n) /\ n.rows = R
  BY <1>2, LabRows
<1> HIDE DEF n
<1>4. QED
  BY <1>1, <1>3, LabReportMade

LEMMA ReadUniverseStep ==
    ASSUME StoredInv, LabInv, NEW c \in Cmds, ReadUniverse(c)
    PROVE  LabInv'
<1> DEFINE read == RowsOf(table)
           made == EvidenceUniverse(read, health, Commands[c])
           x == LabRead(lab[c], made, read)
<1>1. /\ Commands[c].kind = "lab" /\ Commands[c].mode = Lab /\ phase[c] = "next"
      /\ phase' = [phase EXCEPT ![c] = "records"] /\ lab' = [lab EXCEPT ![c] = x]
  BY DEF ReadUniverse, Lab, LabRead
<1>2. LabHolds(c)
  BY DEF LabInv
<1>3. IsLab(lab[c]) /\ lab[c].rows \in SUBSET AllRows /\ lab[c].report = <<>>
  BY <1>1, <1>2 DEF LabHolds
<1> HIDE DEF read, made
<1>4. /\ IsLab(x) /\ x.universe = made /\ x.first = read
      /\ x.rows = lab[c].rows /\ x.report = lab[c].report
  BY ONLY <1>3, LabReads
<1> HIDE DEF x
<1>5. x.universe = EvidenceUniverse(x.first, health, Commands[c])
  BY <1>4 DEF made
<1>6. ASSUME lab'[c] = x, phase'[c] = "records" PROVE LabHolds(c)'
  <2>1. OfUniverse(c)'
    BY <1>5, <1>6 DEF OfUniverse
  <2>2. QED
    BY <1>1, <1>3, <1>4, <1>6, <2>1 DEF LabHolds
<1>7. QED
  BY <1>1, <1>6, LabMoves

LEMMA ReadRecordsStep ==
    ASSUME StoredInv, LabInv, NEW c \in Cmds, ReadRecords(c)
    PROVE  LabInv'
<1> DEFINE x == [lab[c] EXCEPT !.rows = RowsOf(table)]
<1>1. /\ phase[c] = "records"
      /\ phase' = [phase EXCEPT ![c] = "screens"] /\ lab' = [lab EXCEPT ![c] = x]
  BY DEF ReadRecords
<1>2. LabHolds(c)
  BY DEF LabInv
<1>3. RowsOf(table) \in SUBSET AllRows
  BY DEF StoredInv, TableOfRows, RowsOf
<1>4. /\ x.universe = lab[c].universe /\ x.first = lab[c].first /\ IsLab(x)
      /\ x.rows \in SUBSET AllRows /\ x.report = <<>>
  BY <1>1, <1>2, <1>3 DEF LabHolds, IsLab
<1> HIDE DEF x
<1>5. ASSUME lab'[c] = x, phase'[c] = "screens" PROVE LabHolds(c)'
  BY <1>1, <1>2, <1>4, <1>5 DEF LabHolds, OfUniverse
<1>6. QED
  BY <1>1, <1>5, LabMoves

LEMMA ReadScreenStep ==
    ASSUME StoredInv, LabInv, NEW c \in Cmds, ReadScreen(c)
    PROVE  LabInv'
<1>1. PICK s, to :
        /\ phase[c] = "screens" /\ to \in {"judge", "screens"}
        /\ phase' = [phase EXCEPT ![c] = to] /\ lab' = [lab EXCEPT ![c].screens = s]
  BY DEF ReadScreen
<1> DEFINE x == [lab[c] EXCEPT !.screens = s]
<1>2. LabHolds(c)
  BY DEF LabInv
<1>3. /\ x.universe = lab[c].universe /\ x.first = lab[c].first /\ IsLab(x)
      /\ x.rows \in SUBSET AllRows /\ x.report = <<>>
  BY <1>1, <1>2 DEF LabHolds, IsLab
<1>4. lab' = [lab EXCEPT ![c] = x]
  BY <1>1
<1> HIDE DEF x
<1>5. ASSUME lab'[c] = x, phase'[c] = to PROVE LabHolds(c)'
  BY <1>1, <1>2, <1>3, <1>5 DEF LabHolds, OfUniverse
<1>6. QED
  BY <1>1, <1>4, <1>5, LabMoves

LEMMA JudgeStep ==
    ASSUME StoredInv, LabInv, NEW c \in Cmds, Judge(c)
    PROVE  LabInv'
<1> DEFINE report == LabReport(c)
           x == [lab[c] EXCEPT !.report = report]
<1>1. /\ phase[c] = "judge"
      /\ phase' = [phase EXCEPT ![c] = "done"] /\ lab' = [lab EXCEPT ![c] = x]
  BY DEF Judge
<1>2. LabHolds(c)
  BY DEF LabInv
<1>3. \A id \in DOMAIN report : \E screen :
         report[id] = CandidateMetric(id, lab[c].universe, screen, lab[c].rows, Commands[c])
  BY DEF LabReport
<1> HIDE DEF report
<1>4. /\ x.universe = lab[c].universe /\ x.first = lab[c].first /\ IsLab(x)
      /\ x.rows = lab[c].rows /\ x.report = report
  BY <1>1, <1>2 DEF LabHolds, IsLab
<1> HIDE DEF x
<1>5. ASSUME lab'[c] = x, phase'[c] = "done" PROVE LabHolds(c)'
  <2>1. OfUniverse(c)'
    BY <1>1, <1>2, <1>4, <1>5 DEF LabHolds, OfUniverse
  <2>2. Reported(c)'
    BY <1>1, <1>2, <1>3, <1>4, <1>5, <2>1 DEF LabHolds, Reported
  <2>3. QED
    BY <1>1, <1>2, <1>4, <1>5, <2>2 DEF LabHolds
<1>6. QED
  BY <1>1, <1>5, LabMoves

LEMMA StrategyLabStep ==
    ASSUME StoredInv, LabInv, NEW c \in Cmds, StrategyLab(c)
    PROVE  LabInv'
<1> DEFINE read == RowsOf(table)
           made == StrategyReport(read, Commands[c])
           x == LabReported(lab[c], read, made)
<1>1. /\ Commands[c].kind = "lab" /\ Commands[c].mode # Lab
      /\ phase' = [phase EXCEPT ![c] = "done"] /\ lab' = [lab EXCEPT ![c] = x]
  BY DEF StrategyLab, Lab, LabReported
<1>2. LabHolds(c)
  BY DEF LabInv
<1>3. RowsOf(table) \in SUBSET AllRows
  BY DEF StoredInv, TableOfRows, RowsOf
<1> HIDE DEF made
<1>4. IsLab(lab[c])
  BY <1>2 DEF LabHolds
<1>5. IsLab(x) /\ x.rows = read /\ x.report = made
  <2> HIDE DEF read
  <2> QED
    BY ONLY <1>4, LabReports
<1>6. /\ x.rows \in SUBSET AllRows /\ IsLab(x)
      /\ x.report = StrategyReport(x.rows, Commands[c])
  BY <1>3, <1>5 DEF made
<1> HIDE DEF x
<1>7. ASSUME lab'[c] = x, phase'[c] = "done" PROVE LabHolds(c)'
  BY <1>1, <1>6, <1>7 DEF LabHolds, Reported
<1>8. QED
  BY <1>1, <1>7, LabMoves

LEMMA LabStep == StoredInv /\ LabInv /\ [DataNext]_dataVars => LabInv'
<1> SUFFICES ASSUME StoredInv, LabInv, [DataNext]_dataVars PROVE LabInv'
  OBVIOUS
<1>1. ASSUME NEW c \in Cmds,
             \/ Begin(c) \/ Fetch(c) \/ Store(c) \/ SayHealth(c) \/ Snapshot(c) \/ Probe(c)
             \/ Finish(c) \/ Kill(c) \/ ValidateFamily(c) \/ PaperFamily(c)
      PROVE  LabInv'
  <2>1. /\ lab' = lab /\ phase[c] # "done"
        /\ \E to : phase' = [phase EXCEPT ![c] = to] /\ to \notin {"records", "screens", "judge"}
    <3>1. CASE Begin(c) \/ Fetch(c) \/ Store(c)
      BY <3>1 DEF Begin, Fetch, Store, At
    <3>2. CASE SayHealth(c) \/ Snapshot(c) \/ Probe(c)
      BY <3>2 DEF SayHealth, Snapshot, Probe, Report, At
    <3>3. CASE Finish(c) \/ Kill(c)
      BY <3>3 DEF Finish, Kill
    <3>4. CASE ValidateFamily(c) \/ PaperFamily(c)
      BY <3>4 DEF ValidateFamily, PaperFamily, At
    <3>5. QED
      BY <1>1, <3>1, <3>2, <3>3, <3>4
  <2>2. QED
    BY <2>1, LabKept
<1>2. ASSUME NEW c \in Cmds,
             ReadUniverse(c) \/ ReadRecords(c) \/ ReadScreen(c) \/ Judge(c) \/ StrategyLab(c)
      PROVE  LabInv'
  BY <1>2, ReadUniverseStep, ReadRecordsStep, ReadScreenStep, JudgeStep, StrategyLabStep
<1>3. CASE UNCHANGED dataVars
  BY <1>3 DEF LabInv, LabHolds, Reported, OfUniverse, dataVars
<1>4. QED
  BY <1>1, <1>2, <1>3 DEF DataNext

(* A candidate that passes one of the older labs.                          *)
LEMMA StrategyOnCleanRows ==
    ASSUME NEW rows \in SUBSET AllRows, NEW job, NEW id, id \in DOMAIN StrategyReport(rows, job),
           StrategyReport(rows, job)[id].reasons = {},
           NEW k, k \in DOMAIN StrategyReport(rows, job)[id].observations,
           NEW candles, \A sym \in job.symbols : candles[sym] = StrategyCandles(rows, sym)
    PROVE  OnCandles(candles, job.symbols, StrategyReport(rows, job)[id].observations[k])
<1>1. CASE job.mode = Liquid
  <2>1. StrategyReport(rows, job)[id] = MomentumLab(rows, job)
    BY <1>1 DEF StrategyReport
  <2>2. QED
    BY <2>1, MomentumOnCleanRows
<1>2. CASE job.mode # Liquid
  <2>1. StrategyReport(rows, job) = DerivativesLab(rows, job)
    BY <1>2 DEF StrategyReport
  <2>2. QED
    BY <2>1, DerivativesOnCleanRows
<1>3. QED
  BY <1>1, <1>2

(* A candidate that a lab lets pass rests on clean rows, whatever other    *)
(* commands write beside it: where a trade begins and where it ends,       *)
(* later, every symbol has one candle, if nothing was committed between    *)
(* the lab's reads (pipeline/multi_hypothesis_feasibility.py, the coverage *)
(* gaps; pipeline/strategy_feasibility.py, duplicate_timestamps).          *)
THEOREM PassingLabsAreOnCleanRows == DataSpec => []FeasibleOnCleanRows
<1>1. LabInv /\ active \subseteq Cmds => FeasibleOnCleanRows
  <2> SUFFICES ASSUME LabInv, active \subseteq Cmds, NEW c \in active,
                      NEW id \in DOMAIN lab[c].report, Feasible(c, id), OneSnapshot(c),
                      NEW k \in DOMAIN lab[c].report[id].observations
               PROVE  LET o == lab[c].report[id].observations[k]
                      IN /\ o.time < o.until
                         /\ \A sym \in Commands[c].symbols : \A t \in {o.time, o.until} :
                               Cardinality({r \in LabCandles(c, sym) : r.time = t}) = 1
    BY DEF FeasibleOnCleanRows
  <2> DEFINE cmd == Commands[c]
             report == lab[c].report
             rows == lab[c].rows
             candles == [sym \in cmd.symbols |-> LabCandles(c, sym)]
  <2>1. c \in Cmds /\ LabHolds(c) /\ report # <<>>
    BY DEF LabInv
  <2>2. /\ rows \in SUBSET AllRows /\ cmd.kind = "lab" /\ Reported(c)
        /\ report[id].reasons = {} /\ lab[c].first = rows
    BY <2>1 DEF LabHolds, Feasible, OneSnapshot
  <2>3. IsFiniteSet(cmd.symbols)
    BY <2>1, <2>2, CommandsAssumption
  <2>4. OnCandles(candles, cmd.symbols, report[id].observations[k])
    <3>1. CASE cmd.mode = Lab
      <4>1. PICK h : lab[c].universe = EvidenceUniverse(rows, h, cmd)
        BY <2>2, <3>1 DEF Reported, OfUniverse
      <4>2. PICK screen : report[id] = CandidateMetric(id, lab[c].universe, screen, rows, cmd)
        BY <2>2, <3>1 DEF Reported
      <4>3. \A sym \in cmd.symbols : candles[sym] = ToSet(MarketRows(rows, sym, cmd.window))
        BY <3>1 DEF LabCandles, Lab
      <4> HIDE DEF cmd, report, rows, candles
      <4>4. report[id] = CandidateMetric(id, EvidenceUniverse(rows, h, cmd), screen, rows, cmd)
        BY <4>1, <4>2
      <4>5. k \in DOMAIN report[id].observations
        BY DEF report
      <4>6. QED
        BY <2>2, <2>3, <4>3, <4>4, <4>5, MetricOnCleanRows
    <3>2. CASE cmd.mode # Lab
      <4>1. report = StrategyReport(rows, cmd)
        BY <2>2, <3>2 DEF Reported
      <4>2. \A sym \in cmd.symbols : candles[sym] = StrategyCandles(rows, sym)
        BY <3>2 DEF LabCandles, Lab
      <4>3. id \in DOMAIN report /\ k \in DOMAIN report[id].observations
        OBVIOUS
      <4> HIDE DEF cmd, report, rows, candles
      <4>4. QED
        BY <2>2, <4>1, <4>2, <4>3, StrategyOnCleanRows
    <3>3. QED
      BY <3>1, <3>2
  <2>5. QED
    BY <2>4 DEF OnCandles, RowsAt
<1>2. DataInit => StoredInv /\ LabInv
  BY StoredInit, LabInit
<1>3. StoredInv /\ LabInv /\ [DataNext]_dataVars => (StoredInv /\ LabInv)'
  BY StoredStep, LabStep
<1>4. QED
  BY <1>1, <1>2, <1>3, ActiveAreCommands, PTL DEF DataSpec

----------------------------------------------------------------------------
(* A part of an ordered set, in that order, is what the part's places give *)
(* of the whole.                                                           *)

SmallerIn(K, k) == {j \in K : j < k}

LEMMA NumbersPlaced ==
    ASSUME NEW K, Numbers(K), NEW at, at = Ascending(K)
    PROVE  /\ DOMAIN at = 1 .. Cardinality(K) /\ Cardinality(K) \in Nat
           /\ \A i \in DOMAIN at : at[i] \in K /\ Cardinality(SmallerIn(K, at[i])) = i - 1
           /\ \A k \in K : /\ 1 + Cardinality(SmallerIn(K, k)) \in DOMAIN at
                           /\ at[1 + Cardinality(SmallerIn(K, k))] = k
<1> DEFINE R == {p \in K \X K : p[1] < p[2]}
<1>1. Orders(R, K)
  BY DEF Orders, Numbers
<1>2. \A k \in K : Below(R, K, k) = SmallerIn(K, k)
  BY DEF Below, SmallerIn
<1>3. InPlace(at, R, K)
  <2>1. at = [i \in 1 .. Cardinality(K) |-> CHOOSE k \in K : Cardinality(SmallerIn(K, k)) = i - 1]
    BY DEF Ascending, InOrder, SmallerIn
  <2> HIDE DEF R
  <2>2. QED
    BY <1>2, <2>1 DEF InPlace
<1> HIDE DEF R
<1>4. /\ DOMAIN at = 1 .. Cardinality(K) /\ Cardinality(K) \in Nat
      /\ \A i \in DOMAIN at : at[i] \in K /\ Cardinality(Below(R, K, at[i])) = i - 1
      /\ \A k \in K : /\ 1 + Cardinality(Below(R, K, k)) \in DOMAIN at
                      /\ at[1 + Cardinality(Below(R, K, k))] = k
  BY <1>1, <1>3, OrderedElements
<1>5. /\ DOMAIN at = 1 .. Cardinality(K) /\ Cardinality(K) \in Nat
      /\ \A i \in DOMAIN at : at[i] \in K /\ Cardinality(SmallerIn(K, at[i])) = i - 1
      /\ \A k \in K : /\ 1 + Cardinality(SmallerIn(K, k)) \in DOMAIN at
                      /\ at[1 + Cardinality(SmallerIn(K, k))] = k
  BY <1>2, <1>4
<1>6. QED
  BY <1>5

(* The places of a part.                                                   *)
PlacesOfPart(at, P) == {i \in DOMAIN at : at[i] \in P}

LEMMA PartInOrder ==
    ASSUME NEW S, NEW R, Orders(R, S), NEW at, InPlace(at, R, S),
           NEW P \in SUBSET S, NEW Q, \A x, y \in P : <<x, y>> \in Q <=> <<x, y>> \in R,
           NEW part, InPlace(part, Q, P),
           NEW order, order = Ascending(PlacesOfPart(at, P))
    PROVE  /\ DOMAIN part = DOMAIN order
           /\ \A k \in DOMAIN part : /\ order[k] \in DOMAIN at /\ at[order[k]] \in P
                                     /\ part[k] = at[order[k]]
<1> DEFINE K == PlacesOfPart(at, P)
<1>1. /\ DOMAIN at = 1 .. Cardinality(S) /\ Cardinality(S) \in Nat
      /\ \A i \in DOMAIN at : at[i] \in S
      /\ \A x \in S : \E i \in DOMAIN at : at[i] = x
      /\ \A i, j \in DOMAIN at : i < j => <<at[i], at[j]>> \in R
  <2>1. /\ DOMAIN at = 1 .. Cardinality(S) /\ Cardinality(S) \in Nat
        /\ \A i \in DOMAIN at : at[i] \in S /\ Cardinality(Below(R, S, at[i])) = i - 1
        /\ \A x \in S : /\ 1 + Cardinality(Below(R, S, x)) \in DOMAIN at
                        /\ at[1 + Cardinality(Below(R, S, x))] = x
        /\ \A i, j \in DOMAIN at : i < j => <<at[i], at[j]>> \in R
    BY OrderedElements
  <2>2. QED
    BY <2>1
<1>2. \A i, j \in DOMAIN at : /\ i < j <=> <<at[i], at[j]>> \in R
                              /\ at[i] = at[j] => i = j
  <2>1. \A i, j \in DOMAIN at : i \in Nat /\ j \in Nat /\ (i < j \/ i = j \/ j < i)
    BY <1>1
  <2>2. \A x, y \in S : <<x, y>> \in R => <<y, x>> \notin R /\ x # y
    BY DEF Orders
  <2>3. QED
    BY <1>1, <2>1, <2>2
<1>3. Orders(Q, P)
  <2>1. IsFiniteSet(P)
    BY FS_Subset DEF Orders
  <2>2. QED
    BY <2>1 DEF Orders
<1>4. K \in SUBSET DOMAIN at /\ \A i \in DOMAIN at : i \in K <=> at[i] \in P
  BY DEF PlacesOfPart
<1> HIDE DEF K
<1>5. Numbers(K)
  <2>1. IsFiniteSet(1 .. Cardinality(S))
    BY <1>1, FS_Interval
  <2>2. QED
    BY <1>1, <1>4, <2>1, FS_Subset DEF Numbers
<1>6. ASSUME NEW D, D \in SUBSET K, NEW E, E \in SUBSET P,
             \A i \in K : i \in D <=> at[i] \in E
      PROVE  Cardinality(D) = Cardinality(E)
  <2> DEFINE f == [i \in D |-> at[i]]
  <2>1. f \in Bijection(D, E)
    <3>1. \A i \in D : f[i] \in E
      BY <1>4, <1>6
    <3>2. \A i, j \in D : f[i] = f[j] => i = j
      BY <1>2, <1>4, <1>6
    <3>3. \A x \in E : \E i \in D : f[i] = x
      BY <1>1, <1>4, <1>6
    <3>4. f \in [D -> E]
      BY <3>1
    <3> HIDE DEF f
    <3>5. QED
      BY <3>2, <3>3, <3>4 DEF Bijection, Injection, Surjection, IsInjective
  <2> HIDE DEF f
  <2>2. ExistsBijection(D, E)
    BY <2>1 DEF ExistsBijection
  <2>3. IsFiniteSet(D)
    BY <1>5, <1>6, FS_Subset DEF Numbers
  <2>4. QED
    BY <2>2, <2>3, FS_Bijection
<1>7. Cardinality(K) = Cardinality(P)
  BY <1>4, <1>6
<1>8. \A i \in K : Cardinality(SmallerIn(K, i)) = Cardinality(Below(Q, P, at[i]))
  <2> SUFFICES ASSUME NEW i \in K PROVE Cardinality(SmallerIn(K, i)) = Cardinality(Below(Q, P, at[i]))
    OBVIOUS
  <2> DEFINE D == SmallerIn(K, i)
             E == Below(Q, P, at[i])
  <2>1. D \in SUBSET K /\ E \in SUBSET P
    BY DEF Below, SmallerIn
  <2>2. \A j \in K : j \in D <=> at[j] \in E
    BY <1>2, <1>4 DEF Below, SmallerIn
  <2> HIDE DEF D, E
  <2>3. Cardinality(D) = Cardinality(E)
    BY <1>6, <2>1, <2>2
  <2>4. QED
    BY <2>3 DEF D, E
<1>9. /\ DOMAIN order = 1 .. Cardinality(K)
      /\ \A k \in DOMAIN order : order[k] \in K /\ Cardinality(SmallerIn(K, order[k])) = k - 1
  <2>1. order = Ascending(K)
    BY DEF K
  <2>2. QED
    BY <1>5, <2>1, NumbersPlaced
<1>10. /\ DOMAIN part = 1 .. Cardinality(P)
       /\ \A x \in P : part[1 + Cardinality(Below(Q, P, x))] = x
  BY <1>3, OrderedElements
<1>11. DOMAIN part = DOMAIN order
  BY <1>7, <1>9, <1>10
<1>12. ASSUME NEW k \in DOMAIN part
       PROVE  order[k] \in DOMAIN at /\ at[order[k]] \in P /\ part[k] = at[order[k]]
  <2>1. order[k] \in K /\ Cardinality(SmallerIn(K, order[k])) = k - 1 /\ k \in Nat
    <3>1. k \in 1 .. Cardinality(K) /\ Cardinality(K) \in Nat
      BY <1>5, <1>9, <1>11, FS_CardinalityType DEF Numbers
    <3>2. QED
      BY <1>9, <1>11, <3>1
  <2>2. order[k] \in DOMAIN at /\ at[order[k]] \in P
    BY <1>4, <2>1
  <2>3. Cardinality(Below(Q, P, at[order[k]])) = k - 1
    BY <1>8, <2>1
  <2>4. part[1 + (k - 1)] = at[order[k]]
    BY <1>10, <2>2, <2>3
  <2>5. QED
    BY <2>1, <2>2, <2>4
<1>13. QED
  BY <1>11, <1>12

----------------------------------------------------------------------------
(* The observations that have ended by a bar.                              *)

(* The observations of a list that have ended by a time.                   *)
EndedBy(obs, t) == Picked(obs, {i \in DOMAIN obs : obs[i].until <= t})

LEMMA EndedInOrder ==
    ASSUME NEW S, NEW R, Orders(R, S), NEW at, InPlace(at, R, S),
           NEW V, NEW t, NEW P \in SUBSET S, \A x \in S : x \in P <=> V[x].until <= t,
           NEW Q, \A x, y \in P : <<x, y>> \in Q <=> <<x, y>> \in R,
           NEW part, InPlace(part, Q, P), NEW W, \A x \in P : W[x] = V[x],
           NEW obs, obs = [k \in DOMAIN at |-> V[at[k]]],
           NEW ended, ended = [k \in DOMAIN part |-> W[part[k]]]
    PROVE  ended = EndedBy(obs, t)
<1> DEFINE K == {i \in DOMAIN obs : obs[i].until <= t}
           places == Ascending(K)
<1>1. \A i \in DOMAIN at : at[i] \in S
  <2>1. \A i \in DOMAIN at : at[i] \in S /\ Cardinality(Below(R, S, at[i])) = i - 1
    BY OrderedElements
  <2>2. QED
    BY <2>1
<1>2. K = PlacesOfPart(at, P)
  BY <1>1 DEF PlacesOfPart
<1>3. EndedBy(obs, t) = [k \in DOMAIN places |-> obs[places[k]]]
  BY DEF EndedBy, Picked
<1>4. places = Ascending(PlacesOfPart(at, P))
  BY <1>2
<1> HIDE DEF K, places
<1>5. /\ DOMAIN part = DOMAIN places
      /\ \A k \in DOMAIN part : /\ places[k] \in DOMAIN at /\ at[places[k]] \in P
                                /\ part[k] = at[places[k]]
  BY <1>4, PartInOrder
<1>6. \A k \in DOMAIN part : W[part[k]] = obs[places[k]]
  BY <1>5
<1>7. QED
  BY <1>3, <1>5, <1>6

(* Observations at numbered places.                                        *)
LEMMA NumbersInPlace ==
    ASSUME NEW K, Numbers(K), NEW R, R = {p \in K \X K : p[1] < p[2]}
    PROVE  Orders(R, K) /\ InPlace(Ascending(K), R, K)
<1> DEFINE smaller(k) == {j \in K : j < k}
           at == Ascending(K)
<1>1. Orders(R, K)
  BY DEF Orders, Numbers
<1>2. \A k \in K : Below(R, K, k) = smaller(k)
  BY DEF Below
<1>3. at = [i \in 1 .. Cardinality(K) |-> CHOOSE k \in K : Cardinality(smaller(k)) = i - 1]
  BY DEF Ascending, InOrder
<1> HIDE DEF smaller, at
<1>4. InPlace(at, R, K)
  BY <1>2, <1>3 DEF InPlace
<1>5. QED
  BY <1>1, <1>4 DEF at

LEMMA PicksEnded ==
    ASSUME NEW K, Numbers(K), NEW V, NEW t, NEW P \in SUBSET K, \A k \in K : k \in P <=> V[k].until <= t,
           NEW W, \A k \in P : W[k] = V[k],
           NEW obs, obs = [q \in DOMAIN Ascending(K) |-> V[Ascending(K)[q]]],
           NEW ended, ended = [q \in DOMAIN Ascending(P) |-> W[Ascending(P)[q]]]
    PROVE  ended = EndedBy(obs, t)
<1> DEFINE R == {p \in K \X K : p[1] < p[2]}
           Q == {p \in P \X P : p[1] < p[2]}
           at == Ascending(K)
           part == Ascending(P)
<1>1. Numbers(P)
  BY FS_Subset DEF Numbers
<1>2. Orders(R, K) /\ InPlace(at, R, K) /\ InPlace(part, Q, P)
  <2> HIDE DEF R, Q
  <2>1. R = {p \in K \X K : p[1] < p[2]} /\ Q = {p \in P \X P : p[1] < p[2]}
    BY DEF R, Q
  <2>2. QED
    BY <1>1, <2>1, NumbersInPlace
<1>3. \A x, y \in P : <<x, y>> \in Q <=> <<x, y>> \in R
  OBVIOUS
<1>4. obs = [q \in DOMAIN at |-> V[at[q]]] /\ ended = [q \in DOMAIN part |-> W[part[q]]]
  OBVIOUS
<1> HIDE DEF R, Q, at, part
<1>5. QED
  BY <1>2, <1>3, <1>4, EndedInOrder

----------------------------------------------------------------------------
(* What comes of the rows up to a time: the first of the same times, the   *)
(* first of the same candles.                                              *)

CutTimes(cut, at, t) ==
    /\ Len(at) \in Nat /\ DOMAIN at = 1 .. Len(at)
    /\ Len(cut) \in Nat /\ DOMAIN cut = 1 .. Len(cut) /\ Len(cut) <= Len(at)
    /\ \A i \in DOMAIN cut : cut[i] = at[i]
    /\ \A i \in DOMAIN at : at[i] <= t <=> i <= Len(cut)

LEMMA TimesAreCut ==
    ASSUME NEW K, Numbers(K), NEW t \in Nat, NEW P \in SUBSET K, \A k \in K : k \in P <=> k <= t
    PROVE  CutTimes(Ascending(P), Ascending(K), t)
<1> DEFINE at == Ascending(K)
           cut == Ascending(P)
<1>1. Numbers(P) /\ Cardinality(P) <= Cardinality(K)
  BY FS_Subset DEF Numbers
<1>2. /\ DOMAIN at = 1 .. Cardinality(K) /\ Cardinality(K) \in Nat
      /\ \A i \in DOMAIN at : at[i] \in K /\ Cardinality(SmallerIn(K, at[i])) = i - 1
      /\ \A k \in K : 1 + Cardinality(SmallerIn(K, k)) \in DOMAIN at /\ at[1 + Cardinality(SmallerIn(K, k))] = k
  BY NumbersPlaced
<1>3. /\ DOMAIN cut = 1 .. Cardinality(P) /\ Cardinality(P) \in Nat
      /\ \A i \in DOMAIN cut : cut[i] \in P /\ Cardinality(SmallerIn(P, cut[i])) = i - 1
      /\ \A k \in P : 1 + Cardinality(SmallerIn(P, k)) \in DOMAIN cut /\ cut[1 + Cardinality(SmallerIn(P, k))] = k
  BY <1>1, NumbersPlaced
<1>4. \A k \in P : SmallerIn(P, k) = SmallerIn(K, k)
  <2> SUFFICES ASSUME NEW k \in P PROVE SmallerIn(P, k) = SmallerIn(K, k)
    OBVIOUS
  <2>1. \A j \in K : j \in Nat /\ k \in Nat /\ (j < k => j \in P)
    BY DEF Numbers
  <2>2. QED
    BY <2>1 DEF SmallerIn
<1>5. Len(at) = Cardinality(K) /\ Len(cut) = Cardinality(P)
  <2>1. Len(at) \in Nat /\ DOMAIN at = 1 .. Len(at) /\ Len(cut) \in Nat /\ DOMAIN cut = 1 .. Len(cut)
    BY <1>1, NumbersListed
  <2>2. QED
    BY <1>2, <1>3, <2>1
<1> HIDE DEF at, cut
<1>7. \A i \in DOMAIN cut : cut[i] = at[i] /\ at[i] \in P
  <2> SUFFICES ASSUME NEW i \in DOMAIN cut PROVE cut[i] = at[i] /\ cut[i] \in P
    OBVIOUS
  <2>1. cut[i] \in P /\ cut[i] \in K /\ Cardinality(SmallerIn(K, cut[i])) = i - 1 /\ i \in Nat
    BY <1>3, <1>4
  <2>2. at[1 + (i - 1)] = cut[i]
    BY <1>2, <2>1
  <2>3. QED
    BY <2>1, <2>2
<1>8. ASSUME NEW i \in DOMAIN at, at[i] \in P PROVE i \in DOMAIN cut
  <2>1. Cardinality(SmallerIn(P, at[i])) = i - 1 /\ i \in Nat
    BY <1>2, <1>4, <1>8
  <2>2. QED
    BY <1>3, <1>8, <2>1
<1>9. \A i \in DOMAIN at : at[i] <= t <=> i <= Len(cut)
  <2>1. \A i \in DOMAIN at : at[i] \in P <=> i \in DOMAIN cut
    BY <1>7, <1>8
  <2>2. QED
    BY <1>2, <1>3, <1>5, <2>1
<1>10. CutTimes(cut, at, t)
  BY <1>1, <1>2, <1>3, <1>5, <1>7, <1>9 DEF CutTimes
<1>11. QED
  BY <1>10 DEF at, cut

----------------------------------------------------------------------------
(* The rows up to a bar.                                                   *)

UpTo(S, t) == {r \in S : r.time <= t}

CutRows(cut, at, t) ==
    /\ Len(at) \in Nat /\ DOMAIN at = 1 .. Len(at)
    /\ Len(cut) \in Nat /\ DOMAIN cut = 1 .. Len(cut) /\ Len(cut) <= Len(at)
    /\ \A i \in DOMAIN cut : cut[i] = at[i]
    /\ \A i \in DOMAIN at : at[i].time <= t <=> i <= Len(cut)

CutMarket(cut, market, t) ==
    /\ DOMAIN cut = DOMAIN market
    /\ \A sym \in DOMAIN market : CutRows(cut[sym], market[sym], t)

LEMMA ListIsCut ==
    ASSUME NEW C, OneEach(C), NEW t \in Nat, NEW D \in SUBSET C, \A x \in C : x \in D <=> x.time <= t,
           NEW at, ListsByTime(at, C), NEW cut, ListsByTime(cut, D)
    PROVE  CutRows(cut, at, t)
<1>1. Cardinality(D) <= Cardinality(C)
  BY FS_Subset DEF OneEach
<1>2. \A x \in D : EarlierOf(D, x.time) = EarlierOf(C, x.time)
  <2> SUFFICES ASSUME NEW x \in D PROVE EarlierOf(D, x.time) = EarlierOf(C, x.time)
    OBVIOUS
  <2>1. \A y \in C : y.time \in Nat /\ x.time \in Nat /\ (y.time < x.time => y \in D)
    BY DEF OneEach
  <2>2. QED
    BY <2>1 DEF EarlierOf
<1>3. /\ DOMAIN at = 1 .. Cardinality(C) /\ Cardinality(C) \in Nat /\ Len(at) = Cardinality(C)
      /\ \A i \in DOMAIN at : at[i] \in C /\ Cardinality(EarlierOf(C, at[i].time)) = i - 1
      /\ \A x \in C : at[1 + Cardinality(EarlierOf(C, x.time))] = x
  BY DEF ListsByTime
<1>4. /\ DOMAIN cut = 1 .. Cardinality(D) /\ Cardinality(D) \in Nat /\ Len(cut) = Cardinality(D)
      /\ \A i \in DOMAIN cut : cut[i] \in D /\ Cardinality(EarlierOf(D, cut[i].time)) = i - 1
      /\ \A x \in D : 1 + Cardinality(EarlierOf(D, x.time)) \in DOMAIN cut
  BY DEF ListsByTime
<1>5. \A i \in DOMAIN cut : cut[i] = at[i] /\ at[i] \in D
  <2> SUFFICES ASSUME NEW i \in DOMAIN cut PROVE cut[i] = at[i] /\ cut[i] \in D
    OBVIOUS
  <2>1. cut[i] \in D /\ cut[i] \in C /\ Cardinality(EarlierOf(C, cut[i].time)) = i - 1 /\ i \in Nat
    BY <1>2, <1>4
  <2>2. at[1 + (i - 1)] = cut[i]
    BY <1>3, <2>1
  <2>3. QED
    BY <2>1, <2>2
<1>6. ASSUME NEW i \in DOMAIN at, at[i] \in D PROVE i \in DOMAIN cut
  <2>1. Cardinality(EarlierOf(D, at[i].time)) = i - 1 /\ i \in Nat
    BY <1>2, <1>3, <1>6
  <2>2. QED
    BY <1>4, <1>6, <2>1
<1>7. \A i \in DOMAIN at : at[i].time <= t <=> i <= Len(cut)
  <2>1. \A i \in DOMAIN at : at[i] \in D <=> i \in DOMAIN cut
    BY <1>5, <1>6
  <2>2. QED
    BY <1>3, <1>4, <2>1
<1>8. QED
  BY <1>1, <1>3, <1>4, <1>5, <1>7 DEF CutRows

LEMMA RowsUpTo ==
    ASSUME NEW rows \in SUBSET AllRows, NEW t
    PROVE  /\ UpTo(rows, t) \in SUBSET AllRows
           /\ \A sym, w : \A r \in UniverseCandles(rows, sym, w) :
                 r \in UniverseCandles(UpTo(rows, t), sym, w) <=> r.time <= t
           /\ \A sym, w : UniverseCandles(UpTo(rows, t), sym, w) \in SUBSET UniverseCandles(rows, sym, w)
<1>1. UpTo(rows, t) \in SUBSET AllRows
  BY DEF UpTo
<1>2. ASSUME NEW sym, NEW w, NEW r
      PROVE  r \in UniverseCandles(UpTo(rows, t), sym, w)
               <=> r \in UniverseCandles(rows, sym, w) /\ r.time <= t
  BY DEF UniverseCandles, Canonical, UpTo
<1>3. QED
  BY <1>1, <1>2

LEMMA MarketIsCut ==
    ASSUME NEW rows \in SUBSET AllRows, NEW job, NEW t \in Nat,
           \A sym \in job.symbols : OneEach(UniverseCandles(rows, sym, job.window))
    PROVE  CutMarket(LabMarket(UpTo(rows, t), job), LabMarket(rows, job), t)
<1>1. ASSUME NEW sym \in job.symbols
      PROVE  CutRows(MarketRows(UpTo(rows, t), sym, job.window), MarketRows(rows, sym, job.window), t)
  <2> DEFINE cs == UniverseCandles(rows, sym, job.window)
             ds == UniverseCandles(UpTo(rows, t), sym, job.window)
             long == MarketRows(rows, sym, job.window)
             short == MarketRows(UpTo(rows, t), sym, job.window)
             early == UpTo(rows, t)
  <2>1. OneEach(cs)
    OBVIOUS
  <2>2. early \in SUBSET AllRows /\ ds \in SUBSET cs /\ \A x \in cs : x \in ds <=> x.time <= t
    BY RowsUpTo
  <2>3. OneEach(ds)
    <3> HIDE DEF cs, ds
    <3>1. QED
      BY <2>1, <2>2, FS_Subset DEF OneEach
  <2>4. ListsByTime(long, cs)
    BY <2>1, MarketInOrder
  <2>5. ListsByTime(short, ds)
    <3> HIDE DEF early
    <3>1. ds = UniverseCandles(early, sym, job.window) /\ short = MarketRows(early, sym, job.window)
      BY DEF early
    <3> HIDE DEF ds, short
    <3>2. QED
      BY <2>2, <2>3, <3>1, MarketInOrder
  <2> HIDE DEF cs, ds, long, short, early
  <2>6. CutRows(short, long, t)
    BY <2>1, <2>2, <2>4, <2>5, ListIsCut
  <2>7. QED
    BY <2>6 DEF short, long
<1>2. QED
  BY <1>1 DEF CutMarket, LabMarket

----------------------------------------------------------------------------
(* The trades on the candles up to a bar, in order.                        *)

(* The places taken, in the order that Sorted gives them.                  *)
SoonerPairs(market, rank, S) == {x \in S \X S : Sooner(market, rank, x[1], x[2])}

LEMMA SortedInPlace ==
    ASSUME NEW market, NEW rank, Ranked(market, rank), rank = SetToSeq(DOMAIN market), NEW take,
           NEW S, S = TakenPlaces(market, take)
    PROVE  LET order == PlacesInOrder(market, rank, S)
           IN /\ Orders(SoonerPairs(market, rank, S), S)
              /\ InPlace(order, SoonerPairs(market, rank, S), S)
              /\ Sorted(market, take) = [k \in DOMAIN order |-> take[order[k][1]][order[k][2]][1]]
<1> DEFINE R == SoonerPairs(market, rank, S)
           places == PlacesInOrder(market, rank, S)
<1>1. R = {x \in S \X S : Sooner(market, rank, x[1], x[2])}
  BY DEF SoonerPairs
<1>2. Sorted(market, take) = [k \in DOMAIN places |-> take[places[k][1]][places[k][2]][1]]
  BY SortedPlaces
<1>3. \A x \in S : Below(R, S, x) = SoonerOf(market, rank, S, x)
  <2> HIDE DEF R
  <2>1. QED
    BY <1>1 DEF Below, SoonerOf
<1> HIDE DEF R
<1>4. Orders(R, S)
  BY <1>1, TakenAreOrdered
<1>5. InPlace(places, R, S)
  BY <1>3 DEF InPlace, PlacesInOrder
<1>6. QED
  BY <1>2, <1>4, <1>5 DEF R

LEMMA CutIsClean ==
    ASSUME NEW market, NEW T, CleanMarket(market, T), NEW t, NEW cut, CutMarket(cut, market, t)
    PROVE  CleanMarket(cut, T)
<1>1. ASSUME NEW sym \in DOMAIN market PROVE CleanList(cut[sym], T)
  <2> DEFINE c == cut[sym]
             m == market[sym]
  <2>1. CutRows(c, m, t) /\ CleanList(m, T)
    BY DEF CutMarket, CleanMarket
  <2> HIDE DEF c, m
  <2>2. \A i \in DOMAIN c : i \in DOMAIN m
    BY <2>1 DEF CutRows
  <2>3. CleanList(c, T)
    BY <2>1, <2>2 DEF CutRows, CleanList
  <2>4. QED
    BY <2>3 DEF c
<1>2. QED
  BY <1>1 DEF CleanMarket, CutMarket

(* The same is taken, but for the last candle, which has no next one.      *)
TakesTheSame(cut, taken, take) ==
    \A sym \in DOMAIN cut : \A i \in DOMAIN cut[sym] :
        taken[sym][i] = IF i = Len(cut[sym]) THEN <<>> ELSE take[sym][i]

(* What is taken of the first candles has ended by the last one's time.    *)
LEMMA TakenHasEnded ==
    ASSUME NEW market, NEW T, CleanMarket(market, T), NEW t, NEW cut, CutMarket(cut, market, t),
           NEW take, TakesTrades(market, take), NEW taken, TakesTheSame(cut, taken, take),
           NEW S, S = TakenPlaces(market, take), NEW P, P = TakenPlaces(cut, taken)
    PROVE  /\ P \in SUBSET S
           /\ \A p \in P : /\ p[1] \in DOMAIN cut /\ p[2] \in DOMAIN cut[p[1]]
                           /\ taken[p[1]][p[2]] = take[p[1]][p[2]]
           /\ \A p \in S : p \in P <=> take[p[1]][p[2]][1].until <= t
<1>1. \A p : p \in S <=> /\ \E sym \in DOMAIN market : \E i \in 1 .. Len(market[sym]) : p = <<sym, i>>
                         /\ take[p[1]][p[2]] # <<>>
  BY DEF TakenPlaces
<1>2. \A p : p \in P <=> /\ \E sym \in DOMAIN cut : \E i \in 1 .. Len(cut[sym]) : p = <<sym, i>>
                         /\ taken[p[1]][p[2]] # <<>>
  BY DEF TakenPlaces
<1>3. ASSUME NEW sym \in DOMAIN market, NEW i \in 1 .. Len(market[sym])
      PROVE  /\ sym \in DOMAIN cut
             /\ <<sym, i>> \in P => /\ i \in DOMAIN cut[sym] /\ <<sym, i>> \in S
                                    /\ taken[sym][i] = take[sym][i]
             /\ <<sym, i>> \in S => (<<sym, i>> \in P <=> take[sym][i][1].until <= t)
  <2> DEFINE c == cut[sym]
             m == market[sym]
  <2>1. /\ Len(m) \in Nat /\ DOMAIN m = 1 .. Len(m)
        /\ Len(c) \in Nat /\ DOMAIN c = 1 .. Len(c) /\ Len(c) <= Len(m)
        /\ \A j \in DOMAIN m : m[j].time <= t <=> j <= Len(c)
    BY DEF CutMarket, CutRows
  <2>2. sym \in DOMAIN cut /\ i \in DOMAIN m
    BY <2>1 DEF CutMarket
  <2>3. <<sym, i>> \in P <=> i \in 1 .. Len(c) /\ taken[sym][i] # <<>>
    BY <1>2, <2>2
  <2>4. <<sym, i>> \in S <=> take[sym][i] # <<>>
    BY <1>1
  <2>5. i \in DOMAIN c => taken[sym][i] = IF i = Len(c) THEN <<>> ELSE take[sym][i]
    BY <2>2 DEF TakesTheSame
  <2>6. take[sym][i] # <<>> =>
           i # Len(m) /\ take[sym][i][1].until = m[i + 1].time
    <3>1. \/ take[sym][i] = <<>>
          \/ i # Len(m) /\ \E score : take[sym][i] = <<Observation(m[i], m[i + 1], score)>>
      BY <2>2 DEF TakesTrades
    <3>2. CASE \E score : take[sym][i] = <<Observation(m[i], m[i + 1], score)>>
      <4>1. PICK score : take[sym][i] = <<Observation(m[i], m[i + 1], score)>>
        BY <3>2
      <4>2. take[sym][i][1] = Observation(m[i], m[i + 1], score)
        BY <4>1
      <4>3. take[sym][i][1].until = m[i + 1].time
        BY <4>2 DEF Observation
      <4>4. QED
        BY <3>1, <4>3
    <3>3. QED
      BY <3>1, <3>2
  <2> HIDE DEF c, m
  <2>7. <<sym, i>> \in P => i \in DOMAIN c /\ <<sym, i>> \in S /\ taken[sym][i] = take[sym][i]
    BY <2>1, <2>3, <2>4, <2>5
  <2>8. <<sym, i>> \in S => (<<sym, i>> \in P <=> i < Len(c))
    BY <2>1, <2>2, <2>3, <2>4, <2>5
  <2>9. <<sym, i>> \in S => (take[sym][i][1].until <= t <=> i < Len(c))
    <3>1. CASE take[sym][i] # <<>>
      <4>1. i + 1 \in DOMAIN m /\ take[sym][i][1].until = m[i + 1].time
        BY <2>1, <2>2, <2>6, <3>1
      <4>2. take[sym][i][1].until <= t <=> i + 1 <= Len(c)
        BY <2>1, <4>1
      <4>3. QED
        BY <2>1, <2>2, <4>2
    <3>2. QED
      BY <2>4, <3>1
  <2>10. QED
    BY <2>2, <2>7, <2>8, <2>9 DEF c
<1>4. \A p \in P : \E sym \in DOMAIN market : \E i \in 1 .. Len(market[sym]) : p = <<sym, i>>
  <2> SUFFICES ASSUME NEW p \in P
               PROVE  \E sym \in DOMAIN market : \E i \in 1 .. Len(market[sym]) : p = <<sym, i>>
    OBVIOUS
  <2>1. PICK sym \in DOMAIN cut : \E i \in 1 .. Len(cut[sym]) : p = <<sym, i>>
    BY <1>2
  <2>2. sym \in DOMAIN market /\ Len(cut[sym]) \in Nat /\ Len(market[sym]) \in Nat
        /\ Len(cut[sym]) <= Len(market[sym])
    BY <2>1 DEF CutMarket, CutRows
  <2>3. QED
    BY <2>1, <2>2
<1>5. ASSUME NEW p \in P
      PROVE  /\ p \in S /\ p[1] \in DOMAIN cut /\ p[2] \in DOMAIN cut[p[1]]
             /\ taken[p[1]][p[2]] = take[p[1]][p[2]]
  <2>1. PICK sym \in DOMAIN market : \E i \in 1 .. Len(market[sym]) : p = <<sym, i>>
    BY <1>4
  <2>2. PICK i \in 1 .. Len(market[sym]) : p = <<sym, i>>
    BY <2>1
  <2>3. p[1] = sym /\ p[2] = i
    BY <2>2
  <2>4. QED
    BY <1>3, <2>2, <2>3
<1>6. ASSUME NEW p \in S
      PROVE  p \in P <=> take[p[1]][p[2]][1].until <= t
  <2>1. PICK sym \in DOMAIN market : \E i \in 1 .. Len(market[sym]) : p = <<sym, i>>
    BY <1>1
  <2>2. PICK i \in 1 .. Len(market[sym]) : p = <<sym, i>>
    BY <2>1
  <2>3. p[1] = sym /\ p[2] = i
    BY <2>2
  <2>4. QED
    BY <1>3, <2>2, <2>3
<1>7. QED
  BY <1>5, <1>6

LEMMA SortedIsCut ==
    ASSUME NEW market, NEW T, CleanMarket(market, T), NEW t, NEW cut, CutMarket(cut, market, t),
           NEW take, TakesTrades(market, take), NEW taken, TakesTheSame(cut, taken, take)
    PROVE  Sorted(cut, taken) = EndedBy(Sorted(market, take), t)
<1> DEFINE rank == SetToSeq(DOMAIN market)
           whole == TakenPlaces(market, take)
           first == TakenPlaces(cut, taken)
           inAll == SoonerPairs(market, rank, whole)
           inFirst == SoonerPairs(cut, rank, first)
           value == [p \in whole |-> take[p[1]][p[2]][1]]
           kept == [p \in first |-> taken[p[1]][p[2]][1]]
           places == PlacesInOrder(market, rank, whole)
           early == PlacesInOrder(cut, rank, first)
<1>1. /\ first \in SUBSET whole
      /\ \A p \in first : /\ p[1] \in DOMAIN cut /\ p[2] \in DOMAIN cut[p[1]]
                      /\ taken[p[1]][p[2]] = take[p[1]][p[2]]
      /\ \A p \in whole : p \in first <=> take[p[1]][p[2]][1].until <= t
  <2> HIDE DEF whole, first
  <2>1. whole = TakenPlaces(market, take) /\ first = TakenPlaces(cut, taken)
    BY DEF whole, first
  <2>2. QED
    BY <2>1, TakenHasEnded
<1>2. DOMAIN cut = DOMAIN market /\ \A sym \in DOMAIN cut : \A i \in DOMAIN cut[sym] : cut[sym][i] = market[sym][i]
  BY DEF CutMarket, CutRows
<1>3. Ranked(market, rank) /\ Ranked(cut, rank) /\ rank = SetToSeq(DOMAIN market) /\ rank = SetToSeq(DOMAIN cut)
  <2>1. CleanMarket(cut, T)
    BY CutIsClean
  <2>2. Ranked(cut, SetToSeq(DOMAIN cut)) /\ Ranked(market, SetToSeq(DOMAIN market))
    BY <2>1, CleanIsRanked
  <2>3. QED
    BY <1>2, <2>2
<1> HIDE DEF rank
<1>4. \A x, y \in first : <<x, y>> \in inFirst <=> <<x, y>> \in inAll
  <2> HIDE DEF first, whole
  <2>1. \A p \in first : TimeAt(cut, p) = TimeAt(market, p)
    BY <1>1, <1>2 DEF TimeAt
  <2>2. \A x, y \in first : Sooner(cut, rank, x, y) <=> Sooner(market, rank, x, y)
    BY <2>1 DEF Sooner
  <2>3. QED
    BY <1>1, <2>2 DEF SoonerPairs
<1>5. /\ Orders(inAll, whole) /\ InPlace(places, inAll, whole)
      /\ Sorted(market, take) = [k \in DOMAIN places |-> take[places[k][1]][places[k][2]][1]]
  <2> HIDE DEF whole
  <2>1. whole = TakenPlaces(market, take)
    BY DEF whole
  <2>2. QED
    BY <1>3, <2>1, SortedInPlace
<1>6. /\ Orders(inFirst, first) /\ InPlace(early, inFirst, first)
      /\ Sorted(cut, taken) = [k \in DOMAIN early |-> taken[early[k][1]][early[k][2]][1]]
  <2> HIDE DEF first
  <2>1. first = TakenPlaces(cut, taken)
    BY DEF first
  <2>2. QED
    BY <1>3, <2>1, SortedInPlace
<1> HIDE DEF whole, first, inAll, inFirst, places, early
<1>7. Sorted(market, take) = [k \in DOMAIN places |-> value[places[k]]]
  <2>1. \A k \in DOMAIN places : places[k] \in whole
    BY <1>5, OrderedElements
  <2>2. QED
    BY <1>5, <2>1
<1>8. Sorted(cut, taken) = [k \in DOMAIN early |-> kept[early[k]]]
  <2>1. \A k \in DOMAIN early : early[k] \in first
    BY <1>6, OrderedElements
  <2>2. QED
    BY <1>6, <2>1
<1>9. \A p \in first : kept[p] = value[p]
  BY <1>1
<1>10. \A p \in whole : p \in first <=> value[p].until <= t
  BY <1>1
<1> HIDE DEF value, kept
<1> DEFINE long == Sorted(market, take)
           short == Sorted(cut, taken)
<1>11. /\ first \in SUBSET whole /\ long = [k \in DOMAIN places |-> value[places[k]]]
       /\ short = [k \in DOMAIN early |-> kept[early[k]]]
  BY <1>1, <1>7, <1>8
<1> HIDE DEF long, short
<1>12. Orders(inAll, whole) /\ InPlace(places, inAll, whole) /\ InPlace(early, inFirst, first)
  BY <1>5, <1>6
<1>13. short = EndedBy(long, t)
  BY ONLY <1>4, <1>9, <1>10, <1>11, <1>12, EndedInOrder
<1>14. QED
  BY <1>13 DEF long, short

----------------------------------------------------------------------------
(* Templates that judge each candle by itself.                             *)

(* What a candle's return gives, by the rows before it.                    *)
ReturnTaken(list, i, lookback, mode) ==
    IF i <= lookback \/ i = Len(list) THEN <<>>
    ELSE LET then == Number(list[i - lookback])
             now == Number(list[i])
         IN IF /\ then > 0 /\ now > 0
               /\ IF mode = "momentum" THEN now > then ELSE now < then
            THEN <<Observation(list[i], list[i + 1], Magnitude(Return(then, now)))>>
            ELSE <<>>

ReturnsTaken(market, lookback, mode) ==
    [sym \in DOMAIN market |-> [i \in DOMAIN market[sym] |-> ReturnTaken(market[sym], i, lookback, mode)]]

LEMMA ReturnsOfTaken ==
    ASSUME NEW market, NEW lookback, NEW mode
    PROVE  /\ PerSymbolReturns(market, lookback, mode) = Sorted(market, ReturnsTaken(market, lookback, mode))
           /\ TakesTrades(market, ReturnsTaken(market, lookback, mode))
<1>1. PerSymbolReturns(market, lookback, mode) = Sorted(market, ReturnsTaken(market, lookback, mode))
  BY Zenon DEF PerSymbolReturns, ReturnsTaken, ReturnTaken
<1>2. \A list, i : \/ ReturnTaken(list, i, lookback, mode) = <<>>
                   \/ /\ i # Len(list)
                      /\ \E score : ReturnTaken(list, i, lookback, mode)
                                      = <<Observation(list[i], list[i + 1], score)>>
  BY Zenon DEF ReturnTaken
<1>3. TakesTrades(market, ReturnsTaken(market, lookback, mode))
  BY <1>2 DEF TakesTrades, ReturnsTaken
<1>4. QED
  BY <1>1, <1>3

LEMMA ReturnIsTheSame ==
    ASSUME NEW c, NEW m, NEW t, CutRows(c, m, t), NEW lookback \in Nat, NEW mode, NEW i \in DOMAIN c
    PROVE  ReturnTaken(c, i, lookback, mode)
             = IF i = Len(c) THEN <<>> ELSE ReturnTaken(m, i, lookback, mode)
<1>1. CASE i = Len(c)
  BY <1>1 DEF ReturnTaken
<1>2. CASE i # Len(c) /\ i <= lookback
  BY <1>2 DEF ReturnTaken
<1>3. CASE i # Len(c) /\ ~(i <= lookback)
  <2>1. /\ i \in Nat /\ i # Len(m) /\ i + 1 \in DOMAIN c /\ i - lookback \in DOMAIN c
        /\ \A j \in DOMAIN c : c[j] = m[j]
    BY <1>3 DEF CutRows
  <2>2. c[i] = m[i] /\ c[i + 1] = m[i + 1] /\ c[i - lookback] = m[i - lookback]
    BY <2>1
  <2>3. QED
    BY <1>3, <2>1, <2>2 DEF ReturnTaken
<1>4. QED
  BY <1>1, <1>2, <1>3

LEMMA ReturnsAreCut ==
    ASSUME NEW market, NEW T, CleanMarket(market, T), NEW t, NEW cut, CutMarket(cut, market, t),
           NEW lookback \in Nat, NEW mode
    PROVE  PerSymbolReturns(cut, lookback, mode) = EndedBy(PerSymbolReturns(market, lookback, mode), t)
<1> DEFINE all == ReturnsTaken(market, lookback, mode)
           some == ReturnsTaken(cut, lookback, mode)
<1>1. TakesTheSame(cut, some, all)
  <2>1. ASSUME NEW sym \in DOMAIN cut, NEW i \in DOMAIN cut[sym]
        PROVE  some[sym][i] = IF i = Len(cut[sym]) THEN <<>> ELSE all[sym][i]
    <3>1. CutRows(cut[sym], market[sym], t) /\ sym \in DOMAIN market
      BY DEF CutMarket
    <3>2. i \in DOMAIN market[sym]
      BY <3>1 DEF CutRows
    <3>3. /\ some[sym][i] = ReturnTaken(cut[sym], i, lookback, mode)
          /\ all[sym][i] = ReturnTaken(market[sym], i, lookback, mode)
      BY <3>1, <3>2 DEF ReturnsTaken
    <3>4. QED
      BY <3>1, <3>3, ReturnIsTheSame
  <2> HIDE DEF all, some
  <2>2. QED
    BY <2>1 DEF TakesTheSame
<1>2. TakesTrades(market, all) /\ PerSymbolReturns(market, lookback, mode) = Sorted(market, all)
  BY ReturnsOfTaken
<1>3. PerSymbolReturns(cut, lookback, mode) = Sorted(cut, some)
  BY ReturnsOfTaken
<1> HIDE DEF all, some
<1>4. QED
  BY <1>1, <1>2, <1>3, SortedIsCut

(* What the derivatives known at a candle give.                            *)
RecordsOfType(rows, sym, type) ==
    {r \in rows : QualifiedDerivative(r.series) /\ r.series.type = type /\ r.series.symbol = sym}

MatchedRecords(rows, sym, type, t) == LatestRecordAtOrBefore(RecordsOfType(rows, sym, type), t)

SignalAt(rows, sym, types, t) ==
    Total([type \in types |-> Magnitude(Number(AnyOf(MatchedRecords(rows, sym, type, t))))])

DerivativeTaken(rows, list, sym, types, i) ==
    LET now == list[i]
    IN IF \/ i = Len(list) \/ Number(now) = 0
          \/ \E type \in types : MatchedRecords(rows, sym, type, now.time) = {}
       THEN <<>>
       ELSE IF SignalAt(rows, sym, types, now.time) = 0 THEN <<>>
       ELSE <<Observation(now, list[i + 1], SignalAt(rows, sym, types, now.time))>>

DerivativesTaken(rows, market, types) ==
    [sym \in DOMAIN market |-> [i \in DOMAIN market[sym] |-> DerivativeTaken(rows, market[sym], sym, types, i)]]

LEMMA DerivativesOfTaken ==
    ASSUME NEW rows, NEW market, NEW types
    PROVE  /\ WithDerivatives(rows, market, types) = Sorted(market, DerivativesTaken(rows, market, types))
           /\ TakesTrades(market, DerivativesTaken(rows, market, types))
<1>1. WithDerivatives(rows, market, types) = Sorted(market, DerivativesTaken(rows, market, types))
  BY Zenon DEF WithDerivatives, DerivativesTaken, DerivativeTaken, SignalAt, MatchedRecords, RecordsOfType
<1>2. \A sym, list, i :
         \/ DerivativeTaken(rows, list, sym, types, i) = <<>>
         \/ /\ i # Len(list)
            /\ \E s : DerivativeTaken(rows, list, sym, types, i) = <<Observation(list[i], list[i + 1], s)>>
  BY Zenon DEF DerivativeTaken
<1>3. TakesTrades(market, DerivativesTaken(rows, market, types))
  BY <1>2 DEF TakesTrades, DerivativesTaken
<1>4. QED
  BY <1>1, <1>3

(* Later records match no earlier time.                                    *)
LEMMA MatchedUpTo ==
    ASSUME NEW rows \in SUBSET AllRows, NEW t \in Nat, NEW u \in Nat, u <= t, NEW sym, NEW types
    PROVE  /\ \A type : MatchedRecords(UpTo(rows, t), sym, type, u) = MatchedRecords(rows, sym, type, u)
           /\ SignalAt(UpTo(rows, t), sym, types, u) = SignalAt(rows, sym, types, u)
<1>1. ASSUME NEW type
      PROVE  MatchedRecords(UpTo(rows, t), sym, type, u) = MatchedRecords(rows, sym, type, u)
  <2> DEFINE all == RecordsOfType(rows, sym, type)
             early == RecordsOfType(UpTo(rows, t), sym, type)
  <2>1. {r \in early : r.time <= u} = {r \in all : r.time <= u}
    <3>1. \A r \in rows : r.time \in Nat
      <4>1. \A r \in AllRows : r.time \in Times
        BY DEF AllRows, Row
      <4>2. Times \in SUBSET Nat
        BY RowsAssumption DEF Times
      <4>3. QED
        BY <4>1, <4>2
    <3>2. \A r \in rows : r.time <= u => r.time <= t
      BY <3>1
    <3>3. QED
      BY <3>2 DEF RecordsOfType, UpTo
  <2> HIDE DEF all, early
  <2>2. LatestRecordAtOrBefore(early, u) = LatestRecordAtOrBefore(all, u)
    BY <2>1 DEF LatestRecordAtOrBefore
  <2>3. QED
    BY <2>2 DEF MatchedRecords, all, early
<1>2. QED
  BY <1>1 DEF SignalAt

LEMMA DerivativesAreCut ==
    ASSUME NEW market, NEW T, CleanMarket(market, T), NEW t \in Nat, NEW cut, CutMarket(cut, market, t),
           NEW rows \in SUBSET AllRows, NEW types
    PROVE  WithDerivatives(UpTo(rows, t), cut, types) = EndedBy(WithDerivatives(rows, market, types), t)
<1> DEFINE all == DerivativesTaken(rows, market, types)
           some == DerivativesTaken(UpTo(rows, t), cut, types)
<1>1. TakesTheSame(cut, some, all)
  <2>1. ASSUME NEW sym \in DOMAIN cut, NEW i \in DOMAIN cut[sym]
        PROVE  some[sym][i] = IF i = Len(cut[sym]) THEN <<>> ELSE all[sym][i]
    <3> DEFINE c == cut[sym]
               m == market[sym]
               early == UpTo(rows, t)
    <3>1. CutRows(c, m, t) /\ sym \in DOMAIN market /\ CleanList(m, T) /\ T \in SUBSET Nat
      BY DEF CutMarket, CleanMarket
    <3>2. i \in DOMAIN m /\ c[i] = m[i] /\ m[i].time \in Nat /\ m[i].time <= t
      <4> HIDE DEF c, m
      <4>1. i \in DOMAIN c
        BY DEF c
      <4>2. i \in DOMAIN m /\ c[i] = m[i] /\ i <= Len(c)
        BY <3>1, <4>1 DEF CutRows
      <4>3. m[i].time <= t
        BY <3>1, <4>2 DEF CutRows
      <4>4. m[i].time \in Nat
        BY <3>1, <4>2 DEF CleanList
      <4>5. QED
        BY <4>2, <4>3, <4>4
    <3>3. /\ some[sym][i] = DerivativeTaken(early, c, sym, types, i)
          /\ all[sym][i] = DerivativeTaken(rows, m, sym, types, i)
      BY <3>1, <3>2 DEF DerivativesTaken
    <3>4. i \in DOMAIN c
      OBVIOUS
    <3>5. /\ \A type : MatchedRecords(early, sym, type, m[i].time) = MatchedRecords(rows, sym, type, m[i].time)
          /\ SignalAt(early, sym, types, m[i].time) = SignalAt(rows, sym, types, m[i].time)
      BY <3>2, MatchedUpTo
    <3> HIDE DEF c, m, early
    <3>6. i = Len(c) => DerivativeTaken(early, c, sym, types, i) = <<>>
      BY DEF DerivativeTaken
    <3>7. i # Len(c) => i # Len(m) /\ c[i + 1] = m[i + 1]
      BY <3>1, <3>4 DEF CutRows
    <3>8. i # Len(c) =>
            DerivativeTaken(early, c, sym, types, i) = DerivativeTaken(rows, m, sym, types, i)
      BY <3>2, <3>5, <3>7 DEF DerivativeTaken
    <3>9. QED
      BY <3>3, <3>6, <3>8 DEF c
  <2> HIDE DEF all, some
  <2>2. QED
    BY <2>1 DEF TakesTheSame
<1>2. TakesTrades(market, all) /\ WithDerivatives(rows, market, types) = Sorted(market, all)
  BY DerivativesOfTaken
<1>3. WithDerivatives(UpTo(rows, t), cut, types) = Sorted(cut, some)
  BY DerivativesOfTaken
<1> HIDE DEF all, some
<1>4. QED
  BY <1>1, <1>2, <1>3, SortedIsCut

----------------------------------------------------------------------------
(* The ranking across assets.                                              *)

(* What the ranking is made of.                                            *)
TradedSymbols(market) == {sym \in DOMAIN market : market[sym] # <<>>}

MarketTimes(market) ==
    {t \in Times : /\ TradedSymbols(market) # {}
                   /\ \A sym \in TradedSymbols(market) : \E r \in ToSet(market[sym]) : r.time = t}

RankedRow(market, sym, i) == RowOn(market[sym], Ascending(MarketTimes(market))[i])

RiseOf(market, lookback, sym, i) ==
    Return(Number(RankedRow(market, sym, i - lookback)), Number(RankedRow(market, sym, i)))

RisingAt(market, lookback, i) ==
    {sym \in TradedSymbols(market) : /\ Number(RankedRow(market, sym, i - lookback)) > 0
                                     /\ RiseOf(market, lookback, sym, i) > 0}

BestAt(market, lookback, i) ==
    Greatest([sym \in RisingAt(market, lookback, i) |-> RiseOf(market, lookback, sym, i)])

RankedPlaces(market, lookback) ==
    {i \in DOMAIN Ascending(MarketTimes(market)) :
        i > lookback /\ i < Len(Ascending(MarketTimes(market))) /\ RisingAt(market, lookback, i) # {}}

RankedTrade(market, lookback, i) ==
    Observation(RankedRow(market, BestAt(market, lookback, i), i),
                RankedRow(market, BestAt(market, lookback, i), i + 1),
                RiseOf(market, lookback, BestAt(market, lookback, i), i))

LEMMA RankingOf ==
    ASSUME NEW market, NEW lookback
    PROVE  CrossAssetRanking(market, lookback)
             = [k \in DOMAIN Ascending(RankedPlaces(market, lookback)) |->
                  RankedTrade(market, lookback, Ascending(RankedPlaces(market, lookback))[k])]
  BY Zenon DEF CrossAssetRanking, RankedTrade, RankedPlaces, BestAt, RisingAt, RiseOf, RankedRow, RowOn,
               MarketTimes, TradedSymbols

(* All lists of a market have the same times.                              *)
SameTimes(market, T) ==
    \A sym \in DOMAIN market : \A u : u \in T <=> \E j \in DOMAIN market[sym] : market[sym][j].time = u

LEMMA TimesOfMarket ==
    ASSUME NEW market, NEW T \in SUBSET Times, SameTimes(market, T)
    PROVE  /\ \A u : u \in MarketTimes(market) <=> DOMAIN market # {} /\ u \in T
           /\ T # {} => TradedSymbols(market) = DOMAIN market
           /\ Numbers(MarketTimes(market))
<1>1. \A sym \in DOMAIN market : \A u : u \in T <=> \E r \in ToSet(market[sym]) : r.time = u
  BY DEF SameTimes, ToSet
<1>2. T # {} => TradedSymbols(market) = DOMAIN market
  <2> SUFFICES ASSUME NEW u \in T, NEW sym \in DOMAIN market PROVE market[sym] # <<>>
    BY DEF TradedSymbols
  <2>1. PICK j \in DOMAIN market[sym] : market[sym][j].time = u
    BY DEF SameTimes
  <2>2. DOMAIN market[sym] # {}
    BY <2>1
  <2>3. QED
    BY <2>2
<1>3. TradedSymbols(market) \in SUBSET DOMAIN market
  BY DEF TradedSymbols
<1>4. \A u : u \in MarketTimes(market) <=> DOMAIN market # {} /\ u \in T
  <2>1. ASSUME NEW u, u \in MarketTimes(market) PROVE DOMAIN market # {} /\ u \in T
    <3>1. PICK sym \in TradedSymbols(market) : \E r \in ToSet(market[sym]) : r.time = u
      BY <2>1 DEF MarketTimes
    <3>2. QED
      BY <1>1, <1>3, <3>1
  <2>2. ASSUME NEW u, DOMAIN market # {}, u \in T PROVE u \in MarketTimes(market)
    <3>1. TradedSymbols(market) = DOMAIN market /\ u \in Times
      BY <1>2, <2>2
    <3>2. \A sym \in TradedSymbols(market) : \E r \in ToSet(market[sym]) : r.time = u
      BY <1>1, <2>2, <3>1
    <3>3. QED
      BY <2>2, <3>1, <3>2 DEF MarketTimes
  <2>3. QED
    BY <2>1, <2>2
<1>5. Numbers(MarketTimes(market))
  <2>1. IsFiniteSet(Times) /\ Times \in SUBSET Nat
    BY RowsAssumption, FS_Interval DEF Times
  <2>2. MarketTimes(market) \in SUBSET Times
    BY DEF MarketTimes
  <2>3. QED
    BY <2>1, <2>2, FS_Subset DEF Numbers
<1>6. QED
  BY <1>2, <1>4, <1>5

LEMMA RowOnItsTime ==
    ASSUME NEW list, NEW T, CleanList(list, T), T \in SUBSET Nat, NEW j \in DOMAIN list
    PROVE  RowOn(list, list[j].time) = list[j]
<1> DEFINE places == {i \in DOMAIN list : list[i].time = list[j].time}
<1>1. /\ \A i \in DOMAIN list : i \in Nat /\ list[i].time \in Nat
      /\ \A i, q \in DOMAIN list : i < q => list[i].time < list[q].time
  BY CleanPlaces
<1>2. ASSUME NEW i \in places PROVE i = j
  <2>1. i \in DOMAIN list /\ list[i].time = list[j].time
    OBVIOUS
  <2>2. ~(i < j) /\ ~(j < i)
    BY <1>1, <2>1
  <2>3. QED
    BY <1>1, <2>1, <2>2
<1>3. places = {j} /\ j \in Nat
  BY <1>1, <1>2
<1> HIDE DEF places
<1>4. Max(places) = j
  BY <1>3 DEF Max
<1>5. QED
  BY <1>4 DEF RowOn, places

(* The best at a place, and when its trade ends.                           *)
LEMMA BestAtPlace ==
    ASSUME NEW market, NEW T \in SUBSET Times, CleanMarket(market, T), SameTimes(market, T),
           NEW lookback \in Nat, NEW i \in RankedPlaces(market, lookback),
           NEW at, at = Ascending(MarketTimes(market))
    PROVE  /\ BestAt(market, lookback, i) \in DOMAIN market
           /\ i + 1 \in DOMAIN at
           /\ RankedTrade(market, lookback, i).until = at[i + 1]
<1>1. /\ Len(at) \in Nat /\ DOMAIN at = 1 .. Len(at)
      /\ \A j \in DOMAIN at : at[j] \in MarketTimes(market)
  BY TimesOfMarket, NumbersListed
<1>2. /\ i \in DOMAIN at /\ i > lookback /\ i < Len(at) /\ RisingAt(market, lookback, i) # {}
  BY DEF RankedPlaces
<1>3. i + 1 \in DOMAIN at /\ i - lookback \in DOMAIN at
  BY <1>1, <1>2
<1>4. ASSUME NEW sym \in DOMAIN market, NEW j \in DOMAIN at
      PROVE  RankedRow(market, sym, j).time = at[j]
  <2>1. CleanList(market[sym], T) /\ T \in SUBSET Nat
    BY DEF CleanMarket
  <2>2. at[j] \in T
    BY <1>1, TimesOfMarket
  <2>3. \E p \in DOMAIN market[sym] : market[sym][p].time = at[j]
    BY <2>2 DEF SameTimes
  <2>4. QED
    BY <2>1, <2>3, RowOnTime DEF RankedRow
<1>5. \A sym \in DOMAIN market : \A j \in DOMAIN at : Number(RankedRow(market, sym, j)) \in Int
  <2>1. \A j \in DOMAIN at : at[j] \in Times
    BY <1>1 DEF MarketTimes
  <2>2. QED
    BY <1>4, <2>1, NumbersAreWhole
<1> DEFINE S == RisingAt(market, lookback, i)
           f == [s \in S |-> RiseOf(market, lookback, s, i)]
<1>6. S \in SUBSET DOMAIN market /\ \A s \in S : Number(RankedRow(market, s, i - lookback)) > 0
  BY DEF RisingAt, TradedSymbols
<1>7. \A s \in S : RiseOf(market, lookback, s, i) \in Int
  BY <1>2, <1>3, <1>5, <1>6, ReturnIsWhole DEF RiseOf
<1>8. BestAt(market, lookback, i) \in S
  <2>1. IsFiniteSet(S) /\ S # {}
    BY <1>2, <1>6, FS_Subset DEF CleanMarket
  <2>2. DOMAIN f = S /\ \A s \in S : f[s] \in Int
    BY <1>7
  <2>3. BestAt(market, lookback, i) = Greatest(f)
    BY DEF BestAt
  <2> HIDE DEF S, f
  <2>4. QED
    BY <2>1, <2>2, <2>3, BestIsOne
<1>9. BestAt(market, lookback, i) \in DOMAIN market
  BY <1>6, <1>8
<1>10. RankedTrade(market, lookback, i).until = at[i + 1]
  BY <1>3, <1>4, <1>9 DEF RankedTrade, Observation
<1>11. QED
  BY <1>3, <1>9, <1>10

(* The rows up to a bar have the times up to it.                           *)
LEMMA CutHasTimes ==
    ASSUME NEW market, NEW T \in SUBSET Times, CleanMarket(market, T), SameTimes(market, T),
           NEW t, NEW cut, CutMarket(cut, market, t),
           NEW early \in SUBSET T, \A u \in T : u \in early <=> u <= t
    PROVE  SameTimes(cut, early)
<1>1. ASSUME NEW sym \in DOMAIN cut, NEW u
      PROVE  u \in early <=> \E j \in DOMAIN cut[sym] : cut[sym][j].time = u
  <2> DEFINE c == cut[sym]
             m == market[sym]
  <2>1. CutRows(c, m, t) /\ CleanList(m, T) /\ \A v : v \in T <=> \E j \in DOMAIN m : m[j].time = v
    BY DEF CutMarket, CleanMarket, SameTimes
  <2> HIDE DEF c, m
  <2>2. /\ \A j \in DOMAIN c : j \in DOMAIN m /\ c[j] = m[j] /\ m[j].time <= t
        /\ \A j \in DOMAIN m : m[j].time <= t => j \in DOMAIN c
    BY <2>1 DEF CutRows
  <2>3. ASSUME u \in early PROVE \E j \in DOMAIN c : c[j].time = u
    <3>1. u \in T /\ u <= t
      BY <2>3
    <3>2. PICK j \in DOMAIN m : m[j].time = u
      BY <2>1, <3>1
    <3>3. QED
      BY <2>2, <3>1, <3>2
  <2>4. ASSUME NEW j \in DOMAIN c, c[j].time = u PROVE u \in early
    <3>1. j \in DOMAIN m /\ m[j].time = u /\ u <= t
      BY <2>2, <2>4
    <3>2. u \in T
      BY <2>1, <3>1
    <3>3. QED
      BY <3>1, <3>2
  <2>5. u \in early <=> \E j \in DOMAIN c : c[j].time = u
    BY <2>3, <2>4
  <2>6. QED
    BY <2>5 DEF c
<1>2. QED
  BY <1>1 DEF SameTimes

LEMMA RankedRowsAreCut ==
    ASSUME NEW market, NEW T \in SUBSET Times, CleanMarket(market, T), SameTimes(market, T),
           NEW t \in Nat, NEW cut, CutMarket(cut, market, t)
    PROVE  /\ CutTimes(Ascending(MarketTimes(cut)), Ascending(MarketTimes(market)), t)
           /\ \A i \in DOMAIN Ascending(MarketTimes(cut)) :
                 /\ TradedSymbols(cut) = TradedSymbols(market)
                 /\ \A sym \in DOMAIN market : RankedRow(cut, sym, i) = RankedRow(market, sym, i)
<1> DEFINE early == {u \in T : u <= t}
           K == MarketTimes(market)
           P == MarketTimes(cut)
<1>1. early \in SUBSET T /\ early \in SUBSET Times /\ \A u \in T : u \in early <=> u <= t
  OBVIOUS
<1> HIDE DEF early
<1>2. SameTimes(cut, early)
  BY <1>1, CutHasTimes
<1>3. DOMAIN cut = DOMAIN market
  BY DEF CutMarket
<1>4. /\ \A u : u \in K <=> DOMAIN market # {} /\ u \in T
      /\ T # {} => TradedSymbols(market) = DOMAIN market
      /\ Numbers(K)
  BY TimesOfMarket
<1>5. /\ \A u : u \in P <=> DOMAIN market # {} /\ u \in early
      /\ early # {} => TradedSymbols(cut) = DOMAIN market
      /\ Numbers(P)
  BY <1>1, <1>2, <1>3, TimesOfMarket
<1> HIDE DEF K, P
<1>6. P \in SUBSET K /\ \A k \in K : k \in P <=> k <= t
  BY <1>1, <1>4, <1>5
<1>7. CutTimes(Ascending(P), Ascending(K), t)
  BY <1>4, <1>6, TimesAreCut
<1>8. ASSUME NEW i \in DOMAIN Ascending(P)
      PROVE  /\ TradedSymbols(cut) = TradedSymbols(market)
             /\ \A sym \in DOMAIN market : RankedRow(cut, sym, i) = RankedRow(market, sym, i)
  <2> DEFINE u == Ascending(P)[i]
  <2>1. u \in P
    BY <1>5, NumbersListed
  <2>2. Ascending(K)[i] = u
    BY <1>7 DEF CutTimes
  <2> HIDE DEF u
  <2>3. u \in early /\ u \in T
    BY <1>1, <1>5, <2>1
  <2>4. TradedSymbols(cut) = TradedSymbols(market)
    BY <1>4, <1>5, <2>3
  <2>5. ASSUME NEW sym \in DOMAIN market PROVE RankedRow(cut, sym, i) = RankedRow(market, sym, i)
    <3> DEFINE c == cut[sym]
               m == market[sym]
    <3>1. CutRows(c, m, t) /\ CleanList(m, T) /\ T \in SUBSET Nat
      BY DEF CutMarket, CleanMarket
    <3>2. CleanList(c, T)
      BY <1>3, CutIsClean DEF CleanMarket
    <3>3. \E j \in DOMAIN c : c[j].time = u
      BY <1>2, <1>3, <2>3 DEF SameTimes
    <3>4. RankedRow(cut, sym, i) = RowOn(c, u) /\ RankedRow(market, sym, i) = RowOn(m, u)
      BY <2>2 DEF RankedRow, u, K, P
    <3> HIDE DEF c, m
    <3>5. PICK j \in DOMAIN c : c[j].time = u
      BY <3>3
    <3>6. j \in DOMAIN m /\ c[j] = m[j]
      BY <3>1 DEF CutRows
    <3>7. RowOn(c, u) = c[j] /\ RowOn(m, u) = m[j]
      BY <3>1, <3>2, <3>5, <3>6, RowOnItsTime
    <3>8. QED
      BY <3>4, <3>6, <3>7
  <2>6. QED
    BY <2>4, <2>5
<1>9. QED
  BY <1>7, <1>8 DEF K, P

(* The best of the same is the same.                                       *)
LEMMA SameBest ==
    ASSUME NEW market, NEW cut, NEW lookback, NEW i,
           TradedSymbols(cut) = TradedSymbols(market),
           \A sym \in DOMAIN market : \A j \in {i, i - lookback} :
               RankedRow(cut, sym, j) = RankedRow(market, sym, j)
    PROVE  /\ RisingAt(cut, lookback, i) = RisingAt(market, lookback, i)
           /\ BestAt(cut, lookback, i) = BestAt(market, lookback, i)
           /\ \A sym \in DOMAIN market : RiseOf(cut, lookback, sym, i) = RiseOf(market, lookback, sym, i)
<1>1. \A sym \in DOMAIN market : RiseOf(cut, lookback, sym, i) = RiseOf(market, lookback, sym, i)
  BY DEF RiseOf
<1>2. TradedSymbols(market) \in SUBSET DOMAIN market
  BY DEF TradedSymbols
<1>3. RisingAt(cut, lookback, i) = RisingAt(market, lookback, i)
  BY <1>1, <1>2 DEF RisingAt
<1> DEFINE S == RisingAt(market, lookback, i)
<1>4. S \in SUBSET DOMAIN market
  BY <1>2 DEF RisingAt
<1> HIDE DEF S
<1>5. [sym \in S |-> RiseOf(cut, lookback, sym, i)] = [sym \in S |-> RiseOf(market, lookback, sym, i)]
  BY <1>1, <1>4
<1>6. BestAt(cut, lookback, i) = BestAt(market, lookback, i)
  BY <1>3, <1>5 DEF BestAt, S
<1>7. QED
  BY <1>1, <1>3, <1>6

LEMMA RankingIsCut ==
    ASSUME NEW market, NEW T \in SUBSET Times, CleanMarket(market, T), SameTimes(market, T),
           NEW t \in Nat, NEW cut, CutMarket(cut, market, t), NEW lookback \in Nat
    PROVE  CrossAssetRanking(cut, lookback) = EndedBy(CrossAssetRanking(market, lookback), t)
<1> DEFINE at == Ascending(MarketTimes(market))
           first == Ascending(MarketTimes(cut))
           K == RankedPlaces(market, lookback)
           P == RankedPlaces(cut, lookback)
           V == [i \in K |-> RankedTrade(market, lookback, i)]
           W == [i \in P |-> RankedTrade(cut, lookback, i)]
           long == CrossAssetRanking(market, lookback)
           short == CrossAssetRanking(cut, lookback)
<1>1. /\ CutTimes(first, at, t)
      /\ \A i \in DOMAIN first :
            /\ TradedSymbols(cut) = TradedSymbols(market)
            /\ \A sym \in DOMAIN market : RankedRow(cut, sym, i) = RankedRow(market, sym, i)
  BY RankedRowsAreCut
<1>2. /\ Len(at) \in Nat /\ DOMAIN at = 1 .. Len(at)
      /\ Len(first) \in Nat /\ DOMAIN first = 1 .. Len(first) /\ Len(first) <= Len(at)
      /\ \A i \in DOMAIN at : at[i] <= t <=> i <= Len(first)
  BY <1>1 DEF CutTimes
<1>3. /\ \A i \in K : i \in DOMAIN at /\ i > lookback /\ i < Len(at) /\ RisingAt(market, lookback, i) # {}
      /\ \A i \in DOMAIN at : i > lookback /\ i < Len(at) /\ RisingAt(market, lookback, i) # {} => i \in K
      /\ \A i \in P : i \in DOMAIN first /\ i > lookback /\ i < Len(first) /\ RisingAt(cut, lookback, i) # {}
      /\ \A i \in DOMAIN first : i > lookback /\ i < Len(first) /\ RisingAt(cut, lookback, i) # {} => i \in P
  BY DEF RankedPlaces
<1>4. \A i \in K : RankedTrade(market, lookback, i).until = at[i + 1] /\ i + 1 \in DOMAIN at
  BY BestAtPlace
<1> HIDE DEF at, first
<1>5. ASSUME NEW i \in DOMAIN first, i > lookback
      PROVE  /\ RisingAt(cut, lookback, i) = RisingAt(market, lookback, i)
             /\ BestAt(cut, lookback, i) = BestAt(market, lookback, i)
             /\ \A sym \in DOMAIN market : RiseOf(cut, lookback, sym, i) = RiseOf(market, lookback, sym, i)
  <2>1. i - lookback \in DOMAIN first
    BY <1>2, <1>5
  <2>2. \A sym \in DOMAIN market : \A j \in {i, i - lookback} :
           RankedRow(cut, sym, j) = RankedRow(market, sym, j)
    BY <1>1, <2>1
  <2>3. QED
    BY <1>1, <2>2, SameBest
<1>6. \A i \in K : at[i + 1] <= t <=> i < Len(first)
  BY <1>2, <1>3, <1>4
<1>7. P \in SUBSET K
  <2> SUFFICES ASSUME NEW i \in P PROVE i \in K
    OBVIOUS
  <2>1. i \in DOMAIN first /\ i > lookback /\ i < Len(first) /\ RisingAt(market, lookback, i) # {}
    BY <1>3, <1>5
  <2>2. i \in DOMAIN at /\ i < Len(at)
    BY <1>2, <2>1
  <2>3. QED
    BY <1>3, <2>1, <2>2
<1>8. \A i \in K : i \in P <=> i < Len(first)
  <2> SUFFICES ASSUME NEW i \in K PROVE i \in P <=> i < Len(first)
    OBVIOUS
  <2>1. i \in P => i < Len(first)
    BY <1>3
  <2>2. ASSUME i < Len(first) PROVE i \in P
    <3>1. i \in DOMAIN first /\ i > lookback
      BY <1>2, <1>3, <2>2
    <3>2. RisingAt(cut, lookback, i) # {}
      BY <1>3, <1>5, <3>1
    <3>3. QED
      BY <1>3, <2>2, <3>1, <3>2
  <2>3. QED
    BY <2>1, <2>2
<1>9. ASSUME NEW i \in P PROVE RankedTrade(cut, lookback, i) = RankedTrade(market, lookback, i)
  <2>1. i \in DOMAIN first /\ i + 1 \in DOMAIN first /\ i > lookback /\ i \in K
    BY <1>2, <1>3, <1>7
  <2> DEFINE b == BestAt(market, lookback, i)
  <2>2. b \in DOMAIN market
    BY <2>1, BestAtPlace
  <2>3. BestAt(cut, lookback, i) = b /\ RiseOf(cut, lookback, b, i) = RiseOf(market, lookback, b, i)
    BY <1>5, <2>1, <2>2
  <2>4. RankedRow(cut, b, i) = RankedRow(market, b, i) /\ RankedRow(cut, b, i + 1) = RankedRow(market, b, i + 1)
    BY <1>1, <2>1, <2>2
  <2>5. QED
    BY <2>3, <2>4 DEF RankedTrade
<1>10. Numbers(K)
  <2>1. IsFiniteSet(DOMAIN at) /\ DOMAIN at \in SUBSET Nat
    <3>1. IsFiniteSet(1 .. Len(at))
      BY <1>2, FS_Interval
    <3>2. QED
      BY <1>2, <3>1
  <2>2. K \in SUBSET DOMAIN at
    BY <1>3
  <2>3. QED
    BY <2>1, <2>2, FS_Subset DEF Numbers
<1>11. long = [q \in DOMAIN Ascending(K) |-> RankedTrade(market, lookback, Ascending(K)[q])]
       /\ short = [q \in DOMAIN Ascending(P) |-> RankedTrade(cut, lookback, Ascending(P)[q])]
  BY RankingOf
<1> HIDE DEF K, P, long, short
<1>12. long = [q \in DOMAIN Ascending(K) |-> V[Ascending(K)[q]]]
  <2>1. \A q \in DOMAIN Ascending(K) : Ascending(K)[q] \in K
    BY <1>10, NumbersListed
  <2>2. QED
    BY <1>11, <2>1
<1>13. short = [q \in DOMAIN Ascending(P) |-> W[Ascending(P)[q]]]
  <2>1. Numbers(P)
    BY <1>7, <1>10, FS_Subset DEF Numbers
  <2>2. \A q \in DOMAIN Ascending(P) : Ascending(P)[q] \in P
    BY <2>1, NumbersListed
  <2>3. QED
    BY <1>11, <2>2
<1>14. /\ \A i \in K : i \in P <=> V[i].until <= t
       /\ \A i \in P : W[i] = V[i]
  BY <1>4, <1>6, <1>7, <1>8, <1>9
<1> HIDE DEF V, W
<1>15. short = EndedBy(long, t)
  BY ONLY <1>7, <1>10, <1>12, <1>13, <1>14, PicksEnded
<1>16. QED
  BY <1>15 DEF long, short

----------------------------------------------------------------------------
(* Every template of the lab.                                              *)

LEMMA NoneEnded == ASSUME NEW t PROVE EndedBy(<<>>, t) = <<>>
<1> DEFINE K == {i \in DOMAIN <<>> : <<>>[i].until <= t}
<1>1. K = {}
  OBVIOUS
<1> HIDE DEF K
<1>2. Numbers(K) /\ Cardinality(K) = 0
  BY <1>1, FS_EmptySet DEF Numbers
<1>3. DOMAIN Ascending(K) = {}
  BY <1>2, NumbersInOrder
<1>4. EndedBy(<<>>, t) = [k \in DOMAIN Ascending(K) |-> <<>>[Ascending(K)[k]]]
  BY DEF EndedBy, Picked, K
<1>5. QED
  BY <1>3, <1>4

LEMMA HistoricalIsCut ==
    ASSUME NEW rows \in SUBSET AllRows, NEW market, NEW T \in SUBSET Times, CleanMarket(market, T),
           SameTimes(market, T), NEW t \in Nat, NEW cut, CutMarket(cut, market, t), NEW id
    PROVE  HistoricalObservations(id, UpTo(rows, t), cut) = EndedBy(HistoricalObservations(id, rows, market), t)
<1> DEFINE long == HistoricalObservations(id, rows, market)
           early == UpTo(rows, t)
           short == HistoricalObservations(id, early, cut)
<1>1. \/ \E types : /\ long = WithDerivatives(rows, market, types)
                    /\ short = WithDerivatives(early, cut, types)
      \/ /\ long = CrossAssetRanking(market, LongLookback)
         /\ short = CrossAssetRanking(cut, LongLookback)
      \/ \E lookback \in {ShortLookback, LongLookback} : \E mode :
            /\ long = PerSymbolReturns(market, lookback, mode)
            /\ short = PerSymbolReturns(cut, lookback, mode)
      \/ long = <<>> /\ short = <<>>
  BY Zenon DEF HistoricalObservations, BasisFundingObservations, CrowdingObservations
<1> HIDE DEF long, short
<1>2. CASE \E types : /\ long = WithDerivatives(rows, market, types)
                      /\ short = WithDerivatives(early, cut, types)
  <2>1. PICK types : long = WithDerivatives(rows, market, types) /\ short = WithDerivatives(early, cut, types)
    BY <1>2
  <2>2. WithDerivatives(UpTo(rows, t), cut, types) = EndedBy(WithDerivatives(rows, market, types), t)
    BY DerivativesAreCut
  <2>3. short = EndedBy(long, t)
    BY <2>1, <2>2
  <2>4. QED
    BY <2>3 DEF short, long
<1> HIDE DEF early
<1>3. CASE /\ long = CrossAssetRanking(market, LongLookback)
           /\ short = CrossAssetRanking(cut, LongLookback)
  <2>1. LongLookback \in Nat
    BY LabsAssumption
  <2>2. short = EndedBy(long, t)
    BY <1>3, <2>1, RankingIsCut
  <2>3. QED
    BY <2>2 DEF short, long, early
<1>4. CASE \E lookback \in {ShortLookback, LongLookback} : \E mode :
              /\ long = PerSymbolReturns(market, lookback, mode)
              /\ short = PerSymbolReturns(cut, lookback, mode)
  <2>1. LongLookback \in Nat /\ ShortLookback \in Nat
    BY LabsAssumption
  <2>2. short = EndedBy(long, t)
    BY <1>4, <2>1, ReturnsAreCut
  <2>3. QED
    BY <2>2 DEF short, long, early
<1>5. CASE long = <<>> /\ short = <<>>
  <2>1. short = EndedBy(long, t)
    BY <1>5, NoneEnded
  <2>2. QED
    BY <2>1 DEF short, long, early
<1>6. QED
  BY <1>1, <1>2, <1>3, <1>4, <1>5 DEF short, long, early

----------------------------------------------------------------------------
(* The older labs.                                                         *)

LEMMA RowTimes == ASSUME NEW rows \in SUBSET AllRows PROVE \A r \in rows : r.time \in Nat /\ r.time \in Times
<1>1. \A r \in AllRows : r.time \in Times
  BY DEF AllRows, Row
<1>2. Times \in SUBSET Nat
  BY RowsAssumption DEF Times
<1>3. QED
  BY <1>1, <1>2

LEMMA SameAtTime ==
    ASSUME NEW rows \in SUBSET AllRows, NEW t \in Nat, NEW u \in Nat, u <= t
    PROVE  /\ \A sym : CloseAt(UpTo(rows, t), sym, u) = CloseAt(rows, sym, u)
           /\ \A instrument : DerivativesRow(UpTo(rows, t), instrument, u) = DerivativesRow(rows, instrument, u)
<1> DEFINE early == UpTo(rows, t)
<1>1. \A r : r \in early <=> r \in rows /\ r.time <= t
  BY DEF UpTo
<1>2. \A r : r.time = u => (r \in early <=> r \in rows)
  BY <1>1
<1> HIDE DEF early
<1>3. ASSUME NEW sym PROVE CloseAt(early, sym, u) = CloseAt(rows, sym, u)
  <2>1. {r \in StrategyCandles(early, sym) : r.time = u} = {r \in StrategyCandles(rows, sym) : r.time = u}
    BY <1>2 DEF StrategyCandles
  <2>2. QED
    BY <2>1 DEF CloseAt
<1>4. ASSUME NEW instrument
      PROVE  DerivativesRow(early, instrument, u) = DerivativesRow(rows, instrument, u)
  BY <1>2 DEF DerivativesRow, DerivativeRecords
<1>5. QED
  BY <1>3, <1>4 DEF early

SharedBy(rows, symbols) ==
    {t \in Times : symbols # {} /\ \A sym \in symbols : \E r \in StrategyCandles(rows, sym) : r.time = t}

LEMMA AlignedIsCut ==
    ASSUME NEW rows \in SUBSET AllRows, NEW t \in Nat, NEW symbols
    PROVE  CutTimes(AlignedTimes(UpTo(rows, t), symbols), AlignedTimes(rows, symbols), t)
<1> DEFINE early == UpTo(rows, t)
           K == SharedBy(rows, symbols)
           P == SharedBy(early, symbols)
<1>1. AlignedTimes(rows, symbols) = Ascending(K) /\ AlignedTimes(early, symbols) = Ascending(P)
  BY DEF AlignedTimes, SharedBy
<1>2. \A r : r \in early <=> r \in rows /\ r.time <= t
  BY DEF UpTo
<1> HIDE DEF early
<1>3. \A r, sym : r \in StrategyCandles(early, sym) <=> r \in StrategyCandles(rows, sym) /\ r.time <= t
  BY <1>2 DEF StrategyCandles
<1>4. \A u : u \in P <=> u \in K /\ u <= t
  BY <1>3 DEF SharedBy
<1>5. Numbers(K)
  <2>1. IsFiniteSet(Times) /\ Times \in SUBSET Nat
    BY RowsAssumption, FS_Interval DEF Times
  <2>2. K \in SUBSET Times
    BY DEF SharedBy
  <2>3. QED
    BY <2>1, <2>2, FS_Subset DEF Numbers
<1> HIDE DEF K, P
<1>6. P \in SUBSET K /\ \A k \in K : k \in P <=> k <= t
  BY <1>4
<1>7. CutTimes(Ascending(P), Ascending(K), t)
  BY <1>5, <1>6, TimesAreCut
<1>8. QED
  BY <1>1, <1>7 DEF early

(* All places, in order.                                                   *)
LEMMA AllInOrder ==
    ASSUME NEW n \in Nat
    PROVE  /\ Numbers(1 .. n) /\ DOMAIN Ascending(1 .. n) = 1 .. n
           /\ \A k \in 1 .. n : Ascending(1 .. n)[k] = k
<1>1. Numbers(1 .. n) /\ Cardinality(1 .. n) = n
  BY FS_Interval DEF Numbers
<1>2. \A k \in 1 .. n : Cardinality(SmallerIn(1 .. n, k)) = k - 1
  <2> SUFFICES ASSUME NEW k \in 1 .. n PROVE Cardinality(SmallerIn(1 .. n, k)) = k - 1
    OBVIOUS
  <2>1. SmallerIn(1 .. n, k) = 1 .. (k - 1)
    BY DEF SmallerIn
  <2>2. k - 1 \in Nat
    OBVIOUS
  <2> DEFINE m == k - 1
  <2> HIDE DEF m
  <2>3. Cardinality(1 .. m) = m
    BY <2>2, FS_Interval DEF m
  <2>4. QED
    BY <2>1, <2>3 DEF m
<1>3. /\ DOMAIN Ascending(1 .. n) = 1 .. n
      /\ \A k \in 1 .. n : Ascending(1 .. n)[1 + Cardinality(SmallerIn(1 .. n, k))] = k
  BY <1>1, NumbersPlaced
<1>4. \A k \in 1 .. n : Ascending(1 .. n)[k] = k
  BY <1>2, <1>3
<1>5. QED
  BY <1>1, <1>3, <1>4

LEMMA MoreThanNone == ASSUME NEW x \in Int PROVE Max({0, x}) = IF x > 0 THEN x ELSE 0
<1>1. CASE x > 0
  BY <1>1 DEF Max
<1>2. CASE ~(x > 0)
  BY <1>2 DEF Max
<1>3. QED
  BY <1>1, <1>2

(* What the momentum lab takes at a place of the shared times.             *)
HighOn(rows, at, sym, i) == Max({CloseAt(rows, sym, at[j]) : j \in i - ShortLookback + 1 .. i})

MomentumScore(rows, at, sym, i) ==
    20 * Return(CloseAt(rows, sym, at[i - LongLookback]), CloseAt(rows, sym, at[i]))
    + 10 * Return(CloseAt(rows, sym, at[i - ShortLookback]), CloseAt(rows, sym, at[i]))
    + 2 * Return(HighOn(rows, at, sym, i), CloseAt(rows, sym, at[i]))

MomentumBest(rows, symbols, at, i) == Greatest([sym \in symbols |-> MomentumScore(rows, at, sym, i)])

MomentumTrade(rows, symbols, at, i) ==
    LET sym == MomentumBest(rows, symbols, at, i)
    IN [time |-> at[i], symbol |-> sym, until |-> at[i + 1],
        gross |-> Return(CloseAt(rows, sym, at[i]), CloseAt(rows, sym, at[i + 1])),
        score |-> MomentumScore(rows, at, sym, i)]

LEMMA MomentumOf ==
    ASSUME NEW rows, NEW symbols
    PROVE  MomentumObservations(rows, symbols)
             = [k \in 1 .. Max({0, Len(AlignedTimes(rows, symbols)) - 1 - LongLookback}) |->
                  MomentumTrade(rows, symbols, AlignedTimes(rows, symbols), k + LongLookback)]
  BY Zenon DEF MomentumObservations, MomentumTrade, MomentumBest, MomentumScore, HighOn

LEMMA MomentumTradeIsCut ==
    ASSUME NEW rows \in SUBSET AllRows, NEW t \in Nat, NEW symbols, NEW at, NEW first,
           CutTimes(first, at, t), \A j \in DOMAIN first : at[j] \in Nat,
           NEW i \in Nat, i > LongLookback, i + 1 <= Len(first)
    PROVE  MomentumTrade(UpTo(rows, t), symbols, first, i) = MomentumTrade(rows, symbols, at, i)
<1> DEFINE early == UpTo(rows, t)
<1>1. LongLookback \in Nat \ {0} /\ ShortLookback \in Nat \ {0} /\ ShortLookback <= LongLookback
  BY LabsAssumption
<1>2. Len(first) \in Nat /\ DOMAIN first = 1 .. Len(first) /\ \A j \in DOMAIN first : first[j] = at[j] /\ at[j] <= t
  BY DEF CutTimes
<1>3. \A sym : \A j \in DOMAIN first : CloseAt(early, sym, first[j]) = CloseAt(rows, sym, at[j])
  <2>1. \A j \in DOMAIN first : first[j] = at[j] /\ at[j] \in Nat /\ at[j] <= t
    BY <1>2
  <2>2. ASSUME NEW u \in Nat, u <= t PROVE \A sym : CloseAt(early, sym, u) = CloseAt(rows, sym, u)
    BY <2>2, SameAtTime
  <2> HIDE DEF early
  <2>3. QED
    BY <2>1, <2>2
<1> HIDE DEF early
<1>4. /\ i \in DOMAIN first /\ i + 1 \in DOMAIN first
      /\ i - LongLookback \in DOMAIN first /\ i - ShortLookback \in DOMAIN first
      /\ \A j \in i - ShortLookback + 1 .. i : j \in DOMAIN first
  BY <1>1, <1>2
<1>5. \A sym : HighOn(early, first, sym, i) = HighOn(rows, at, sym, i)
  <2> SUFFICES ASSUME NEW sym PROVE HighOn(early, first, sym, i) = HighOn(rows, at, sym, i)
    OBVIOUS
  <2> DEFINE I == i - ShortLookback + 1 .. i
  <2>1. \A j \in I : CloseAt(early, sym, first[j]) = CloseAt(rows, sym, at[j])
    BY <1>3, <1>4
  <2> HIDE DEF I
  <2>2. {CloseAt(early, sym, first[j]) : j \in I} = {CloseAt(rows, sym, at[j]) : j \in I}
    BY <2>1
  <2>3. QED
    BY <2>2 DEF HighOn, I
<1>6. \A sym : MomentumScore(early, first, sym, i) = MomentumScore(rows, at, sym, i)
  BY <1>3, <1>4, <1>5 DEF MomentumScore
<1>7. MomentumBest(early, symbols, first, i) = MomentumBest(rows, symbols, at, i)
  <2>1. [sym \in symbols |-> MomentumScore(early, first, sym, i)]
          = [sym \in symbols |-> MomentumScore(rows, at, sym, i)]
    BY <1>6
  <2>2. QED
    BY <2>1 DEF MomentumBest
<1>8. first[i] = at[i] /\ first[i + 1] = at[i + 1]
  BY <1>2, <1>4
<1> DEFINE b == MomentumBest(rows, symbols, at, i)
<1> HIDE DEF b
<1>9. /\ CloseAt(early, b, first[i]) = CloseAt(rows, b, at[i])
      /\ CloseAt(early, b, first[i + 1]) = CloseAt(rows, b, at[i + 1])
      /\ MomentumScore(early, first, b, i) = MomentumScore(rows, at, b, i)
  BY <1>3, <1>4, <1>6
<1>10. MomentumTrade(early, symbols, first, i) = MomentumTrade(rows, symbols, at, i)
  BY <1>7, <1>8, <1>9 DEF MomentumTrade, b
<1>11. QED
  BY <1>10 DEF early

LEMMA MomentumIsCut ==
    ASSUME NEW rows \in SUBSET AllRows, NEW t \in Nat, NEW symbols
    PROVE  MomentumObservations(UpTo(rows, t), symbols) = EndedBy(MomentumObservations(rows, symbols), t)
<1> DEFINE early == UpTo(rows, t)
           at == AlignedTimes(rows, symbols)
           first == AlignedTimes(early, symbols)
           n == Max({0, Len(at) - 1 - LongLookback})
           m == Max({0, Len(first) - 1 - LongLookback})
           V == [k \in 1 .. n |-> MomentumTrade(rows, symbols, at, k + LongLookback)]
           W == [k \in 1 .. m |-> MomentumTrade(early, symbols, first, k + LongLookback)]
           long == MomentumObservations(rows, symbols)
           short == MomentumObservations(early, symbols)
<1>1. long = V /\ short = W
  BY MomentumOf
<1>2. CutTimes(first, at, t)
  BY AlignedIsCut
<1>3. \A j \in DOMAIN at : at[j] \in Nat
  <2>1. Numbers(SharedBy(rows, symbols))
    <3>1. IsFiniteSet(Times) /\ Times \in SUBSET Nat
      BY RowsAssumption, FS_Interval DEF Times
    <3>2. SharedBy(rows, symbols) \in SUBSET Times
      BY DEF SharedBy
    <3>3. QED
      BY <3>1, <3>2, FS_Subset DEF Numbers
  <2>2. at = Ascending(SharedBy(rows, symbols))
    BY DEF AlignedTimes, SharedBy
  <2> HIDE DEF at
  <2>3. QED
    BY <2>1, <2>2, NumbersListed DEF Numbers
<1> HIDE DEF at, first
<1>4. /\ Len(at) \in Nat /\ DOMAIN at = 1 .. Len(at)
      /\ Len(first) \in Nat /\ DOMAIN first = 1 .. Len(first) /\ Len(first) <= Len(at)
      /\ \A i \in DOMAIN at : at[i] <= t <=> i <= Len(first)
  BY <1>2 DEF CutTimes
<1>5. LongLookback \in Nat
  BY LabsAssumption
<1>6. /\ n \in Nat /\ n = IF Len(at) - 1 - LongLookback > 0 THEN Len(at) - 1 - LongLookback ELSE 0
      /\ m \in Nat /\ m = IF Len(first) - 1 - LongLookback > 0 THEN Len(first) - 1 - LongLookback ELSE 0
  <2>1. Len(at) - 1 - LongLookback \in Int /\ Len(first) - 1 - LongLookback \in Int
    BY <1>4, <1>5
  <2>2. /\ n = IF Len(at) - 1 - LongLookback > 0 THEN Len(at) - 1 - LongLookback ELSE 0
        /\ m = IF Len(first) - 1 - LongLookback > 0 THEN Len(first) - 1 - LongLookback ELSE 0
    BY <2>1, MoreThanNone
  <2> HIDE DEF n, m
  <2>3. QED
    BY <2>1, <2>2
<1> HIDE DEF n, m
<1> DEFINE size == Len(at)
           part == Len(first)
           L == LongLookback
<1>7. 1 .. m \in SUBSET (1 .. n)
  <2>1. size \in Nat /\ part \in Nat /\ part <= size /\ L \in Nat
    BY <1>4, <1>5
  <2>2. /\ n \in Nat /\ (size - 1 - L > 0 => n = size - 1 - L) /\ (~(size - 1 - L > 0) => n = 0)
        /\ m \in Nat /\ (part - 1 - L > 0 => m = part - 1 - L) /\ (~(part - 1 - L > 0) => m = 0)
    BY <1>6
  <2> HIDE DEF size, part, L
  <2>3. m <= n
    BY <2>1, <2>2
  <2>4. QED
    BY <2>2, <2>3
<1>8. \A k \in 1 .. n : /\ k + LongLookback + 1 \in DOMAIN at /\ k + LongLookback \in Nat
                        /\ k + LongLookback > LongLookback
                        /\ k \in 1 .. m <=> k + LongLookback + 1 <= Len(first)
  <2> SUFFICES ASSUME NEW k \in 1 .. n
               PROVE  /\ k + L + 1 \in DOMAIN at /\ k + L \in Nat /\ k + L > L
                      /\ k \in 1 .. m <=> k + L + 1 <= part
    OBVIOUS
  <2>1. size \in Nat /\ part \in Nat /\ part <= size /\ L \in Nat /\ DOMAIN at = 1 .. size
    BY <1>4, <1>5
  <2>2. /\ n \in Nat /\ (size - 1 - L > 0 => n = size - 1 - L) /\ (~(size - 1 - L > 0) => n = 0)
        /\ m \in Nat /\ (part - 1 - L > 0 => m = part - 1 - L) /\ (~(part - 1 - L > 0) => m = 0)
    BY <1>6
  <2> HIDE DEF size, part, L
  <2>3. k \in Nat /\ k >= 1 /\ k <= n
    BY <2>2
  <2>4. k + L + 1 <= size /\ (k <= m <=> k + L + 1 <= part)
    BY <2>1, <2>2, <2>3
  <2>5. QED
    BY <2>1, <2>2, <2>3, <2>4
<1> HIDE DEF size, part, L
<1>9. \A k \in 1 .. n : V[k].until = at[k + LongLookback + 1]
  BY DEF MomentumTrade
<1>10. \A k \in 1 .. n : k \in 1 .. m <=> V[k].until <= t
  BY <1>4, <1>8, <1>9
<1>11. \A j \in DOMAIN first : at[j] \in Nat
  BY <1>3, <1>4
<1>12. \A k \in 1 .. m : W[k] = V[k]
  <2> SUFFICES ASSUME NEW k \in 1 .. m PROVE W[k] = V[k]
    OBVIOUS
  <2>1. k \in 1 .. n
    BY <1>7
  <2>2. k + LongLookback \in Nat /\ k + LongLookback > LongLookback /\ (k + LongLookback) + 1 <= Len(first)
    BY <1>8, <2>1
  <2>3. MomentumTrade(early, symbols, first, k + LongLookback) = MomentumTrade(rows, symbols, at, k + LongLookback)
    BY <1>2, <1>11, <2>2, MomentumTradeIsCut
  <2>4. QED
    BY <2>1, <2>3
<1>13. /\ long = [q \in DOMAIN Ascending(1 .. n) |-> V[Ascending(1 .. n)[q]]]
       /\ short = [q \in DOMAIN Ascending(1 .. m) |-> W[Ascending(1 .. m)[q]]]
  <2>1. V = [q \in 1 .. n |-> V[q]] /\ W = [q \in 1 .. m |-> W[q]]
    OBVIOUS
  <2> HIDE DEF V, W, long, short
  <2>2. V = [q \in DOMAIN Ascending(1 .. n) |-> V[Ascending(1 .. n)[q]]]
    BY <1>6, <2>1, AllInOrder
  <2>3. W = [q \in DOMAIN Ascending(1 .. m) |-> W[Ascending(1 .. m)[q]]]
    BY <1>6, <2>1, AllInOrder
  <2>4. QED
    BY <1>1, <2>2, <2>3
<1> HIDE DEF long, short, early, V, W
<1> DEFINE K == 1 .. n
           P == 1 .. m
<1>14. Numbers(K) /\ P \in SUBSET K
  BY <1>6, <1>7, AllInOrder
<1>15. (\A k \in K : k \in P <=> V[k].until <= t) /\ (\A k \in P : W[k] = V[k])
  BY <1>10, <1>12
<1>16. /\ long = [q \in DOMAIN Ascending(K) |-> V[Ascending(K)[q]]]
       /\ short = [q \in DOMAIN Ascending(P) |-> W[Ascending(P)[q]]]
  BY <1>13
<1> HIDE DEF K, P
<1>17. short = EndedBy(long, t)
  BY ONLY <1>14, <1>15, <1>16, PicksEnded
<1>18. QED
  BY <1>17 DEF short, long, early

----------------------------------------------------------------------------
(* The derivatives lab, and all of them.                                   *)

(* What the derivatives lab takes at a place of the shared times.          *)
SignalsOf(candidate, rows, job, at, sym, i) ==
    CandidateSignal(candidate,
                    Return(CloseAt(rows, sym, at[i - ShortLookback]), CloseAt(rows, sym, at[i])),
                    DerivativesRow(rows, job.instrument[sym], at[i]))

AllSignals(candidate, rows, job, at, i) ==
    UNION {{<<sym, x>> : x \in SignalsOf(candidate, rows, job, at, sym, i)} : sym \in job.symbols}

StrongestSignal(candidate, rows, job, at, i) ==
    Greatest([p \in AllSignals(candidate, rows, job, at, i) |-> Magnitude(p[2])])

SignalPlaces(candidate, rows, job, at) ==
    {i \in DOMAIN at : /\ i > ShortLookback /\ i < Len(at)
                       /\ AllSignals(candidate, rows, job, at, i) # {} /\ StrongestSignal(candidate, rows, job, at, i)[2] # 0}

SignalTrade(rows, at, i, p) ==
    LET change == Return(CloseAt(rows, p[1], at[i]), CloseAt(rows, p[1], at[i + 1]))
    IN [time |-> at[i], symbol |-> p[1], until |-> at[i + 1],
        gross |-> IF p[2] > 0 THEN change ELSE -change, score |-> p[2]]

TradeAt(candidate, rows, job, at, i) ==
    SignalTrade(rows, at, i, StrongestSignal(candidate, rows, job, at, i))

LEMMA DerivativesOf ==
    ASSUME NEW candidate, NEW rows, NEW job
    PROVE  DerivativesObservations(candidate, rows, job)
             = [k \in DOMAIN Ascending(SignalPlaces(candidate, rows, job, AlignedTimes(rows, job.symbols))) |->
                  TradeAt(candidate, rows, job, AlignedTimes(rows, job.symbols),
                    Ascending(SignalPlaces(candidate, rows, job, AlignedTimes(rows, job.symbols)))[k])]
  BY Zenon DEF DerivativesObservations, TradeAt, SignalTrade, SignalPlaces, StrongestSignal, AllSignals, SignalsOf

LEMMA SignalsAreCut ==
    ASSUME NEW rows \in SUBSET AllRows, NEW t \in Nat, NEW candidate, NEW job, NEW at, NEW first,
           CutTimes(first, at, t), \A j \in DOMAIN first : at[j] \in Nat,
           NEW i \in DOMAIN first, i > ShortLookback
    PROVE  /\ AllSignals(candidate, UpTo(rows, t), job, first, i) = AllSignals(candidate, rows, job, at, i)
           /\ StrongestSignal(candidate, UpTo(rows, t), job, first, i)
                = StrongestSignal(candidate, rows, job, at, i)
           /\ i < Len(first) =>
                 TradeAt(candidate, UpTo(rows, t), job, first, i) = TradeAt(candidate, rows, job, at, i)
<1> DEFINE early == UpTo(rows, t)
<1>1. ShortLookback \in Nat \ {0}
  BY LabsAssumption
<1>2. Len(first) \in Nat /\ DOMAIN first = 1 .. Len(first) /\ \A j \in DOMAIN first : first[j] = at[j] /\ at[j] <= t
  BY DEF CutTimes
<1>3. \A j \in DOMAIN first :
         /\ first[j] = at[j]
         /\ \A sym : CloseAt(early, sym, at[j]) = CloseAt(rows, sym, at[j])
         /\ \A instrument : DerivativesRow(early, instrument, at[j]) = DerivativesRow(rows, instrument, at[j])
  <2>1. \A j \in DOMAIN first : first[j] = at[j] /\ at[j] \in Nat /\ at[j] <= t
    BY <1>2
  <2>2. ASSUME NEW u \in Nat, u <= t
        PROVE  /\ \A sym : CloseAt(early, sym, u) = CloseAt(rows, sym, u)
               /\ \A instrument : DerivativesRow(early, instrument, u) = DerivativesRow(rows, instrument, u)
    BY <2>2, SameAtTime
  <2> HIDE DEF early
  <2>3. QED
    BY <2>1, <2>2
<1> HIDE DEF early
<1>4. i - ShortLookback \in DOMAIN first
  BY <1>1, <1>2
<1>5. \A sym : SignalsOf(candidate, early, job, first, sym, i) = SignalsOf(candidate, rows, job, at, sym, i)
  BY <1>3, <1>4 DEF SignalsOf
<1>6. AllSignals(candidate, early, job, first, i) = AllSignals(candidate, rows, job, at, i)
  BY <1>5 DEF AllSignals
<1>7. StrongestSignal(candidate, early, job, first, i) = StrongestSignal(candidate, rows, job, at, i)
  BY <1>6 DEF StrongestSignal
<1>8. ASSUME i < Len(first)
      PROVE  TradeAt(candidate, early, job, first, i) = TradeAt(candidate, rows, job, at, i)
  <2>1. i + 1 \in DOMAIN first
    BY <1>2, <1>8
  <2> DEFINE p == StrongestSignal(candidate, rows, job, at, i)
  <2> HIDE DEF p
  <2>2. SignalTrade(early, first, i, p) = SignalTrade(rows, at, i, p)
    BY <1>3, <2>1 DEF SignalTrade
  <2>3. QED
    BY <1>7, <2>2 DEF TradeAt, p
<1>9. QED
  BY <1>6, <1>7, <1>8 DEF early

LEMMA DerivativesLabIsCut ==
    ASSUME NEW rows \in SUBSET AllRows, NEW t \in Nat, NEW candidate, NEW job
    PROVE  DerivativesObservations(candidate, UpTo(rows, t), job)
             = EndedBy(DerivativesObservations(candidate, rows, job), t)
<1> DEFINE early == UpTo(rows, t)
           at == AlignedTimes(rows, job.symbols)
           first == AlignedTimes(early, job.symbols)
           K == SignalPlaces(candidate, rows, job, at)
           P == SignalPlaces(candidate, early, job, first)
           V == [i \in K |-> TradeAt(candidate, rows, job, at, i)]
           W == [i \in P |-> TradeAt(candidate, early, job, first, i)]
           long == DerivativesObservations(candidate, rows, job)
           short == DerivativesObservations(candidate, early, job)
<1>1. /\ long = [q \in DOMAIN Ascending(K) |-> TradeAt(candidate, rows, job, at, Ascending(K)[q])]
      /\ short = [q \in DOMAIN Ascending(P) |-> TradeAt(candidate, early, job, first, Ascending(P)[q])]
  BY DerivativesOf
<1>2. CutTimes(first, at, t)
  BY AlignedIsCut
<1>3. \A j \in DOMAIN at : at[j] \in Nat
  <2>1. Numbers(SharedBy(rows, job.symbols))
    <3>1. IsFiniteSet(Times) /\ Times \in SUBSET Nat
      BY RowsAssumption, FS_Interval DEF Times
    <3>2. SharedBy(rows, job.symbols) \in SUBSET Times
      BY DEF SharedBy
    <3>3. QED
      BY <3>1, <3>2, FS_Subset DEF Numbers
  <2>2. at = Ascending(SharedBy(rows, job.symbols))
    BY DEF AlignedTimes, SharedBy
  <2> HIDE DEF at
  <2>3. QED
    BY <2>1, <2>2, NumbersListed DEF Numbers
<1> HIDE DEF at, first
<1>4. /\ Len(at) \in Nat /\ DOMAIN at = 1 .. Len(at)
      /\ Len(first) \in Nat /\ DOMAIN first = 1 .. Len(first) /\ Len(first) <= Len(at)
      /\ \A i \in DOMAIN at : at[i] <= t <=> i <= Len(first)
  BY <1>2 DEF CutTimes
<1>5. /\ \A i \in K : /\ i \in DOMAIN at /\ i > ShortLookback /\ i < Len(at)
                      /\ AllSignals(candidate, rows, job, at, i) # {}
                      /\ StrongestSignal(candidate, rows, job, at, i)[2] # 0
      /\ \A i \in DOMAIN at :
            (/\ i > ShortLookback /\ i < Len(at)
             /\ AllSignals(candidate, rows, job, at, i) # {}
             /\ StrongestSignal(candidate, rows, job, at, i)[2] # 0) => i \in K
  BY DEF SignalPlaces
<1>6. /\ \A i \in P : /\ i \in DOMAIN first /\ i > ShortLookback /\ i < Len(first)
                      /\ AllSignals(candidate, early, job, first, i) # {}
                      /\ StrongestSignal(candidate, early, job, first, i)[2] # 0
      /\ \A i \in DOMAIN first :
            (/\ i > ShortLookback /\ i < Len(first)
             /\ AllSignals(candidate, early, job, first, i) # {}
             /\ StrongestSignal(candidate, early, job, first, i)[2] # 0) => i \in P
  BY DEF SignalPlaces
<1>7. \A j \in DOMAIN first : at[j] \in Nat /\ j \in DOMAIN at
  BY <1>3, <1>4
<1>8. ASSUME NEW i \in DOMAIN first, i > ShortLookback
      PROVE  /\ AllSignals(candidate, early, job, first, i) = AllSignals(candidate, rows, job, at, i)
             /\ StrongestSignal(candidate, early, job, first, i) = StrongestSignal(candidate, rows, job, at, i)
             /\ i < Len(first) =>
                   TradeAt(candidate, early, job, first, i) = TradeAt(candidate, rows, job, at, i)
  BY <1>2, <1>7, <1>8, SignalsAreCut
<1> HIDE DEF early, K, P
<1>9. P \in SUBSET K
  <2> SUFFICES ASSUME NEW i \in P PROVE i \in K
    OBVIOUS
  <2>1. i \in DOMAIN first /\ i > ShortLookback /\ i < Len(first) /\ i \in DOMAIN at /\ i < Len(at)
    BY <1>4, <1>6
  <2>2. /\ AllSignals(candidate, rows, job, at, i) # {}
        /\ StrongestSignal(candidate, rows, job, at, i)[2] # 0
    BY <1>6, <1>8, <2>1
  <2>3. QED
    BY <1>5, <2>1, <2>2
<1>10. \A i \in K : i \in P <=> i < Len(first)
  <2> SUFFICES ASSUME NEW i \in K, i < Len(first) PROVE i \in P
    BY <1>6
  <2>1. i \in DOMAIN first /\ i > ShortLookback
    BY <1>4, <1>5
  <2>2. /\ AllSignals(candidate, early, job, first, i) # {}
        /\ StrongestSignal(candidate, early, job, first, i)[2] # 0
    BY <1>5, <1>8, <2>1
  <2>3. QED
    BY <1>6, <2>1, <2>2
<1>11. \A i \in K : V[i].until = at[i + 1]
  BY DEF TradeAt, SignalTrade
<1>12. \A i \in K : i \in P <=> V[i].until <= t
  <2>1. \A i \in K : i + 1 \in DOMAIN at /\ (i < Len(first) <=> i + 1 <= Len(first))
    BY <1>4, <1>5
  <2>2. QED
    BY <1>4, <1>10, <1>11, <2>1
<1>13. \A i \in P : W[i] = V[i]
  <2>1. \A i \in P : i \in K /\ i \in DOMAIN first /\ i > ShortLookback /\ i < Len(first)
    BY <1>6, <1>9
  <2>2. QED
    BY <1>8, <2>1
<1>14. Numbers(K) /\ Numbers(P)
  <2>1. IsFiniteSet(DOMAIN at) /\ DOMAIN at \in SUBSET Nat
    <3>1. IsFiniteSet(1 .. Len(at))
      BY <1>4, FS_Interval
    <3>2. QED
      BY <1>4, <3>1
  <2>2. K \in SUBSET DOMAIN at
    BY <1>5
  <2>3. Numbers(K)
    BY <2>1, <2>2, FS_Subset DEF Numbers
  <2>4. QED
    BY <1>9, <2>3, FS_Subset DEF Numbers
<1>15. (\A q \in DOMAIN Ascending(K) : Ascending(K)[q] \in K) /\ (\A q \in DOMAIN Ascending(P) : Ascending(P)[q] \in P)
  BY <1>14, NumbersListed
<1> HIDE DEF long, short
<1>16. /\ long = [q \in DOMAIN Ascending(K) |-> V[Ascending(K)[q]]]
       /\ short = [q \in DOMAIN Ascending(P) |-> W[Ascending(P)[q]]]
  BY <1>1, <1>15
<1> HIDE DEF V, W
<1>17. short = EndedBy(long, t)
  BY ONLY <1>9, <1>12, <1>13, <1>14, <1>16, PicksEnded
<1>18. QED
  BY <1>17 DEF short, long, early

LEMMA StrategyIsCut ==
    ASSUME NEW rows \in SUBSET AllRows, NEW t \in Nat, NEW id, NEW job
    PROVE  StrategyObservations(id, UpTo(rows, t), job) = EndedBy(StrategyObservations(id, rows, job), t)
  BY MomentumIsCut, DerivativesLabIsCut DEF StrategyObservations

(* A candidate that passes the lab has no gap in its coverage.             *)
LEMMA PassesWithoutGap ==
    ASSUME NEW id, NEW universe, NEW screen, NEW rows, NEW job,
           CandidateMetric(id, universe, screen, rows, job).reasons = {}
    PROVE  universe \cap CoverageGaps = {}
<1> DEFINE before == CoverageReasons(id, universe, screen)
<1>1. before \subseteq CandidateMetric(id, universe, screen, rows, job).reasons
  BY DEF CandidateMetric
<1>2. "insufficient_universe_coverage" \notin before
  BY <1>1
<1>3. QED
  BY <1>2 DEF CoverageReasons, HasUniverseCoverageGap

LEMMA CleanLabIsCut ==
    ASSUME NEW rows \in SUBSET AllRows, NEW h, NEW job, IsFiniteSet(job.symbols),
           EvidenceUniverse(rows, h, job) \cap CoverageGaps = {}, NEW t \in Nat, NEW id
    PROVE  HistoricalObservations(id, UpTo(rows, t), LabMarket(UpTo(rows, t), job))
             = EndedBy(HistoricalObservations(id, rows, LabMarket(rows, job)), t)
<1> DEFINE market == LabMarket(rows, job)
           cut == LabMarket(UpTo(rows, t), job)
<1>1. \A sym \in job.symbols : OneEach(UniverseCandles(rows, sym, job.window))
  BY CleanUniverse
<1>2. CutMarket(cut, market, t)
  BY <1>1, MarketIsCut
<1>3. PICK T \in SUBSET Times :
         /\ CleanMarket(market, T)
         /\ \A sym \in job.symbols : /\ OneEach(ToSet(MarketRows(rows, sym, job.window)))
                                     /\ TimesIn(ToSet(MarketRows(rows, sym, job.window))) = T
  BY MarketIsClean
<1>4. SameTimes(market, T)
  <2>1. \A sym \in job.symbols : TimesIn(ToSet(market[sym])) = T
    BY <1>3 DEF LabMarket
  <2>2. DOMAIN market = job.symbols
    BY DEF LabMarket
  <2> HIDE DEF market
  <2>3. QED
    BY <2>1, <2>2 DEF SameTimes, TimesIn, ToSet
<1> HIDE DEF market, cut
<1>5. HistoricalObservations(id, UpTo(rows, t), cut) = EndedBy(HistoricalObservations(id, rows, market), t)
  BY <1>2, <1>3, <1>4, HistoricalIsCut
<1>6. QED
  BY <1>5 DEF market, cut

(* Whatever other commands write beside it, a candidate that a lab lets    *)
(* pass is judged on what was known: up to any bar, its observations are   *)
(* those that the rows up to that bar give, in the same order and with the *)
(* same symbols and scores (pipeline/multi_hypothesis_feasibility.py, the  *)
(* templates' observations; pipeline/strategy_feasibility.py, the two      *)
(* older labs).                                                            *)
THEOREM LabsDoNotLookAhead == DataSpec => []FeasibleWithoutLookahead
<1>1. LabInv /\ active \subseteq Cmds => FeasibleWithoutLookahead
  <2> SUFFICES ASSUME LabInv, active \subseteq Cmds, NEW c \in active,
                      NEW id \in DOMAIN lab[c].report, Feasible(c, id), OneSnapshot(c), NEW t \in Times
               PROVE  LabObservations(c, id, UpTo(lab[c].rows, t))
                        = EndedBy(LabObservations(c, id, lab[c].rows), t)
    BY DEF FeasibleWithoutLookahead, EndedBy, UpTo
  <2> DEFINE cmd == Commands[c]
             report == lab[c].report
             rows == lab[c].rows
             early == UpTo(rows, t)
  <2>1. c \in Cmds /\ LabHolds(c) /\ report # <<>>
    BY DEF LabInv
  <2>2. /\ rows \in SUBSET AllRows /\ cmd.kind = "lab" /\ Reported(c)
        /\ report[id].reasons = {} /\ lab[c].first = rows
    BY <2>1 DEF LabHolds, Feasible, OneSnapshot
  <2>3. IsFiniteSet(cmd.symbols) /\ t \in Nat
    BY <2>1, <2>2, CommandsAssumption, RowsAssumption DEF Times
  <2>4. CASE cmd.mode = Lab
    <3>1. PICK h : lab[c].universe = EvidenceUniverse(rows, h, cmd)
      BY <2>2, <2>4 DEF Reported, OfUniverse
    <3>2. PICK screen : report[id] = CandidateMetric(id, lab[c].universe, screen, rows, cmd)
      BY <2>2, <2>4 DEF Reported
    <3>3. \A S : LabObservations(c, id, S) = HistoricalObservations(id, S, LabMarket(S, cmd))
      BY <2>4 DEF LabObservations, LabMarket, Lab
    <3> HIDE DEF cmd, report, rows
    <3>4. EvidenceUniverse(rows, h, cmd) \cap CoverageGaps = {}
      BY <2>2, <3>1, <3>2, PassesWithoutGap
    <3>5. HistoricalObservations(id, early, LabMarket(early, cmd))
            = EndedBy(HistoricalObservations(id, rows, LabMarket(rows, cmd)), t)
      BY <2>2, <2>3, <3>4, CleanLabIsCut
    <3>6. QED
      BY <3>3, <3>5 DEF rows
  <2>5. CASE cmd.mode # Lab
    <3>1. \A S : LabObservations(c, id, S) = StrategyObservations(id, S, cmd)
      BY <2>5 DEF LabObservations, Lab
    <3>2. StrategyObservations(id, early, cmd) = EndedBy(StrategyObservations(id, rows, cmd), t)
      BY <2>2, <2>3, StrategyIsCut
    <3>3. QED
      BY <3>1, <3>2
  <2>6. QED
    BY <2>4, <2>5
<1>2. DataInit => StoredInv /\ LabInv
  BY StoredInit, LabInit
<1>3. StoredInv /\ LabInv /\ [DataNext]_dataVars => (StoredInv /\ LabInv)'
  BY StoredStep, LabStep
<1>4. QED
  BY <1>1, <1>2, <1>3, ActiveAreCommands, PTL DEF DataSpec
=============================================================================
