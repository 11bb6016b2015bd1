---------------------------- MODULE ResearchRows ----------------------------
(***************************************************************************)
(* What the research database holds (data/models.py, data/store.py), what  *)
(* the clients fetch (data/*.py), the months and windows that commands     *)
(* split time into, and what the quality report says of the rows.          *)
(*                                                                         *)
(* Time is counted in bars; a calendar month is MonthLength bars.  A row   *)
(* is an observation of a series at a bar; its numbers are not modelled,   *)
(* so what they must be (prices above zero) is not either.                 *)
(***************************************************************************)
EXTENDS Integers, Sequences, FiniteSets, FiniteSetsExt

CONSTANTS
    Symbols,
    Bars,           \* the bars there are: 0 .. Bars - 1
    MonthLength,
    Limit,          \* rows of an answer of a paged endpoint
    Listed          \* the bars that the exchanges have, for each series

Times == 0 .. Bars - 1

MonthOf(t) == t \div MonthLength
MonthStart(m) == m * MonthLength
Months == {MonthOf(t) : t \in Times}

(* The elements of a finite set in a strict total order.                   *)
InOrder(S, before(_, _)) ==
    [i \in 1 .. Cardinality(S) |-> CHOOSE x \in S : Cardinality({y \in S : before(y, x)}) = i - 1]

Ascending(numbers) == InOrder(numbers, <)

(* The elements of a sequence at some of its places, in their order.       *)
Picked(s, places) ==
    LET order == Ascending(places)
    IN [i \in DOMAIN order |-> s[order[i]]]

(* The elements of some lists, one list after the other.                   *)
Joined(lists) ==
    LET places == UNION {{i} \X DOMAIN lists[i] : i \in DOMAIN lists}
        order == InOrder(places, LAMBDA p, q : p[1] < q[1] \/ (p[1] = q[1] /\ p[2] < q[2]))
    IN [k \in DOMAIN order |-> lists[order[k][1]][order[k][2]]]

----------------------------------------------------------------------------
(* Series.                                                                 *)

Series(source, venue, type, symbol, period) ==
    [source |-> source, venue |-> venue, type |-> type, symbol |-> symbol, period |-> period]

SpotCandles(sym) == Series("binance_public", "binance", "market_candle", sym, "1h")

FuturesCandles(sym) == Series("binance_public", "binance_usdm", "market_candle", sym, "1h")
CcxtCandles(sym) == Series("ccxt", "binance", "market_candle", sym, "1h")
CcxtFunding(sym) == Series("ccxt", "binance", "funding_rate", sym, "8h")
CcxtOpenInterest(sym) == Series("ccxt", "binance", "open_interest", sym, "1h")

PremiumIndex(sym) == Series("binance_usdm", "binance", "premium_index_kline", sym, "1h")
Basis(sym) == Series("binance_usdm", "binance", "basis", sym, "1h")
FundingHistory(sym) == Series("binance_usdm", "binance", "funding_rate", sym, "8h")
OpenInterestHistory(sym) == Series("binance_usdm", "binance", "open_interest", sym, "1h")
LongShortRatio(sym) == Series("binance_usdm", "binance", "long_short_account_ratio", sym, "1h")
TakerVolume(sym) == Series("binance_usdm", "binance", "taker_buy_sell_volume", sym, "1h")

(* Snapshots: pairs of a DEX, yield pools, results of a query.             *)
DexPairs(sym) == Series("dexscreener", "dex", "dex_pair", sym, "snapshot")
YieldPools(sym) == Series("defillama", "project", "defi_yield", sym, "snapshot")
DuneResult(query) == Series("dune", "query", "research_snapshot", query, "snapshot")
GraphResult(query) == Series("thegraph", "subgraph", "research_snapshot", query, "snapshot")

AllSeries ==
    UNION {{SpotCandles(s), FuturesCandles(s), CcxtCandles(s), CcxtFunding(s), CcxtOpenInterest(s),
            PremiumIndex(s), Basis(s), FundingHistory(s), OpenInterestHistory(s), LongShortRatio(s),
            TakerVolume(s), DexPairs(s), YieldPools(s), DuneResult(s), GraphResult(s)} : s \in Symbols}

ASSUME RowsAssumption ==
    /\ Bars \in Nat \ {0} /\ MonthLength \in Nat \ {0} /\ Limit \in Nat \ {0}
    /\ \A s \in DOMAIN Listed : s \in AllSeries /\ Listed[s] \subseteq Times

Row(s, t) == [series |-> s, time |-> t]

(* The record ids: source, venue and symbol, then what the type adds; the  *)
(* ccxt rows spell their ids in their own way.  _safe_symbol and           *)
(* _safe_component make one spelling of several (BTC/USDT and BTCUSDT).    *)
(* Symbols are markets, not spellings: what a client stores of a market is *)
(* spelled in one way (binance_public and the universes normalise what     *)
(* they are given, Binance USD-M and ccxt know one spelling), so           *)
(* normalising tells apart what it told apart before, as long as no two    *)
(* markets differ in the place of the slash or the case only.              *)
CandleIdWithoutVenue(s) == <<s.source, s.symbol, s.period>>     \* mutant

CandleId(s) == <<s.source, s.venue, s.symbol, s.period>>
CcxtCandleId(s) == <<s.source, s.venue, s.symbol, "ohlcv", s.period>>
FundingId(s) == <<s.source, s.venue, s.symbol, "funding_rate">>
CcxtFundingId(s) == <<s.source, s.venue, s.symbol, "funding">>
OpenInterestId(s) == <<s.source, s.venue, s.symbol, "open_interest", s.period>>
PremiumId(s) == <<s.source, s.venue, s.symbol, "premium_index_kline", s.period>>
BasisId(s) == <<s.source, s.venue, s.symbol, "basis", "perpetual", s.period>>
LongShortId(s) == <<s.source, s.venue, s.symbol, "long_short_account_ratio", s.period>>
TakerId(s) == <<s.source, s.venue, s.symbol, "taker_buy_sell_volume", s.period>>
PairId(s) == <<s.source, s.venue, s.symbol, "dex_pair">>
PoolId(s) == <<s.source, s.venue, s.symbol, "defi_yield">>
DuneId(s) == <<s.source, "query", s.symbol>>
GraphId(s) == <<s.source, "subgraph", s.symbol>>

RecordId(r) ==
    LET s == r.series
    IN <<CASE s.type = "market_candle" /\ s.source = "ccxt" -> CcxtCandleId(s)
           [] s.type = "market_candle" /\ s.source # "ccxt" -> CandleId(s)
           [] s.type = "funding_rate" /\ s.source = "ccxt" -> CcxtFundingId(s)
           [] s.type = "funding_rate" /\ s.source # "ccxt" -> FundingId(s)
           [] s.type = "open_interest" -> OpenInterestId(s)
           [] s.type = "premium_index_kline" -> PremiumId(s)
           [] s.type = "basis" -> BasisId(s)
           [] s.type = "long_short_account_ratio" -> LongShortId(s)
           [] s.type = "taker_buy_sell_volume" -> TakerId(s)
           [] s.type = "dex_pair" -> PairId(s)
           [] s.type = "defi_yield" -> PoolId(s)
           [] s.source = "dune" -> DuneId(s)
           [] s.source = "thegraph" -> GraphId(s),
         r.time>>

(* INSERT OR REPLACE on the record id, one transaction.                    *)
Upsert(table, rows) ==
    [id \in DOMAIN table \cup {RecordId(r) : r \in rows} |->
        IF \E r \in rows : RecordId(r) = id
        THEN CHOOSE r \in rows : RecordId(r) = id
        ELSE table[id]]

RowsOf(table) == {table[id] : id \in DOMAIN table}

(* load_records: from the start on, before the end.                        *)
LoadRecords(table, start, end) == {r \in RowsOf(table) : start <= r.time /\ r.time < end}

TimesOf(rows, s) == {r.time : r \in {q \in rows : q.series = s}}

----------------------------------------------------------------------------
(* Fetching.                                                               *)

ListedTimes(s) == IF s \in DOMAIN Listed THEN Listed[s] ELSE {}

(* A monthly archive: every candle of the month.                           *)
DownloadMonth(s, m) == {Row(s, t) : t \in {u \in ListedTimes(s) : MonthOf(u) = m}}

(* since and limit: the first rows from a bar on, one page.  A snapshot    *)
(* source has no limit that matters.                                       *)
FetchPage(s, since) ==
    LET after == {t \in ListedTimes(s) : t >= since}
    IN {Row(s, t) : t \in {u \in after : Cardinality({v \in after : v < u}) < Limit}}

(* _filter_records_by_timestamp.                                           *)
InWindow(rows, start, end) == {r \in rows : start <= r.time /\ r.time < end}

----------------------------------------------------------------------------
(* Windows and months.                                                     *)

WholeMonthsOnly(w) ==           \* mutant: the last, partial month is left out
    LET months == {m \in Months : MonthStart(m) >= MonthStart(MonthOf(w.start))
                                  /\ MonthStart(m + 1) <= w.end}
    IN {[month |-> m, start |-> Max({w.start, MonthStart(m)}),
         end |-> Min({w.end, MonthStart(m + 1)})] : m \in months}

(* The parts of a window that fall in one month each, from the month of    *)
(* its start while the month begins before its end.                        *)
Segments(w) ==
    LET months == {m \in Months : MonthStart(m) >= MonthStart(MonthOf(w.start))
                                  /\ MonthStart(m) < w.end}
    IN {[month |-> m, start |-> Max({w.start, MonthStart(m)}),
         end |-> Min({w.end, MonthStart(m + 1)})] : m \in months}

(* A month is available when a futures candle of it is stored.             *)
AvailableMonths(table, sym) ==
    {MonthOf(r.time) : r \in {q \in RowsOf(table) :
        q.series.type = "market_candle" /\ q.series.venue = "binance_usdm"
        /\ q.series.symbol = sym /\ q.series.period = "1h"}}

(* Coverage of the requested months, and whether it is enough.             *)
CampaignReport(table, symbols, requested, minMonths) ==
    LET available(sym) == AvailableMonths(table, sym) \cap requested
    IN [missing |-> {j \in symbols \X requested : j[2] \notin available(j[1])},
        ready |-> \A sym \in symbols : Cardinality(available(sym)) >= minMonths]

----------------------------------------------------------------------------
(* The quality report.                                                     *)

(* What the report takes for one observation.  The keys of candles and of  *)
(* open interest leave the type out; types that it does not know share a   *)
(* key per source and bar.                                                 *)
SemanticKey(r) ==
    LET s == r.series
    IN CASE s.type \in {"market_candle", "open_interest"} ->
                <<s.source, s.venue, s.symbol, s.period, r.time>>
         [] s.type \in {"funding_rate", "dex_pair", "defi_yield"} ->
                <<s.source, s.venue, s.symbol, r.time>>
         [] OTHER -> <<s.source, s.type, r.time>>

DuplicateIssues(rows) ==
    {k \in {SemanticKey(r) : r \in rows} :
        Cardinality({r \in rows : SemanticKey(r) = k}) > 1}

MissingBarsInclusive(before, t) == (t - before) - 2   \* mutant: counts one bar less

(* Bars between two neighbours of a series that should be one apart.       *)
MissingBars(before, t) == (t - before) - 1

(* For each candle and open-interest series: a neighbour that is missing,  *)
(* and a last row two intervals older than the report.                     *)
ContinuityIssues(rows, now) ==
    LET watched == {s \in {r.series : r \in rows} : s.type \in {"market_candle", "open_interest"}}
        times(s) == TimesOf(rows, s)
        neighbours(s) == {p \in times(s) \X times(s) :
                             p[1] < p[2] /\ \A u \in times(s) : ~(p[1] < u /\ u < p[2])}
    IN {[reason |-> "missing_bars", series |-> s] :
            s \in {q \in watched : \E p \in neighbours(q) : MissingBars(p[1], p[2]) > 0}}
       \cup
       {[reason |-> "stale_source", series |-> s] :
            s \in {q \in watched : now - Max(times(q)) > 2}}
=============================================================================
