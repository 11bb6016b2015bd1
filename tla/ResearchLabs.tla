---------------------------- MODULE ResearchLabs ----------------------------
(***************************************************************************)
(* The multi-hypothesis lab (pipeline/multi_hypothesis_feasibility.py)     *)
(* over the evidence universe (pipeline/evidence_universe.py) and the      *)
(* candidate screens (pipeline/candidate_screens.py): which rows count,    *)
(* which observations they give, why a candidate is blocked.               *)
(*                                                                         *)
(* Returns and costs are whole basis points; the looks back of 24 and 72   *)
(* bars are the constants ShortLookback and LongLookback.  A row's number  *)
(* (a close, a rate, a ratio less 1) is Level.                             *)
(***************************************************************************)
EXTENDS ResearchSources, SequencesExt

CONSTANTS
    Level,              \* series |-> bar |-> number
    ShortLookback, LongLookback,
    MinHistory          \* candles an asset must have

ASSUME LabsAssumption ==
    /\ ShortLookback \in Nat \ {0} /\ LongLookback \in Nat \ {0} /\ MinHistory \in Nat
    /\ ShortLookback <= LongLookback
    /\ \A s \in DOMAIN Level : \A t \in Times : Level[s][t] \in Int

Number(r) == IF r.series \in DOMAIN Level THEN Level[r.series][r.time] ELSE 0

Within(r, w) == w.start <= r.time /\ r.time < w.end

Return(from, to) == ((to - from) * 10000) \div from

Magnitude(x) == IF x < 0 THEN -x ELSE x

AnyOf(S) == CHOOSE x \in S : TRUE

(* An argument of a function's greatest value.                             *)
Greatest(f) == CHOOSE x \in DOMAIN f : \A y \in DOMAIN f : f[y] <= f[x]

Total(f) == FoldFunction(+, 0, f)

----------------------------------------------------------------------------
(* Candles of a symbol: of the sources that have one at a time, the one    *)
(* with the highest priority.                                              *)

SourcePriority(source) == CASE source = "binance_public" -> 0 [] source = "ccxt" -> 1 [] OTHER -> 100

Canonical(rows) ==
    {r \in rows : \A q \in rows :
        q.time = r.time => SourcePriority(r.series.source) <= SourcePriority(q.series.source)}

(* As evidence_universe reads them: of any source.                         *)
UniverseCandles(rows, sym, w) ==
    Canonical({r \in rows : r.series.type = "market_candle" /\ r.series.symbol = sym /\ Within(r, w)})

(* As the lab reads them: of two sources, in the order of time and id.     *)
MarketRows(rows, sym, w) ==
    InOrder(
        Canonical({r \in rows : /\ r.series.type = "market_candle" /\ r.series.symbol = sym
                                /\ r.series.source \in {"binance_public", "ccxt"} /\ Within(r, w)}),
        LAMBDA a, b : a.time < b.time \/ (a.time = b.time /\ a.series.venue = "binance"
                                                          /\ b.series.venue # "binance"))

----------------------------------------------------------------------------
(* The evidence universe: reasons that rest on rows and source health.     *)

HealthFeed(s) ==
    CASE s.type = "market_candle" -> IF s.venue = "binance_usdm" THEN "um_futures_ohlcv" ELSE "ohlcv"
      [] s.type = "premium_index_kline" -> "premium_index_klines"
      [] s.type = "basis" -> "basis"
      [] s.type = "funding_rate" -> "funding_rate_history"
      [] s.type = "open_interest" -> "open_interest_history"
      [] s.type = "long_short_account_ratio" -> "global_long_short_account_ratio"
      [] s.type = "taker_buy_sell_volume" -> "taker_buy_sell_volume"
      [] s.type = "dex_pair" -> "pairs"
      [] s.type = "defi_yield" -> "yield_pools"
      [] OTHER -> s.type

FeedOf(s) == <<s.source, HealthFeed(s)>>

(* The newest health row of a feed says that it succeeded.                 *)
LatestHealthOk(health, feed) ==
    \E h \in health : h.feed = feed /\ h.ok /\ \A g \in health : g.feed = feed => g.n <= h.n

DerivativeTypes == {"funding_rate", "open_interest", "premium_index_kline", "basis",
                    "long_short_account_ratio", "taker_buy_sell_volume"}
WatchlistTypes == {"dex_pair", "defi_yield"}

(* Snapshots match in any window.                                          *)
CoverageRows(rows, syms, w) ==
    {r \in rows : /\ r.series.symbol \in syms
                  /\ r.series.type \in DerivativeTypes \cup WatchlistTypes \cup {"market_candle"}
                  /\ r.series.type \notin WatchlistTypes => Within(r, w)}

AssetReasons(candles, months, minMonths) ==
    LET times == {r.time : r \in candles}
    IN (IF times = {} THEN {"missing_market_history"}
        ELSE IF Cardinality(times) < MinHistory THEN {"insufficient_history_window"} ELSE {})
       \cup (IF months # {} /\ Cardinality({MonthOf(t) : t \in times} \cap months) < minMonths
             THEN {"insufficient_month_coverage"} ELSE {})

(* Snapshots taken after the window began would not have been known.       *)
LookaheadReasons(rows, lab) ==
    IF lab.windowed /\ \E r \in rows : r.series.type \in WatchlistTypes /\ r.series.symbol \in lab.symbols
                             /\ r.time > lab.window.start
    THEN {"lookahead_universe_risk"} ELSE {}

NoDuplicateIssues(candles) == {}            \* mutant: the check of duplicates is lost

DuplicateMarketTimestamps(candles) ==
    IF \E a, b \in candles : a # b /\ a.time = b.time THEN {"duplicate_timestamps"} ELSE {}

AlignmentReasons(timesets) ==
    LET full == timesets \ {{}}
        aligned == {t \in Times : \A ts \in full : t \in ts}
    IN IF full # {} /\ \E ts \in full : Cardinality(aligned) < Cardinality(ts)
       THEN {"timestamp_alignment_gap"} ELSE {}

(* Every feed of the rows that count must have succeeded last.             *)
SourceCoverage(rows, health, syms, w) ==
    IF \A r \in CoverageRows(rows, syms, w) : LatestHealthOk(health, FeedOf(r.series))
    THEN {} ELSE {"source_probe_required"}

EvidenceUniverse(rows, health, lab) ==
    LET candles(sym) == UniverseCandles(rows, sym, lab.window)
        asset(sym) == AssetReasons(candles(sym), lab.months, lab.minMonths)
    IN (UNION {asset(sym) : sym \in lab.symbols})
       \cup (IF Cardinality({sym \in lab.symbols : asset(sym) = {}}) < lab.minAssets
             THEN {"insufficient_asset_coverage"} ELSE {})
       \cup (UNION {DuplicateMarketTimestamps(candles(sym)) : sym \in lab.symbols})
       \cup AlignmentReasons({{r.time : r \in candles(sym)} : sym \in lab.symbols})
       \cup SourceCoverage(rows, health, lab.symbols, lab.window)
       \cup LookaheadReasons(rows, lab)

----------------------------------------------------------------------------
(* The candidate screens.                                                  *)

Screen(types, bars, watchlist) == [types |-> types, bars |-> bars, watchlist |-> watchlist]

BasisTypes == {"premium_index_kline", "basis", "funding_rate"}
CrowdingTypes == {"long_short_account_ratio", "taker_buy_sell_volume"}

CandidateScreens ==
    LET candle == {"market_candle"}
    IN [short_horizon_momentum_volatility_filter |-> Screen(candle, ShortLookback, FALSE),
        short_horizon_reversal_volatility_filter |-> Screen(candle, ShortLookback, FALSE),
        perp_spot_basis_funding_deviation |-> Screen(candle \cup BasisTypes, ShortLookback, FALSE),
        derivatives_crowding_price_action |-> Screen(candle \cup CrowdingTypes, ShortLookback, FALSE),
        defi_dex_regime_discovery |-> Screen(WatchlistTypes, 0, TRUE),
        cross_asset_ranking_turnover_cap |-> Screen(candle, LongLookback, FALSE),
        regime_gated_cross_asset_momentum |-> Screen(candle, LongLookback, FALSE),
        regime_gated_cross_asset_reversal |-> Screen(candle, LongLookback, FALSE),
        funding_basis_convergence_liquidity_filter |-> Screen(candle \cup BasisTypes, ShortLookback, FALSE),
        derivatives_crowding_recent_window_price_action |-> Screen(candle \cup CrowdingTypes, ShortLookback, FALSE),
        defi_dex_liquidity_regime_watchlist |-> Screen(WatchlistTypes, 0, TRUE)]

QualifiedSource(s) ==
    CASE s.type = "market_candle" -> s.source \in {"binance_public", "ccxt"}
      [] s.type \in {"funding_rate", "open_interest"} -> s.source \in {"ccxt", "binance_usdm"}
      [] s.type = "dex_pair" -> s.source = "dexscreener"
      [] s.type = "defi_yield" -> s.source = "defillama"
      [] s.type \in DerivativeTypes -> s.source = "binance_usdm"
      [] OTHER -> FALSE

(* The reasons that the lab looks at; a symbol's candles are counted with  *)
(* those of both markets, and one symbol with all derivatives is enough.   *)
EvaluateScreen(rows, id, lab) ==
    LET screen == CandidateScreens[id]
        relevant == {r \in rows : QualifiedSource(r.series) /\ r.series.symbol \in lab.symbols
                                  /\ Within(r, lab.window)}
        typesOf(sym) == {r.series.type : r \in {q \in relevant : q.series.symbol = sym}}
        candles(sym) == {r \in relevant : r.series.type = "market_candle" /\ r.series.symbol = sym}
        derivatives == screen.types \ {"market_candle"}
    IN (IF \/ ~(screen.types \subseteq {r.series.type : r \in relevant})
           \/ /\ derivatives \cap DerivativeTypes # {}
              /\ \A sym \in lab.symbols : ~(derivatives \subseteq typesOf(sym))
        THEN {"missing_required_records"} ELSE {})
       \cup (IF /\ "market_candle" \in screen.types
                /\ \E sym \in lab.symbols : Cardinality(candles(sym)) < screen.bars
             THEN {"insufficient_history_window"} ELSE {})

----------------------------------------------------------------------------
(* Observations: a trade from the close of a bar to the close of the next  *)
(* row, with the signal that it was taken on.                              *)

Observation(now, next, score) ==
    [time |-> now.time, symbol |-> now.series.symbol, until |-> next.time,
     gross |-> Return(Number(now), Number(next)), score |-> score]

(* Sorted by time, then by symbol; rows of one time keep their order.      *)
Sorted(market, take) ==
    LET picked == {p \in UNION {{sym} \X (1 .. Len(market[sym])) : sym \in DOMAIN market} :
                      take[p[1]][p[2]] # <<>>}
        at(p) == market[p[1]][p[2]].time
        rank == SetToSeq(DOMAIN market)
        before(a, b) == \/ at(a) < at(b)
                        \/ at(a) = at(b) /\ a[1] # b[1]
                           /\ (CHOOSE i \in DOMAIN rank : rank[i] = a[1])
                                < (CHOOSE i \in DOMAIN rank : rank[i] = b[1])
                        \/ at(a) = at(b) /\ a[1] = b[1] /\ a[2] < b[2]
        order == InOrder(picked, before)
    IN [i \in DOMAIN order |-> take[order[i][1]][order[i][2]][1]]

PerSymbolReturns(market, lookback, mode) ==
    Sorted(market, [sym \in DOMAIN market |-> [i \in DOMAIN market[sym] |->
        IF i <= lookback \/ i = Len(market[sym]) THEN <<>>
        ELSE LET then == Number(market[sym][i - lookback])
                 now == Number(market[sym][i])
             IN IF /\ then > 0 /\ now > 0
                   /\ IF mode = "momentum" THEN now > then ELSE now < then
                THEN <<Observation(market[sym][i], market[sym][i + 1], Magnitude(Return(then, now)))>>
                ELSE <<>>]])

(* At each time that all symbols have, the one that rose most.             *)
CrossAssetRanking(market, lookback) ==
    LET rows(sym) == ToSet(market[sym])
        traded == {sym \in DOMAIN market : market[sym] # <<>>}
        times == {t \in Times : traded # {} /\ \A sym \in traded : \E r \in rows(sym) : r.time = t}
        aligned == Ascending(times)
        at(sym, i) == market[sym][Max({j \in DOMAIN market[sym] : market[sym][j].time = aligned[i]})]
        score(sym, i) == Return(Number(at(sym, i - lookback)), Number(at(sym, i)))
        rising(i) == {sym \in traded : Number(at(sym, i - lookback)) > 0 /\ score(sym, i) > 0}
        best(i) == Greatest([sym \in rising(i) |-> score(sym, i)])
        picks == Ascending({i \in DOMAIN aligned : i > lookback /\ i < Len(aligned) /\ rising(i) # {}})
    IN [k \in DOMAIN picks |->
           LET i == picks[k]
           IN Observation(at(best(i), i), at(best(i), i + 1), score(best(i), i))]

QualifiedDerivative(s) ==
    \/ s.type \in BasisTypes \cup CrowdingTypes /\ s.source = "binance_usdm"
    \/ s.type = "funding_rate" /\ s.source = "ccxt"

LatestRecord(rows, t) ==        \* mutant: the newest record, whatever the time
    {r \in rows : \A q \in rows : q.time <= r.time}

(* Of two funding rows of one time, ccxt's has the later id.               *)
LatestRecordAtOrBefore(rows, t) ==
    LET known == {r \in rows : r.time <= t}
        latest == {r \in known : \A q \in known : q.time <= r.time}
    IN {r \in latest : r.series.source = "ccxt" \/ \A q \in latest : q.series.source # "ccxt"}

(* Each bar with the latest record of every type at or before it.          *)
WithDerivatives(rows, market, types) ==
    LET records(sym, type) == {r \in rows : QualifiedDerivative(r.series) /\ r.series.type = type
                                            /\ r.series.symbol = sym}
        matched(sym, type, t) == LatestRecordAtOrBefore(records(sym, type), t)
        score(sym, t) == Total([type \in types |-> Magnitude(Number(AnyOf(matched(sym, type, t))))])
    IN Sorted(market, [sym \in DOMAIN market |-> [i \in DOMAIN market[sym] |->
        LET now == market[sym][i]
        IN IF \/ i = Len(market[sym]) \/ Number(now) = 0
              \/ \E type \in types : matched(sym, type, now.time) = {}
           THEN <<>>
           ELSE IF score(sym, now.time) = 0 THEN <<>>
           ELSE <<Observation(now, market[sym][i + 1], score(sym, now.time))>>]])

BasisFundingObservations(rows, market) == WithDerivatives(rows, market, BasisTypes)
CrowdingObservations(rows, market) == WithDerivatives(rows, market, CrowdingTypes)

HistoricalObservations(id, rows, market) ==
    CASE id \in {"perp_spot_basis_funding_deviation", "funding_basis_convergence_liquidity_filter"} ->
            BasisFundingObservations(rows, market)
      [] id \in {"derivatives_crowding_price_action", "derivatives_crowding_recent_window_price_action"} ->
            CrowdingObservations(rows, market)
      [] id = "cross_asset_ranking_turnover_cap" -> CrossAssetRanking(market, LongLookback)
      [] id = "short_horizon_momentum_volatility_filter" ->
            PerSymbolReturns(market, ShortLookback, "momentum")
      [] id = "short_horizon_reversal_volatility_filter" ->
            PerSymbolReturns(market, ShortLookback, "reversal")
      [] id = "regime_gated_cross_asset_momentum" -> PerSymbolReturns(market, LongLookback, "momentum")
      [] id = "regime_gated_cross_asset_reversal" -> PerSymbolReturns(market, LongLookback, "reversal")
      [] OTHER -> <<>>

----------------------------------------------------------------------------
(* From observations to the reasons that block a candidate.                *)

GrossTotal(obs) == FoldLeft(LAMBDA total, o : total + o.gross, 0, obs)
NetTotal(obs, cost) == GrossTotal(obs) - Len(obs) * cost

BaselineCost(lab) == IF 10 \in lab.costs THEN 10 ELSE lab.firstCost

(* With cost-aware execution, only signals that exceed their cost.         *)
CostAware(obs, cost, lab) ==
    IF lab.multiplier = 0 THEN obs ELSE Picked(obs, {i \in DOMAIN obs : obs[i].score >= cost * lab.multiplier})

(* The costs of the grid at which nothing is earned.                       *)
FragileCosts(raw, lab) ==
    {cost \in lab.costs : raw # <<>> /\ NetTotal(CostAware(raw, cost, lab), cost) <= 0}

(* The last observations in splits of equal size, each with how many come  *)
(* before it less the purged ones; a split without any is left out.        *)
WalkForwardSplits(obs, lab) ==
    LET size == Len(obs) \div (lab.splits + 1)
        first(k) == Len(obs) - size * lab.splits + (k - 1) * size
        train(k) == Max({0, first(k) - lab.purge})
    IN {[train |-> train(k), rows |-> SubSeq(obs, first(k) + 1, first(k) + size)] :
            k \in {i \in 1 .. lab.splits : size > 0 /\ train(i) > 0}}

(* Percent of the symbols that change from one time to the next, summed.   *)
Turnover(obs) ==
    LET times == Ascending({obs[i].time : i \in DOMAIN obs})
        held(k) == {obs[i].symbol : i \in {j \in DOMAIN obs : obs[j].time = times[k]}}
        churn(k) == (100 * Cardinality(SymDiff(held(k), held(k + 1))))
                    \div Cardinality(held(k) \cup held(k + 1))
    IN [changes |-> Len(times) - 1, sum |-> Total([k \in 1 .. Len(times) - 1 |-> churn(k)])]

AssetCoverage(id, market) ==
    IF "market_candle" \notin CandidateScreens[id].types THEN {}
    ELSE {sym \in DOMAIN market :
            Cardinality({r.time : r \in ToSet(market[sym])}) - CandidateScreens[id].bars - 1 > 0}

CoverageGaps == {"missing_market_history", "insufficient_history_window", "insufficient_month_coverage",
                 "insufficient_asset_coverage", "duplicate_timestamps", "timestamp_alignment_gap",
                 "source_probe_required"}

HasUniverseCoverageGap(universe, screen) == universe \cap CoverageGaps # {} \/ screen # {}

(* What bars a candidate before any observation is made.                   *)
CoverageReasons(id, universe, screen) ==
    LET watchlist == CandidateScreens[id].watchlist
    IN (IF watchlist THEN {"watchlist_only_source"} ELSE {})
       \cup (IF watchlist /\ "lookahead_universe_risk" \in universe THEN {"lookahead_risk"} ELSE {})
       \cup (IF HasUniverseCoverageGap(universe, screen) THEN {"insufficient_universe_coverage"} ELSE {})
       \cup (universe \cap {"insufficient_month_coverage", "insufficient_asset_coverage"})

(* What the observations themselves are blocked for.                       *)
ObservationReasons(id, raw, obs, market, lab) ==
    LET splits == WalkForwardSplits(obs, lab)
        turnover == Turnover(obs)
        assets == AssetCoverage(id, market)
        reason(name, holds) == IF holds THEN {name} ELSE {}
    IN reason("insufficient_walk_forward_splits",
              Len(obs) < lab.splits * 2 \/ Cardinality(splits) < lab.splits)
       \cup reason("insufficient_month_coverage",
              Cardinality({MonthOf(obs[i].time) : i \in DOMAIN obs}) < lab.minMonths)
       \cup reason("non_positive_cost_adjusted_expectancy", NetTotal(obs, BaselineCost(lab)) <= 0)
       \cup reason("unstable_walk_forward_performance",
              \E s \in splits : NetTotal(s.rows, BaselineCost(lab)) <= 0)
       \cup reason("cost_sensitivity_fragile", FragileCosts(raw, lab) # {})
       \cup reason("excessive_turnover",
              turnover.changes > 0 /\ turnover.sum > lab.maxTurnover * turnover.changes)
       \cup reason("single_asset_or_time_window_dependency",
              Cardinality(assets) > 1 /\ Cardinality({obs[i].symbol : i \in DOMAIN obs}) < 2)

CandidateMetric(id, universe, screen, rows, lab) ==
    LET market == [sym \in lab.symbols |-> MarketRows(rows, sym, lab.window)]
        before == CoverageReasons(id, universe, screen)
        none(raw, obs) == \/ raw # <<>> /\ obs = <<>>
                          \/ raw = <<>> /\ before \cap {"lookahead_risk", "watchlist_only_source",
                                                        "insufficient_universe_coverage"} = {}
        measured(raw) ==
            LET obs == CostAware(raw, BaselineCost(lab), lab)
            IN [observations |-> obs,
                reasons |-> before \cup (IF none(raw, obs) THEN {"insufficient_samples"} ELSE {})
                            \cup (IF obs = <<>> THEN {} ELSE ObservationReasons(id, raw, obs, market, lab))]
    IN measured(IF before \cap {"lookahead_risk", "watchlist_only_source"} # {} THEN <<>>
                ELSE HistoricalObservations(id, rows, market))

StateTarget(reasons) ==
    CASE reasons = {} -> "feasibility_passed"
      [] reasons # {} /\ reasons \subseteq {"insufficient_universe_coverage",
            "insufficient_month_coverage", "insufficient_asset_coverage"} -> "candidate"
      [] reasons # {} /\ reasons \subseteq {"insufficient_samples", "insufficient_walk_forward_splits"} ->
            "source_qualified"
      [] OTHER -> "redesign_required"

----------------------------------------------------------------------------
(* What the memory keeps of a report (pipeline/candidate_state_memory.py): *)
(* a state for each candidate of the report, and four rejected ones that   *)
(* every report brings along.                                              *)

LegacyRejections == {"long_short_crowding_contrarian", "taker_imbalance_reversal",
                     "premium_basis_risk_filter", "momentum_derivatives_confirmation"}

CandidateStateEntries(report) ==
    [id \in DOMAIN report \cup LegacyRejections |->
        IF id \in DOMAIN report THEN StateTarget(report[id].reasons) ELSE "redesign_required"]
=============================================================================
