------------------------------ MODULE Watchlists ------------------------------
(***************************************************************************)
(* The validators that only watch: yields of pools                         *)
(* (strategy/defi_yield_regime.py), liquidity of DEX pairs                 *)
(* (strategy/dex_liquidity_watchlist.py), volatility of candles            *)
(* (strategy/volatility_regime_watchlist.py).  Each judges the rows of a   *)
(* group by its last ones and passes when any group does.                  *)
(*                                                                         *)
(* A pool's number is its yield and its volume the value locked; a pair's  *)
(* number is its liquidity.  The DEX client marks each pair research only, *)
(* so the reason for other roles cannot come up.                           *)
(***************************************************************************)
EXTENDS FundingValidators

CONSTANT Volumes        \* series |-> bar |-> number, 1 where it is not given

Volume(r) == IF r.series \in DOMAIN Volumes THEN Volumes[r.series][r.time] ELSE 1

ASSUME WatchlistsAssumption ==
    /\ \A s \in DOMAIN Volumes : \A t \in Times : Volumes[s][t] \in Nat
    /\ Rules.compression \in Nat \ {0} /\ Rules.expansion \in Nat \ {0} /\ Rules.maxAge \in Nat
    /\ Rules.minObservations \in Nat \ {0, 1}

OfType(rows, type) == {r \in rows : r.series.type = type}

SeriesOf(rows) == {r.series : r \in rows}

LatestOf(rows) == CHOOSE r \in rows : \A q \in rows : q.time <= r.time

PriorOf(rows) == LatestOf(rows \ {LatestOf(rows)})

(* The clock stands at the end of the bars.                                *)
IsStale(rows) == LatestOf(rows).time < Bars - Rules.maxAge

(* Reasons of a set of groups: none when a group has none.                 *)
AnyGroup(reasonSets) == IF {} \in reasonSets THEN {} ELSE UNION reasonSets

----------------------------------------------------------------------------
(* A pool must be known, large, fresh and its yield have moved.            *)
PoolReasons(pool) ==
    IF Cardinality(pool) < Rules.minObservations THEN {"insufficient_history"}
    ELSE LET latest == LatestOf(pool)
         IN (IF Volume(latest) < Rules.minTvl THEN {"insufficient_tvl"} ELSE {})
            \cup (IF latest.series.symbol \notin Rules.chained THEN {"unsupported_chain"} ELSE {})
            \cup (IF IsStale(pool) THEN {"stale_source"} ELSE {})
            \cup (IF Magnitude(Number(latest) - Number(PriorOf(pool))) < Rules.minApyChange
                  THEN {"no_apy_regime_change"} ELSE {})

ValidateDefiYieldRegime(rows) ==
    LET pools == OfType(rows, "defi_yield")
    IN IF pools = {} THEN {"missing_defi_yield_records"}
       ELSE AnyGroup({PoolReasons({r \in pools : r.series = s}) : s \in SeriesOf(pools)})

(* Grown by enough; nothing has grown from nothing.                        *)
MeetsChange(prior, latest, min) == prior > 0 /\ Return(prior, latest) >= min

(* A pair must be large, traded, fresh, known by an address, and growing.  *)
PairReasons(pair) ==
    IF Cardinality(pair) < Rules.minObservations THEN {"insufficient_history"}
    ELSE LET latest == LatestOf(pair)
             prior == PriorOf(pair)
         IN (IF Number(latest) < Rules.minLiquidity THEN {"insufficient_liquidity"} ELSE {})
            \cup (IF Volume(latest) < Rules.minVolume THEN {"insufficient_volume"} ELSE {})
            \cup (IF latest.series.symbol \notin Rules.chained THEN {"unsupported_chain"} ELSE {})
            \cup (IF IsStale(pair) THEN {"stale_source"} ELSE {})
            \cup (IF latest.series.symbol \in Rules.unnamed THEN {"unstable_pair_identity"} ELSE {})
            \cup (IF \/ MeetsChange(Number(prior), Number(latest), Rules.liquidityChange)
                     \/ MeetsChange(Volume(prior), Volume(latest), Rules.volumeChange)
                  THEN {} ELSE {"no_liquidity_or_volume_regime_change"})

ValidateDexLiquidityWatchlist(rows) ==
    LET pairs == OfType(rows, "dex_pair")
    IN IF pairs = {} THEN {"missing_dex_pair_records"}
       ELSE AnyGroup({PairReasons({r \in pairs : r.series = s}) : s \in SeriesOf(pairs)})

----------------------------------------------------------------------------
(* The last bars of a symbol: compression, then expansion; returns have no *)
(* spread when the squares of their distances from the mean are small.     *)
SpreadIsSmall(returns) ==
    LET n == Len(returns)
        mean == SumOf(returns) \div n
    IN n > 1 => SumOf([i \in DOMAIN returns |-> (returns[i] - mean) * (returns[i] - mean)])
                   <= n * Rules.maxVolatility * Rules.maxVolatility

RegimeReasons(at) ==
    LET n == Len(at)
        split == n - Rules.expansion
        first == split - Rules.compression
        returns == [i \in 1 .. split - first |-> Return(Number(at[first + i - 1]), Number(at[first + i]))]
        volume(from, to) == SumOf([i \in 1 .. to - from |-> Volume(at[from + i])]) \div (to - from)
        compressed == volume(first - 1, split)
        grown == IF compressed > 0 THEN Return(compressed, volume(split, n)) ELSE 0
    IN IF \E i \in first .. n : Number(at[i]) <= 0 THEN {"non_positive_price"}
       ELSE (IF ~SpreadIsSmall(returns) THEN {"volatility_not_compressed"} ELSE {})
            \cup (IF /\ Magnitude(Return(Number(at[split]), Number(at[n]))) < Rules.minExpansion
                     /\ grown < Rules.regimeVolume
                  THEN {"no_price_or_volume_expansion"} ELSE {})

(* The candles of a symbol from every source and market are one series.    *)
CandleReasons(candles, sym) ==
    LET required == Max({Rules.minObservations, Rules.compression + Rules.expansion + 1})
        before == (IF sym \notin Rules.watched THEN {"unsupported_symbol"} ELSE {})
                  \cup (IF HasDuplicates(candles) THEN {"duplicate_market_candle_timestamp"} ELSE {})
                  \cup (IF Cardinality(candles) < required THEN {"insufficient_history"} ELSE {})
    IN IF before # {} THEN before ELSE RegimeReasons(ByTime(candles))

ValidateVolatilityRegime(rows) ==
    LET candles == OfType(rows, "market_candle")
    IN IF candles = {} THEN {"missing_market_candle_records"}
       ELSE AnyGroup({CandleReasons({r \in candles : r.series.symbol = sym}, sym) :
                         sym \in {r.series.symbol : r \in candles}})
=============================================================================
