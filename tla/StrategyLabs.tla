----------------------------- MODULE StrategyLabs -----------------------------
(***************************************************************************)
(* The two older labs of pipeline/strategy_feasibility.py: momentum of     *)
(* large liquid assets, and signals conditioned on derivatives.  They read *)
(* all rows at once, of every source and market, and trade on the times    *)
(* that all symbols share.                                                 *)
(*                                                                         *)
(* One and two weeks are ShortLookback and LongLookback bars, the look     *)
(* back of 24 bars is ShortLookback; a candle's high is its close, its     *)
(* volume is positive; rates and ratios less one are in basis points.      *)
(***************************************************************************)
EXTENDS ResearchLabs

StrategyCandles(rows, sym) ==
    {r \in rows : r.series.type = "market_candle" /\ r.series.symbol = sym /\ r.series.period = "1h"}

HasDuplicates(rows) == \E a, b \in rows : a # b /\ a.time = b.time /\ a.series.type = b.series.type

(* Reasons of a symbol; only duplicates stop the momentum lab.             *)
SymbolReport(rows, sym) ==
    LET candles == StrategyCandles(rows, sym)
    IN (IF candles = {} THEN {"missing_market_candles"} ELSE {})
       \cup (IF HasDuplicates(candles) THEN {"duplicate_timestamps"} ELSE {})

AlignedTimes(rows, symbols) ==
    Ascending({t \in Times : /\ symbols # {}
                            /\ \A sym \in symbols : \E r \in StrategyCandles(rows, sym) : r.time = t})

(* The close at a time; no lab gets here with two candles of one time.     *)
CloseAt(rows, sym, t) == Number(AnyOf({r \in StrategyCandles(rows, sym) : r.time = t}))

----------------------------------------------------------------------------
(* Long the symbol with the best score; of equal ones, one.                *)
MomentumObservations(rows, symbols) ==
    LET aligned == AlignedTimes(rows, symbols)
        close(sym, i) == CloseAt(rows, sym, aligned[i])
        high(sym, i) == Max({close(sym, j) : j \in i - ShortLookback + 1 .. i})
        score(sym, i) == 20 * Return(close(sym, i - LongLookback), close(sym, i))
                         + 10 * Return(close(sym, i - ShortLookback), close(sym, i))
                         + 2 * Return(high(sym, i), close(sym, i))
        selected(i) == Greatest([sym \in symbols |-> score(sym, i)])
    IN [k \in 1 .. Max({0, Len(aligned) - 1 - LongLookback}) |->
          LET i == k + LongLookback
              sym == selected(i)
          IN [time |-> aligned[i], symbol |-> sym, until |-> aligned[i + 1],
              gross |-> Return(close(sym, i), close(sym, i + 1)), score |-> score(sym, i)]]

(* The splits of these labs purge nothing.                                 *)
SplitReasons(obs, lab) ==
    LET splits == WalkForwardSplits(obs, [splits |-> lab.splits, purge |-> 0])
    IN IF Cardinality(splits) < lab.splits THEN {"insufficient_walk_forward_splits"}
       ELSE IF \E s \in splits : NetTotal(s.rows, lab.firstCost) <= 0
            THEN {"non_positive_cost_adjusted_expectancy"} ELSE {}

MomentumLab(rows, lab) ==
    LET duplicates == (UNION {SymbolReport(rows, sym) : sym \in lab.symbols}) \cap {"duplicate_timestamps"}
        short == Len(AlignedTimes(rows, lab.symbols)) < LongLookback + lab.splits + 1
        before == duplicates \cup (IF short THEN {"insufficient_aligned_history"} ELSE {})
        obs == IF before # {} THEN <<>> ELSE MomentumObservations(rows, lab.symbols)
    IN [observations |-> obs,
        reasons |-> IF before # {} THEN before
                    ELSE IF Len(obs) < lab.splits * 2 THEN {"insufficient_aligned_history"}
                    ELSE SplitReasons(obs, lab)]

----------------------------------------------------------------------------
LabTypes == {"long_short_account_ratio", "taker_buy_sell_volume", "premium_index_kline", "basis"}

(* Symbols that share the derivatives of one instrument.                   *)
AmbiguousSymbols(lab) ==
    {a \in lab.symbols : \E b \in lab.symbols \ {a} : lab.instrument[a] = lab.instrument[b]}

DerivativeRecords(rows, instrument) ==
    {r \in rows : r.series.type \in LabTypes /\ r.series.symbol = instrument /\ r.series.period = "1h"}

(* The records of a time, one of each type that has one.                   *)
DerivativesRow(rows, instrument, t) ==
    {r \in DerivativeRecords(rows, instrument) : r.time = t}

(* Reasons of a symbol; only the last two stop the lab.                    *)
DerivativesCoverage(rows, lab, sym) ==
    LET candles == StrategyCandles(rows, sym)
        derivatives == DerivativeRecords(rows, lab.instrument[sym])
        aligned == {r.time : r \in candles} \cap {r.time : r \in derivatives}
    IN (IF candles = {} THEN {"missing_market_candles"} ELSE {})
       \cup (IF Cardinality(aligned) < ShortLookback + 2 THEN {"insufficient_derivatives_history"} ELSE {})
       \cup (IF HasDuplicates(candles) \/ HasDuplicates(derivatives)
             THEN {"duplicate_timestamps"} ELSE {})
       \cup (IF sym \in AmbiguousSymbols(lab) THEN {"ambiguous_derivatives_symbol_mapping"} ELSE {})

PremiumCap == 10
BasisCap == 20
CrowdingCap == 7500

(* A signal of a symbol, as a set of at most one score; types that are     *)
(* needed and missing give none, a filter that holds gives 0.              *)
CandidateSignal(candidate, momentum, row) ==
    LET has(types) == \A type \in types : \E r \in row : r.series.type = type
        value(type) == Number(CHOOSE r \in row : r.series.type = type)
        ratio == "long_short_account_ratio"
        taker == "taker_buy_sell_volume"
        calm == /\ Magnitude(value("premium_index_kline")) <= PremiumCap
                /\ Magnitude(value("basis")) <= BasisCap
        confirmed == /\ (momentum > 0 /\ value(taker) > 0) \/ (momentum < 0 /\ value(taker) < 0)
                     /\ Magnitude(value(ratio)) <= CrowdingCap
    IN CASE candidate = "long_short_crowding_contrarian" ->
                IF has({ratio}) THEN {-value(ratio)} ELSE {}
         [] candidate = "taker_imbalance_reversal" ->
                IF has({taker}) THEN {-value(taker)} ELSE {}
         [] candidate = "premium_basis_risk_filter" ->
                IF has({"premium_index_kline", "basis"}) THEN {IF calm THEN momentum ELSE 0} ELSE {}
         [] candidate = "momentum_derivatives_confirmation" ->
                IF has({ratio, taker}) THEN {IF confirmed THEN momentum ELSE 0} ELSE {}

(* Long or short the symbol with the strongest signal, after it.           *)
DerivativesObservations(candidate, rows, lab) ==
    LET aligned == AlignedTimes(rows, lab.symbols)
        close(sym, i) == CloseAt(rows, sym, aligned[i])
        signals(sym, i) == CandidateSignal(candidate, Return(close(sym, i - ShortLookback), close(sym, i)),
                                           DerivativesRow(rows, lab.instrument[sym], aligned[i]))
        all(i) == UNION {{<<sym, x>> : x \in signals(sym, i)} : sym \in lab.symbols}
        selected(i) == Greatest([p \in all(i) |-> Magnitude(p[2])])
        picks == Ascending({i \in DOMAIN aligned : /\ i > ShortLookback /\ i < Len(aligned)
                                                   /\ all(i) # {} /\ selected(i)[2] # 0})
        observation(i, p) ==
            LET change == Return(close(p[1], i), close(p[1], i + 1))
            IN [time |-> aligned[i], symbol |-> p[1], until |-> aligned[i + 1],
                gross |-> IF p[2] > 0 THEN change ELSE -change, score |-> p[2]]
    IN [k \in DOMAIN picks |-> observation(picks[k], selected(picks[k]))]

DerivativesMetric(candidate, rows, lab) ==
    LET measured(obs) ==
            [observations |-> obs,
             reasons |-> IF obs = <<>> THEN {"insufficient_derivatives_history"}
                         ELSE IF Len(obs) < lab.splits * 2 THEN {"insufficient_walk_forward_splits"}
                         ELSE SplitReasons(obs, lab)]
    IN measured(DerivativesObservations(candidate, rows, lab))

DerivativesLab(rows, lab) ==
    LET before == (UNION {DerivativesCoverage(rows, lab, sym) : sym \in lab.symbols})
                  \cap {"ambiguous_derivatives_symbol_mapping", "duplicate_timestamps"}
    IN [candidate \in ToSet(lab.candidates) |->
          IF before # {} THEN [observations |-> <<>>, reasons |-> before]
          ELSE DerivativesMetric(candidate, rows, lab)]

----------------------------------------------------------------------------
Liquid == "large-liquid-momentum-regime"

StrategyReport(rows, lab) ==
    IF lab.mode = Liquid THEN [id \in {Liquid} |-> MomentumLab(rows, lab)]
    ELSE DerivativesLab(rows, lab)

StrategyObservations(id, rows, lab) ==
    IF lab.mode = Liquid THEN MomentumObservations(rows, lab.symbols)
    ELSE DerivativesObservations(id, rows, lab)
=============================================================================
