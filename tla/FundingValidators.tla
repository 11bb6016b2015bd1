--------------------------- MODULE FundingValidators ---------------------------
(***************************************************************************)
(* The validators that trade on extreme funding rates                      *)
(* (validation/funding_price.py, strategy/funding_mean_reversion.py,       *)
(* strategy/funding_oi_crowding.py): the trades they extract, the walk     *)
(* forward over them, the reasons they are blocked for.                    *)
(*                                                                         *)
(* Rates, returns and costs are whole basis points; a history is a set of  *)
(* rows, put in the order of time when no two share one.                   *)
(***************************************************************************)
EXTENDS StrategyLabs

CONSTANTS
    Rules,              \* the parameters of the validators and of the costs
    NextFundingAt       \* a funding series |-> bar |-> next funding bar, where it is given

ASSUME ValidatorsAssumption ==
    /\ Rules.hold \in Nat \ {0} /\ Rules.train \in Nat \ {0} /\ Rules.test \in Nat \ {0}
    /\ Rules.minSplits \in Nat \ {0} /\ Rules.minTrades \in Nat /\ Rules.threshold \in Nat \ {0}
    /\ Rules.oiLookback \in Nat \ {0} /\ Rules.supported \subseteq Symbols

ByTime(rows) == InOrder(rows, LAMBDA a, b : a.time < b.time)

(* The rows of a symbol that a validator uses, of whatever market; funding *)
(* and open interest under the name that ccxt gives the symbol.            *)
FundingHistoryOf(rows, sym) ==
    [bars |-> StrategyCandles(rows, sym),
     funding |-> {r \in rows : r.series = CcxtFunding(sym)},
     interest |-> {r \in rows : r.series = CcxtOpenInterest(sym)}]

Extremes(funding) == {f \in funding : Magnitude(Number(f)) >= Rules.threshold}

(* The bar of a funding's entry: the first that is not before it.          *)
EntryIndex(bars, f) == 1 + Cardinality({b \in bars : b.time < f.time})

HasExit(bars, f) == EntryIndex(bars, f) + Rules.hold <= Cardinality(bars)

(* Against the rate: short when it is positive, long when it is negative.  *)
ExtractTrades(bars, funding) ==
    LET at == ByTime(bars)
        traded == ByTime({f \in Extremes(funding) : HasExit(bars, f)})
    IN [k \in DOMAIN traded |->
          LET f == traded[k]
              i == EntryIndex(bars, f)
              change == Return(Number(at[i]), Number(at[i + Rules.hold]))
          IN [funding |-> f.time, side |-> IF Number(f) >= 0 THEN "short" ELSE "long",
              entry |-> i, exit |-> i + Rules.hold,
              time |-> at[i].time, until |-> at[i + Rules.hold].time,
              entryBar |-> at[i], exitBar |-> at[i + Rules.hold],
              gross |-> IF Number(f) >= 0 THEN -change ELSE change]]

NonPositivePrice(bars, funding) ==
    LET at == ByTime(bars)
    IN \E f \in Extremes(funding) :
          /\ HasExit(bars, f)
          /\ Number(at[EntryIndex(bars, f)]) <= 0 \/ Number(at[EntryIndex(bars, f) + Rules.hold]) <= 0

(* The next funding, where the row has one, may not come before the row's  *)
(* own time, its trade's entry or its trade's exit.                        *)
InvalidAlignment(bars, funding) ==
    LET at == ByTime(bars)
        given(f) == f.series \in DOMAIN NextFundingAt /\ f.time \in DOMAIN NextFundingAt[f.series]
        next(f) == NextFundingAt[f.series][f.time]
    IN \E f \in {g \in Extremes(funding) : given(g)} :
          \/ next(f) <= f.time
          \/ HasExit(bars, f) /\ (\/ at[EntryIndex(bars, f)].time >= next(f)
                                  \/ at[EntryIndex(bars, f) + Rules.hold].time > next(f))

(* The trades of a history: none where times or prices are not clean.      *)
ExtractFromRecords(h) ==
    IF HasDuplicates(h.bars) \/ HasDuplicates(h.funding) \/ NonPositivePrice(h.bars, h.funding)
    THEN <<>> ELSE ExtractTrades(h.bars, h.funding)

----------------------------------------------------------------------------
(* Fee and slippage, on both legs.                                         *)
CostPerTrade == 2 * (Rules.fee + Rules.slippage)

Adjusted(trades) == [i \in DOMAIN trades |-> trades[i].gross - CostPerTrade]

(* Compounded, with the deepest fall from a peak, in basis points.         *)
Compounded(returns) ==
    FoldLeft(LAMBDA e, r :
        LET equity == (e.equity * (10000 + r)) \div 10000
            peak == Max({e.peak, equity})
        IN [equity |-> equity, peak |-> peak,
            drawdown |-> Max({e.drawdown, ((peak - equity) * 10000) \div peak})],
        [equity |-> 10000, peak |-> 10000, drawdown |-> 0], returns)

SumOf(returns) == FoldLeft(LAMBDA a, b : a + b, 0, returns)

(* The test folds: bars first + 1 .. last of the history, one after the    *)
(* other; a trade belongs to the fold it lies in as a whole.               *)
TestFolds(total) ==
    {[first |-> Rules.train + k * Rules.test, last |-> Rules.train + (k + 1) * Rules.test] :
        k \in {i \in 0 .. total : Rules.train + (i + 1) * Rules.test <= total}}

InFold(trade, fold) == fold.first < trade.entry /\ trade.exit <= fold.last

FoldTotal(trades, fold) == SumOf(Adjusted(SelectSeq(trades, LAMBDA t : InFold(t, fold))))

(* Every fold must gain; no fold at all fails twice.                       *)
WalkForwardGate(total, trades) ==
    LET folds == TestFolds(total)
    IN (IF Cardinality(folds) < Rules.minSplits THEN {"insufficient_walk_forward_splits"} ELSE {})
       \cup (IF folds = {} \/ \E f \in folds : FoldTotal(trades, f) <= 0
             THEN {"unstable_walk_forward_performance"} ELSE {})

(* Reasons of the trades' results.                                         *)
PerformanceReasons(trades, minTrades) ==
    LET result == Compounded(Adjusted(trades))
    IN (IF Len(trades) < minTrades THEN {"insufficient_trades"} ELSE {})
       \cup (IF SumOf(Adjusted(trades)) <= 0 THEN {"non_positive_expectancy"} ELSE {})
       \cup (IF result.equity <= 10000 THEN {"non_positive_net_return"} ELSE {})
       \cup (IF result.drawdown > Rules.maxDrawdown THEN {"excessive_drawdown"} ELSE {})

----------------------------------------------------------------------------
Verdict(trades, reasons) == [trades |-> trades, reasons |-> reasons]

(* Reasons of the history itself.                                          *)
HistoryReasons(h, sym) ==
    LET clean == ~HasDuplicates(h.bars) /\ ~HasDuplicates(h.funding)
    IN (IF sym \notin Rules.supported THEN {"unsupported_symbol"} ELSE {})
       \cup (IF HasDuplicates(h.bars) THEN {"duplicate_price_timestamp"} ELSE {})
       \cup (IF HasDuplicates(h.funding) THEN {"duplicate_funding_timestamp"} ELSE {})
       \cup (IF clean /\ NonPositivePrice(h.bars, h.funding) THEN {"non_positive_price"} ELSE {})
       \cup (IF clean /\ InvalidAlignment(h.bars, h.funding) THEN {"funding_alignment_invalid"} ELSE {})
       \cup (IF Cardinality(h.bars) < Rules.hold + 1 THEN {"insufficient_price_bars"} ELSE {})
       \cup (IF h.funding = {} THEN {"insufficient_funding_samples"} ELSE {})
       \cup (IF Extremes(h.funding) = {} THEN {"no_extreme_funding"} ELSE {})

ValidateFundingPrice(rows, sym) ==
    LET h == FundingHistoryOf(rows, sym)
        history == HistoryReasons(h, sym)
        trades == IF "funding_alignment_invalid" \in history THEN <<>> ELSE ExtractFromRecords(h)
    IN Verdict(trades, history \cup PerformanceReasons(trades, Rules.minTrades)
                       \cup WalkForwardGate(Cardinality(h.bars), trades))

(* The same validation under another name.                                 *)
ValidateFundingMeanReversion(rows, sym) == ValidateFundingPrice(rows, sym)

InterestAhead(interest, t) ==       \* mutant: the open interest of the next bar
    Cardinality({o \in interest : o.time <= t + 1})

(* How many open-interest rows are known at a time.                        *)
InterestKnown(interest, t) == Cardinality({o \in interest : o.time <= t})

(* What the open interest says of a trade: it must have grown.             *)
InterestSays(interest, t) ==
    LET at == ByTime(interest)
        current == InterestKnown(interest, t)
        previous == current - Rules.oiLookback
    IN IF previous < 1 THEN "insufficient_open_interest_history"
       ELSE IF Number(at[previous]) <= 0 \/ Number(at[current]) <= 0 THEN "non_positive_open_interest"
       ELSE IF Return(Number(at[previous]), Number(at[current])) < Rules.oiChange
            THEN "no_open_interest_expansion" ELSE "confirmed"

ConfirmedTrades(trades, interest) ==
    Picked(trades, {k \in DOMAIN trades : InterestSays(interest, trades[k].funding) = "confirmed"})

(* The trades of a paper run of this family.                               *)
ExtractCrowdingTrades(h) ==
    IF h.interest = {} \/ HasDuplicates(h.interest) THEN <<>>
    ELSE ConfirmedTrades(ExtractFromRecords(h), h.interest)

(* Of the base's reasons some are kept; the alignment is not among them.   *)
KeptReasons == {"unsupported_symbol", "duplicate_price_timestamp", "duplicate_funding_timestamp",
                "non_positive_price", "insufficient_price_bars", "insufficient_funding_samples",
                "no_extreme_funding"}

ValidateFundingOiCrowding(rows, sym) ==
    LET h == FundingHistoryOf(rows, sym)
        all == IF HasDuplicates(h.interest) THEN <<>> ELSE ExtractFromRecords(h)
        said == {InterestSays(h.interest, all[i].funding) : i \in DOMAIN all}
        trades == ConfirmedTrades(all, h.interest)
        none == {"insufficient_open_interest_history", "no_open_interest_expansion"}
    IN Verdict(trades,
         (HistoryReasons(h, sym) \cap KeptReasons)
         \cup (IF h.interest = {} THEN {"missing_open_interest_records"} ELSE {})
         \cup (IF HasDuplicates(h.interest) THEN {"duplicate_open_interest_timestamp"} ELSE {})
         \cup (said \cap {"non_positive_open_interest"})
         \cup (IF trades = <<>> THEN said \cap none ELSE {})
         \cup PerformanceReasons(trades, Rules.minTrades)
         \cup WalkForwardGate(Cardinality(h.bars), trades))
=============================================================================
