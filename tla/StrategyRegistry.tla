--------------------------- MODULE StrategyRegistry ---------------------------
(***************************************************************************)
(* The registered strategy families (strategy/registry.py), the cost model *)
(* of a paper trade (execution/cost_model.py) and the outcomes of a paper  *)
(* run (pipeline/paper_sim_loop.py).                                       *)
(*                                                                         *)
(* A price is that of one lot; notionals, capital and costs are in one     *)
(* small unit of money, rates in basis points.                             *)
(***************************************************************************)
EXTENDS Watchlists

FundingFamilies == {"funding_extremity_price_confirmation", "funding_mean_reversion_after_extreme",
                    "funding_open_interest_crowding"}
WatchFamilies == {"defi_yield_regime_watchlist", "dex_liquidity_volume_watchlist",
                  "volatility_compression_expansion_watchlist"}
Families == FundingFamilies \cup WatchFamilies

SupportsPaper(family) == family \in FundingFamilies

MinCapital(family) == IF SupportsPaper(family) THEN Rules.minCapital ELSE 0

ASSUME RegistryAssumption ==
    /\ Rules.lot \in Nat \ {0} /\ Rules.minLots \in Nat /\ Rules.maxNotional \in Nat
    /\ Rules.minCapital \in Nat /\ Rules.tick \in Nat \ {0} /\ Rules.minTrades > 0

(* The validator of a family on the rows of one read.                      *)
Validator(family, rows, sym) ==
    CASE family = "funding_extremity_price_confirmation" -> ValidateFundingPrice(rows, sym)
      [] family = "funding_mean_reversion_after_extreme" -> ValidateFundingMeanReversion(rows, sym)
      [] family = "funding_open_interest_crowding" -> ValidateFundingOiCrowding(rows, sym)
      [] family = "defi_yield_regime_watchlist" -> Verdict(<<>>, ValidateDefiYieldRegime(rows))
      [] family = "dex_liquidity_volume_watchlist" -> Verdict(<<>>, ValidateDexLiquidityWatchlist(rows))
      [] family = "volatility_compression_expansion_watchlist" -> Verdict(<<>>, ValidateVolatilityRegime(rows))

(* validate: capital first.                                                *)
ValidateFamilyOn(family, rows, sym, capital) ==
    IF capital < MinCapital(family) THEN Verdict(<<>>, {"insufficient_current_capital"})
    ELSE Validator(family, rows, sym)

PaperTradesUnconfirmed(family, rows, sym) ==    \* mutant: a runner without its family's extractor
    ExtractFromRecords(FundingHistoryOf(rows, sym))

(* The trades of a paper run are extracted again, from its own rows.       *)
PaperTrades(family, rows, sym) ==
    LET h == FundingHistoryOf(rows, sym)
    IN IF family = "funding_open_interest_crowding" THEN ExtractCrowdingTrades(h) ELSE ExtractFromRecords(h)

(* run_paper: simulated when the validation on the same rows approves.     *)
PaperReport(family, rows, sym, capital, notional) ==
    LET unless(blocked) == Verdict(IF blocked = {} THEN PaperTrades(family, rows, sym) ELSE <<>>, blocked)
    IN unless(IF capital >= MinCapital(family) /\ notional > Rules.maxNotional
              THEN {"notional_exceeds_strategy_limit"}
              ELSE ValidateFamilyOn(family, rows, sym, capital).reasons)

----------------------------------------------------------------------------
(* The cost model.                                                         *)

(* A price moves to the next tick against the trade.                       *)
RoundToTick(price, up) ==
    LET down == (price \div Rules.tick) * Rules.tick
    IN IF up /\ down < price THEN down + Rules.tick ELSE down

AdversePrice(price, side, leg) == RoundToTick(price, (leg = "entry") = (side = "long"))

(* The rate of a leg: the venue's, but not below the floor.                *)
AppliedFee == Max({Rules.taker, Rules.fee})

(* A part of the volume of the bars of entry and exit.                     *)
Capacity(trade, entryPrice, exitPrice) ==
    Min({(Volume(trade.entryBar) * entryPrice * Rules.participation) \div 100,
         (Volume(trade.exitBar) * exitPrice * Rules.participation) \div 100})

Tradeable(effective, trade) ==
    LET gross == (effective * trade.gross) \div 10000
        net == gross - (effective * 2 * (AppliedFee + Rules.slippage)) \div 10000
    IN IF gross > 0 /\ net <= 0
       THEN [status |-> "blocked", net |-> net, reasons |-> {"pre_cost_only_profitable"}, trade |-> trade]
       ELSE [status |-> "closed", net |-> net, reasons |-> {}, trade |-> trade]

(* What a trade would have made, or why it would not have been made.       *)
EstimateExecutionCost(trade, notional) ==
    LET entryPrice == AdversePrice(Number(trade.entryBar), trade.side, "entry")
        exitPrice == AdversePrice(Number(trade.exitBar), trade.side, "exit")
        lots == (Min({notional, Rules.maxNotional}) * Rules.lot) \div entryPrice
        effective == (lots * entryPrice) \div Rules.lot
        reasons ==
            (IF Rules.minNotional > Rules.maxNotional THEN {"min_notional_exceeds_max_notional"} ELSE {})
            \cup (IF Rules.minLots * entryPrice > Rules.maxNotional * Rules.lot
                  THEN {"min_quantity_notional_exceeds_max_notional"} ELSE {})
            \cup (IF lots = 0 \/ lots < Rules.minLots THEN {"quantity_precision_not_tradeable"} ELSE {})
            \cup (IF 0 < effective /\ effective < Rules.minNotional
                  THEN {"effective_notional_below_min_notional"} ELSE {})
            \cup (IF trade.time - trade.funding > Rules.maxSignalAge THEN {"stale_signal"} ELSE {})
            \cup (IF Capacity(trade, entryPrice, exitPrice) < effective THEN {"missed_fill_assumed"} ELSE {})
    IN IF reasons # {} THEN [status |-> "blocked", net |-> 0, reasons |-> reasons, trade |-> trade]
       ELSE Tradeable(effective, trade)

----------------------------------------------------------------------------
BlockedOutcome(reasons) == <<[status |-> "blocked", net |-> 0, reasons |-> reasons, trade |-> <<>>]>>

(* One outcome for each trade, or one that says why there is none.         *)
PaperOutcomes(family, rows, sym, capital, notional) ==
    LET capped == Min({notional, capital, Rules.maxNotional})
        outcomes(report) ==
            IF report.reasons # {} THEN BlockedOutcome(report.reasons)
            ELSE IF report.trades = <<>> THEN BlockedOutcome({"no_signal"})
            ELSE [i \in DOMAIN report.trades |-> EstimateExecutionCost(report.trades[i], capped)]
    IN outcomes(PaperReport(family, rows, sym, capital, capped))

NetOf(outcomes) == SumOf([i \in DOMAIN outcomes |-> outcomes[i].net])

(* What the bootstrap makes of a family's result in a window.              *)
Classification(family, passed, outcomes, governance) ==
    LET reasons == UNION {outcomes[i].reasons : i \in DOMAIN outcomes}
        closed == \E i \in DOMAIN outcomes : outcomes[i].status = "closed"
    IN CASE ~SupportsPaper(family) -> "research_only"
         [] SupportsPaper(family) /\ (~passed \/ outcomes = <<>>) -> "blocked"
         [] OTHER ->
              IF "pre_cost_only_profitable" \in reasons \/ (NetOf(outcomes) <= 0 /\ closed)
              THEN "negative_after_costs"
              ELSE IF NetOf(outcomes) <= 0 THEN "blocked"
              ELSE CASE governance = "owner_decision_review" -> "usable"
                     [] governance = "stop" -> "negative_after_costs"
                     [] OTHER -> IF closed \/ governance = "keep_collecting"
                                 THEN "observe_out_of_sample" ELSE "blocked"
=============================================================================
