--------------------------- MODULE MCResearchData ---------------------------
(* Constants for TLC.                                                      *)
EXTENDS ResearchData

CONSTANTS btc, eth, boot, resumed, offline, campaign, deep, futures, oi, hourly, dune, probe,
          wide, narrow, entire, collecting, liquid, conditioned, mapped, judging, aligning, funded, poor, usdm

(* Six bars, months of two.  Funding has more rows in a month than a page, *)
(* open interest a hole, and one month has no futures candles.             *)
ListedBars ==
    SpotCandles(btc) :> 0 .. 5 @@ SpotCandles(eth) :> 0 .. 5
    @@ FuturesCandles(btc) :> {0, 1, 4} @@ FuturesCandles(eth) :> {4, 5}
    @@ CcxtFunding(btc) :> 0 .. 5 @@ CcxtOpenInterest(btc) :> {0, 1, 2, 4, 5}
    @@ OpenInterestHistory(btc) :> {2, 4} @@ CcxtCandles(btc) :> {0, 1}
    @@ PremiumIndex(btc) :> {1, 3} @@ Basis(btc) :> {0, 2} @@ FundingHistory(btc) :> {0, 4}
    @@ PremiumIndex(eth) :> {0, 3} @@ Basis(eth) :> {0, 3} @@ FundingHistory(eth) :> {0}
    @@ LongShortRatio(eth) :> 0 .. 5 @@ TakerVolume(eth) :> 0 .. 5
    @@ LongShortRatio(btc) :> {1} @@ TakerVolume(btc) :> {1, 2}
    @@ DexPairs(btc) :> {0, 3} @@ YieldPools(btc) :> {0, 4}
    @@ CcxtFunding(eth) :> {0, 1, 2, 4} @@ CcxtOpenInterest(eth) :> 0 .. 5

Rising(first, step) == [t \in 0 .. 5 |-> first + step * t * (t + 1)]

Levels ==
    SpotCandles(btc) :> Rising(1000, 10) @@ SpotCandles(eth) :> Rising(2000, 25)
    @@ FuturesCandles(btc) :> Rising(1005, 10) @@ FuturesCandles(eth) :> Rising(2010, 25)
    @@ PremiumIndex(btc) :> Rising(10, 2) @@ PremiumIndex(eth) :> Rising(10, 0)
    @@ Basis(btc) :> Rising(20, 1) @@ LongShortRatio(btc) :> Rising(30, 1)
    @@ CcxtFunding(btc) :> Rising(-20, 0) @@ CcxtFunding(eth) :> Rising(-30, 1)
    @@ CcxtOpenInterest(btc) :> Rising(1000, 40) @@ CcxtOpenInterest(eth) :> Rising(1000, 50)
    @@ DexPairs(btc) :> Rising(100, 4) @@ YieldPools(btc) :> Rising(300, 10)
    @@ LongShortRatio(eth) :> Rising(-60, 1) @@ TakerVolume(eth) :> Rising(20, 1)

Window(a, b) == [start |-> a, end |-> b]

(* No volume at the last bar of btc, so that no trade can end there.       *)
TradedVolumes ==
    SpotCandles(btc) :> [t \in 0 .. 5 |-> IF t = 5 THEN 0 ELSE 100]
    @@ SpotCandles(eth) :> Rising(100, 0) @@ YieldPools(btc) :> Rising(100, 0)
    @@ DexPairs(btc) :> Rising(100, 0)

(* A funding of eth names a next funding that is not after it.             *)
GivenNext == CcxtFunding(eth) :> (2 :> 2 @@ 0 :> 1)

Parameters ==
    [threshold |-> 5, hold |-> 1, fee |-> 10, slippage |-> 5, minTrades |-> 2, train |-> 2, test |-> 2,
     minSplits |-> 2, maxDrawdown |-> 2000, oiChange |-> 500, oiLookback |-> 1, supported |-> {btc, eth},
     maxAge |-> 3, minObservations |-> 2, minTvl |-> 50, minApyChange |-> 100, chained |-> {btc},
     minLiquidity |-> 100, minVolume |-> 50, unnamed |-> {}, liquidityChange |-> 2500,
     volumeChange |-> 2500, compression |-> 2, expansion |-> 2, maxVolatility |-> 100,
     minExpansion |-> 150, regimeVolume |-> 2500, watched |-> {btc, eth},
     lot |-> 1000, minLots |-> 1, minNotional |-> 500, maxNotional |-> 2500, minCapital |-> 2500,
     tick |-> 25, taker |-> 5, participation |-> 5, maxSignalAge |-> 1]

Volatility == <<"volatility_compression_expansion_watchlist">>
Funded == <<"funding_extremity_price_confirmation", "funding_mean_reversion_after_extreme",
            "funding_open_interest_crowding">>
Crowding == <<"funding_open_interest_crowding">>
Watching == <<"defi_yield_regime_watchlist", "dex_liquidity_volume_watchlist">> \o Volatility

Judged(sym, windows, network, judged, capital, governance) ==
    [kind |-> "bootstrap", symbol |-> sym, windows |-> windows, network |-> network,
     route |-> "auto", proxy |-> FALSE, credential |-> FALSE,
     families |-> judged, capital |-> capital, notional |-> 2500, governance |-> governance]

Bootstrap(windows, network) == Judged(btc, windows, network, Volatility, 30000, "add_data")

Campaign(symbols, months, min) ==
    [kind |-> "campaign", symbols |-> symbols, months |-> months, minMonths |-> min, collect |-> TRUE]

Ingest(source, feed, symbol) ==
    [kind |-> "ingest", source |-> source, feed |-> feed, symbol |-> symbol, month |-> 0, since |-> 0]

Lab(candidates, collect, multiplier) ==
    [kind |-> "lab", mode |-> "multi-hypothesis-lab", symbols |-> {btc, eth}, months |-> {0, 1, 2}, minMonths |-> 2, minAssets |-> 2,
     collect |-> collect, windowed |-> TRUE, window |-> Window(0, 6), candidates |-> candidates,
     costs |-> {5, 10, 50}, firstCost |-> 5, multiplier |-> multiplier, splits |-> 2, purge |-> 1,
     maxTurnover |-> 100, persist |-> TRUE]

Older(mode, candidates, instrument) ==
    [kind |-> "lab", mode |-> mode, symbols |-> {btc, eth}, collect |-> FALSE, candidates |-> candidates,
     instrument |-> instrument, firstCost |-> 10, splits |-> 1]

Conditioned == <<"long_short_crowding_contrarian", "taker_imbalance_reversal",
                 "premium_basis_risk_filter", "momentum_derivatives_confirmation">>

Wide == <<"perp_spot_basis_funding_deviation", "cross_asset_ranking_turnover_cap",
          "short_horizon_momentum_volatility_filter", "defi_dex_regime_discovery">>

All == Wide \o <<"short_horizon_reversal_volatility_filter", "derivatives_crowding_price_action",
                 "regime_gated_cross_asset_momentum", "regime_gated_cross_asset_reversal",
                 "funding_basis_convergence_liquidity_filter",
                 "derivatives_crowding_recent_window_price_action",
                 "defi_dex_liquidity_regime_watchlist">>

Asked ==
    boot :> Bootstrap(<<Window(1, 5)>>, TRUE)
    @@ resumed :> Bootstrap(<<Window(0, 1), Window(3, 5)>>, TRUE)
    @@ offline :> Bootstrap(<<Window(1, 5)>>, FALSE)
    @@ campaign :> Campaign({btc}, {1, 2}, 1)
    @@ deep :> Campaign({btc}, {0, 2}, 2)
    @@ futures :> Campaign({eth}, {2}, 1)
    @@ oi :> Ingest("binance-usdm", "open-interest-history", btc)
    @@ hourly :> Ingest("ccxt", "ohlcv", btc)
    @@ dune :> Ingest("dune", "query", btc)
    @@ probe :> [kind |-> "probe", target |-> DuneResult(btc), network |-> TRUE, credential |-> TRUE,
                 route |-> "proxy", proxy |-> TRUE]
    @@ wide :> Lab(Wide, FALSE, 0)
    @@ narrow :> Lab(<<"regime_gated_cross_asset_momentum">>, FALSE, 1)
    @@ collecting :> Lab(<<"short_horizon_momentum_volatility_filter">>, TRUE, 1)
    @@ entire :> Lab(All, FALSE, 0)
    @@ liquid :> Older(Liquid, <<>>, <<>>)
    @@ conditioned :> Older("derivatives-conditioned-lab", Conditioned, btc :> btc @@ eth :> eth)
    @@ judging :> Judged(btc, <<Window(0, 6)>>, FALSE, Crowding, 30000, "owner_decision_review")
    @@ funded :> Judged(btc, <<Window(0, 6)>>, FALSE, Funded, 30000, "keep_collecting")
    @@ aligning :> Judged(eth, <<Window(0, 6), Window(3, 6)>>, FALSE, Funded, 30000, "stop")
    @@ poor :> Judged(btc, <<Window(0, 6)>>, FALSE, Crowding \o Watching, 1000, "keep_collecting")
    @@ usdm :> Ingest("binance-public", "um-futures", btc)
    @@ mapped :> Older("derivatives-conditioned-lab", Conditioned, btc :> eth @@ eth :> eth)

Spot == {SpotCandles(btc), SpotCandles(eth)}
Derivatives == UNION {{PremiumIndex(s), Basis(s), FundingHistory(s)} : s \in {btc, eth}}
Ratios == {LongShortRatio(eth), TakerVolume(eth), PremiumIndex(eth), Basis(eth)}
Trading == UNION {{CcxtFunding(s), CcxtOpenInterest(s)} : s \in {btc, eth}}
Others == {LongShortRatio(btc), TakerVolume(btc), DexPairs(btc), YieldPools(btc)}

Together ==
    LET scenario(commands, stored) == [commands |-> commands, stored |-> stored]
    IN {scenario({boot, campaign}, {}), scenario({campaign, deep}, {}),
        scenario({resumed, oi}, {}), scenario({offline, oi}, {}), scenario({dune, probe}, {}),
        scenario({wide, futures}, Spot \cup Derivatives), scenario({wide, narrow}, Spot \cup Derivatives),
        scenario({entire, probe}, Spot \cup Derivatives \cup Others),
        scenario({liquid, futures}, Spot), scenario({conditioned, liquid}, Spot \cup Ratios),
        scenario({mapped, conditioned}, Spot \cup Ratios \cup {FuturesCandles(eth)}),
        scenario({collecting, oi}, Spot), scenario({hourly, oi}, {CcxtOpenInterest(btc)}), scenario({judging, usdm}, Spot \cup Trading), scenario({funded}, Spot \cup Trading),
        scenario({aligning}, Spot \cup Trading), scenario({poor}, Spot \cup Trading \cup {DexPairs(btc), YieldPools(btc)}),
        scenario({entire}, Spot \cup {FuturesCandles(btc), FuturesCandles(eth)})}

(* TLC keeps the value of a definition but evaluates what a constant is    *)
(* given at each use, so the constants are given these names.              *)
GivenListed == ListedBars
GivenLevel == Levels
GivenVolumes == TradedVolumes
GivenNextFunding == GivenNext
GivenRules == Parameters
GivenCommands == Asked
GivenScenarios == Together
=============================================================================
