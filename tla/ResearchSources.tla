--------------------------- MODULE ResearchSources ---------------------------
(***************************************************************************)
(* The ingestions (data/ingestion.py, data/onchain_ingestion.py), each as  *)
(* the step it makes a command do: what it fetches and keeps; and the      *)
(* probes (data/source_probe.py) with the reasons they end for.            *)
(***************************************************************************)
EXTENDS ResearchRows

(* kind: "month" is an archive, "page" an endpoint with since and limit,   *)
(* "snapshot" one row of now; start and end cut what was fetched.          *)
Step(kind, s, from, start, end) ==
    [kind |-> kind, series |-> s, from |-> from, start |-> start, end |-> end]

(* Fetch an archive, keep the window, upsert, then a health row.           *)
IngestPublicMonth(s, m, start, end) == Step("month", s, m, start, end)

IngestSpotMonth(sym, m, start, end) == IngestPublicMonth(SpotCandles(sym), m, start, end)
IngestFuturesMonth(sym, m, start, end) == IngestPublicMonth(FuturesCandles(sym), m, start, end)

(* Fetch a page of a derivatives endpoint, upsert, then a health row.      *)
IngestUsdm(s, since) == Step("page", s, since, 0, Bars)

IngestPremiumIndex(sym, since) == IngestUsdm(PremiumIndex(sym), since)
IngestBasis(pair, since) == IngestUsdm(Basis(pair), since)
IngestFundingHistory(sym, since) == IngestUsdm(FundingHistory(sym), since)
IngestOpenInterestHistory(sym, since) == IngestUsdm(OpenInterestHistory(sym), since)
IngestLongShortRatio(sym, since) == IngestUsdm(LongShortRatio(sym), since)
IngestTakerVolume(sym, since) == IngestUsdm(TakerVolume(sym), since)

UsdmIngestion(feed, sym, since) ==
    CASE feed = "premium-index-klines" -> IngestPremiumIndex(sym, since)
      [] feed = "basis" -> IngestBasis(sym, since)
      [] feed = "funding-rate-history" -> IngestFundingHistory(sym, since)
      [] feed = "open-interest-history" -> IngestOpenInterestHistory(sym, since)
      [] feed = "global-long-short-account-ratio" -> IngestLongShortRatio(sym, since)
      [] OTHER -> IngestTakerVolume(sym, since)

(* The ccxt candles have no window of their own.                           *)
IngestCcxtCandles(sym, since) == Step("page", CcxtCandles(sym), since, 0, Bars)
IngestCcxtFunding(sym, since, start, end) == Step("page", CcxtFunding(sym), since, start, end)
IngestCcxtOpenInterest(sym, since, start, end) ==
    Step("page", CcxtOpenInterest(sym), since, start, end)

(* All rows of one answer, stamped with the time of the fetch.             *)
IngestDexPairs(sym) == Step("page", DexPairs(sym), 0, 0, Bars)
IngestYieldPools(sym) == Step("page", YieldPools(sym), 0, 0, Bars)

(* One row, and no health row.                                             *)
IngestDune(query) == Step("snapshot", DuneResult(query), 0, 0, Bars)
IngestTheGraph(query) == Step("snapshot", GraphResult(query), 0, 0, Bars)

(* The command `ingest`: one ingestion, chosen by source, market and feed. *)
PublicIngestion(cmd) ==
    IF cmd.feed = "um-futures" THEN IngestFuturesMonth(cmd.symbol, cmd.month, 0, Bars)
    ELSE IngestSpotMonth(cmd.symbol, cmd.month, 0, Bars)

OnchainIngestion(cmd) ==
    IF cmd.source = "dune" THEN IngestDune(cmd.symbol) ELSE IngestTheGraph(cmd.symbol)

DexOrDefiIngestion(cmd) ==
    IF cmd.source = "dexscreener" THEN IngestDexPairs(cmd.symbol) ELSE IngestYieldPools(cmd.symbol)

CcxtIngestion(cmd) ==
    CASE cmd.feed = "ohlcv" -> IngestCcxtCandles(cmd.symbol, cmd.since)
      [] cmd.feed = "open-interest-history" -> IngestCcxtOpenInterest(cmd.symbol, cmd.since, 0, Bars)
      [] OTHER -> IngestCcxtFunding(cmd.symbol, cmd.since, 0, Bars)

Ingestion(cmd) ==
    CASE cmd.source = "binance-public" -> PublicIngestion(cmd)
      [] cmd.source = "binance-usdm" -> UsdmIngestion(cmd.feed, cmd.symbol, cmd.since)
      [] cmd.source \in {"dune", "thegraph"} -> OnchainIngestion(cmd)
      [] cmd.source \in {"dexscreener", "defillama"} -> DexOrDefiIngestion(cmd)
      [] cmd.source = "ccxt" -> CcxtIngestion(cmd)

----------------------------------------------------------------------------
(* Probes.  A target is a series whose feed the probe asks for one row.    *)

NeedsCredential(s) == s.source = "dune"

ProbeTargets(sym) ==
    {FundingHistory(sym), OpenInterestHistory(sym), PremiumIndex(sym), Basis(sym),
     LongShortRatio(sym), TakerVolume(sym), DexPairs(sym), YieldPools(sym),
     DuneResult(sym), GraphResult(sym)}

ProbeStep(s) == Step("probe", s, 0, 0, 0)

(* The route that is asked for against the proxy that is configured.       *)
NetworkRoute(route, proxy) ==
    IF route = "direct" THEN "direct"
    ELSE IF proxy THEN "proxy" ELSE IF route = "proxy" THEN "blocked" ELSE "direct"

(* What stops a probe before any request, else "none".                     *)
BlockedBefore(cmd, s) ==
    IF ~cmd.network THEN "network_not_allowed"
    ELSE IF NeedsCredential(s) /\ ~cmd.credential THEN "credential_required"
    ELSE IF NetworkRoute(cmd.route, cmd.proxy) = "blocked" THEN "proxy_not_configured" ELSE "none"

(* Of the rows of an answer, those with every expected field count.        *)
CountReasons == {"no_typed_records", "missing_expected_fields", "unexpected_schema", "none"}

(* The reasons a probe may end with, in the order of its checks; "none"    *)
(* when typed records came.                                                *)
ProbeReasons(cmd, s) ==
    IF BlockedBefore(cmd, s) # "none" THEN {BlockedBefore(cmd, s)}
    ELSE {"request_failed", "http_status", "parse_failed"} \cup CountReasons

(* How far the provider got.                                               *)
ProviderStatus(reason) ==
    CASE reason \in {"request_failed", "http_status", "parse_failed", "none"} ->
            (CASE reason = "none" -> "ResearchUsable"
               [] reason = "request_failed" -> "Candidate"
               [] OTHER -> "Reachable")
      [] reason \in CountReasons -> "Parseable"
      [] OTHER -> "Candidate"
=============================================================================
