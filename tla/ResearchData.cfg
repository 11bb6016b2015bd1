\* A bootstrap beside a campaign, beside single ingestions, without network;
\* two campaigns of one market;
\* labs beside a campaign, beside each other, and alone on all kinds of rows;
\* the strategy families on a window beside an ingestion, and on their own.
SPECIFICATION DataSpec
CONSTANTS
    btc = btc
    eth = eth
    boot = boot
    resumed = resumed
    offline = offline
    campaign = campaign
    deep = deep
    futures = futures
    oi = oi
    hourly = hourly
    dune = dune
    probe = probe
    wide = wide
    narrow = narrow
    entire = entire
    collecting = collecting
    liquid = liquid
    conditioned = conditioned
    mapped = mapped
    judging = judging
    aligning = aligning
    poor = poor
    funded = funded
    usdm = usdm
    Symbols = {btc, eth}
    Bars = 6
    MonthLength = 2
    Limit = 1
    ShortLookback = 1
    LongLookback = 2
    MinHistory = 4
    Listed <- GivenListed
    Level <- GivenLevel
    Volumes <- GivenVolumes
    NextFundingAt <- GivenNextFunding
    Rules <- GivenRules
    Commands <- GivenCommands
    Scenarios <- GivenScenarios
    MaxFaults = 1
    MaxKills = 1
INVARIANTS
    ReportedRowsAreStored
    SuccessfulBootstrapIsComplete
    CampaignReportIsTrue
    QualityReportIsTrue
    FeasibleOnCleanRows
    FeasibleWithoutLookahead
    ValidatedTradesHold
    PaperFollowsValidation
PROPERTY
    RowsKeepTheirSeries
CHECK_DEADLOCK FALSE
