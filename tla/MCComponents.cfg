CONSTANTS
    Limit = 2
    h1 = h1
    h2 = h2
    Host = {h1, h2}
    MaxGauge = 1
    StaleAfter = 0
    MaxTokens <- MCTokens
    Env = {production}
    Target = {t1}
    HourlyGap = 2
    RowLimit = 2
    ProbeLimit = 3
    Lookback = 2
    ProbeWindow = 2
    Retention = 3
    MinSamples = 2
    MaxClock = 4
    s1 = s1
    a1 = a1
    a2 = a2
    db1 = db1
    MaxInsights = 3
    MaxJobs = 2
    HourLong = 4
    DayLong = 96
    InsightWorlds <- MCPanels
    JobWorlds <- MCTimelines
    KpiWorlds <- MCKpis
    p1 = p1
    p2 = p2
    e1 = e1
    e2 = e2
    e3 = e3
    b1 = b1
    b2 = b2
    r1 = r1
    production = production
    staging = staging
    Project = {p1, p2}
    Environment = {e1, e2, e3}
    EnvApp = {b1, b2}
    ProjectOf <- MCProjectOf
    NameOf <- MCNameOf
    HomeEnv <- MCHomeEnv
    AppOf <- MCAppOf
    Everything = everything
    Charted = {everything}
    MaxRows = 1
    MaxMisses = 1
    d1 = d1
    d2 = d2
    ScheduleWorlds <- MCSchedules
    HistoryWorlds <- MCHistories
    DetailWorlds <- MCDetails
    SetupWorlds <- MCSetups
    RefusalWorlds <- MCRefusals
    HealthWorlds <- MCHealths
    MaxTake = 3
    TodayLong = 4
    k1 = k1
    k2 = k2
    Click = {k1, k2}
    Verbs <- MCVerbs
    Kinds <- MCKinds
    Events = {"deployment"}
    MaxEvents = 1
    Tab = {1, 2}
    MaxAttempts = 1
    Lockout = 2
    SessionTtl = 2
    MaxTime = 2
    Lists <- MCLists
    Asking <- MCAsking
    Matches <- MCMatches
    Backlog = 2
    Longest = 4
    PageSize = 1
    MaxTotal = 2
    MaxLoads = 2
    MaxFacts = 2
    FrameLines = 2
    MaxBuilt = 5
    Deployment = {d1, d2}
    MaxLog = 2
    IdleDelay = 3
    ActiveDelay = 2
    MaxBackoff = 8
    MaxFailures = 2
    Rollout = {r1}
    Parts = {"poller", "collector", "store", "mappers", "overview", "reports", "actions", "session", "pages", "widgets", "logs"}
SPECIFICATION Spec
INVARIANTS LoopAlive RejectedTokenIsRefreshed HistoriesSound InsightsSound PillAgreesWithPanel   ClaimsNothingElse  ActedOnce DoorShuts  
PROPERTIES  CollectorSchedulesItself   TickerIsCurrent
CHECK_DEADLOCK FALSE
