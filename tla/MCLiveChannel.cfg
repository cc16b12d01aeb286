CONSTANTS
    Deployment = {d1}
    EventKey = {d1}
    Client = {b1, b2, b3}
    MaxClients = 2
    Key = {running}
    ListKey = running
    Caller = {poll, overview}
    PollerCall = poll
    OverviewCall = overview
    OverviewTtl = 1
    Value <- MCValue
    NoValue = NoValue
    Nobody = Nobody
    MaxAge = 1
    LoadTimeout = 1
    MaxLog = 1
    IdleDelay = 2
    ActiveDelay = 1
    MaxBackoff = 3
    MaxFailures = 1
    Window = 2
    MaxDeliveries = 2
SPECIFICATION Spec
INVARIANTS TypeOK WatchedIffRunning OncePerWindow
PROPERTIES ImplementsPoller
