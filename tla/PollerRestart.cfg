CONSTANTS
    Deployment = {d1, d2}
    MaxLog = 2
    IdleDelay = 3
    ActiveDelay = 2
    MaxBackoff = 8
    MaxFailures = 2
SPECIFICATION PollerSpec
PROPERTIES StartsAfresh
