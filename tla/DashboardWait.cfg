CONSTANTS
    Env = {prod, staging}
    Deployment = {d1}
    DefaultEnv = prod
    HomeOf <- MCHomeOf
    NoEnv = NoEnv
    NoData = NoData
    MaxVersion = 2
    MaxSwitches = 1
SPECIFICATION Spec
PROPERTIES NothingWaitsForever
CHECK_DEADLOCK FALSE
