CONSTANTS
    Limit = 2
    a1 = a1
    a2 = a2
    a3 = a3
    App = {a1, a2, a3}
    Fqdn <- MCFqdn
    Only = {}
    Broken = {a2, a3}
    Server = {s1}
    WithIp = {s1}
    Down = 2
    TlsEvery = 2
    PruneEvery = 1
    Overlap = FALSE
SPECIFICATION ProberSpec
  
PROPERTIES  OutageNoticed
