CONSTANTS
    Domains <- TwoDomains
    Procs = {server}
    Good = {g1, g2}
    Bad = {b1}
    Unbuildable = {u1}
    NoConf = NoConf
    ProxyDomains <- NoDomains
    Deletable <- NoDomains
    Limits <- ZeroOrOne
    Faults = {}
    HupReload = TRUE
    StartsNginx = TRUE
    Serial = TRUE
    MaxOps = 4
SPECIFICATION OperatorSpec
PROPERTIES
    SitesSettle
CHECK_DEADLOCK FALSE
