CONSTANTS
    Domains <- OneDomain
    Versions = {v1}
    KeyOf <- OneKey
    NoPool = NoPool
    PoolFaults = {}
    MaxRuns = 2
    CertFaults = {}
    Masters = {m1}
    GoodMasters = {m1}
    NoMaster = NoMaster
    Workers = {w1}
    NoSite = NoSite
    NoVhost = NoVhost
    MaxOps = 5
    MaxEvents = 1
SPECIFICATION Spec
PROPERTIES
    RenewedIsLoaded
CHECK_DEADLOCK FALSE
