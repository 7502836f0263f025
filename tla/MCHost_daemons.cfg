CONSTANTS
    Domains <- TwoDomains
    Versions = {v1, v2}
    KeyOf <- OneKey
    NoPool = NoPool
    PoolFaults = {"write", "reload"}
    MaxRuns = 1
    CertFaults = {"certbot", "openssl"}
    Masters = {m1, m2}
    GoodMasters = {m1}
    NoMaster = NoMaster
    Workers = {w1, w2}
    NoSite = NoSite
    NoVhost = NoVhost
    MaxOps = 4
    MaxEvents = 1
SYMMETRY Symmetry
SPECIFICATION Spec
INVARIANTS
    TypeOK
    SocketsListen
    DiskIsServed
    ReadyMeansTested
    AliasAtRest
PROPERTIES
    IssuedIsServed
    ApplyAllHeals
CHECK_DEADLOCK FALSE
