CONSTANTS
    Domains <- TwoDomains
    Procs = {server}
    Good = {g1}
    Bad = {b1}
    Unbuildable = {u1}
    NoConf = NoConf
    ProxyDomains <- OneDomain
    Deletable <- NoDomains
    Limits <- Unlimited
    Faults <- AllFaults
    HupReload = FALSE
    StartsNginx = TRUE
    Serial = FALSE
    MaxOps = 3
SPECIFICATION FairSpec
PROPERTIES
    OkIsWrittenForLiveFile
    ApplyTerminates
CHECK_DEADLOCK FALSE
