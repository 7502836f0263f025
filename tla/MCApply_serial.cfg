CONSTANTS
    Domains <- TwoDomains
    Procs = {server}
    Good = {g1, g2}
    Bad = {b1}
    Unbuildable = {}
    NoConf = NoConf
    ProxyDomains <- NoDomains
    Deletable <- TwoDomains
    Limits <- Unlimited
    Faults <- StepFaults
    HupReload = TRUE
    StartsNginx = TRUE
    Serial = TRUE
    MaxOps = 4
SPECIFICATION Spec
INVARIANTS
    TypeOK
    LiveValidAtRest
    BackupsValid
    VerdictMatchesDisk
    NothingPendingIsHidden
    OkMeansServed
    ServedIsOnDisk
    NoOrphan
PROPERTIES
    ApplyIsAtomic
    ImplementsDirectory
CHECK_DEADLOCK FALSE
