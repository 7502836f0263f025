CONSTANTS
    Domains <- TwoDomains
    Procs = {server}
    Good = {g1, g2}
    Bad = {b1}
    Unbuildable = {}
    NoConf = NoConf
    ProxyDomains <- NoDomains
    Deletable <- NoDomains
    Limits <- ZeroOrOne
    Faults <- StepFaults
    HupReload = FALSE
    StartsNginx = FALSE
    Serial = FALSE
    MaxOps = 3
SPECIFICATION Spec
INVARIANTS
    VerdictMatchesDisk
    ServedIsOnDisk
PROPERTIES
    ApplyIsAtomic
CHECK_DEADLOCK FALSE
