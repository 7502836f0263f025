CONSTANTS
    Names <- TwoNames
    Packages <- TwoPackages
    Unlimited = 1
    Domains <- OneDomain
    Confs = {c1}
    Targets = {t1}
    Roles = {"reseller", "user"}
    MaxId = 7
    NoName = NoName
    NoPackage = NoPackage
    NoConf = NoConf
    Scopes = {"user", "reseller", "all"}
    Faults = {"db", "copy"}
    MaxOps = 3
    MaxLater = 1
    MaxRestores = 2
SPECIFICATION Spec
INVARIANTS
    TypeOK
    RoleDecidesHash
    RestoreMerges
    OthersUntouched
    FilesComeBack
CHECK_DEADLOCK FALSE
