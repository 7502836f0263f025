CONSTANTS
    Names <- TwoNames
    Packages <- TwoPackages
    Unlimited = 1
    Domains <- OneDomain
    Confs = {c1}
    Targets = {t1}
    Roles = {"admin", "user"}
    MaxId = 7
    NoName = NoName
    NoPackage = NoPackage
    NoConf = NoConf
    Scopes = {"all"}
    Faults = {}
    MaxOps = 3
    MaxLater = 0
    MaxRestores = 1
SPECIFICATION Spec
INVARIANTS
    PackagesComeBack
CHECK_DEADLOCK FALSE
