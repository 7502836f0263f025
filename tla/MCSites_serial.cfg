CONSTANTS
    r1 = r1
    r2 = r2
    s1 = s1
    s2 = s2
    u1 = u1
    u2 = u2
    Domains = {r1, r2, s1, s2}
    NoDomain = NoDomain
    Up <- UpOf
    Users = {u1, u2}
    NoUser = NoUser
    Limit <- OneOrNone
    Aliases = {s2}
    AddRequests <- FixedAdds
    EditRequests <- AnyEdits
    Deletable = {r1, r2, s1, s2}
    DnsEnabled = TRUE
    Faults = {"dns", "nginx", "db", "crash", "restart"}
    Workers = {w1}
SPECIFICATION Spec
INVARIANTS
    TypeOK
    DnsMatchesSites
    ParentsAreRoots
PROPERTIES
    OkAddIsServed
    OkDeleteLeavesNothing
    PastLimitOnlyByMove
CHECK_DEADLOCK FALSE
