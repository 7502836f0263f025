CONSTANTS
    r1 = r1
    r2 = r2
    s1 = s1
    s2 = s2
    u1 = u1
    u2 = u2
    Domains = {r1, r2, s1, s2}
    NoDomain = NoDomain
    Up <- UpOf
    Users = {u1, u2}
    NoUser = NoUser
    Limit <- OneEach
    Aliases = {}
    AddRequests <- AnyAdds
    EditRequests <- ParentEdits
    Deletable = {r1, s1, s2}
    DnsEnabled = FALSE
    Faults = {}
    Workers = {w1, w2}
SPECIFICATION Spec
INVARIANTS
    OvershootBounded
CHECK_DEADLOCK FALSE
