CONSTANTS
    u = u
    r = r
    Names = {u}
    NoName = NoName
    Ids = {i1, i2}
    NoId = NoId
    Requests <- Logins
    WrongPasswords = TRUE
    CommandsFail = FALSE
    Workers = {w1, w2}
SPECIFICATION Spec
SYMMETRY Symmetry
CHECK_DEADLOCK FALSE
INVARIANTS
    AttemptsBounded
