CONSTANTS
    u = u
    r = r
    Names = {u, r}
    NoName = NoName
    Ids = {i1, i2, i3}
    NoId = NoId
    Requests <- Administration
    WrongPasswords = FALSE
    CommandsFail = TRUE
    Workers = {w1, w2}
SPECIFICATION Spec
SYMMETRY Symmetry
CHECK_DEADLOCK FALSE
INVARIANTS
    TypeOK
    OkMeansDone
    OwnersExist
