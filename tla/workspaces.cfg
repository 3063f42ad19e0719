\* Safety only, so the symmetry of all ids is sound.
SPECIFICATION Spec
CONSTANTS
    Workspaces = {w1, w2}
    Names = {n1, n2}
    Sources = {s1}
    Users = {u1, u2}
    TypeIds = {i1, i2, i3}
    Suggestions = {q1, q2}
    Contents = {c1, c2}
    Threads = {t1, t2}
    MaxRequests = 5
    None = None
SYMMETRY MCSymmetry
CHECK_DEADLOCK FALSE
INVARIANTS
    TypeOK
    ListedAsIntended
    PromisedSources
    TypesRepeatByOverlap
    WithdrawnIsNotShown
