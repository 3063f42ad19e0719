SPECIFICATION Spec
CONSTANTS
    Users = {u1, u2}
    Workspaces = {w1, w2}
    Titles = {t1, t2}
    Conversations = {c1}
    Questions = {q1, q2}
    Sessions = {s1, s2}
    Absent = Absent
    Saves = {v1, v2}
    Documents = {d1, d2}
SYMMETRY Symmetry
INVARIANTS
    TypeOK
    QuestionsOwned
    SourcesAsReplied
PROPERTIES
    DeletedForever
