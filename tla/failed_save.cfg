SPECIFICATION Spec
CONSTANTS
    Users = {u}
    Workspaces = {w}
    Titles = {t}
    Conversations = {c}
    Questions = {q1, q2}
    Sessions = {s}
    Absent = Absent
    Requests = {r1, r2}
    Answers = {a1, a2}
    MaxChunks = 1
INVARIANT FailedAnswersAreDeleted
CHECK_DEADLOCK FALSE
