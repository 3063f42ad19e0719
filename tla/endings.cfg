SPECIFICATION FairSpec
CONSTANTS
    Users = {u}
    Workspaces = {w}
    Titles = {t}
    Conversations = {c}
    Questions = {q}
    Sessions = {}
    Absent = Absent
    Requests = {r1, r2}
    Answers = {a1, a2}
    MaxChunks = 1
PROPERTIES
    KeepsTheLedger
    EveryRequestEnds
CHECK_DEADLOCK FALSE
