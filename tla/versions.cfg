SPECIFICATION VersionsSpec
CONSTANTS
    Answers = {a1, a2}
    Contents = {x, y}
    Ratings = {like, dislike}
    Unrated = Unrated
    Nothing = Nothing
    MaxVersions = 4
SYMMETRY Symmetry
INVARIANTS
    VersionsTypeOK
    NothingIsForgotten
CHECK_DEADLOCK FALSE
