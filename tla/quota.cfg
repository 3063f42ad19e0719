SPECIFICATION Spec
CONSTANTS
    Calls = {r1, r2}
    Puts = {w1}
    Nothing = Nothing
    InitLimit <- TwoQuestions
    MaxDay = 1
    MaxGiven <- ThreeQuestionsGiven
    MaxExtra <- OneExtra
SYMMETRY Symmetry
INVARIANTS
    TypeOK
    NeverAboveInit
    NothingIsFree
CHECK_DEADLOCK FALSE
