CONSTANTS
    Calls = {c1, c2, c3}
    report = report
    report_pdf = report_pdf
    Names = {report, report_pdf}
    Plain = plain
    None = none
    LongerNames <- MCLongerNames
    Sizes = {0, 1, 2, 3, 4, 5, 6, 7}
    ChunkSizes = {1, 2, 3, 4}
SPECIFICATION Spec
SYMMETRY MCSymmetry
INVARIANTS TypeOK RowsAreTrue OrphansAreKnown DeletedIsGone CopiesAreTrue StreamsReachTheEnd
PROPERTIES SavedIsKept
CHECK_DEADLOCK FALSE
