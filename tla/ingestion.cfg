CONSTANTS
    Uploads = {u1, u2}
    Documents = {report, scan}
    Pdfs = {scan}
    Workspaces = {w}
    Unnamed = unnamed
    MaxWorkers = 2
    WorkspaceOf <- MCWorkspaceOf
    Paragraphs <- MCParagraphs
    Contents <- MCContents
    ChunkSize = 3
    Overlap = 1
    IgnoreTokenLength = 2
SPECIFICATION FairSpec
INVARIANTS TypeOK ConfirmedIsComplete FoundIsNotRepeated ParagraphsAreRecorded ContextIsKept
PROPERTY EveryUploadEnds
CHECK_DEADLOCK FALSE
