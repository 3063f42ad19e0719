CONSTANTS
    Uploads = {u1, u2}
    Documents = {report, scan}
    Pdfs = {scan}
    Workspaces = {w}
    Unnamed = unnamed
    MaxWorkers = 2
    WorkspaceOf <- MCWorkspaceOf
    Paragraphs <- MCParagraphs
    Contents <- MCContents
    ChunkSize = 3
    Overlap = 1
    IgnoreTokenLength = 2
SPECIFICATION Spec
INVARIANT RefusedIsIngested
CHECK_DEADLOCK FALSE
