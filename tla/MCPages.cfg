SPECIFICATION MCSpec
CONSTANTS
    Parent <- MCParent
    Shown0 <- MCShown
    Trace <- MCTrace
    RootScopes = {1}
    SrcFiles = {"a", "b", "m"}
    SrcMissing = {"m"}
    SrcLines = {1, 2}
    MaxAsks = 3
    MaxPlaces = 3
    FtNodes = {1, 2}
    FtContents = {1, 2}
    MaxEdits = 4
    Statuses = {1, 2, 3}
    UpdateLimit = 2
    MaxBatches = 2
    JobsTree <- MCJobs
    Verdicts = {"v1", "v2"}
    AttrValues = {"a1"}
    SearchPages <- MCSearchPages
    RoleUsers = {"u1", "u2"}
    Roles = {0, 1, 2, 3, 4}
    ViewIds = {1, 2}
    Columns = {"c1", "c2", "c3"}
    DotData <- MCDotData
    NodeWidth <- MCNodeWidth
    Loads = 1
INVARIANTS
    PagesShow
    FilesShown
    RequestsKept
    Layered
    CrossingsReduced
    Laid
PROPERTIES
    StatusSeen
CHECK_DEADLOCK FALSE
