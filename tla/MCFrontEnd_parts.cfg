\* Theme, layout and connections, console, editor, each by itself.
SPECIFICATION PartSpec
CONSTANTS
    MaxTransitions = 3
    NoTheme = NoTheme
    Servers = {a, b}
    Default = a
    Invalid = Invalid
    NoServer = NoServer
    MaxRefreshes = 2
    MaxChecks = 3
    Runs = {q1, q2}
    Ids = {i1}
    NoRun = NoRun
    NoId = NoId
    CloudRuns = {p1, p2}
    MaxLog = 3
    Sessions = {e1, e2}
    NoSession = NoSession
    MaxScripts = 2
    MaxSaves = 2
    MaxHidden = 1
SYMMETRY Symmetry
INVARIANTS
    FrontTypeOK
    StoredThemeIsKept
    ThemeIsApplied
    DevicesAreOfServer
    SpinnersEnd
    WorkspaceComesBack
    ExecutionsAreTold
    SentIsComplete
    OneSetPerEditor
PROPERTY EditsAreKept
\* All sessions of the editor may be over.
CHECK_DEADLOCK FALSE
