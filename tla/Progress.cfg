\* Each part on an instance of its own; the bounds are explained in README.md.
SPECIFICATION ProgressSpec
CONSTANTS
    \* DaemonRuns
    None = None
    Runs = {r1}
    MaxQuestions = 1
    MaxDrops = 1
    MaxReloads = 1
    MaxCrashes = 1
    MaxSlow = 1
    \* DebuggerProxy
    Tabs = {t1}
    Requests = {}
    NoTab = NoTab
    MaxSessions = 3
    Loops = {l1, l2}
    RestoreAttempts = 3
    MaxCalls = 1
    MaxDetaches = 3
    MaxMonitors = 0
    ManualDetach = FALSE
    \* ToolApproval
    c1 = c1
    c2 = c2
    p1 = p1
    p2 = p2
    t1 = t1
    n1 = n1
    o1 = o1
    o2 = o2
    NoCall = NoCall
    Calls = {c1}
    Free = {}
    Grantable = {}
    TaskOf <- OneTask
    ClientOf <- OneClient
    OriginOf <- Origins
    Panels = {p1, p2}
    MaxPending = 1
    MaxPage = 1
    MaxConnections = 2
    MaxRevokes = 0
    MaxFailures = 1
INVARIANTS SettledIsOver CardsMatch
PROPERTIES EveryRunSettles InterceptionRestored DecisionLands
\* Every run may be over.
CHECK_DEADLOCK FALSE
