\* Each part on an instance of its own; the bounds are explained in README.md.
SPECIFICATION SidePanelSpec
CONSTANTS
    \* ToolApproval
    c1 = c1
    c2 = c2
    p1 = p1
    p2 = p2
    t1 = t1
    n1 = n1
    o1 = o1
    o2 = o2
    NoCall = NoCall
    Calls = {c1, c2}
    Free = {}
    Grantable = {c1, c2}
    TaskOf <- OneTask
    ClientOf <- OneClient
    OriginOf <- Origins
    Panels = {p1}
    MaxPending = 1
    MaxPage = 1
    MaxConnections = 2
    MaxRevokes = 1
    MaxFailures = 1
    \* PanelRuns
    Chats = {a1, a2}
    Submissions = {s1, s2, s3}
    Delegated = {s3}
    Nothing = Nothing
    MaxQueued = 1
    MaxPanels = 1
    \* ConversationMemory
    MaxTurns = 3
    OpenQuestions = {d1}
    Facts = {f1}
    NoMemory = NoMemory
    NoTask = NoTask
    MaxKept = 4
    MaxKeptTools = 1
    \* ModelContext
    Budgets = {7, 18}
    Exact = 2
    Sizes = {2}
    MaxExchanges = 3
    Histories <- TwoTurns
INVARIANTS
    OnlyApprovedRuns
    NothingGoesAstray
    MemoryIsCoherent
    RequestIsSound
PROPERTIES
    RevokedAsksAgain
    TurnsStayApart
\* Every call may be settled and every message answered.
CHECK_DEADLOCK FALSE
