\* Each service on an instance of its own; the bounds are explained in README.md.
SPECIFICATION ServicesSpec
CONSTANTS
    \* BrowserStateHub
    d1 = d1
    d2 = d2
    Profiles = {p1}
    Default = default
    Roles = {"browser"}
    Documents = {d1, d2}
    Captured = {d1}
    NoDocument = NoDocument
    MaxRevision = 2
    MaxRestarts = 1
    \* ActivityStream
    ActivityKinds = {k1, k2}
    KindLimit = 2
    MaxQueue = 1
    MaxEvents = 3
    MaxStarts = 2
    MaxDaemonRestarts = 1
    \* CollaborationTasks
    Tasks = {t1, t2}
    Conversations = {c1, c2}
    Contents = {a}
    Pages = {p, q}
    Statuses = {"completed", "rejected"}
    Nobody = Nobody
    MaxItems = 5
    MaxAttempts = 2
    \* AgentLoop
    MaxBatch = 2
    MaxToolRounds = 3
    AutoContinue = FALSE
    RequestedEffect = TRUE
    FirstLimit <- Limits
    MaxExtensions = 1
    \* AdapterClient
    Calls = {w, r}
    WriteCalls = {w}
    MaxSockets = 3
    MaxTries = 2
    \* ArtifactStore
    small = small
    big = big
    Owners = {s1, s2}
    Blobs = {small}
    BlobSize <- BlobSizes
    OwnerCount = 1
    OwnerBytes = 2
    TotalCount = 2
    TotalBytes = 3
    MaxArtifacts = 3
    MaxStops = 1
    LateFailure = FALSE
    \* ExternalServer
    ToolCalls = {e1, e2}
    Harmless = {e1}
    Changes = {o1}
    MaxClients = 4
    MaxInvocations = 2
    \* ReleaseUpdate
    MaxReleases = 3
    MaxFaults = 3
    MaxCrashes = 2
    Windows = FALSE
    \* DebugTargets
    RootTarget = root
    ChildSessions = {i1, i2}
    Frames = {f1, f2}
    NoFrame = NoFrame
    MaxChildren = 1
    MaxTargetEvents = 4
    MaxRefreshes = 2
    SharedTab = FALSE
    \* DebuggerProxy
    Tabs = {x, y}
    Requests = {q1}
    NoTab = NoTab
    MaxSessions = 4
    Loops = {l1, l2}
    RestoreAttempts = 1
    MaxCalls = 1
    MaxDetaches = 1
    MaxMonitors = 1
    ManualDetach = TRUE
    \* BrowserWorkflow
    Length = 3
    Plans <- SmallPlans
    MaxNavigations = 1
    MaxFailures = 2
INVARIANTS
    ServicesTypeOK
    EvidenceOfTarget
    NoSilentGap
    OneOutcome
    EffectsWithinBudget
    CompletedIsBacked
    CallsOutliveLinks
    ArtifactsKept
    EffectsSentOnce
    InstallationKept
    TargetsAreSound
    ReportIsTrue
PROPERTIES
    NoCallAfterAbort
    SessionIsSound
\* Every service may come to its end: the release is installed, the calls are over.
CHECK_DEADLOCK FALSE
