\* Each part on an instance of its own; the bounds are explained in README.md.
SPECIFICATION StorageSpec
CONSTANTS
    \* StateStore
    e1 = e1
    e2 = e2
    Events = {e1, e2}
    BestEffort = {e2}
    MaxEvents = 1
    MaxBrowser = 1
    MaxFlushes = 10
    MaxFailures = 1
    MaxCrashes = 1
    \* TargetSelection
    b1 = b1
    b2 = b2
    TabIds = {b1, b2}
    NoTab = NoTab
    TabEvents = {v1}
    Lent = {c1}
    k1 = k1
    k2 = k2
    Picks = {k1, k2}
    Attempts = 2
    MaxFronts = 1
    MaxClosings = 1
    MaxStops = 1
    MaxFaults = 2
INVARIANTS
    AcknowledgedIsDurable
    SelectionIsTheUsers
    StrayedOnlyIfGone
PROPERTIES
    NeverGoesBack
    ChangesReachDisk
\* The daemon may have been told to stop, and every call may be over.
CHECK_DEADLOCK FALSE
