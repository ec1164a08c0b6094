\* A tool, and a tab that is closed while it executes.
SPECIFICATION SelectionSpec
CONSTANTS
    TabIds = {b1, b2}
    NoTab = NoTab
    TabEvents = {}
    Lent = {c1}
    Picks = {}
    Attempts = 2
    MaxFronts = 0
    MaxClosings = 1
    MaxStops = 0
INVARIANTS ActsOnItsTab
CHECK_DEADLOCK FALSE
