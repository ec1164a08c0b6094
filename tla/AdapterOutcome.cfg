SPECIFICATION AdapterSpec
CONSTANTS
    Calls = {w, r}
    WriteCalls = {w}
    MaxSockets = 3
    MaxTries = 2
INVARIANTS LostWriteIsUnknown
CHECK_DEADLOCK FALSE
