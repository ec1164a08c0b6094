SPECIFICATION LoopSpec
CONSTANTS
    MaxBatch = 2
    MaxToolRounds = 3
    AutoContinue = FALSE
    RequestedEffect = TRUE
    FirstLimit <- Limits
    MaxExtensions = 1
INVARIANTS StopIsFinal
CHECK_DEADLOCK FALSE
