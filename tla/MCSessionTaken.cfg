CONSTANTS
    NumReplicas = 2
    Loops = {1, 2}
    NumRounds = 1
    MaxFailures = 0
    NoResult = NoResult
SPECIFICATION ReplSpec
INVARIANTS SessionAtHand
CHECK_DEADLOCK FALSE
