CONSTANTS
    MaxEvents = 5
    MaxTotal = 3
SPECIFICATION Spec
INVARIANTS EmittedOnce AllEmitted
CHECK_DEADLOCK FALSE
