SPECIFICATION Spec
CONSTANTS
    MaxBody = 2
    MaxHeaders = 2
    READ_BUFFER_SIZE = 10
    SplitsBody = TRUE
INVARIANTS CompleteIsAnswered
CHECK_DEADLOCK FALSE
