SPECIFICATION Spec
CONSTANTS
    MaxBody = 2
    MaxHeaders = 3
    READ_BUFFER_SIZE = 13
    SplitsBody = FALSE
INVARIANTS TypeOK NeverEarly CompleteIsAnswered
CHECK_DEADLOCK FALSE
