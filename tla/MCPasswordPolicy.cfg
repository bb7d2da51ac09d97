CONSTANTS
    MinLength = 8
    MaxLength = 8
    Password <- MCPassword
    NULL = NULL
SPECIFICATION Spec
INVARIANT AcceptedIsLongEnough
CHECK_DEADLOCK FALSE
