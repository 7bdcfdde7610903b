\* Three tokens of three ticks, milliseconds of two, seconds of four.
SPECIFICATION UserSpec
CONSTANTS
    Cost = 3
    MaxTokens = 3
    Buffer = 2
    Milli = 2
    Second = 4
    MaxTime = 40
INVARIANTS
    WindowBound
    OneWarning
CHECK_DEADLOCK FALSE
