\* A conversion that throws ends the journey.
CHECK_DEADLOCK FALSE
CONSTANTS
    Widths = {2, 4, 8}
    Mid = 4
    Wide = 8
    Codes <- MCCodes
    Numbers <- MCNumbers
    Items <- MCItems
    MaxList = 2
    Reject = Reject
SPECIFICATION ConvertSpec
INVARIANTS
    EchoKept
    ScriptValueKept
    AnyKept
