SPECIFICATION LogViewSpec
CONSTANTS
    NL = NL
    CR = CR
    MaxCells = 2
    MaxLines = 1
    Window = 2
    Out = Out
    Err = Err
    MaxSize = 3
    MaxSwaps = 1
INVARIANTS
    ViewIsTheFile
    NeverBlank
CHECK_DEADLOCK FALSE
