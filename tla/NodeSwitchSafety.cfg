SPECIFICATION Spec
CONSTANTS
    l = l
    r1 = r1
    r2 = r2
    Nodes = {l, r1, r2}
    Local = l
    NULL = NULL
    SshAllowed = TRUE
    HealthModes <- AnyHealth
    ErrTexts <- AllTexts
    MaxParseFails = 2
    FailCap = 1
    StuckS = 0
    SilenceS = 1
    MaxSwitches = 2
SYMMETRY RemoteSymmetry
INVARIANTS
    StreamSafe
    ScreenIsTrue
PROPERTIES
    ImplementsNodeView
CHECK_DEADLOCK FALSE
