SPECIFICATION MetricsSpec
CONSTANTS
    Meters = {"procCpu", "cpu", "memory", "remote", "fabric", "nvlink", "attach"}
    Pids = {p1, p2, p3}
    Outside = init
    MaxTicks = 2
    Cpus = 2
    Confined = TRUE
    NoCeiling = NoCeiling
    Unset = Unset
    MaxBack = 1
    MinDt = 2
    MaxClock = 4
    MaxAge = 6
    MinWindow = 2
    MaxUnits = 4
    MaxMem = 3
    Alloc = 1
    Cap = 2
    NodeRam = 3
    CritNum = 9
    CritDen = 10
    WarnNum = 7
    WarnDen = 10
    MinInterval = 2
    s1 = s1
    s2 = s2
    Steps = {s1, s2}
    Tasks <- MCTasks
    Nodes = 2
    Ports = {i1, i2}
    Gpus = {g1, g2}
    Attempts = 2
    Devices = 2
INVARIANTS
    AccountSettles
    SampleIsWhole
    GpusAreTheJobs
PROPERTIES
    CpuIsTrue
    MemoryIsTrue
    NvLinkIsTrue
    FabricIsTrue
CHECK_DEADLOCK FALSE
