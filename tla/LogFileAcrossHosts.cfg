SPECIFICATION Spec
CONSTANTS
    t1 = t1
    t2 = t2
    a1 = a1
    a2 = a2
    h1 = h1
    h2 = h2
    old = old
    narrow = narrow
    wide = wide
    Runs = {t2, a1}
    Appends = {a1}
    Hosts = {h1, h2}
    HostOf <- TwoHosts
    Layouts = {narrow, wide}
    LayoutOf <- TwoLayouts
    Old = old
    NULL = NULL
    Existing <- FreshOrResumed
    MaxRecords = 1
PROPERTIES
    RecordingSeenAcrossHosts
CHECK_DEADLOCK FALSE
