SPECIFICATION ServicesSpec
CONSTANTS
    None = None
    p1 = p1
    p2 = p2
    u1 = u1
    u2 = u2
    u3 = u3
    o1 = o1
    o2 = o2
    o3 = o3
    k1 = k1
    k2 = k2
    day = day
    video = video
    article = article
    Calls = {u1, u2, u3}
    Owners = {o1, o2, o3}
    OwnerOf <- Callers
    Keys = {k1, k2}
    Processes = {p1, p2}
    Slot <- SlotOf
    Content <- ContentOf
    TotalLimit = 2
    Collectors = {p1, p2}
    Auths = {a1, a2}
    Effect = {a2}
    MaxRetries = 1
    Releases = {r0, r1}
    First = r0
    MaxRuns = 2
    MaxFaults = 1
    Reconcilers = {j1, j2}
    MaxDelay = 4
    Sums = {s1, s2}
    MaxDocs = 3
    Deliveries = {d1, d2, d3}
    LeaseTtl = 2
    Retention = 3
    Handlers = {h1, h2}
    MaxAutomaticRetries = 1
SYMMETRY EqualProcesses
CHECK_DEADLOCK FALSE
INVARIANT AllTypesOK NoMistakeNoLoss Traceable OneReader OneTrueSnapshot PausedBeforeVerified OneRunInTime RollbackKept OneHandler OneDocument DeliveredIsTrue WakeKept RetryAfterFailure
PROPERTY PublishesOnce HardStopIsFinal
