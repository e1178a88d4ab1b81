\* Two requests against a meeting of two segments; four local days, in two months; three calls.
SPECIFICATION MCSpec
CONSTANTS
    MaxRequests = 2
    MaxSegments = 2
    MaxTime = 2
    Retention = 2
    Ttl = 1
    Never = Never
    ArchiveFaults <- AnyArchiveFault
    c1 = c1
    c2 = c2
    Clients = {c1, c2}
    Hours = 2
    Offset = 1
    Days = 2
    AsrPrice = 1
    InputPrice = 10
    OutputPrice = 100
    MaxClock = 5
    MaxMeetings = 2
    MaxUsage = 2
    MaxWindow = 3
    k1 = k1
    k2 = k2
    k3 = k3
    Calls = {k1, k2, k3}
    DatabaseFails = TRUE
INVARIANTS TypeOK CompleteWhenEnded ObjectsAccounted UrlLivesAsAnnounced TimelineTruthful ReportIsExact ClientCreatedOnce
CHECK_DEADLOCK FALSE
