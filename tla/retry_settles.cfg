\* One worker, stopped and started again, settles two segments.
SPECIFICATION FairSpec
CONSTANTS
    s1 = s1
    s2 = s2
    w1 = w1
    w2 = w2
    NoSegment = NoSegment
    Segments = {s1, s2}
    Workers = {w1}
    MaxAttempts = 2
    MaxStops = 1
    Faults <- NoFaults
PROPERTIES JobSettles
\* With every segment settled the workers only poll, which changes nothing.
CHECK_DEADLOCK FALSE
