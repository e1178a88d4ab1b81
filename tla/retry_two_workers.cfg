\* Two workers share two segments; one of them stops, crashes or dies.
SPECIFICATION Spec
CONSTANTS
    s1 = s1
    s2 = s2
    w1 = w1
    w2 = w2
    NoSegment = NoSegment
    Segments = {s1, s2}
    Workers = {w1, w2}
    MaxAttempts = 2
    MaxStops = 1
    Faults <- RestartFaults
SYMMETRY SegmentAndWorkerSymmetry
INVARIANTS TypeOK OneTranslator AttemptsBounded
PROPERTIES StatusFlow
\* With every segment settled the workers only poll, which changes nothing.
CHECK_DEADLOCK FALSE
