\* What the docs say of the pending interim text.
SPECIFICATION InterimSpec
CONSTANTS
    t1 = t1
    t2 = t2
    NoText = NoText
    Texts = {t1, t2}
    MinInterval = 2
INVARIANTS PendingIsLatest
CHECK_DEADLOCK FALSE
