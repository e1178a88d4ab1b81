\* One connection and one resume; the speech-to-text stream may fail.
SPECIFICATION FairSpec
CONSTANTS
    c1 = c1
    c2 = c2
    c3 = c3
    NoConn = NoConn
    Conns = {c1, c2}
    MaxElapsed = 1
    Faults <- ProviderFaults
INVARIANTS NoOrphan SlotCoversRow ClosedMeansSettled
PROPERTIES AbandonedIsSettled
\* A session that is settled and whose connections are used up is finished.
CHECK_DEADLOCK FALSE
