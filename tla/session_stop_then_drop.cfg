\* session_stop, and the browser is gone before quota_update is sent.
SPECIFICATION Spec
CONSTANTS
    c1 = c1
    c2 = c2
    c3 = c3
    NoConn = NoConn
    Conns = {c1}
    MaxElapsed = 1
    Faults <- DropFaults
INVARIANTS ChargedOnce
\* A session that is settled and whose connections are used up is finished.
CHECK_DEADLOCK FALSE
