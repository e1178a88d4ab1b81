\* Three connections, none of which fails; a resume may come too late.
SPECIFICATION Spec
CONSTANTS
    c1 = c1
    c2 = c2
    c3 = c3
    NoConn = NoConn
    Conns = {c1, c2, c3}
    MaxElapsed = 2
    Faults <- LateResume
INVARIANTS ChargedOnce
PROPERTIES SettledIsFinal SettlesOnce
\* A session that is settled and whose connections are used up is finished.
CHECK_DEADLOCK FALSE
