\* One connection and one resume, with every fault of the environment.
SPECIFICATION Spec
CONSTANTS
    c1 = c1
    c2 = c2
    c3 = c3
    NoConn = NoConn
    Conns = {c1, c2}
    MaxElapsed = 1
    Faults <- EveryFault
INVARIANTS TypeOK SoleOwner
\* A session that is settled and whose connections are used up is finished.
CHECK_DEADLOCK FALSE
