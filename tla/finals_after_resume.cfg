\* A resumed session whose second stream counts from 1 again.
SPECIFICATION Spec
CONSTANTS
    NoFinal = NoFinal
    MaxStreams = 2
    MaxFinals = 2
    Faults <- NoFaults
INVARIANTS EveryFinalArchived
\* A closed session does nothing more.
CHECK_DEADLOCK FALSE
