\* Two streams of two finals, with every fault but a resume that overtakes the former connection.
SPECIFICATION FairSpec
CONSTANTS
    NoFinal = NoFinal
    MaxStreams = 2
    MaxFinals = 2
    Faults <- Punctual
INVARIANTS TypeOK NothingForgotten ArchivedIsStored JobsAreFailedRows
PROPERTIES RowsInOrder EventuallyArchived
\* A closed session does nothing more.
CHECK_DEADLOCK FALSE
