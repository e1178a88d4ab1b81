------------------------- MODULE MCFinalTranslation -------------------------
(* Instances of FinalTranslation for TLC: which faults a run admits.         *)
EXTENDS FinalTranslation

\* Every fault of the program's surroundings, but a resume waits for the tasks of the
\* connection before.
Punctual == FaultKinds \ {"early"}
NoFaults == {}
=============================================================================
