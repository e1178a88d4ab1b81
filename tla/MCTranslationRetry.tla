------------------------- MODULE MCTranslationRetry -------------------------
(* Instances of TranslationRetry for TLC: which faults a run admits.         *)
EXTENDS TranslationRetry, TLC

NoFaults == {}
CrashFaults == {"crash"}
RestartFaults == {"crash", "io"}

SegmentAndWorkerSymmetry == Permutations(Segments) \cup Permutations(Workers)
=============================================================================
