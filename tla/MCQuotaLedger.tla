--------------------------- MODULE MCQuotaLedger ---------------------------
(* Instance of QuotaLedger for TLC: the sessions of the client are symmetric. *)
EXTENDS QuotaLedger, TLC

SessionSymmetry == Permutations(Sessions)
=============================================================================
