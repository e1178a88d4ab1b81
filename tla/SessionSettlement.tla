------------------------- MODULE SessionSettlement -------------------------
(***************************************************************************)
(* What a meeting session promises its client, in one step each: it takes  *)
(* the client's slot, and when it ends it gives the slot back, bills the   *)
(* daily quota and writes the same number of seconds to its row - once.    *)
(* MeetingSession implements this as long as one task settles.             *)
(***************************************************************************)
EXTENDS Naturals

CONSTANT MaxElapsed   \* bound on the seconds a session is billed

VARIABLES
    phase,      \* "none", "held" (the slot is taken) or "settled"
    billed,     \* seconds added to the daily quota once settled
    recorded    \* quota_seconds_consumed of the row once settled

settlementVars == <<phase, billed, recorded>>

SettlementInit == phase = "none" /\ billed = 0 /\ recorded = 0

Take ==
    /\ phase = "none"
    /\ phase' = "held"
    /\ UNCHANGED <<billed, recorded>>

\* The row could not be created: the slot is given back, nothing is billed.
GiveUp ==
    /\ phase = "held"
    /\ phase' = "none"
    /\ UNCHANGED <<billed, recorded>>

Settle ==
    /\ phase = "held"
    /\ phase' = "settled"
    /\ billed' \in 0..MaxElapsed
    /\ recorded' = billed'

SettlementNext == Take \/ GiveUp \/ Settle

SettlementSpec == SettlementInit /\ [][SettlementNext]_settlementVars
=============================================================================
