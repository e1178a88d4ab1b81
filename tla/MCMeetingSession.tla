-------------------------- MODULE MCMeetingSession --------------------------
(* Instances of MeetingSession for TLC: which environment faults a run admits. *)
EXTENDS MeetingSession

EveryFault == FaultKinds
ProviderFaults == {"stt"}
LateResume == {"late"}
DropFaults == {"drop"}
=============================================================================
