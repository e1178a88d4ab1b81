----------------------------- MODULE MCArchive -----------------------------
(***************************************************************************)
(* Instances of Archive, UsageDashboard and AnonymousClients for TLC.      *)
(* Their variables are disjoint, and a behaviour is one of one of them.    *)
(***************************************************************************)
EXTENDS Archive, UsageDashboard, AnonymousClients

VARIABLE part   \* "faults", "segments", "dashboard", "clients"

allVars == <<archiveVars, dashboardVars, clientVars, part>>

MCInit == /\ ArchiveInit /\ DashboardInit /\ ClientInit
          /\ part \in {"faults", "segments", "dashboard", "clients"}

\* Request 1 exports, marks, searches or copies; request 2 is a view beside the first two.
Pairing ==
    /\ step'[1] # "idle" => op'[1] # "view"
    /\ step'[2] # "idle" => op'[2] = "view" /\ op'[1] \in {"export", "mark"}

\* Every fault, for an export, with one segment at most.
FaultsOnly ==
    /\ Pairing
    /\ op'[1] # "mark"
    /\ Len(segments') <= 1
    /\ \A i \in DOMAIN segments' : ~segments'[i].key /\ segments'[i].id = 1

\* No fault and no exception, with more segments.
SegmentsOnly ==
    /\ Pairing /\ ~Crash /\ ~ProviderError
    /\ lost' = {}
    /\ \A r \in Requests : step'[r] # "fail unavailable"
    /\ meeting' = "over" => \E e \in events' : e.type = "session_closed"
    /\ \A i \in DOMAIN segments' : i \notin DOMAIN segments => ~segments'[i].key

\* Two rows, of whichever table.
FewRows == Cardinality(meetings') + Cardinality(usage') <= 2

MCNext ==
    /\ UNCHANGED part
    /\ \/ /\ \/ part = "faults" /\ ArchiveNext /\ FaultsOnly
             \/ part = "segments" /\ ArchiveNext /\ SegmentsOnly
          /\ UNCHANGED <<dashboardVars, clientVars>>
       \/ /\ part = "dashboard" /\ DashboardNext /\ FewRows
          /\ UNCHANGED <<archiveVars, clientVars>>
       \/ /\ part = "clients" /\ ClientNext
          /\ UNCHANGED <<archiveVars, dashboardVars>>

MCSpec == MCInit /\ [][MCNext]_allVars

AnyArchiveFault == ArchiveFaultKinds

TypeOK == ArchiveTypeOK /\ ClientTypeOK
=============================================================================
