-------------------------- MODULE AnonymousClients --------------------------
(***************************************************************************)
(* Calls of initialize_client for one client id (anonymous_clients.py),    *)
(* which a browser makes whenever a page is opened: the row is looked for, *)
(* inserted or updated, and a new client is recorded.                      *)
(***************************************************************************)
EXTENDS Naturals

CONSTANTS
    Calls,
    DatabaseFails    \* the database or the recorder may raise

ASSUME FailAssumption == DatabaseFails \in BOOLEAN

VARIABLES
    known,     \* the anonymous_client row of the id exists
    call,      \* what a call does next
    created    \* calls whose client_created event is stored

clientVars == <<known, call, created>>

CallSteps == {"idle", "absent", "present", "record", "new", "returning", "error"}

ClientTypeOK ==
    /\ known \in BOOLEAN
    /\ call \in [Calls -> CallSteps]
    /\ created \subseteq Calls

ClientInit ==
    /\ known = FALSE
    /\ call = [k \in Calls |-> "idle"]
    /\ created = {}

Step(k, from, to) == call[k] = from /\ call' = [call EXCEPT ![k] = to]

SelectClient(k) ==
    /\ Step(k, "idle", IF known THEN "present" ELSE "absent")
    /\ UNCHANGED <<known, created>>

\* Mutant of InsertClient: a row that has come in between is taken for the call's own.
InsertClientAgain(k) ==
    /\ Step(k, "absent", "record")
    /\ known' = TRUE
    /\ UNCHANGED created

\* The unique client_id makes the second of two concurrent inserts raise.
InsertClient(k) ==
    /\ Step(k, "absent", IF known THEN "error" ELSE "record")
    /\ known' = TRUE
    /\ UNCHANGED created

\* last_seen_at and the hash of the user agent.
UpdateClient(k) ==
    /\ Step(k, "present", "returning")
    /\ UNCHANGED <<known, created>>

RecordCreated(k) ==
    /\ Step(k, "record", "new")
    /\ \/ created' = created \cup {k}
       \/ DatabaseFails /\ UNCHANGED created
    /\ UNCHANGED known

CallFails(k) ==
    /\ DatabaseFails
    /\ \E from \in {"idle", "absent", "present"} : Step(k, from, "error")
    /\ UNCHANGED <<known, created>>

ClientNext == \E k \in Calls : \/ SelectClient(k) \/ InsertClient(k) \/ UpdateClient(k)
                               \/ RecordCreated(k) \/ CallFails(k)

ClientSpec == ClientInit /\ [][ClientNext]_clientVars

(* However many pages are opened at once, one call at most makes the client *)
(* and is told that it is new, its creation is on record at most once, and  *)
(* what is on record is a client that exists: the first-use funnel counts   *)
(* browsers, not page loads.                                                *)
ClientCreatedOnce ==
    /\ \A k, l \in Calls : call[k] \in {"record", "new"} /\ call[l] \in {"record", "new"} => k = l
    /\ \A k \in created : call[k] = "new" /\ known
=============================================================================
