---------------------------- MODULE QuotaLedger ----------------------------
(***************************************************************************)
(* The Redis state of one client's quota (quota.py) under concurrent       *)
(* sessions: the sorted set of active sessions, whose scores are lease     *)
(* deadlines, and one used-seconds counter per day.  RedisQuotaStore runs  *)
(* several commands per operation and nothing is transactional, so one     *)
(* action is one Redis command.                                            *)
(*                                                                         *)
(* A session is what ws_sessions.py makes of the store: reserve at start,  *)
(* record the consumed seconds and then release at the end.  A session the *)
(* server loses (a crash, an orphaned state) never gets to the end.        *)
(***************************************************************************)
EXTENDS Integers, FiniteSets

CONSTANTS
    Sessions,     \* session ids of one client
    MaxActive,    \* max_active_sessions_per_client
    SessionMax,   \* session_max_seconds, the lease of a slot
    DailyFree,    \* daily_free_seconds
    DayLength,    \* ticks between two Shanghai midnights
    MaxTime       \* bound on the clock

ASSUME SessionsAssumption == IsFiniteSet(Sessions)
ASSUME LimitsAssumption ==
    MaxActive \in Nat \ {0} /\ SessionMax \in Nat \ {0} /\ DailyFree \in Nat
ASSUME ClockAssumption == DayLength \in Nat \ {0} /\ MaxTime \in Nat

VARIABLES
    now,       \* the clock
    stage,     \* stage[s]: the command session s is about to run
    stamp,     \* stamp[s]: the now argument of the store call s is in
    lease,     \* lease[s]: the score s added itself with
    begun,     \* begun[s]: active_started_at, or -1 before the first audio
    seen,      \* seen[s]: the used-seconds value s has read
    score,     \* the sorted set: score[s] is 0 when s is not a member
    used,      \* used[d]: the used-seconds counter of day d
    charged,   \* charged[d]: seconds passed to record_consumed_seconds on day d
    fuse,      \* the budget fuse key, or the estimated cost at the threshold
    overrun    \* some session outlived its lease (history)

vars == <<now, stage, stamp, lease, begun, seen, score, used, charged, fuse, overrun>>

Days == 0..(MaxTime \div DayLength)
Day(t) == t \div DayLength

Reserving == {"prune", "get_used", "count", "add", "recount", "back_out"}
Live == {"running", "get", "set", "release"}
Denied == {"denied_fuse", "denied_active", "denied_daily"}
Stages == {"idle", "done", "lost"} \cup Reserving \cup Live \cup Denied

TypeOK ==
    /\ now \in 0..MaxTime
    /\ stage \in [Sessions -> Stages]
    /\ stamp \in [Sessions -> 0..MaxTime]
    /\ lease \in [Sessions -> Nat]
    /\ begun \in [Sessions -> -1..MaxTime]
    /\ seen \in [Sessions -> Nat]
    /\ score \in [Sessions -> Nat]
    /\ used \in [Days -> Nat]
    /\ charged \in [Days -> Nat]
    /\ fuse \in BOOLEAN
    /\ overrun \in BOOLEAN

Init ==
    /\ now = 0
    /\ stage = [s \in Sessions |-> "idle"]
    /\ stamp = [s \in Sessions |-> 0]
    /\ lease = [s \in Sessions |-> 0]
    /\ begun = [s \in Sessions |-> -1]
    /\ seen = [s \in Sessions |-> 0]
    /\ score = [s \in Sessions |-> 0]
    /\ used = [d \in Days |-> 0]
    /\ charged = [d \in Days |-> 0]
    /\ fuse \in BOOLEAN
    /\ overrun = FALSE

Goto(s, next) == stage' = [stage EXCEPT ![s] = next]
Members == {s \in Sessions : score[s] # 0}

-----------------------------------------------------------------------------
(* reserve_active_session: get_snapshot, check_start, then add and recount. *)

Reserve(s) ==
    /\ stage[s] = "idle"
    /\ stamp' = [stamp EXCEPT ![s] = now]
    /\ Goto(s, "prune")
    /\ UNCHANGED <<now, lease, begun, seen, score, used, charged, fuse, overrun>>

\* ZREMRANGEBYSCORE -inf now.
Prune(s) ==
    /\ stage[s] = "prune"
    /\ score' = [q \in Sessions |-> IF score[q] <= stamp[s] THEN 0 ELSE score[q]]
    /\ Goto(s, "get_used")
    /\ UNCHANGED <<now, stamp, lease, begun, seen, used, charged, fuse, overrun>>

GetUsed(s) ==
    /\ stage[s] = "get_used"
    /\ seen' = [seen EXCEPT ![s] = used[Day(stamp[s])]]
    /\ Goto(s, "count")
    /\ UNCHANGED <<now, stamp, lease, begun, score, used, charged, fuse, overrun>>

\* ZCARD, the two budget keys, and QuotaPolicy.check_start: the fuse goes before
\* the active-session limit, that before the daily quota.
CheckStart(s) ==
    /\ stage[s] = "count"
    /\ Goto(s, IF fuse THEN "denied_fuse"
               ELSE IF Cardinality(Members) >= MaxActive THEN "denied_active"
               ELSE IF seen[s] >= DailyFree THEN "denied_daily"
               ELSE "add")
    /\ UNCHANGED <<now, stamp, lease, begun, seen, score, used, charged, fuse, overrun>>

\* ZADD with the lease deadline; the EXPIRE that follows outlasts every member.
Add(s) ==
    /\ stage[s] = "add"
    /\ lease' = [lease EXCEPT ![s] = stamp[s] + SessionMax]
    /\ score' = [score EXCEPT ![s] = stamp[s] + SessionMax]
    /\ Goto(s, "recount")
    /\ UNCHANGED <<now, stamp, begun, seen, used, charged, fuse, overrun>>

\* Mutant of Recount: the count of the start check is trusted.
RecountTrusting(s) ==
    /\ stage[s] = "recount"
    /\ Goto(s, "running")
    /\ UNCHANGED <<now, stamp, lease, begun, seen, score, used, charged, fuse, overrun>>

Recount(s) ==
    /\ stage[s] = "recount"
    /\ Goto(s, IF Cardinality(Members) > MaxActive THEN "back_out" ELSE "running")
    /\ UNCHANGED <<now, stamp, lease, begun, seen, score, used, charged, fuse, overrun>>

\* Mutant of BackOut: the member added too many is left in the set.
BackOutLeaving(s) ==
    /\ stage[s] = "back_out"
    /\ Goto(s, "denied_active")
    /\ UNCHANGED <<now, stamp, lease, begun, seen, score, used, charged, fuse, overrun>>

BackOut(s) ==
    /\ stage[s] = "back_out"
    /\ score' = [score EXCEPT ![s] = 0]
    /\ Goto(s, "denied_active")
    /\ UNCHANGED <<now, stamp, lease, begun, seen, used, charged, fuse, overrun>>

-----------------------------------------------------------------------------
(* The session, and its settlement.                                         *)

FirstAudio(s) ==
    /\ stage[s] = "running"
    /\ begun[s] = -1
    /\ begun' = [begun EXCEPT ![s] = now]
    /\ UNCHANGED <<now, stage, stamp, lease, seen, score, used, charged, fuse, overrun>>

\* Without a second of audio record_consumed_seconds is not called at all.
Finish(s) ==
    /\ stage[s] = "running"
    /\ stamp' = [stamp EXCEPT ![s] = now]
    /\ Goto(s, IF begun[s] = -1 \/ begun[s] = now THEN "release" ELSE "get")
    /\ UNCHANGED <<now, lease, begun, seen, score, used, charged, fuse, overrun>>

RecordGet(s) ==
    /\ stage[s] = "get"
    /\ seen' = [seen EXCEPT ![s] = used[Day(stamp[s])]]
    /\ Goto(s, "set")
    /\ UNCHANGED <<now, stamp, lease, begun, score, used, charged, fuse, overrun>>

Capped(n) == IF n < DailyFree THEN n ELSE DailyFree

\* Mutants of RecordSet: the seconds are subtracted, or replace the counter.
RecordSetSubtracting(s) ==
    LET seconds == IF stamp[s] > begun[s] THEN stamp[s] - begun[s] ELSE 0 IN
    /\ stage[s] = "set"
    /\ used' = [used EXCEPT ![Day(stamp[s])] = Capped(seen[s] - seconds)]
    /\ charged' = [charged EXCEPT ![Day(stamp[s])] = @ + seconds]
    /\ Goto(s, "release")
    /\ UNCHANGED <<now, stamp, lease, begun, seen, score, fuse, overrun>>

RecordSetReplacing(s) ==
    LET seconds == IF stamp[s] > begun[s] THEN stamp[s] - begun[s] ELSE 0 IN
    /\ stage[s] = "set"
    /\ used' = [used EXCEPT ![Day(stamp[s])] = Capped(seconds)]
    /\ charged' = [charged EXCEPT ![Day(stamp[s])] = @ + seconds]
    /\ Goto(s, "release")
    /\ UNCHANGED <<now, stamp, lease, begun, seen, score, fuse, overrun>>

RecordSet(s) ==
    LET seconds == IF stamp[s] > begun[s] THEN stamp[s] - begun[s] ELSE 0 IN
    /\ stage[s] = "set"
    /\ used' = [used EXCEPT ![Day(stamp[s])] = Capped(seen[s] + seconds)]
    /\ charged' = [charged EXCEPT ![Day(stamp[s])] = @ + seconds]
    /\ Goto(s, "release")
    /\ UNCHANGED <<now, stamp, lease, begun, seen, score, fuse, overrun>>

\* Mutant of Release: the member of an ended session is left to its lease.
ReleaseByLease(s) ==
    /\ stage[s] = "release"
    /\ Goto(s, "done")
    /\ UNCHANGED <<now, stamp, lease, begun, seen, score, used, charged, fuse, overrun>>

Release(s) ==
    /\ stage[s] = "release"
    /\ score' = [score EXCEPT ![s] = 0]
    /\ Goto(s, "done")
    /\ UNCHANGED <<now, stamp, lease, begun, seen, used, charged, fuse, overrun>>

\* The server crashes or drops the session: its member stays until a prune.
Lose(s) ==
    /\ stage[s] \in Live \cup {"recount", "back_out"}
    /\ Goto(s, "lost")
    /\ UNCHANGED <<now, stamp, lease, begun, seen, score, used, charged, fuse, overrun>>

\* Nothing stops a session at session_max_seconds: the clock runs on.
Tick ==
    /\ now < MaxTime
    /\ now' = now + 1
    /\ overrun' = (overrun \/ \E s \in Sessions : stage[s] \in Live /\ lease[s] <= now + 1)
    /\ UNCHANGED <<stage, stamp, lease, begun, seen, score, used, charged, fuse>>

ReserveStep(s) == \/ Prune(s) \/ GetUsed(s) \/ CheckStart(s) \/ Add(s) \/ Recount(s)
                  \/ BackOut(s)
SettleStep(s) == RecordGet(s) \/ RecordSet(s) \/ Release(s)

Next ==
    \/ \E s \in Sessions : \/ Reserve(s) \/ ReserveStep(s) \/ FirstAudio(s) \/ Finish(s)
                           \/ SettleStep(s) \/ Lose(s)
    \/ Tick

Spec == Init /\ [][Next]_vars

-----------------------------------------------------------------------------
(* Properties.                                                              *)

(* At most MaxActive sessions hold an unexpired lease, however the commands *)
(* of concurrent starts interleave: adding first and counting afterwards is *)
(* what makes the check safe, and pruning never takes an unexpired member.  *)
Holding == {s \in Sessions : stage[s] \in Live /\ lease[s] > now}
LeaseLimit == Cardinality(Holding) <= MaxActive

(* A session with an unexpired lease is still a member, and a start that    *)
(* was denied has left no member behind.                                    *)
MembershipExact ==
    \A s \in Sessions : /\ s \in Holding => score[s] # 0
                        /\ stage[s] \in Denied => score[s] = 0

(* While no session outlives its lease, a limit of one session makes the    *)
(* GET and SET of record_consumed_seconds a safe read-modify-write: the     *)
(* counter is the capped sum of everything charged that day.                *)
NoLostCharge ==
    MaxActive = 1 /\ ~overrun => \A d \in Days : used[d] = Capped(charged[d])

(* What the product requirements say: a client never has more than          *)
(* max_active_sessions_per_client meetings under way.                       *)
ConcurrencyLimit ==
    Cardinality({s \in Sessions : stage[s] \in Live}) <= MaxActive

(* A start is refused for the active limit at its first count only because  *)
(* another session of the client is live, starting, or was lost: a session  *)
(* that was stopped never blocks the next one.                              *)
DenialJustified ==
    [][\A s \in Sessions : stage[s] = "count" /\ stage'[s] = "denied_active" =>
          \E q \in Sessions \ {s} : /\ score[q] # 0
                                   /\ stage[q] \in Live \cup {"recount", "back_out", "lost"}]_vars
=============================================================================
