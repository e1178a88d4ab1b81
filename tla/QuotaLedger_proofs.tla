------------------------- MODULE QuotaLedger_proofs -------------------------
(***************************************************************************)
(* Theorems about QuotaLedger, for every finite set of sessions and every  *)
(* value of the limits.                                                    *)
(***************************************************************************)
EXTENDS QuotaLedger, FiniteSetTheorems, TLAPS

(* The inductive strengthening of LeaseLimit: a call's time stamp is never  *)
(* ahead of the clock, and a session past its ZADD is still a member with   *)
(* the score it added, or was pruned after that score had passed.           *)
StampInPast == \A s \in Sessions : stamp[s] <= now
LeaseHeld == \A s \in Sessions : stage[s] \in Live \cup {"recount", "back_out"} =>
    /\ lease[s] > 0
    /\ score[s] = lease[s] \/ (score[s] = 0 /\ lease[s] <= now)

LeaseInv == StampInPast /\ LeaseHeld /\ LeaseLimit

USE SessionsAssumption, LimitsAssumption, ClockAssumption

LEMMA SessionSubset ==
    ASSUME NEW S \in SUBSET Sessions, NEW T \in SUBSET S
    PROVE  /\ IsFiniteSet(S) /\ Cardinality(S) \in Nat
           /\ Cardinality(T) \in Nat /\ Cardinality(T) <= Cardinality(S)
  BY FS_Subset, FS_CardinalityType

LEMMA DayInRange == \A t \in 0..MaxTime : Day(t) \in Days
  BY DEF Day, Days

LEMMA TypeInit == Init => TypeOK
  <1> SUFFICES ASSUME Init PROVE TypeOK
    OBVIOUS
  <1>1. fuse \in BOOLEAN /\ overrun \in BOOLEAN
    BY Zenon DEF Init
  <1>2. QED
    BY <1>1 DEF Init, TypeOK, Stages

LEMMA TypeStep == TypeOK /\ [Next]_vars => TypeOK'
  <1> SUFFICES ASSUME TypeOK, [Next]_vars PROVE TypeOK'
    OBVIOUS
  <1> USE DEF TypeOK, Goto, Stages, Reserving, Live, Denied
  <1>1. ASSUME NEW s \in Sessions, Reserve(s) PROVE TypeOK'
    BY <1>1 DEF Reserve
  <1>2. ASSUME NEW s \in Sessions, Prune(s) PROVE TypeOK'
    BY <1>2 DEF Prune
  <1>3. ASSUME NEW s \in Sessions, GetUsed(s) PROVE TypeOK'
    BY <1>3, DayInRange DEF GetUsed
  <1>4. ASSUME NEW s \in Sessions, CheckStart(s) PROVE TypeOK'
    BY <1>4 DEF CheckStart
  <1>5. ASSUME NEW s \in Sessions, Add(s) PROVE TypeOK'
    BY <1>5 DEF Add
  <1>6. ASSUME NEW s \in Sessions, Recount(s) PROVE TypeOK'
    BY <1>6 DEF Recount
  <1>7. ASSUME NEW s \in Sessions, BackOut(s) PROVE TypeOK'
    BY <1>7 DEF BackOut
  <1>8. ASSUME NEW s \in Sessions, FirstAudio(s) PROVE TypeOK'
    BY <1>8 DEF FirstAudio
  <1>9. ASSUME NEW s \in Sessions, Finish(s) PROVE TypeOK'
    BY <1>9 DEF Finish
  <1>10. ASSUME NEW s \in Sessions, RecordGet(s) PROVE TypeOK'
    BY <1>10, DayInRange DEF RecordGet
  <1>11. ASSUME NEW s \in Sessions, RecordSet(s) PROVE TypeOK'
    BY <1>11, DayInRange DEF RecordSet, Capped
  <1>12. ASSUME NEW s \in Sessions, Release(s) PROVE TypeOK'
    BY <1>12 DEF Release
  <1>13. ASSUME NEW s \in Sessions, Lose(s) PROVE TypeOK'
    BY <1>13 DEF Lose
  <1>14. CASE Tick
    BY <1>14 DEF Tick
  <1>15. CASE UNCHANGED vars
    BY <1>15 DEF vars
  <1>16. QED
    BY <1>1, <1>2, <1>3, <1>4, <1>5, <1>6, <1>7, <1>8, <1>9, <1>10, <1>11, <1>12, <1>13, <1>14, <1>15 DEF Next, ReserveStep, SettleStep

(* Every variable keeps its type.                                           *)
THEOREM TypeCorrect == Spec => []TypeOK
  <1>1. QED
    BY TypeInit, TypeStep, PTL DEF Spec

-----------------------------------------------------------------------------
(* The lease limit.                                                         *)

LEMMA LeaseInit == Init => LeaseInv
  <1> SUFFICES ASSUME Init PROVE LeaseInv
    OBVIOUS
  <1>1. Holding = {}
    BY DEF Init, Holding, Live
  <1>2. QED
    BY <1>1, FS_EmptySet DEF Init, LeaseInv, StampInPast, LeaseHeld, LeaseLimit, Live

(* A step that admits nobody keeps the limit.                               *)
LEMMA FewerHolders == LeaseLimit /\ Holding' \subseteq Holding => LeaseLimit'
  <1>1. Holding \in SUBSET Sessions
    BY DEF Holding
  <1>2. QED
    BY <1>1, SessionSubset DEF LeaseLimit

LEMMA LeaseStep == TypeOK /\ LeaseInv /\ [Next]_vars => LeaseInv'
  <1> SUFFICES ASSUME TypeOK, LeaseInv, [Next]_vars PROVE LeaseInv'
    OBVIOUS
  <1> USE DEF TypeOK, LeaseInv, StampInPast, LeaseHeld, Goto, Stages, Reserving, Live, Denied
  <1>1. ASSUME NEW s \in Sessions, Reserve(s) PROVE LeaseInv'
    <2>1. Holding' \subseteq Holding
      BY <1>1 DEF Reserve, Holding
    <2>2. QED
      BY <1>1, <2>1, FewerHolders DEF Reserve
  <1>2. ASSUME NEW s \in Sessions, Prune(s) PROVE LeaseInv'
    <2>1. Holding' \subseteq Holding
      BY <1>2 DEF Prune, Holding
    <2>2. QED
      BY <1>2, <2>1, FewerHolders DEF Prune
  <1>3. ASSUME NEW s \in Sessions, GetUsed(s) PROVE LeaseInv'
    <2>1. Holding' \subseteq Holding
      BY <1>3 DEF GetUsed, Holding
    <2>2. QED
      BY <1>3, <2>1, FewerHolders DEF GetUsed
  <1>4. ASSUME NEW s \in Sessions, CheckStart(s) PROVE LeaseInv'
    <2>1. Holding' \subseteq Holding
      BY <1>4 DEF CheckStart, Holding
    <2>2. QED
      BY <1>4, <2>1, FewerHolders DEF CheckStart
  <1>5. ASSUME NEW s \in Sessions, Add(s) PROVE LeaseInv'
    <2>1. Holding' \subseteq Holding
      BY <1>5 DEF Add, Holding
    <2>2. QED
      BY <1>5, <2>1, FewerHolders DEF Add
  <1>6. ASSUME NEW s \in Sessions, Recount(s) PROVE LeaseInv'
    <2>1. Members \in SUBSET Sessions /\ IsFiniteSet(Members)
      BY FS_Subset DEF Members
    <2>2. CASE lease[s] > now /\ Cardinality(Members) <= MaxActive
      <3>1. Holding' \subseteq Members
        BY <1>6, <2>2 DEF Recount, Holding, Members
      <3>2. QED
        BY <1>6, <2>1, <2>2, <3>1, SessionSubset DEF Recount, LeaseLimit
    <2>3. CASE ~(lease[s] > now /\ Cardinality(Members) <= MaxActive)
      <3>1. Cardinality(Members) \in Nat
        BY <2>1, FS_CardinalityType
      <3>2. Holding' \subseteq Holding
        BY <1>6, <2>3, <3>1 DEF Recount, Holding
      <3>3. QED
        BY <1>6, <3>2, FewerHolders DEF Recount
    <2>4. QED
      BY <2>2, <2>3
  <1>7. ASSUME NEW s \in Sessions, BackOut(s) PROVE LeaseInv'
    <2>1. Holding' \subseteq Holding
      BY <1>7 DEF BackOut, Holding
    <2>2. QED
      BY <1>7, <2>1, FewerHolders DEF BackOut
  <1>8. ASSUME NEW s \in Sessions, FirstAudio(s) PROVE LeaseInv'
    <2>1. Holding' \subseteq Holding
      BY <1>8 DEF FirstAudio, Holding
    <2>2. QED
      BY <1>8, <2>1, FewerHolders DEF FirstAudio
  <1>9. ASSUME NEW s \in Sessions, Finish(s) PROVE LeaseInv'
    <2>1. Holding' \subseteq Holding
      BY <1>9 DEF Finish, Holding
    <2>2. QED
      BY <1>9, <2>1, FewerHolders DEF Finish
  <1>10. ASSUME NEW s \in Sessions, RecordGet(s) PROVE LeaseInv'
    <2>1. Holding' \subseteq Holding
      BY <1>10 DEF RecordGet, Holding
    <2>2. QED
      BY <1>10, <2>1, FewerHolders DEF RecordGet
  <1>11. ASSUME NEW s \in Sessions, RecordSet(s) PROVE LeaseInv'
    <2>1. Holding' \subseteq Holding
      BY <1>11 DEF RecordSet, Holding
    <2>2. QED
      BY <1>11, <2>1, FewerHolders DEF RecordSet
  <1>12. ASSUME NEW s \in Sessions, Release(s) PROVE LeaseInv'
    <2>1. Holding' \subseteq Holding
      BY <1>12 DEF Release, Holding
    <2>2. QED
      BY <1>12, <2>1, FewerHolders DEF Release
  <1>13. ASSUME NEW s \in Sessions, Lose(s) PROVE LeaseInv'
    <2>1. Holding' \subseteq Holding
      BY <1>13 DEF Lose, Holding
    <2>2. QED
      BY <1>13, <2>1, FewerHolders DEF Lose
  <1>14. CASE Tick
    <2>1. Holding' \subseteq Holding
      BY <1>14 DEF Tick, Holding
    <2>2. QED
      BY <1>14, <2>1, FewerHolders DEF Tick
  <1>15. CASE UNCHANGED vars
    <2>1. Holding' \subseteq Holding
      BY <1>15 DEF vars, Holding
    <2>2. QED
      BY <1>15, <2>1, FewerHolders DEF vars
  <1>16. QED
    BY <1>1, <1>2, <1>3, <1>4, <1>5, <1>6, <1>7, <1>8, <1>9, <1>10, <1>11, <1>12, <1>13, <1>14, <1>15 DEF Next, ReserveStep, SettleStep

(* However the Redis commands of concurrent starts interleave, at most      *)
(* MaxActive sessions hold an unexpired lease.                              *)
THEOREM LeaseLimitHolds == Spec => []LeaseLimit
  <1>1. Spec => []LeaseInv
    BY TypeCorrect, LeaseInit, LeaseStep, PTL DEF Spec
  <1>2. LeaseInv => LeaseLimit
    BY DEF LeaseInv
  <1>3. QED
    BY <1>1, <1>2, PTL

-----------------------------------------------------------------------------
(* Members of the sorted set.                                               *)

(* Only a session between its ZADD and its ZREM, or one that was lost in    *)
(* between, is a member.                                                    *)
MemberStages == Live \cup {"recount", "back_out", "lost"}
NoStrayMember == \A s \in Sessions : score[s] # 0 => stage[s] \in MemberStages

LEMMA StrayInit == Init => NoStrayMember
  BY DEF Init, NoStrayMember

LEMMA StrayStep == TypeOK /\ NoStrayMember /\ [Next]_vars => NoStrayMember'
  <1> SUFFICES ASSUME TypeOK, NoStrayMember, [Next]_vars PROVE NoStrayMember'
    OBVIOUS
  <1> USE DEF TypeOK, NoStrayMember, MemberStages, Goto, Live
  <1>1. ASSUME NEW s \in Sessions, Reserve(s) \/ FirstAudio(s) \/ Finish(s) \/ Lose(s)
        PROVE NoStrayMember'
    BY <1>1 DEF Reserve, FirstAudio, Finish, Lose
  <1>2. ASSUME NEW s \in Sessions, Prune(s) \/ GetUsed(s) \/ CheckStart(s) PROVE NoStrayMember'
    BY <1>2 DEF Prune, GetUsed, CheckStart
  <1>3. ASSUME NEW s \in Sessions, Add(s) \/ Recount(s) \/ BackOut(s) PROVE NoStrayMember'
    BY <1>3 DEF Add, Recount, BackOut
  <1>4. ASSUME NEW s \in Sessions, RecordGet(s) \/ RecordSet(s) \/ Release(s) PROVE NoStrayMember'
    BY <1>4 DEF RecordGet, RecordSet, Release
  <1>5. CASE Tick \/ UNCHANGED vars
    BY <1>5 DEF Tick, vars
  <1>6. QED
    BY <1>1, <1>2, <1>3, <1>4, <1>5 DEF Next, ReserveStep, SettleStep

LEMMA NoStray == Spec => []NoStrayMember
  BY TypeCorrect, StrayInit, StrayStep, PTL DEF Spec

(* No prune ever takes a member with an unexpired lease, and whichever of   *)
(* the checks denies a start, nothing of it stays in the set.               *)
THEOREM MembershipExactHolds == Spec => []MembershipExact
  <1>1. TypeOK /\ LeaseInv /\ NoStrayMember => MembershipExact
    BY DEF TypeOK, LeaseInv, LeaseHeld, NoStrayMember, MemberStages, MembershipExact, Holding,
           Live, Denied
  <1>2. Spec => []LeaseInv
    BY TypeCorrect, LeaseInit, LeaseStep, PTL DEF Spec
  <1>3. QED
    BY <1>1, <1>2, TypeCorrect, NoStray, PTL

(* A start refused at its first count has found another session of the      *)
(* client in the set, one that is live, starting, or was lost.              *)
LEMMA DenialStep ==
    ASSUME TypeOK, NoStrayMember, [Next]_vars, NEW s \in Sessions,
           stage[s] = "count", stage'[s] = "denied_active"
    PROVE  \E q \in Sessions \ {s} : /\ score[q] # 0
                                     /\ stage[q] \in MemberStages
  <1> USE DEF TypeOK, Goto
  <1>1. CheckStart(s)
    <2>1. ASSUME NEW q \in Sessions, Reserve(q) \/ FirstAudio(q) \/ Finish(q) \/ Lose(q) PROVE FALSE
      BY <2>1 DEF Reserve, FirstAudio, Finish, Lose, Live
    <2>2. ASSUME NEW q \in Sessions, Prune(q) \/ GetUsed(q) \/ Add(q) \/ Recount(q) \/ BackOut(q)
          PROVE FALSE
      BY <2>2 DEF Prune, GetUsed, Add, Recount, BackOut
    <2>3. ASSUME NEW q \in Sessions, RecordGet(q) \/ RecordSet(q) \/ Release(q) PROVE FALSE
      BY <2>3 DEF RecordGet, RecordSet, Release
    <2>4. ASSUME NEW q \in Sessions, CheckStart(q) PROVE q = s
      BY <2>4 DEF CheckStart
    <2>5. ~(Tick \/ UNCHANGED vars)
      BY DEF Tick, vars
    <2>6. QED
      BY <2>1, <2>2, <2>3, <2>4, <2>5 DEF Next, ReserveStep, SettleStep
  <1>2. Cardinality(Members) >= MaxActive
    BY <1>1 DEF CheckStart
  <1>3. Members # {}
    BY <1>2, FS_EmptySet
  <1>4. PICK q \in Sessions : score[q] # 0
    BY <1>3 DEF Members
  <1>5. q # s /\ stage[q] \in MemberStages
    BY <1>4 DEF NoStrayMember, MemberStages, Live
  <1>6. QED
    BY <1>4, <1>5

Justified == \A s \in Sessions : stage[s] = "count" /\ stage'[s] = "denied_active" =>
    \E q \in Sessions \ {s} : /\ score[q] # 0
                             /\ stage[q] \in Live \cup {"recount", "back_out", "lost"}

(* A client whose meetings were all stopped is never refused.               *)
THEOREM DenialJustifiedHolds == Spec => DenialJustified
  <1>1. TypeOK /\ NoStrayMember /\ [Next]_vars => [Justified]_vars
    BY DenialStep DEF Justified, MemberStages
  <1>2. DenialJustified <=> [][Justified]_vars
    BY PTL DEF DenialJustified, Justified
  <1>3. QED
    BY <1>1, <1>2, TypeCorrect, NoStray, PTL DEF Spec

-----------------------------------------------------------------------------
(* The daily counter.                                                       *)

(* Inductive, for a limit of one: as long as no session has outlived its    *)
(* lease, a session that is charging holds an unexpired one, for otherwise  *)
(* it was admitted after its lease had run out and has lasted no second.    *)
(* So nobody else charges between its GET and its SET.                      *)
NotBegun == \A s \in Sessions : stage[s] \in {"idle"} \cup Reserving => begun[s] = -1
ChargesInLease == \A s \in Sessions : stage[s] \in Live =>
    \/ lease[s] > now
    \/ stage[s] \in {"running", "release"} /\ begun[s] \in {-1, now}
ReadIsFresh == \A s \in Sessions : stage[s] = "set" => seen[s] = used[Day(stamp[s])]
CounterExact == \A d \in Days : used[d] = Capped(charged[d])

ChargeInv ==
    NotBegun /\ (MaxActive = 1 /\ ~overrun => ChargesInLease /\ ReadIsFresh /\ CounterExact)

LEMMA SoleHolder ==
    ASSUME LeaseLimit, MaxActive = 1, NEW s \in Holding, NEW q \in Holding PROVE s = q
  <1>1. Holding \in SUBSET Sessions
    BY DEF Holding
  <1>2. ASSUME s # q PROVE FALSE
    <2>1. Cardinality({s}) = 1 /\ IsFiniteSet({s})
      BY FS_Singleton
    <2>2. Cardinality({s} \cup {q}) = 2
      <3>1. q \notin {s}
        BY <1>2
      <3>2. Cardinality({s} \cup {q}) = IF q \in {s} THEN Cardinality({s}) ELSE Cardinality({s}) + 1
        BY <2>1, FS_AddElement, Zenon
      <3>3. QED
        BY <2>1, <3>1, <3>2
    <2>3. {s} \cup {q} \in SUBSET Holding
      OBVIOUS
    <2>4. Cardinality({s} \cup {q}) <= Cardinality(Holding) /\ Cardinality(Holding) \in Nat
      BY <1>1, <2>3, SessionSubset
    <2>5. QED
      BY <2>2, <2>4 DEF LeaseLimit
  <1>3. QED
    BY <1>2

LEMMA ChargeInit == Init => ChargeInv
  <1> SUFFICES ASSUME Init PROVE ChargeInv
    OBVIOUS
  <1>1. Capped(0) = 0
    BY DEF Capped
  <1>2. QED
    BY <1>1 DEF Init, ChargeInv, NotBegun, ChargesInLease, ReadIsFresh, CounterExact, Live

LEMMA CapAgain ==
    ASSUME NEW n \in Nat, NEW k \in Nat PROVE Capped(Capped(n) + k) = Capped(n + k)
  BY DEF Capped

LEMMA ChargeStep == TypeOK /\ LeaseInv /\ ChargeInv /\ [Next]_vars => ChargeInv'
  <1> SUFFICES ASSUME TypeOK, LeaseInv, ChargeInv, [Next]_vars PROVE ChargeInv'
    OBVIOUS
  <1> USE DEF TypeOK, ChargeInv, NotBegun, Goto, Reserving, Live
  <1>1. ASSUME NEW s \in Sessions, Reserve(s) \/ Prune(s) \/ GetUsed(s) PROVE ChargeInv'
    BY <1>1 DEF Reserve, Prune, GetUsed, ChargesInLease, ReadIsFresh, CounterExact
  <1>2. ASSUME NEW s \in Sessions, CheckStart(s) \/ Add(s) \/ BackOut(s) PROVE ChargeInv'
    BY <1>2 DEF CheckStart, Add, BackOut, ChargesInLease, ReadIsFresh, CounterExact
  <1>3. ASSUME NEW s \in Sessions, Recount(s) PROVE ChargeInv'
    BY <1>3 DEF Recount, ChargesInLease, ReadIsFresh, CounterExact
  <1>4. ASSUME NEW s \in Sessions, FirstAudio(s) \/ Finish(s) PROVE ChargeInv'
    BY <1>4 DEF FirstAudio, Finish, ChargesInLease, ReadIsFresh, CounterExact
  <1>5. ASSUME NEW s \in Sessions, RecordGet(s) PROVE ChargeInv'
    BY <1>5 DEF RecordGet, ChargesInLease, ReadIsFresh, CounterExact
  <1>6. ASSUME NEW s \in Sessions, RecordSet(s) PROVE ChargeInv'
    <2> DEFINE n == IF stamp[s] > begun[s] THEN stamp[s] - begun[s] ELSE 0
    <2>1. NotBegun'
      BY <1>6 DEF RecordSet
    <2>2. SUFFICES ASSUME MaxActive = 1, ~overrun'
                   PROVE  ChargesInLease' /\ ReadIsFresh' /\ CounterExact'
      BY <2>1
    <2>3. ChargesInLease /\ ReadIsFresh /\ CounterExact
      BY <1>6, <2>2 DEF RecordSet
    <2>4. ChargesInLease'
      BY <1>6, <2>3 DEF RecordSet, ChargesInLease
    <2>5. ReadIsFresh'
      <3>1. ASSUME NEW q \in Sessions, stage'[q] = "set" PROVE FALSE
        <4>1. q # s /\ stage[q] = "set"
          BY <1>6, <3>1 DEF RecordSet
        <4>2. q \in Holding /\ s \in Holding
          BY <1>6, <2>3, <4>1 DEF RecordSet, ChargesInLease, Holding
        <4>3. QED
          BY <2>2, <4>1, <4>2, SoleHolder DEF LeaseInv
      <3>2. QED
        BY <3>1 DEF ReadIsFresh
    <2>6. CounterExact'
      <3>1. Day(stamp[s]) \in Days /\ n \in Nat
        BY DayInRange
      <3>2. seen[s] = Capped(charged[Day(stamp[s])])
        BY <1>6, <2>3, <3>1 DEF RecordSet, ReadIsFresh, CounterExact
      <3>3. /\ used' = [used EXCEPT ![Day(stamp[s])] = Capped(seen[s] + n)]
            /\ charged' = [charged EXCEPT ![Day(stamp[s])] = @ + n]
        BY <1>6 DEF RecordSet
      <3>4. Capped(seen[s] + n) = Capped(charged[Day(stamp[s])] + n)
        BY <3>1, <3>2, CapAgain
      <3>5. QED
        BY <2>3, <3>1, <3>3, <3>4 DEF CounterExact
    <2>7. QED
      BY <2>4, <2>5, <2>6
  <1>7. ASSUME NEW s \in Sessions, Release(s) \/ Lose(s) PROVE ChargeInv'
    BY <1>7 DEF Release, Lose, ChargesInLease, ReadIsFresh, CounterExact
  <1>8. CASE Tick
    <2>1. now' = now + 1 /\ UNCHANGED <<stage, stamp, lease, begun, seen, used, charged>>
      BY <1>8 DEF Tick
    <2>2. ~overrun' => ~overrun /\ ~(\E s \in Sessions : stage[s] \in Live /\ lease[s] <= now + 1)
      BY <1>8, Zenon DEF Tick
    <2>3. ASSUME ~overrun' PROVE ChargesInLease'
      BY <2>1, <2>2, <2>3 DEF ChargesInLease
    <2>4. ReadIsFresh /\ CounterExact => ReadIsFresh' /\ CounterExact'
      BY <2>1 DEF ReadIsFresh, CounterExact, Day, Capped
    <2>5. NotBegun'
      BY <2>1
    <2>6. QED
      BY <2>2, <2>3, <2>4, <2>5
  <1>9. CASE UNCHANGED vars
    BY <1>9 DEF vars, ChargesInLease, ReadIsFresh, CounterExact
  <1>10. QED
    BY <1>1, <1>2, <1>3, <1>4, <1>5, <1>6, <1>7, <1>8, <1>9 DEF Next, ReserveStep, SettleStep

(* With a limit of one session, the GET and SET of record_consumed_seconds  *)
(* lose no charge, up to the cap, while no session outlives its lease.      *)
THEOREM NoLostChargeHolds == Spec => []NoLostCharge
  <1>1. Spec => []LeaseInv
    BY TypeCorrect, LeaseInit, LeaseStep, PTL DEF Spec
  <1>2. ChargeInv => NoLostCharge
    BY DEF ChargeInv, CounterExact, NoLostCharge
  <1>3. QED
    BY <1>1, <1>2, TypeCorrect, ChargeInit, ChargeStep, PTL DEF Spec
=============================================================================
