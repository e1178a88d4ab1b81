----------------------- MODULE TranslationRetry_proofs -----------------------
(***************************************************************************)
(* Proofs about TranslationRetry, for any number of segments, workers,     *)
(* stops and crashes.                                                      *)
(***************************************************************************)
EXTENDS TranslationRetry, TLAPS

\* A worker has a job exactly while it has the job's lock.
JobHeld == \A w \in Workers : at[w] \in Locked <=> job[w] # NoSegment

\* Where a worker is in a job, it still knows the attempts and the status.
CountIsFresh ==
    \A w \in Workers : at[w] \in {"mark", "request"} =>
        before[w] = attempts[job[w]] /\ before[w] < MaxAttempts
StatusIsFresh ==
    \A w \in Workers :
        /\ at[w] = "count" => status[job[w]] = found[w] /\ found[w] # "COMPLETED"
        /\ at[w] = "mark" => status[job[w]] = "FAILED"
        /\ at[w] \in {"request", "translate", "complete", "fail"} => status[job[w]] = "RETRYING"

\* With every event recorded, the events count the provider calls.
EventsCount == \A s \in Segments : calls[s] = attempts[s] /\ attempts[s] <= MaxAttempts

TypedInv == TypeOK /\ JobHeld
OwnInv == TypedInv /\ OneTranslator
FlowInv == OwnInv /\ StatusIsFresh
CountInv == FlowInv /\ CountIsFresh /\ EventsCount

USE NoSegmentAssumption, BoundsAssumption, FaultsAssumption
-----------------------------------------------------------------------------
(* Type correctness.                                                        *)

LEMMA TypedInit == Init => TypedInv
  BY DEF Init, TypedInv, TypeOK, JobHeld, Labels, Locked, Statuses

LEMMA TypedStep == TypedInv /\ [Next]_vars => TypedInv'
  <1> SUFFICES ASSUME TypedInv, [Next]_vars PROVE TypedInv'
    OBVIOUS
  <1> USE DEF TypedInv, TypeOK, JobHeld, Goto, rows, locals, Labels, Locked, Statuses
  <1>1. ASSUME NEW w \in Workers, Start(w) PROVE TypedInv'
    BY <1>1 DEF Start
  <1>2. ASSUME NEW w \in Workers, ListRetryable(w) PROVE TypedInv'
    BY <1>2 DEF ListRetryable
  <1>3. ASSUME NEW w \in Workers, EnqueueListed(w) PROVE TypedInv'
    BY <1>3 DEF EnqueueListed
  <1>4. ASSUME NEW w \in Workers, Poll(w) PROVE TypedInv'
    BY <1>4 DEF Poll
  <1>5. ASSUME NEW w \in Workers, Pop(w) PROVE TypedInv'
    BY <1>5 DEF Pop
  <1>6. ASSUME NEW w \in Workers, AcquireLock(w) PROVE TypedInv'
    <2>1. CASE batch[w] = {} /\ UNCHANGED <<lock, batch, job>> /\ Goto(w, "poll")
      BY <1>6, <2>1 DEF AcquireLock
    <2>2. ASSUME NEW s \in batch[w], lock[s], UNCHANGED <<lock, at, job>>,
                 batch' = [batch EXCEPT ![w] = @ \ {s}]
          PROVE  TypedInv'
      BY <1>6, <2>2 DEF AcquireLock
    <2>3. ASSUME NEW s \in batch[w], ~lock[s], Goto(w, "load"),
                 lock' = [lock EXCEPT ![s] = TRUE], job' = [job EXCEPT ![w] = s],
                 batch' = [batch EXCEPT ![w] = @ \ {s}]
          PROVE  TypedInv'
      BY <1>6, <2>3 DEF AcquireLock
    <2>4. QED
      BY <1>6, <2>1, <2>2, <2>3, Zenon DEF AcquireLock
  <1>7. ASSUME NEW w \in Workers, LoadSegment(w) PROVE TypedInv'
    BY <1>7 DEF LoadSegment
  <1>8. ASSUME NEW w \in Workers, CountAttempts(w) PROVE TypedInv'
    BY <1>8 DEF CountAttempts
  <1>9. ASSUME NEW w \in Workers, MarkRetrying(w) PROVE TypedInv'
    BY <1>9 DEF MarkRetrying
  <1>10. ASSUME NEW w \in Workers, RequestRetry(w) PROVE TypedInv'
    BY <1>10 DEF RequestRetry
  <1>11. ASSUME NEW w \in Workers, TranslateFinal(w) PROVE TypedInv'
    BY <1>11 DEF TranslateFinal
  <1>12. ASSUME NEW w \in Workers, MarkCompleted(w) PROVE TypedInv'
    BY <1>12 DEF MarkCompleted
  <1>13. ASSUME NEW w \in Workers, MarkFailed(w) PROVE TypedInv'
    BY <1>13 DEF MarkFailed
  <1>14. ASSUME NEW w \in Workers, Requeue(w) PROVE TypedInv'
    BY <1>14 DEF Requeue
  <1>15. ASSUME NEW w \in Workers, ReleaseLock(w) PROVE TypedInv'
    BY <1>15 DEF ReleaseLock
  <1>16. ASSUME NEW w \in Workers, Raise(w) PROVE TypedInv'
    BY <1>16 DEF Raise
  <1>17. ASSUME NEW w \in Workers, Stop(w) PROVE TypedInv'
    BY <1>17 DEF Stop
  <1>18. ASSUME NEW w \in Workers, Crash(w) PROVE TypedInv'
    BY <1>18 DEF Crash
  <1>19. ASSUME NEW s \in Segments, LockExpires(s) PROVE TypedInv'
    BY <1>19 DEF LockExpires
  <1>20. ASSUME NEW s \in Segments, SegmentFails(s) PROVE TypedInv'
    BY <1>20 DEF SegmentFails
  <1>21. ASSUME NEW s \in Segments, BackoffElapses(s) PROVE TypedInv'
    BY <1>21 DEF BackoffElapses
  <1>22. ASSUME NEW s \in Segments, RetentionEnds(s) PROVE TypedInv'
    BY <1>22 DEF RetentionEnds
  <1>23. CASE UNCHANGED vars
    BY <1>23 DEF vars
  <1>24. QED
    BY <1>1, <1>2, <1>3, <1>4, <1>5, <1>6, <1>7, <1>8, <1>9, <1>10, <1>11,
       <1>12, <1>13, <1>14, <1>15, <1>16, <1>17, <1>18, <1>19, <1>20, <1>21,
       <1>22, <1>23
    DEF Next, WorkerStep, JobStep

(* The type invariant: each variable keeps its type, whatever the faults.   *)
THEOREM TypeCorrect == Spec => []TypeOK
  <1>1. Init => TypedInv
    BY TypedInit
  <1>2. TypedInv /\ [Next]_vars => TypedInv'
    BY TypedStep
  <1>3. TypedInv => TypeOK
    BY DEF TypedInv
  <1>4. QED
    BY <1>1, <1>2, <1>3, PTL DEF Spec
-----------------------------------------------------------------------------
(* The segment lock.                                                        *)

LEMMA OwnInit == Init => OwnInv
  BY TypedInit DEF Init, OwnInv, OneTranslator, Locked

LEMMA OwnStep == ASSUME "slow" \notin Faults PROVE OwnInv /\ [Next]_vars => OwnInv'
  <1> SUFFICES ASSUME OwnInv, [Next]_vars PROVE OneTranslator'
    BY TypedStep DEF OwnInv
  <1> TypedInv'
    BY TypedStep DEF OwnInv
  <1> USE DEF OwnInv, OneTranslator, TypedInv, TypeOK, JobHeld, Goto, locals, Locked, Labels
  <1>1. ASSUME NEW w \in Workers, Start(w) PROVE OneTranslator'
    BY <1>1 DEF Start
  <1>2. ASSUME NEW w \in Workers, ListRetryable(w) PROVE OneTranslator'
    BY <1>2 DEF ListRetryable
  <1>3. ASSUME NEW w \in Workers, EnqueueListed(w) PROVE OneTranslator'
    BY <1>3 DEF EnqueueListed
  <1>4. ASSUME NEW w \in Workers, Poll(w) PROVE OneTranslator'
    BY <1>4 DEF Poll
  <1>5. ASSUME NEW w \in Workers, Pop(w) PROVE OneTranslator'
    BY <1>5 DEF Pop
  <1>6. ASSUME NEW w \in Workers, AcquireLock(w) PROVE OneTranslator'
    <2>1. CASE batch[w] = {} /\ UNCHANGED <<lock, batch, job>> /\ Goto(w, "poll")
      BY <1>6, <2>1 DEF AcquireLock
    <2>2. ASSUME NEW s \in batch[w], lock[s], UNCHANGED <<lock, at, job>>,
                 batch' = [batch EXCEPT ![w] = @ \ {s}]
          PROVE  OneTranslator'
      BY <1>6, <2>2 DEF AcquireLock
    <2>3. ASSUME NEW s \in batch[w], ~lock[s], Goto(w, "load"),
                 lock' = [lock EXCEPT ![s] = TRUE], job' = [job EXCEPT ![w] = s],
                 batch' = [batch EXCEPT ![w] = @ \ {s}]
          PROVE  OneTranslator'
      BY <1>6, <2>3 DEF AcquireLock
    <2>4. QED
      BY <1>6, <2>1, <2>2, <2>3, Zenon DEF AcquireLock
  <1>7. ASSUME NEW w \in Workers, LoadSegment(w) PROVE OneTranslator'
    BY <1>7 DEF LoadSegment
  <1>8. ASSUME NEW w \in Workers, CountAttempts(w) PROVE OneTranslator'
    BY <1>8 DEF CountAttempts
  <1>9. ASSUME NEW w \in Workers, MarkRetrying(w) PROVE OneTranslator'
    BY <1>9 DEF MarkRetrying
  <1>10. ASSUME NEW w \in Workers, RequestRetry(w) PROVE OneTranslator'
    BY <1>10 DEF RequestRetry
  <1>11. ASSUME NEW w \in Workers, TranslateFinal(w) PROVE OneTranslator'
    BY <1>11 DEF TranslateFinal
  <1>12. ASSUME NEW w \in Workers, MarkCompleted(w) PROVE OneTranslator'
    BY <1>12 DEF MarkCompleted
  <1>13. ASSUME NEW w \in Workers, MarkFailed(w) PROVE OneTranslator'
    BY <1>13 DEF MarkFailed
  <1>14. ASSUME NEW w \in Workers, Requeue(w) PROVE OneTranslator'
    BY <1>14 DEF Requeue
  <1>15. ASSUME NEW w \in Workers, ReleaseLock(w) PROVE OneTranslator'
    BY <1>15 DEF ReleaseLock
  <1>16. ASSUME NEW w \in Workers, Raise(w) PROVE OneTranslator'
    BY <1>16 DEF Raise
  <1>17. ASSUME NEW w \in Workers, Stop(w) PROVE OneTranslator'
    BY <1>17 DEF Stop
  <1>18. ASSUME NEW w \in Workers, Crash(w) PROVE OneTranslator'
    BY <1>18 DEF Crash
  <1>19. ASSUME NEW s \in Segments, LockExpires(s) PROVE OneTranslator'
    BY <1>19 DEF LockExpires
  <1>20. ASSUME NEW s \in Segments, SegmentFails(s) PROVE OneTranslator'
    BY <1>20 DEF SegmentFails
  <1>21. ASSUME NEW s \in Segments, BackoffElapses(s) PROVE OneTranslator'
    BY <1>21 DEF BackoffElapses
  <1>22. ASSUME NEW s \in Segments, RetentionEnds(s) PROVE OneTranslator'
    BY <1>22 DEF RetentionEnds
  <1>23. CASE UNCHANGED vars
    BY <1>23 DEF vars
  <1>24. QED
    BY <1>1, <1>2, <1>3, <1>4, <1>5, <1>6, <1>7, <1>8, <1>9, <1>10, <1>11,
       <1>12, <1>13, <1>14, <1>15, <1>16, <1>17, <1>18, <1>19, <1>20, <1>21,
       <1>22, <1>23
    DEF Next, WorkerStep, JobStep

(* No two workers ever translate the same segment, and the lock key is      *)
(* there while one does: SET NX, the DEL of the finally clause and the      *)
(* expiry of a crashed worker's key make a lock as long as no job outlasts  *)
(* its key.                                                                 *)
THEOREM LockExclusive == ASSUME "slow" \notin Faults PROVE Spec => []OneTranslator
  <1>1. Init => OwnInv
    BY OwnInit
  <1>2. OwnInv /\ [Next]_vars => OwnInv'
    BY OwnStep
  <1>3. OwnInv => OneTranslator
    BY DEF OwnInv
  <1>4. QED
    BY <1>1, <1>2, <1>3, PTL DEF Spec
-----------------------------------------------------------------------------
(* The life of a row.                                                       *)

LEMMA FlowInit == Init => FlowInv
  BY OwnInit DEF Init, FlowInv, StatusIsFresh

LEMMA FlowStep == ASSUME "slow" \notin Faults PROVE FlowInv /\ [Next]_vars => FlowInv'
  <1> SUFFICES ASSUME FlowInv, [Next]_vars PROVE StatusIsFresh'
    BY OwnStep DEF FlowInv
  <1> OwnInv'
    BY OwnStep DEF FlowInv
  <1> USE DEF FlowInv, StatusIsFresh, OwnInv, OneTranslator, TypedInv, TypeOK, JobHeld, Goto,
          rows, locals, Locked, Labels, Statuses
  <1>1. ASSUME NEW w \in Workers, Start(w) PROVE StatusIsFresh'
    BY <1>1 DEF Start
  <1>2. ASSUME NEW w \in Workers, ListRetryable(w) PROVE StatusIsFresh'
    BY <1>2 DEF ListRetryable
  <1>3. ASSUME NEW w \in Workers, EnqueueListed(w) PROVE StatusIsFresh'
    BY <1>3 DEF EnqueueListed
  <1>4. ASSUME NEW w \in Workers, Poll(w) PROVE StatusIsFresh'
    BY <1>4 DEF Poll
  <1>5. ASSUME NEW w \in Workers, Pop(w) PROVE StatusIsFresh'
    BY <1>5 DEF Pop
  <1>6. ASSUME NEW w \in Workers, AcquireLock(w) PROVE StatusIsFresh'
    <2>1. CASE batch[w] = {} /\ UNCHANGED <<lock, batch, job>> /\ Goto(w, "poll")
      BY <1>6, <2>1 DEF AcquireLock
    <2>2. ASSUME NEW s \in batch[w], lock[s], UNCHANGED <<lock, at, job>>,
                 batch' = [batch EXCEPT ![w] = @ \ {s}]
          PROVE  StatusIsFresh'
      BY <1>6, <2>2 DEF AcquireLock
    <2>3. ASSUME NEW s \in batch[w], ~lock[s], Goto(w, "load"),
                 lock' = [lock EXCEPT ![s] = TRUE], job' = [job EXCEPT ![w] = s],
                 batch' = [batch EXCEPT ![w] = @ \ {s}]
          PROVE  StatusIsFresh'
      BY <1>6, <2>3 DEF AcquireLock
    <2>4. QED
      BY <1>6, <2>1, <2>2, <2>3, Zenon DEF AcquireLock
  <1>7. ASSUME NEW w \in Workers, LoadSegment(w) PROVE StatusIsFresh'
    BY <1>7 DEF LoadSegment
  <1>8. ASSUME NEW w \in Workers, CountAttempts(w) PROVE StatusIsFresh'
    BY <1>8 DEF CountAttempts
  <1>9. ASSUME NEW w \in Workers, MarkRetrying(w) PROVE StatusIsFresh'
    BY <1>9 DEF MarkRetrying
  <1>10. ASSUME NEW w \in Workers, RequestRetry(w) PROVE StatusIsFresh'
    BY <1>10 DEF RequestRetry
  <1>11. ASSUME NEW w \in Workers, TranslateFinal(w) PROVE StatusIsFresh'
    BY <1>11 DEF TranslateFinal
  <1>12. ASSUME NEW w \in Workers, MarkCompleted(w) PROVE StatusIsFresh'
    BY <1>12 DEF MarkCompleted
  <1>13. ASSUME NEW w \in Workers, MarkFailed(w) PROVE StatusIsFresh'
    BY <1>13 DEF MarkFailed
  <1>14. ASSUME NEW w \in Workers, Requeue(w) PROVE StatusIsFresh'
    BY <1>14 DEF Requeue
  <1>15. ASSUME NEW w \in Workers, ReleaseLock(w) PROVE StatusIsFresh'
    BY <1>15 DEF ReleaseLock
  <1>16. ASSUME NEW w \in Workers, Raise(w) PROVE StatusIsFresh'
    BY <1>16 DEF Raise
  <1>17. ASSUME NEW w \in Workers, Stop(w) PROVE StatusIsFresh'
    BY <1>17 DEF Stop
  <1>18. ASSUME NEW w \in Workers, Crash(w) PROVE StatusIsFresh'
    BY <1>18 DEF Crash
  <1>19. ASSUME NEW s \in Segments, LockExpires(s) PROVE StatusIsFresh'
    BY <1>19 DEF LockExpires
  <1>20. ASSUME NEW s \in Segments, SegmentFails(s) PROVE StatusIsFresh'
    BY <1>20 DEF SegmentFails
  <1>21. ASSUME NEW s \in Segments, BackoffElapses(s) PROVE StatusIsFresh'
    BY <1>21 DEF BackoffElapses
  <1>22. ASSUME NEW s \in Segments, RetentionEnds(s) PROVE StatusIsFresh'
    BY <1>22 DEF RetentionEnds
  <1>23. CASE UNCHANGED vars
    BY <1>23 DEF vars
  <1>24. QED
    BY <1>1, <1>2, <1>3, <1>4, <1>5, <1>6, <1>7, <1>8, <1>9, <1>10, <1>11,
       <1>12, <1>13, <1>14, <1>15, <1>16, <1>17, <1>18, <1>19, <1>20, <1>21,
       <1>22, <1>23
    DEF Next, WorkerStep, JobStep

RowFlow == \A s \in Segments :
    <<status[s], status'[s]>> \in {<<"absent", "FAILED">>, <<"FAILED", "RETRYING">>,
                                   <<"RETRYING", "COMPLETED">>, <<"RETRYING", "FAILED">>}
    \/ status'[s] = status[s]

LEMMA RowStep == FlowInv /\ [Next]_vars => RowFlow
  <1> SUFFICES ASSUME FlowInv, [Next]_vars PROVE RowFlow
    OBVIOUS
  <1> USE DEF FlowInv, StatusIsFresh, OwnInv, TypedInv, TypeOK, JobHeld, Goto, rows, Locked,
          RowFlow
  <1>1. ASSUME NEW w \in Workers, MarkRetrying(w) PROVE RowFlow
    BY <1>1 DEF MarkRetrying
  <1>2. ASSUME NEW w \in Workers, MarkCompleted(w) PROVE RowFlow
    BY <1>2 DEF MarkCompleted
  <1>3. ASSUME NEW w \in Workers, MarkFailed(w) PROVE RowFlow
    BY <1>3 DEF MarkFailed
  <1>4. ASSUME NEW s \in Segments, SegmentFails(s) PROVE RowFlow
    BY <1>4 DEF SegmentFails
  <1>5. CASE UNCHANGED status
    BY <1>5
  <1>6. QED
    <2>1. ASSUME NEW w \in Workers, WorkerStep(w), ~MarkRetrying(w), ~MarkCompleted(w),
                 ~MarkFailed(w)
          PROVE  UNCHANGED status
      BY <2>1 DEF WorkerStep, JobStep, Start, ListRetryable, EnqueueListed, Poll, Pop,
         AcquireLock, LoadSegment, CountAttempts, RequestRetry, TranslateFinal, Requeue,
         ReleaseLock
    <2>2. ASSUME NEW w \in Workers, Raise(w) \/ Stop(w) \/ Crash(w) PROVE UNCHANGED status
      BY <2>2 DEF Raise, Stop, Crash
    <2>3. ASSUME NEW s \in Segments, LockExpires(s) \/ BackoffElapses(s) \/ RetentionEnds(s)
          PROVE  UNCHANGED status
      BY <2>3 DEF LockExpires, BackoffElapses, RetentionEnds
    <2>4. QED
      BY <1>1, <1>2, <1>3, <1>4, <1>5, <2>1, <2>2, <2>3 DEF Next, vars

(* Rows only go failed -> retrying -> completed or back to failed, and a    *)
(* completed row stays as it is, over all workers, stops and crashes.       *)
THEOREM RowsFlow == ASSUME "slow" \notin Faults PROVE Spec => StatusFlow
  <1>1. Init => FlowInv
    BY FlowInit
  <1>2. FlowInv /\ [Next]_vars => FlowInv'
    BY FlowStep
  <1>3. FlowInv /\ [Next]_vars => [RowFlow]_vars
    BY RowStep
  <1>4. StatusFlow <=> [][RowFlow]_vars
    BY PTL DEF StatusFlow, RowFlow
  <1>5. QED
    BY <1>1, <1>2, <1>3, <1>4, PTL DEF Spec
-----------------------------------------------------------------------------
(* The number of attempts.                                                  *)

LEMMA CountInit == Init => CountInv
  BY FlowInit DEF Init, CountInv, CountIsFresh, EventsCount

LEMMA CountStep ==
    ASSUME "slow" \notin Faults, "event" \notin Faults
    PROVE  CountInv /\ [Next]_vars => CountInv'
  <1> SUFFICES ASSUME CountInv, [Next]_vars PROVE CountIsFresh' /\ EventsCount'
    BY FlowStep DEF CountInv
  <1> FlowInv'
    BY FlowStep DEF CountInv
  <1> DEFINE Counted == CountIsFresh /\ EventsCount
  <1> USE DEF CountInv, CountIsFresh, EventsCount, FlowInv, StatusIsFresh, OwnInv, OneTranslator, TypedInv,
          TypeOK, JobHeld, Goto, rows, locals, Locked, Labels, Statuses
  <1>1. ASSUME NEW w \in Workers, Start(w) PROVE Counted'
    BY <1>1 DEF Start
  <1>2. ASSUME NEW w \in Workers, ListRetryable(w) PROVE Counted'
    BY <1>2 DEF ListRetryable
  <1>3. ASSUME NEW w \in Workers, EnqueueListed(w) PROVE Counted'
    BY <1>3 DEF EnqueueListed
  <1>4. ASSUME NEW w \in Workers, Poll(w) PROVE Counted'
    BY <1>4 DEF Poll
  <1>5. ASSUME NEW w \in Workers, Pop(w) PROVE Counted'
    BY <1>5 DEF Pop
  <1>6. ASSUME NEW w \in Workers, AcquireLock(w) PROVE Counted'
    <2>1. CASE batch[w] = {} /\ UNCHANGED <<lock, batch, job>> /\ Goto(w, "poll")
      BY <1>6, <2>1 DEF AcquireLock
    <2>2. ASSUME NEW s \in batch[w], lock[s], UNCHANGED <<lock, at, job>>,
                 batch' = [batch EXCEPT ![w] = @ \ {s}]
          PROVE  Counted'
      BY <1>6, <2>2 DEF AcquireLock
    <2>3. ASSUME NEW s \in batch[w], ~lock[s], Goto(w, "load"),
                 lock' = [lock EXCEPT ![s] = TRUE], job' = [job EXCEPT ![w] = s],
                 batch' = [batch EXCEPT ![w] = @ \ {s}]
          PROVE  Counted'
      BY <1>6, <2>3 DEF AcquireLock
    <2>4. QED
      BY <1>6, <2>1, <2>2, <2>3, Zenon DEF AcquireLock
  <1>7. ASSUME NEW w \in Workers, LoadSegment(w) PROVE Counted'
    BY <1>7 DEF LoadSegment
  <1>8. ASSUME NEW w \in Workers, CountAttempts(w) PROVE Counted'
    BY <1>8 DEF CountAttempts
  <1>9. ASSUME NEW w \in Workers, MarkRetrying(w) PROVE Counted'
    BY <1>9 DEF MarkRetrying
  <1>10. ASSUME NEW w \in Workers, RequestRetry(w) PROVE Counted'
    BY <1>10 DEF RequestRetry
  <1>11. ASSUME NEW w \in Workers, TranslateFinal(w) PROVE Counted'
    BY <1>11 DEF TranslateFinal
  <1>12. ASSUME NEW w \in Workers, MarkCompleted(w) PROVE Counted'
    BY <1>12 DEF MarkCompleted
  <1>13. ASSUME NEW w \in Workers, MarkFailed(w) PROVE Counted'
    BY <1>13 DEF MarkFailed
  <1>14. ASSUME NEW w \in Workers, Requeue(w) PROVE Counted'
    BY <1>14 DEF Requeue
  <1>15. ASSUME NEW w \in Workers, ReleaseLock(w) PROVE Counted'
    BY <1>15 DEF ReleaseLock
  <1>16. ASSUME NEW w \in Workers, Raise(w) PROVE Counted'
    BY <1>16 DEF Raise
  <1>17. ASSUME NEW w \in Workers, Stop(w) PROVE Counted'
    BY <1>17 DEF Stop
  <1>18. ASSUME NEW w \in Workers, Crash(w) PROVE Counted'
    BY <1>18 DEF Crash
  <1>19. ASSUME NEW s \in Segments, LockExpires(s) PROVE Counted'
    BY <1>19 DEF LockExpires
  <1>20. ASSUME NEW s \in Segments, SegmentFails(s) PROVE Counted'
    BY <1>20 DEF SegmentFails
  <1>21. ASSUME NEW s \in Segments, BackoffElapses(s) PROVE Counted'
    BY <1>21 DEF BackoffElapses
  <1>22. ASSUME NEW s \in Segments, RetentionEnds(s) PROVE Counted'
    BY <1>22 DEF RetentionEnds
  <1>23. CASE UNCHANGED vars
    BY <1>23 DEF vars
  <1>24. QED
    BY <1>1, <1>2, <1>3, <1>4, <1>5, <1>6, <1>7, <1>8, <1>9, <1>10, <1>11,
       <1>12, <1>13, <1>14, <1>15, <1>16, <1>17, <1>18, <1>19, <1>20, <1>21,
       <1>22, <1>23
    DEF Next, WorkerStep, JobStep

(* The provider is called at most MaxAttempts times for a segment, over all *)
(* workers, stops and crashes, as long as every usage event is recorded.    *)
THEOREM AttemptsLimited ==
    ASSUME "slow" \notin Faults, "event" \notin Faults
    PROVE  Spec => []AttemptsBounded
  <1>1. Init => CountInv
    BY CountInit
  <1>2. CountInv /\ [Next]_vars => CountInv'
    BY CountStep
  <1>3. CountInv => AttemptsBounded
    BY DEF CountInv, EventsCount, AttemptsBounded
  <1>4. QED
    BY <1>1, <1>2, <1>3, PTL DEF Spec
=============================================================================
