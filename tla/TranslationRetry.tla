-------------------------- MODULE TranslationRetry --------------------------
(***************************************************************************)
(* The background retry of finals whose translation failed                 *)
(* (translation_retries.py): a Redis sorted set of jobs, one lock key per  *)
(* segment with a time to live, the segment rows, and usage events that    *)
(* double as the attempt counter.  A worker pops the due jobs and works    *)
(* through them one by one; it may be stopped, crash, or die of an         *)
(* exception between any two awaits.  One action is one awaited call.      *)
(*                                                                         *)
(* Time is abstract: a job is scheduled for later or due, a lock is there  *)
(* or not.                                                                 *)
(***************************************************************************)
EXTENDS Integers, FiniteSets

CONSTANTS
    Segments,      \* failed finals
    Workers,       \* backend processes that run a TranslationRetryWorker
    NoSegment,     \* stands for None
    MaxAttempts,   \* max_attempts
    MaxStops,      \* bound: how often processes stop or crash
    Faults         \* subset of FaultKinds

FaultKinds == {"crash",   \* the process is killed
               "io",      \* an awaited database or Redis call raises
               "slow",    \* a job takes longer than the time to live of its lock
               "event"}   \* a usage event is not recorded

ASSUME NoSegmentAssumption == NoSegment \notin Segments
ASSUME BoundsAssumption == MaxAttempts \in Nat \ {0} /\ MaxStops \in Nat
ASSUME FaultsAssumption == Faults \subseteq FaultKinds

VARIABLES
    status,     \* status[s]: translation_status of the row, or "absent"
    retained,   \* retained[s]: the session's retention_expires_at is ahead
    queue,      \* queue[s]: "none", or the job is scheduled for "later" or "due"
    lock,       \* lock[s]: the lock key of s exists
    attempts,   \* attempts[s]: translation_final_retry_requested events of s
    calls,      \* calls[s]: translate_final calls made for s (history)
    at,         \* at[w]: the call worker w is about to make
    batch,      \* batch[w]: jobs listed or popped and not yet worked on
    job,        \* job[w]: the segment w has the lock of
    found,      \* found[w]: the status w read
    before,     \* before[w]: attempts_before
    stops       \* how many stops and crashes there have been

vars == <<status, retained, queue, lock, attempts, calls, at, batch, job, found, before, stops>>
rows == <<status, retained>>
locals == <<job, found, before>>

Statuses == {"FAILED", "RETRYING", "COMPLETED"}
\* The calls made with the lock held.
Locked == {"load", "count", "mark", "request", "translate", "complete", "fail",
           "requeue", "release", "abandon"}
Labels == {"down", "dead", "list", "enqueue", "poll", "pop", "acquire"} \cup Locked

TypeOK ==
    /\ status \in [Segments -> Statuses \cup {"absent"}]
    /\ retained \in [Segments -> BOOLEAN]
    /\ queue \in [Segments -> {"none", "later", "due"}]
    /\ lock \in [Segments -> BOOLEAN]
    /\ attempts \in [Segments -> Nat]
    /\ calls \in [Segments -> Nat]
    /\ at \in [Workers -> Labels]
    /\ batch \in [Workers -> SUBSET Segments]
    /\ job \in [Workers -> Segments \cup {NoSegment}]
    /\ found \in [Workers -> Statuses]
    /\ before \in [Workers -> Nat]
    /\ stops \in 0..MaxStops

Init ==
    /\ status = [s \in Segments |-> "absent"]
    /\ retained = [s \in Segments |-> TRUE]
    /\ queue = [s \in Segments |-> "none"]
    /\ lock = [s \in Segments |-> FALSE]
    /\ attempts = [s \in Segments |-> 0]
    /\ calls = [s \in Segments |-> 0]
    /\ at = [w \in Workers |-> "down"]
    /\ batch = [w \in Workers |-> {}]
    /\ job = [w \in Workers |-> NoSegment]
    /\ found = [w \in Workers |-> "FAILED"]
    /\ before = [w \in Workers |-> 0]
    /\ stops = 0

Goto(w, next) == at' = [at EXCEPT ![w] = next]

-----------------------------------------------------------------------------
(* run_forever: the startup scan, then poll and work.                       *)

Start(w) ==
    /\ at[w] = "down"
    /\ Goto(w, "list")
    /\ UNCHANGED <<rows, queue, lock, attempts, calls, batch, locals, stops>>

\* list_retryable_segments.
ListRetryable(w) ==
    /\ at[w] = "list"
    /\ batch' = [batch EXCEPT ![w] =
           {s \in Segments : retained[s] /\ status[s] \in {"FAILED", "RETRYING"}}]
    /\ Goto(w, "enqueue")
    /\ UNCHANGED <<rows, queue, lock, attempts, calls, locals, stops>>

\* ZADD overwrites the time of a job that is already scheduled.
EnqueueListed(w) ==
    /\ at[w] = "enqueue"
    /\ \/ /\ batch[w] = {}
          /\ Goto(w, "poll")
          /\ UNCHANGED <<queue, batch>>
       \/ \E s \in batch[w] :
              /\ queue' = [queue EXCEPT ![s] = "due"]
              /\ batch' = [batch EXCEPT ![w] = @ \ {s}]
              /\ UNCHANGED at
    /\ UNCHANGED <<rows, lock, attempts, calls, locals, stops>>

\* pop_due is a ZRANGEBYSCORE ...
Poll(w) ==
    /\ at[w] = "poll"
    /\ \E s \in Segments : queue[s] = "due"
    /\ batch' = [batch EXCEPT ![w] = {s \in Segments : queue[s] = "due"}]
    /\ Goto(w, "pop")
    /\ UNCHANGED <<rows, queue, lock, attempts, calls, locals, stops>>

\* ... and then a ZREM of what it returned.
Pop(w) ==
    /\ at[w] = "pop"
    /\ queue' = [s \in Segments |-> IF s \in batch[w] THEN "none" ELSE queue[s]]
    /\ Goto(w, "acquire")
    /\ UNCHANGED <<rows, lock, attempts, calls, batch, locals, stops>>

\* Mutant of AcquireLock: the lock key is set without NX.
AcquireLockAlways(w) ==
    /\ at[w] = "acquire"
    /\ \/ /\ batch[w] = {}
          /\ Goto(w, "poll")
          /\ UNCHANGED <<lock, batch, job>>
       \/ \E s \in batch[w] :
              /\ batch' = [batch EXCEPT ![w] = @ \ {s}]
              /\ lock' = [lock EXCEPT ![s] = TRUE]
              /\ job' = [job EXCEPT ![w] = s]
              /\ Goto(w, "load")
    /\ UNCHANGED <<rows, queue, attempts, calls, found, before, stops>>

\* SET NX: a job whose lock is taken is dropped.
AcquireLock(w) ==
    /\ at[w] = "acquire"
    /\ \/ /\ batch[w] = {}
          /\ Goto(w, "poll")
          /\ UNCHANGED <<lock, batch, job>>
       \/ \E s \in batch[w] :
              /\ batch' = [batch EXCEPT ![w] = @ \ {s}]
              /\ IF lock[s]
                 THEN UNCHANGED <<lock, at, job>>
                 ELSE /\ lock' = [lock EXCEPT ![s] = TRUE]
                      /\ job' = [job EXCEPT ![w] = s]
                      /\ Goto(w, "load")
    /\ UNCHANGED <<rows, queue, attempts, calls, found, before, stops>>

-----------------------------------------------------------------------------
(* _process_locked_job.                                                     *)

\* Mutant of LoadSegment: a completed segment is not recognised.
LoadSegmentCompleted(w) ==
    /\ at[w] = "load"
    /\ IF retained[job[w]] /\ status[job[w]] # "absent"
       THEN /\ found' = [found EXCEPT ![w] = status[job[w]]]
            /\ Goto(w, "count")
       ELSE /\ Goto(w, "release")
            /\ UNCHANGED found
    /\ UNCHANGED <<rows, queue, lock, attempts, calls, batch, job, before, stops>>

LoadSegment(w) ==
    /\ at[w] = "load"
    /\ IF retained[job[w]] /\ status[job[w]] \in {"FAILED", "RETRYING"}
       THEN /\ found' = [found EXCEPT ![w] = status[job[w]]]
            /\ Goto(w, "count")
       ELSE /\ Goto(w, "release")
            /\ UNCHANGED found
    /\ UNCHANGED <<rows, queue, lock, attempts, calls, batch, job, before, stops>>

\* Mutants of CountAttempts: the comparison is off by one; the attempts left are
\* kept instead of the attempts made.
CountAttemptsOffByOne(w) ==
    /\ at[w] = "count"
    /\ before' = [before EXCEPT ![w] = attempts[job[w]]]
    /\ Goto(w, IF attempts[job[w]] > MaxAttempts THEN "release"
               ELSE IF found[w] = "FAILED" THEN "mark" ELSE "request")
    /\ UNCHANGED <<rows, queue, lock, attempts, calls, batch, job, found, stops>>

CountAttemptsLeft(w) ==
    /\ at[w] = "count"
    /\ before' = [before EXCEPT ![w] = attempts[job[w]] - MaxAttempts]
    /\ Goto(w, IF attempts[job[w]] >= MaxAttempts THEN "release"
               ELSE IF found[w] = "FAILED" THEN "mark" ELSE "request")
    /\ UNCHANGED <<rows, queue, lock, attempts, calls, batch, job, found, stops>>

CountAttempts(w) ==
    /\ at[w] = "count"
    /\ before' = [before EXCEPT ![w] = attempts[job[w]]]
    /\ Goto(w, IF attempts[job[w]] >= MaxAttempts THEN "release"
               ELSE IF found[w] = "FAILED" THEN "mark" ELSE "request")
    /\ UNCHANGED <<rows, queue, lock, attempts, calls, batch, job, found, stops>>

\* UPDATE ... WHERE status = failed; the row is read back whatever it matched.
MarkRetrying(w) ==
    /\ at[w] = "mark"
    /\ status' = [status EXCEPT ![job[w]] = IF @ = "FAILED" THEN "RETRYING" ELSE @]
    /\ Goto(w, "request")
    /\ UNCHANGED <<retained, queue, lock, attempts, calls, batch, locals, stops>>

\* The event is recorded, best effort, and then the provider is called.
RequestRetry(w) ==
    /\ at[w] = "request"
    /\ \E recorded \in {1} \cup (IF "event" \in Faults THEN {0} ELSE {}) :
          attempts' = [attempts EXCEPT ![job[w]] = @ + recorded]
    /\ calls' = [calls EXCEPT ![job[w]] = @ + 1]
    /\ Goto(w, "translate")
    /\ UNCHANGED <<rows, queue, lock, batch, locals, stops>>

TranslateFinal(w) ==
    /\ at[w] = "translate"
    /\ Goto(w, "complete") \/ Goto(w, "fail")
    /\ UNCHANGED <<rows, queue, lock, attempts, calls, batch, locals, stops>>

MarkCompleted(w) ==
    /\ at[w] = "complete"
    /\ status' = [status EXCEPT ![job[w]] = "COMPLETED"]
    /\ Goto(w, "release")
    /\ UNCHANGED <<retained, queue, lock, attempts, calls, batch, locals, stops>>

\* Mutant of MarkFailed: no further job is scheduled.
MarkFailedForGood(w) ==
    /\ at[w] = "fail"
    /\ status' = [status EXCEPT ![job[w]] = "FAILED"]
    /\ Goto(w, "release")
    /\ UNCHANGED <<retained, queue, lock, attempts, calls, batch, locals, stops>>

\* _handle_retry_failure: failed again, and another job unless exhausted.
MarkFailed(w) ==
    /\ at[w] = "fail"
    /\ status' = [status EXCEPT ![job[w]] = "FAILED"]
    /\ Goto(w, IF before[w] + 1 < MaxAttempts THEN "requeue" ELSE "release")
    /\ UNCHANGED <<retained, queue, lock, attempts, calls, batch, locals, stops>>

Requeue(w) ==
    /\ at[w] = "requeue"
    /\ queue' = [queue EXCEPT ![job[w]] = "later"]
    /\ Goto(w, "release")
    /\ UNCHANGED <<rows, lock, attempts, calls, batch, locals, stops>>

\* The finally clause of process_job: DEL, whoever set the key.  An exception
\* or a cancellation goes on from there and ends the worker.
ReleaseLock(w) ==
    /\ at[w] \in {"release", "abandon"}
    /\ lock' = [lock EXCEPT ![job[w]] = FALSE]
    /\ job' = [job EXCEPT ![w] = NoSegment]
    /\ IF at[w] = "release"
       THEN Goto(w, "acquire") /\ UNCHANGED batch
       ELSE Goto(w, "dead") /\ batch' = [batch EXCEPT ![w] = {}]
    /\ UNCHANGED <<rows, queue, attempts, calls, found, before, stops>>

-----------------------------------------------------------------------------
(* What happens to the process and around it.                               *)

\* An exception no one catches ends the worker task, not the process.
Raise(w) ==
    /\ "io" \in Faults
    /\ at[w] \notin {"down", "dead"}
    /\ IF at[w] \in Locked \ {"release", "abandon"}
       THEN Goto(w, "abandon") /\ UNCHANGED <<batch, job>>
       ELSE /\ Goto(w, "dead")
            /\ batch' = [batch EXCEPT ![w] = {}]
            /\ job' = [job EXCEPT ![w] = NoSegment]
    /\ UNCHANGED <<rows, queue, lock, attempts, calls, found, before, stops>>

\* Shutdown cancels the worker, which releases its lock on the way out; the
\* container is started again.
Stop(w) ==
    /\ stops < MaxStops
    /\ at[w] # "down"
    /\ at' = [at EXCEPT ![w] = "down"]
    /\ lock' = [s \in Segments |-> lock[s] /\ s # job[w]]
    /\ batch' = [batch EXCEPT ![w] = {}]
    /\ job' = [job EXCEPT ![w] = NoSegment]
    /\ stops' = stops + 1
    /\ UNCHANGED <<rows, queue, attempts, calls, found, before>>

Crash(w) ==
    /\ "crash" \in Faults
    /\ stops < MaxStops
    /\ at[w] # "down"
    /\ at' = [at EXCEPT ![w] = "down"]
    /\ batch' = [batch EXCEPT ![w] = {}]
    /\ job' = [job EXCEPT ![w] = NoSegment]
    /\ stops' = stops + 1
    /\ UNCHANGED <<rows, queue, lock, attempts, calls, found, before>>

LockExpires(s) ==
    /\ lock[s]
    /\ "slow" \in Faults \/ \A w \in Workers : job[w] # s
    /\ lock' = [lock EXCEPT ![s] = FALSE]
    /\ UNCHANGED <<rows, queue, attempts, calls, at, batch, locals, stops>>

\* A session archives a failed final; its job may get lost on the way.
SegmentFails(s) ==
    /\ status[s] = "absent"
    /\ status' = [status EXCEPT ![s] = "FAILED"]
    /\ \E q \in {"none", "due"} : queue' = [queue EXCEPT ![s] = q]
    /\ UNCHANGED <<retained, lock, attempts, calls, at, batch, locals, stops>>

BackoffElapses(s) ==
    /\ queue[s] = "later"
    /\ queue' = [queue EXCEPT ![s] = "due"]
    /\ UNCHANGED <<rows, lock, attempts, calls, at, batch, locals, stops>>

RetentionEnds(s) ==
    /\ retained[s]
    /\ status[s] # "absent"
    /\ retained' = [retained EXCEPT ![s] = FALSE]
    /\ UNCHANGED <<status, queue, lock, attempts, calls, at, batch, locals, stops>>

-----------------------------------------------------------------------------
JobStep(w) == \/ LoadSegment(w) \/ CountAttempts(w) \/ MarkRetrying(w) \/ RequestRetry(w)
              \/ TranslateFinal(w) \/ MarkCompleted(w) \/ MarkFailed(w) \/ Requeue(w)
              \/ ReleaseLock(w)
WorkerStep(w) == \/ Start(w) \/ ListRetryable(w) \/ EnqueueListed(w) \/ Poll(w) \/ Pop(w)
                 \/ AcquireLock(w) \/ JobStep(w)

Next ==
    \/ \E w \in Workers : WorkerStep(w) \/ Raise(w) \/ Stop(w) \/ Crash(w)
    \/ \E s \in Segments : \/ LockExpires(s) \/ SegmentFails(s) \/ BackoffElapses(s)
                           \/ RetentionEnds(s)

Spec == Init /\ [][Next]_vars

\* A worker goes on as long as its process does, a stopped container is started
\* again (restart: unless-stopped), and time passes.
FairSpec ==
    /\ Spec
    /\ \A w \in Workers : WF_vars(WorkerStep(w))
    /\ \A s \in Segments : WF_vars(BackoffElapses(s)) /\ WF_vars(LockExpires(s))

-----------------------------------------------------------------------------
(* Properties.                                                              *)

(* A segment is never translated by two workers at once, and its lock key   *)
(* exists as long as one is at work on it, whatever crashes and stops       *)
(* interleave; it takes a job longer than the lock's time to live to fail.  *)
OneTranslator ==
    /\ \A w \in Workers : at[w] \in Locked => lock[job[w]]
    /\ \A v, w \in Workers : at[v] \in Locked /\ at[w] \in Locked /\ v # w => job[v] # job[w]

(* The provider is called at most MaxAttempts times for a segment over all  *)
(* workers and restarts: the attempt is counted before the call, under the  *)
(* lock the count was read under.                                           *)
AttemptsBounded ==
    \A s \in Segments : calls[s] <= MaxAttempts

(* A row goes failed -> retrying -> completed or back to failed, and a      *)
(* completed one never changes: the unconditional updates of mark_completed *)
(* and mark_failed always hit a row that this worker has set to retrying.   *)
StatusFlow ==
    [][\A s \in Segments :
          <<status[s], status'[s]>> \in {<<"absent", "FAILED">>, <<"FAILED", "RETRYING">>,
                                         <<"RETRYING", "COMPLETED">>, <<"RETRYING", "FAILED">>}
          \/ status'[s] = status[s]]_vars

(* A scheduled job ends in a completed row, in exhausted attempts, or in    *)
(* the end of the archive's retention; no job is lost between two workers'  *)
(* steps, a backoff and a restart.                                          *)
Exhausted(s) == status[s] # "COMPLETED" /\ attempts[s] >= MaxAttempts
JobSettles ==
    \A s \in Segments : queue[s] # "none" ~> (status[s] = "COMPLETED" \/ Exhausted(s) \/ ~retained[s])
=============================================================================
