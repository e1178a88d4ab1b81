-------------------------- MODULE FinalTranslation --------------------------
(***************************************************************************)
(* How the finals of a meeting (recognised English sentences) become rows  *)
(* of transcript_segment: the speech-to-text task queues them, one         *)
(* translation task takes them in order, and whatever is unfinished when   *)
(* the connection ends is archived as failed (ws_sessions.py).             *)
(*                                                                         *)
(* A resumed session starts a new speech-to-text stream, whose sequence    *)
(* numbers begin at 1 again (stt_providers.py), while the set of archived  *)
(* numbers and the table's unique(session_id, sequence) outlive it.        *)
(*                                                                         *)
(* One action is the code between two awaits.  The connection's handler    *)
(* closes the session, and so does a speech-to-text task that fails, each  *)
(* with its own list of unfinished finals; either may cancel the other's   *)
(* work where the code does.                                               *)
(***************************************************************************)
EXTENDS Integers, Sequences

CONSTANTS
    MaxStreams,   \* bound: connections, hence speech-to-text streams, of the session
    MaxFinals,    \* bound: finals per stream
    NoFinal,      \* stands for None
    Faults        \* subset of FaultKinds

FaultKinds == {"io",       \* create_transcript_segment raises
               "commit",   \* a cancelled create_transcript_segment has committed
               "queue",    \* the retry queue refuses a job
               "stream",   \* a speech-to-text stream raises
               "early"}    \* a resume does not wait for the tasks of the connection before

ASSUME BoundsAssumption == MaxStreams \in Nat \ {0} /\ MaxFinals \in Nat \ {0}
ASSUME FaultsAssumption == Faults \subseteq FaultKinds

Finals == [stream : 1..MaxStreams, sequence : 1..MaxFinals]
ASSUME NoFinalAssumption == NoFinal \notin Finals

VARIABLES
    closed,       \* state.closed
    parked,       \* a resume record of the session is in the registry
    online,       \* the socket of the last connection still accepts messages
    stream,       \* number of that connection, and of its speech-to-text stream
    lastSequence, \* _sequence of its provider
    sttTask,      \* state.stt_provider_task, or 0 for None
    speech,       \* speech[k]: what has become of the task of stream k
    handler,      \* the connection's handler: receiving, finalizing (after session_stop,
                  \* or after an error), pausing, or returned
    closing,      \* closing[p]: the await of _finalize_session or of the pause in task p
    target,       \* target[p]: the speech-to-text task that p has cancelled and awaits, or 0
    rest,         \* rest[p]: pending_events of _cancel_final_translation_task in task p
    sweeping,     \* tasks that a pause is still to cancel, after the record has been put
    pending,      \* state.pending_final_translations
    current,      \* state.current_final_translation
    archived,     \* state.archived_final_sequences
    loop,         \* the await at which the translation task is suspended
    rows,         \* the session's rows of transcript_segment
    jobs,         \* finals whose row the retry queue was given
    heard,        \* finals shown to the browser as asr_final (history)
    spoilt,       \* finals an insert raised for, or that a drain dropped behind one (history)
    cut           \* finals in the hands of a drain that was cancelled (history)

sessionVars == <<closed, parked, online>>
source == <<stream, lastSequence, heard>>
tasks == <<sttTask, speech, handler, closing, target, sweeping>>
queue == <<pending, current, loop>>
store == <<archived, rows, jobs, spoilt, cut>>
vars == <<sessionVars, source, tasks, rest, queue, store>>

\* The speech-to-text task of stream k is k.
Streams == 1..MaxStreams
Handler == 0
Closers == Streams \cup {Handler}

\* provider: the providers are being closed; join: the speech-to-text task is; drain:
\* the translation task is about to be cancelled; loop: it is; archive, insert,
\* enqueue: one unfinished final after the other.
Stages == {"none", "provider", "join", "drain", "loop", "archive", "insert", "enqueue"}

Row(f, status) == [final |-> f, status |-> status]
HasRow(k) == \E r \in rows : r.final.sequence = k

TypeOK ==
    /\ {closed, parked, online} \subseteq BOOLEAN
    /\ stream \in Streams
    /\ lastSequence \in 0..MaxFinals
    /\ sttTask \in 0..MaxStreams
    /\ speech \in [Streams -> {"new", "listening", "failed", "over", "raised"}]
    /\ handler \in {"loop", "stop", "error", "pause", "gone"}
    /\ closing \in [Closers -> Stages]
    /\ target \in [Closers -> 0..MaxStreams]
    /\ rest \in [Closers -> Seq(Finals)]
    /\ sweeping \subseteq Streams
    /\ pending \in Seq(Finals)
    /\ current \in Finals \cup {NoFinal}
    /\ archived \subseteq 1..MaxFinals
    /\ loop \in {"done", "ready", "translate", "complete", "fail", "enqueue", "announce",
                 "cancelled"}
    /\ rows \subseteq [final : Finals, status : {"COMPLETED", "FAILED"}]
    /\ {jobs, heard, spoilt, cut} \subseteq SUBSET Finals

Init ==
    /\ closed = FALSE
    /\ parked = FALSE
    /\ online = TRUE
    /\ stream = 1
    /\ lastSequence = 0
    /\ sttTask = 0
    /\ speech = [k \in Streams |-> "new"]
    /\ handler = "loop"
    /\ closing = [p \in Closers |-> "none"]
    /\ target = [p \in Closers |-> 0]
    /\ rest = [p \in Closers |-> <<>>]
    /\ sweeping = {}
    /\ pending = <<>>
    /\ current = NoFinal
    /\ archived = {}
    /\ loop = "done"
    /\ rows = {}
    /\ jobs = {}
    /\ heard = {}
    /\ spoilt = {}
    /\ cut = {}

Members(s) == {s[i] : i \in DOMAIN s}
At(p, stage) == closing[p] = stage
Goto(p, stage) == closing' = [closing EXCEPT ![p] = stage]
Over(k) == speech[k] \in {"over", "raised"}
\* The socket on which task k sends.
Reaches(k) == online /\ k = stream

-----------------------------------------------------------------------------
(* The speech-to-text task.                                                 *)

\* The first audio of a connection starts its stream.
StartStream ==
    /\ handler = "loop" /\ online
    /\ sttTask = 0
    /\ sttTask' = stream
    /\ speech' = [speech EXCEPT ![stream] = "listening"]
    /\ UNCHANGED <<sessionVars, source, handler, closing, target, sweeping, rest, queue, store>>

\* Mutants of Hear: the provider numbers from 0; a finished translation task is
\* taken for a running one.
HearFromZero ==
    LET f == [stream |-> stream, sequence |-> lastSequence] IN
    /\ speech[stream] = "listening" /\ online
    /\ lastSequence < MaxFinals
    /\ lastSequence' = lastSequence + 1
    /\ heard' = heard \cup {f}
    /\ pending' = Append(pending, f)
    /\ loop' = IF loop = "done" THEN "ready" ELSE loop
    /\ UNCHANGED <<sessionVars, stream, tasks, rest, current, store>>

HearStartingOnce ==
    LET f == [stream |-> stream, sequence |-> lastSequence + 1] IN
    /\ speech[stream] = "listening" /\ online
    /\ lastSequence < MaxFinals
    /\ lastSequence' = lastSequence + 1
    /\ heard' = heard \cup {f}
    /\ pending' = Append(pending, f)
    /\ loop' = IF loop = "done" /\ lastSequence = 0 THEN "ready" ELSE loop
    /\ UNCHANGED <<sessionVars, stream, tasks, rest, current, store>>

\* asr_final is sent, then _schedule_final_translation queues the event and
\* starts the translation task unless one is running.
Hear ==
    LET f == [stream |-> stream, sequence |-> lastSequence + 1] IN
    /\ speech[stream] = "listening" /\ online
    /\ lastSequence < MaxFinals
    /\ lastSequence' = lastSequence + 1
    /\ heard' = heard \cup {f}
    /\ pending' = Append(pending, f)
    /\ loop' = IF loop = "done" THEN "ready" ELSE loop
    /\ UNCHANGED <<sessionVars, stream, tasks, rest, current, store>>

\* The stream ends; or a send on a dead socket raises, and so does the error message,
\* so that the task dies without finalizing.
StopListening(k) ==
    /\ speech[k] = "listening"
    /\ \E end \in {"over"} \cup (IF Reaches(k) THEN {} ELSE {"raised"}) :
          speech' = [speech EXCEPT ![k] = end]
    /\ UNCHANGED <<sessionVars, source, sttTask, handler, closing, target, sweeping, rest,
                   queue, store>>

\* _close_with_error in the task itself, whose error message has been sent.
StreamFails(k) ==
    /\ "stream" \in Faults
    /\ speech[k] = "listening" /\ Reaches(k)
    /\ IF closed
       THEN speech' = [speech EXCEPT ![k] = "over"] /\ online' = FALSE /\ UNCHANGED closing
       ELSE speech' = [speech EXCEPT ![k] = "failed"] /\ Goto(k, "provider") /\ UNCHANGED online
    /\ UNCHANGED <<closed, parked, source, sttTask, handler, target, sweeping, rest, queue,
                   store>>

-----------------------------------------------------------------------------
(* _run_final_translation_loop.                                             *)

TakeNext ==
    /\ loop = "ready"
    /\ IF pending = <<>> \/ closed
       THEN /\ loop' = "done"
            /\ UNCHANGED <<pending, current>>
       ELSE /\ pending' = Tail(pending)
            /\ IF Head(pending).sequence \in archived
               THEN UNCHANGED <<current, loop>>
               ELSE current' = Head(pending) /\ loop' = "translate"
    /\ UNCHANGED <<sessionVars, source, tasks, rest, store>>

\* A text; or an exception, an empty text, or the provider is disabled.
Translate ==
    /\ loop = "translate"
    /\ loop' \in {"complete", "fail"}
    /\ UNCHANGED <<sessionVars, source, tasks, rest, pending, current, store>>

\* Mutant of InsertSegment: a completed row gets a retry job as well.
InsertSegmentRetrying ==
    /\ loop \in {"complete", "fail"}
    /\ IF HasRow(current.sequence)
       THEN /\ loop' = "done"
            /\ spoilt' = spoilt \cup {current}
            /\ UNCHANGED <<archived, rows>>
       ELSE /\ rows' = rows \cup {Row(current, IF loop = "complete" THEN "COMPLETED"
                                               ELSE "FAILED")}
            /\ archived' = archived \cup {current.sequence}
            /\ loop' = "enqueue"
            /\ UNCHANGED spoilt
    /\ UNCHANGED <<sessionVars, source, tasks, rest, pending, current, jobs, cut>>

\* create_transcript_segment, then archived_final_sequences.add.  The unique
\* constraint raises if the number is taken, and the exception ends the task
\* with current_final_translation still set.
InsertSegment ==
    /\ loop \in {"complete", "fail"}
    /\ IF HasRow(current.sequence)
       THEN /\ loop' = "done"
            /\ spoilt' = spoilt \cup {current}
            /\ UNCHANGED <<archived, rows>>
       ELSE /\ rows' = rows \cup {Row(current, IF loop = "complete" THEN "COMPLETED"
                                               ELSE "FAILED")}
            /\ archived' = archived \cup {current.sequence}
            /\ loop' = IF loop = "complete" THEN "announce" ELSE "enqueue"
            /\ UNCHANGED spoilt
    /\ UNCHANGED <<sessionVars, source, tasks, rest, pending, current, jobs, cut>>

\* Mutant of InsertFails: the number is marked as archived before the insert.
InsertFailsMarked ==
    /\ "io" \in Faults
    /\ loop \in {"complete", "fail"}
    /\ loop' = "done"
    /\ archived' = archived \cup {current.sequence}
    /\ spoilt' = spoilt \cup {current}
    /\ UNCHANGED <<sessionVars, source, tasks, rest, pending, current, rows, jobs, cut>>

InsertFails ==
    /\ "io" \in Faults
    /\ loop \in {"complete", "fail"}
    /\ loop' = "done"
    /\ spoilt' = spoilt \cup {current}
    /\ UNCHANGED <<sessionVars, source, tasks, rest, pending, current, archived, rows, jobs,
                   cut>>

\* _enqueue_failed_final_translation_retry only logs when the queue refuses.
Enqueued(f) ==
    \/ jobs' = jobs \cup {f}
    \/ "queue" \in Faults /\ UNCHANGED jobs

EnqueueRetry ==
    /\ loop = "enqueue"
    /\ Enqueued(current)
    /\ loop' = "announce"
    /\ UNCHANGED <<sessionVars, source, tasks, rest, pending, current, archived, rows, spoilt,
                   cut>>

\* segment_final or the warning is sent; on a dead socket that raises.
Announce ==
    /\ loop = "announce"
    /\ IF online
       THEN current' = NoFinal /\ loop' = "ready"
       ELSE loop' = "done" /\ UNCHANGED current
    /\ UNCHANGED <<sessionVars, source, tasks, rest, pending, store>>

-----------------------------------------------------------------------------
(* The connection's handler.                                                *)

\* session_stop: _finalize_session, with messages to the browser.
SessionStop ==
    /\ handler = "loop" /\ online /\ ~closed
    /\ handler' = "stop"
    /\ Goto(Handler, "provider")
    /\ UNCHANGED <<sessionVars, source, sttTask, speech, target, sweeping, rest, queue, store>>

LoseClient ==
    /\ online
    /\ online' = FALSE
    /\ UNCHANGED <<closed, parked, source, tasks, rest, queue, store>>

\* receive() reports the disconnect: a session that is not closed is paused.
Disconnect ==
    /\ handler = "loop" /\ (~online \/ closed)
    /\ IF closed
       THEN handler' = "gone" /\ UNCHANGED closing
       ELSE handler' = "pause" /\ Goto(Handler, "drain")
    /\ online' = FALSE
    /\ UNCHANGED <<closed, parked, source, sttTask, speech, target, sweeping, rest, queue,
                   store>>

-----------------------------------------------------------------------------
(* Closing: _finalize_session, in the handler or in a speech-to-text task,  *)
(* and _pause_session_for_resume.                                           *)

\* The handler after an exception in the closing code.  A stopped session it finalizes
\* once more, if the error message can be sent; otherwise it pauses the session, unless
\* it is closed by now.
HandlerRaises ==
    \/ /\ handler = "pause" \/ closed
       /\ handler' = "gone" /\ online' = FALSE
       /\ Goto(Handler, "none")
    \/ /\ handler = "stop" /\ online /\ ~closed
       /\ handler' = "error"
       /\ Goto(Handler, "provider")
       /\ UNCHANGED online
    \/ /\ handler = "error" \/ (handler = "stop" /\ ~online)
       /\ ~closed
       /\ handler' = "pause"
       /\ Goto(Handler, "drain")
       /\ UNCHANGED online

\* An exception leaves the closing code of task p, and the unfinished finals with it.
Raise(p) ==
    /\ spoilt' = spoilt \cup Members(rest[p])
    /\ rest' = [rest EXCEPT ![p] = <<>>]
    /\ IF p = Handler
       THEN HandlerRaises /\ UNCHANGED speech
       ELSE /\ speech' = [speech EXCEPT ![p] = "raised"]
            /\ Goto(p, "none")
            /\ UNCHANGED <<handler, online>>

\* Task k is cancelled, while closing becomes `waiting' otherwise.  _cancel_task swallows
\* the cancellation that reaches it through the task it awaits, and closing a provider may
\* swallow one too; everywhere else the task ends, and what it was to archive is nobody's.
\* The insert it was awaiting may have reached the table.
CancelTask(k, waiting) ==
    LET j == IF At(k, "join") THEN target[k] ELSE k IN
    \/ /\ Over(j) \/ At(j, "provider") \/ At(j, "join") \/ At(j, "loop")
       /\ closing' = waiting
       /\ UNCHANGED <<speech, rest, rows, cut>>
    \/ /\ ~(Over(j) \/ At(j, "join") \/ At(j, "loop"))
       /\ closing' = [waiting EXCEPT ![j] = "none"]
       /\ speech' = [speech EXCEPT ![j] = "over"]
       /\ rest' = [rest EXCEPT ![j] = <<>>]
       /\ cut' = cut \cup Members(rest[j])
       /\ \/ UNCHANGED rows
          \/ /\ "commit" \in Faults
             /\ At(j, "insert") /\ ~HasRow(Head(rest[j]).sequence)
             /\ rows' = rows \cup {Row(Head(rest[j]), "FAILED")}

\* The provider is closed and the speech-to-text task cancelled, unless it is the one
\* that closes the session.
CancelStt(p) ==
    /\ At(p, "provider")
    /\ IF sttTask \in {0, p} \/ Over(sttTask)
       THEN /\ Goto(p, "drain")
            /\ UNCHANGED <<speech, target, rest, rows, cut>>
       ELSE /\ CancelTask(sttTask, [closing EXCEPT ![p] = "join"])
            /\ target' = [target EXCEPT ![p] = sttTask]
    /\ UNCHANGED <<sessionVars, source, sttTask, handler, sweeping, queue, archived, jobs,
                   spoilt>>

\* The cancelled task has ended; an exception of its own is raised in the task that awaits it.
Join(p) ==
    /\ At(p, "join") /\ Over(target[p])
    /\ target' = [target EXCEPT ![p] = 0]
    /\ IF speech[target[p]] = "raised"
       THEN Raise(p)
       ELSE Goto(p, "drain") /\ UNCHANGED <<handler, online, speech, rest, spoilt>>
    /\ UNCHANGED <<closed, parked, source, sttTask, sweeping, queue, archived, rows, jobs, cut>>

CurrentFinal == IF current = NoFinal THEN <<>> ELSE <<current>>

\* The unfinished finals have been copied and the queue emptied: now the translation task
\* is cancelled, and awaited unless it has ended.  The insert it was awaiting may have
\* reached the table.  (When it has been cancelled before, it may just have ended.)
StopLoop(p) ==
    \/ /\ loop \in {"done", "cancelled"}
       /\ current' = NoFinal
       /\ Goto(p, "archive")
       /\ UNCHANGED <<loop, rows>>
    \/ /\ loop # "done"
       /\ loop' = "cancelled"
       /\ Goto(p, "loop")
       /\ UNCHANGED current
       /\ \/ UNCHANGED rows
          \/ /\ "commit" \in Faults
             /\ loop \in {"complete", "fail"} /\ ~HasRow(current.sequence)
             /\ rows' = rows \cup {Row(current, IF loop = "complete" THEN "COMPLETED"
                                                ELSE "FAILED")}

\* Mutants of CancelLoop: the final being translated is left out, or put last.
CancelLoopDropping(p) ==
    /\ At(p, "drain")
    /\ rest' = [rest EXCEPT ![p] = pending]
    /\ pending' = <<>>
    /\ StopLoop(p)
    /\ UNCHANGED <<sessionVars, source, sttTask, speech, handler, target, sweeping, archived,
                   jobs, spoilt, cut>>

CancelLoopReordering(p) ==
    /\ At(p, "drain")
    /\ rest' = [rest EXCEPT ![p] = pending \o CurrentFinal]
    /\ pending' = <<>>
    /\ StopLoop(p)
    /\ UNCHANGED <<sessionVars, source, sttTask, speech, handler, target, sweeping, archived,
                   jobs, spoilt, cut>>

CancelLoop(p) ==
    /\ At(p, "drain")
    /\ rest' = [rest EXCEPT ![p] = CurrentFinal \o pending]
    /\ pending' = <<>>
    /\ StopLoop(p)
    /\ UNCHANGED <<sessionVars, source, sttTask, speech, handler, target, sweeping, archived,
                   jobs, spoilt, cut>>

\* The translation task ends, and whoever awaits it goes on in the same turn.
EndLoop ==
    /\ loop = "cancelled"
    /\ loop' = "done"
    /\ current' = NoFinal
    /\ closing' = [p \in Closers |-> IF At(p, "loop") THEN "archive" ELSE closing[p]]
    /\ UNCHANGED <<sessionVars, source, sttTask, speech, handler, target, sweeping, rest,
                   pending, store>>

\* _archive_failed_final_translation for the next of them, unless it is archived.
LookAt(p) ==
    /\ At(p, "archive") /\ rest[p] # <<>>
    /\ IF Head(rest[p]).sequence \in archived
       THEN rest' = [rest EXCEPT ![p] = Tail(@)] /\ UNCHANGED closing
       ELSE Goto(p, "insert") /\ UNCHANGED rest
    /\ UNCHANGED <<sessionVars, source, sttTask, speech, handler, target, sweeping, queue,
                   store>>

InsertRest(p) ==
    LET f == Head(rest[p]) IN
    /\ At(p, "insert")
    /\ IF HasRow(f.sequence)
       THEN Raise(p) /\ UNCHANGED <<archived, rows>>
       ELSE /\ rows' = rows \cup {Row(f, "FAILED")}
            /\ archived' = archived \cup {f.sequence}
            /\ Goto(p, "enqueue")
            /\ UNCHANGED <<handler, online, speech, rest, spoilt>>
    /\ UNCHANGED <<closed, parked, source, sttTask, target, sweeping, queue, jobs, cut>>

InsertRestFails(p) ==
    /\ "io" \in Faults
    /\ At(p, "insert")
    /\ Raise(p)
    /\ UNCHANGED <<closed, parked, source, sttTask, target, sweeping, queue, archived, rows,
                   jobs, cut>>

EnqueueRest(p) ==
    /\ At(p, "enqueue")
    /\ Enqueued(Head(rest[p]))
    /\ rest' = [rest EXCEPT ![p] = Tail(@)]
    /\ Goto(p, "archive")
    /\ UNCHANGED <<sessionVars, source, sttTask, speech, handler, target, sweeping, queue,
                   archived, rows, spoilt, cut>>

\* The end of _finalize_session.  The messages of session_stop are sent before the session
\* is closed; those of an error after it.
Settle ==
    /\ handler \in {"stop", "error"}
    /\ At(Handler, "archive") /\ rest[Handler] = <<>>
    /\ IF handler = "error" \/ online
       THEN /\ closed' = TRUE /\ online' = FALSE
            /\ handler' = "gone"
            /\ Goto(Handler, "none")
            /\ UNCHANGED <<speech, rest, spoilt>>
       ELSE Raise(Handler) /\ UNCHANGED closed
    /\ UNCHANGED <<parked, source, sttTask, target, sweeping, queue, archived, rows, jobs, cut>>

SettleInStream(k) ==
    /\ At(k, "archive") /\ rest[k] = <<>>
    /\ closed' = TRUE
    /\ online' = (online /\ k # stream)
    /\ speech' = [speech EXCEPT ![k] = IF Reaches(k) THEN "over" ELSE "raised"]
    /\ Goto(k, "none")
    /\ UNCHANGED <<parked, source, sttTask, handler, target, sweeping, rest, queue, store>>

\* The end of _pause_session_for_resume: the record is put into the registry, the state
\* has let go of its tasks, and the speech-to-text task is still to be cancelled.
Park ==
    /\ handler = "pause"
    /\ At(Handler, "archive") /\ rest[Handler] = <<>>
    /\ closed' = TRUE /\ parked' = TRUE /\ online' = FALSE
    /\ pending' = <<>> /\ current' = NoFinal
    /\ sttTask' = 0
    /\ sweeping' = sweeping \cup ({sttTask} \ {0})
    /\ handler' = "gone"
    /\ Goto(Handler, "none")
    /\ UNCHANGED <<source, speech, target, rest, loop, store>>

SweepStt(k) ==
    /\ k \in sweeping
    /\ sweeping' = sweeping \ {k}
    /\ CancelTask(k, closing)
    /\ UNCHANGED <<sessionVars, source, sttTask, handler, target, queue, archived, jobs, spoilt>>

-----------------------------------------------------------------------------
(* The paused session.                                                      *)

\* The tasks of the connection before have come to their end.
Idle == sweeping = {} /\ \A k \in Streams : speech[k] \in {"new", "over", "raised"}

\* A new connection, whose provider counts from 0; archived is kept.  The browser's new
\* connection does not overtake the turn in which a cancelled translation task ends.
Resume ==
    /\ parked
    /\ stream < MaxStreams
    /\ loop # "cancelled"
    /\ "early" \in Faults \/ Idle
    /\ parked' = FALSE /\ closed' = FALSE /\ online' = TRUE
    /\ handler' = "loop"
    /\ stream' = stream + 1
    /\ lastSequence' = 0
    /\ sttTask' = 0
    /\ pending' = <<>> /\ current' = NoFinal
    /\ UNCHANGED <<heard, speech, closing, target, sweeping, rest, loop, store>>

\* The grace timer finalizes: nothing is left to drain.
Expire ==
    /\ parked
    /\ parked' = FALSE
    /\ UNCHANGED <<closed, online, source, tasks, rest, queue, store>>

-----------------------------------------------------------------------------
LoopStep == TakeNext \/ Translate \/ InsertSegment \/ EnqueueRetry \/ Announce \/ EndLoop
CloseStep(p) == \/ CancelStt(p) \/ Join(p) \/ CancelLoop(p)
                \/ LookAt(p) \/ InsertRest(p) \/ EnqueueRest(p)
HandlerStep == Disconnect \/ CloseStep(Handler) \/ Settle \/ Park
StreamStep(k) == CloseStep(k) \/ SettleInStream(k)

Next == \/ StartStream \/ Hear
        \/ LoopStep \/ InsertFails
        \/ SessionStop \/ LoseClient \/ HandlerStep
        \/ Resume \/ Expire
        \/ \E k \in Streams : StopListening(k) \/ StreamFails(k) \/ StreamStep(k) \/ SweepStt(k)
        \/ \E p \in Closers : InsertRestFails(p)

Spec == Init /\ [][Next]_vars

\* The event loop runs the ready tasks and awaited calls return; what the
\* speaker, the browser and the faults do is not promised.
FairSpec ==
    /\ Spec
    /\ WF_vars(LoopStep) /\ WF_vars(HandlerStep)
    /\ \A k \in Streams : WF_vars(StreamStep(k)) /\ WF_vars(SweepStt(k))

-----------------------------------------------------------------------------
(* Properties.                                                              *)

\* The session is paused or closed and whoever was closing it is done.
Quiet ==
    /\ closed
    /\ handler \notin {"stop", "error", "pause"}
    /\ sweeping = {}
    /\ \A p \in Closers : At(p, "none")

(* When the session is paused or closed and its tasks have come to rest,    *)
(* every final the browser was shown has its number in the table, whatever  *)
(* the translation task was doing when it was cancelled and whoever else    *)
(* was closing the session - except the finals of two losses.  An insert    *)
(* that raises costs its own final and those behind it in the same drain;   *)
(* a failing speech-to-text task that is cancelled in its drain, by the     *)
(* pause or another finalization, costs those it had not yet archived.      *)
(* (This is for resumes that come after the former connection's tasks have  *)
(* ended: one that still closes the session while the new connection        *)
(* listens loses finals in a third way.)                                    *)
NothingForgotten ==
    Quiet => \A f \in heard : HasRow(f.sequence) \/ f \in spoilt \cup cut

(* Rows of one stream are created in the order the sentences were spoken:   *)
(* archive pages and the retry worker's context queries rely on it, while   *)
(* the translation task and two drains may hold finals of the stream.       *)
RowsInOrder ==
    [][\A r \in rows' \ rows, q \in rows :
          q.final.stream = r.final.stream => q.final.sequence < r.final.sequence]_vars

(* archived_final_sequences never names a number without a row: a final is  *)
(* skipped as already archived only if it is.                               *)
ArchivedIsStored ==
    \A k \in archived : HasRow(k)

(* A retry job is only ever queued for a row that is stored as failed.      *)
JobsAreFailedRows ==
    \A f \in jobs : Row(f, "FAILED") \in rows

(* Every final shown gets its number into the table in the end, by the      *)
(* translation task while the meeting goes on or by a drain when it ends.   *)
(* Two things may stall it: a raising insert kills the translation task,    *)
(* which the next final or the end of the meeting has to start again, and   *)
(* finals in a drain that is cancelled stay behind.                         *)
EventuallyArchived ==
    \A f \in Finals : f \in heard ~> (HasRow(f.sequence) \/ spoilt # {} \/ cut # {})

(* What memory-bank/architecture.md says: the current and queued finals of  *)
(* a connection that ends are archived - that very sentence, not its number. *)
EveryFinalArchived ==
    Quiet => \A f \in heard : \E r \in rows : r.final = f

(* What the requirements say of a failed final: it enters the background    *)
(* retry, so once the session is settled its row has had a job.             *)
FailedIsQueued ==
    Quiet => \A r \in rows : r.status = "FAILED" => r.final \in jobs
=============================================================================
