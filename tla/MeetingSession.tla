--------------------------- MODULE MeetingSession ---------------------------
(***************************************************************************)
(* The life of one meeting session on the backend, at the granularity of   *)
(* the awaits of WebSocketSessionOrchestrator (ws_sessions.py).            *)
(*                                                                         *)
(* Three kinds of asyncio tasks touch the same WebSocketSessionState: the  *)
(* handler of each WebSocket connection, the speech-to-text task a         *)
(* connection starts, and the grace timer a disconnected connection leaves *)
(* behind.  Each of them can run _finalize_session, which charges the      *)
(* quota, closes the database row and releases the active-session slot in  *)
(* three separate awaits and sets state.closed only after the last.        *)
(*                                                                         *)
(* One action is the code between two suspension points.  Sessions share   *)
(* nothing but the quota store (module QuotaLedger), so one is enough.     *)
(***************************************************************************)
EXTENDS Integers, FiniteSets

CONSTANTS
    Conns,       \* WebSocket connections: the first starts the session, the others resume it
    NoConn,      \* stands for None
    Faults,      \* the environment faults admitted, a subset of FaultKinds
    MaxElapsed   \* bound: how many seconds after activation are told apart

FaultKinds == {"stt",     \* the speech-to-text stream raises
               "io",      \* an awaited database, Redis or provider call raises
               "drop",    \* the peer vanishes while the server is not in receive()
               "late"}    \* a resume arrives past the deadline, before the timer task ran

ASSUME ConnsAssumption == NoConn \notin Conns
ASSUME FaultsAssumption == Faults \subseteq FaultKinds
ASSUME MaxElapsedAssumption == MaxElapsed \in Nat

VARIABLES
    conn,        \* conn[c]: the socket of connection c
    at,          \* at[p]: the await at which task p is suspended
    cause,       \* cause[c]: the reason the handler of c is closing for
    victim,      \* victim[p]: the speech-to-text task p is cancelling
    seconds,     \* seconds[p]: the duration_seconds local of p's _finalize_session
    closed,      \* state.closed
    hasAudio,    \* state.has_audio, with state.active_started_at
    sttConn,     \* the connection that started state.stt_provider_task, or NoConn
    record,      \* the connection whose pause put the registry record, or NoConn
    row,         \* meeting_session.status
    rowSeconds,  \* meeting_session.quota_seconds_consumed
    slot,        \* the session id is a member of the client's active-session set
    used,        \* seconds added to the client's daily quota for this session
    elapsed      \* the clock, counted from active_started_at

vars == <<conn, at, cause, victim, seconds, closed, hasAudio, sttConn, record,
          row, rowSeconds, slot, used, elapsed>>
ledger == <<row, rowSeconds, slot, used>>
stateObject == <<closed, hasAudio, sttConn>>
locals == <<cause, victim, seconds>>

Handler(c) == <<"handler", c>>
Stt(c) == <<"stt", c>>
Timer(c) == <<"timer", c>>
Procs == {"handler", "stt", "timer"} \X Conns

\* Suspension points of _finalize_session, in order.
Closing == {"teardown", "join", "drain", "charge", "close", "release", "seal"}
\* Suspension points at which a handler is responsible for the session state.
Owning == {"reserve", "create", "undo", "greet", "welcome", "recv", "activate",
           "tell", "report", "bye", "pause"} \cup Closing
HandlerLabels == {"none", "sweep", "swept", "gone"} \cup Owning
SttLabels == {"none", "run", "report", "bye", "gone"} \cup Closing
TimerLabels == {"none", "sleep", "due", "gone"} \cup Closing
Labels == HandlerLabels \cup SttLabels \cup TimerLabels

TypeOK ==
    /\ conn \in [Conns -> {"idle", "open", "dropped", "shut"}]
    /\ at \in [Procs -> Labels]
    /\ \A c \in Conns : /\ at[Handler(c)] \in HandlerLabels
                       /\ at[Stt(c)] \in SttLabels
                       /\ at[Timer(c)] \in TimerLabels
    /\ cause \in [Conns -> {"user_stopped", "invalid_message", "internal_error"}]
    /\ victim \in [Procs -> Conns \cup {NoConn}]
    /\ seconds \in [Procs -> 0..MaxElapsed]
    /\ closed \in BOOLEAN
    /\ hasAudio \in BOOLEAN
    /\ sttConn \in Conns \cup {NoConn}
    /\ record \in Conns \cup {NoConn}
    /\ row \in {"absent", "pending_audio", "active", "ended", "error"}
    /\ rowSeconds \in 0..MaxElapsed
    /\ slot \in BOOLEAN
    /\ used \in Nat
    /\ elapsed \in 0..MaxElapsed

Init ==
    /\ conn = [c \in Conns |-> "idle"]
    /\ at = [p \in Procs |-> "none"]
    /\ cause = [c \in Conns |-> "user_stopped"]
    /\ victim = [p \in Procs |-> NoConn]
    /\ seconds = [p \in Procs |-> 0]
    /\ closed = FALSE
    /\ hasAudio = FALSE
    /\ sttConn = NoConn
    /\ record = NoConn
    /\ row = "absent"
    /\ rowSeconds = 0
    /\ slot = FALSE
    /\ used = 0
    /\ elapsed = 0

Goto(p, label) == at' = [at EXCEPT ![p] = label]

\* The finally clause of handle: a session not yet closed is paused.
FinallyLabel == IF closed THEN "gone" ELSE "pause"

\* The guard of _finalize_session.
FinalizeLabel == IF closed THEN "bye" ELSE "teardown"

-----------------------------------------------------------------------------
(* Starting: reserve the slot, insert the row, send session_started.  Until *)
(* _start_session returns, the handler's own variable state is still None.  *)

Connect(c) ==
    /\ \A d \in Conns : conn[d] = "idle"
    /\ conn' = [conn EXCEPT ![c] = "open"]
    /\ Goto(Handler(c), "reserve")
    /\ UNCHANGED <<locals, stateObject, record, ledger, elapsed>>

ReserveSlot(c) ==
    /\ at[Handler(c)] = "reserve"
    /\ slot' = TRUE
    /\ Goto(Handler(c), "create")
    /\ UNCHANGED <<conn, locals, stateObject, record, row, rowSeconds, used, elapsed>>

\* The client is unknown, or the quota denies the start (QuotaLedger says when).
ReserveRefused(c) ==
    /\ at[Handler(c)] = "reserve"
    /\ conn' = [conn EXCEPT ![c] = "shut"]
    /\ Goto(Handler(c), "gone")
    /\ UNCHANGED <<locals, stateObject, record, ledger, elapsed>>

CreatePendingSession(c) ==
    /\ at[Handler(c)] = "create"
    /\ row' = "pending_audio"
    /\ Goto(Handler(c), "greet")
    /\ UNCHANGED <<conn, locals, stateObject, record, rowSeconds, slot, used, elapsed>>

\* create_pending_session raised: release the slot and re-raise.
UndoReservation(c) ==
    /\ at[Handler(c)] = "undo"
    /\ slot' = FALSE
    /\ conn' = [conn EXCEPT ![c] = "shut"]
    /\ Goto(Handler(c), "gone")
    /\ UNCHANGED <<locals, stateObject, record, row, rowSeconds, used, elapsed>>

\* session_started or session_resumed is sent before the state is bound to the
\* handler: if the send raises, handle's finally clause sees state = None.
Greet(c) ==
    /\ at[Handler(c)] \in {"greet", "welcome"}
    /\ Goto(Handler(c), IF conn[c] = "open" THEN "recv" ELSE "gone")
    /\ UNCHANGED <<conn, locals, stateObject, record, ledger, elapsed>>

-----------------------------------------------------------------------------
(* Resuming: pop the registry record and reset the state object.            *)

\* Mutant of Resume: the registry record is read but not popped.
ResumeKeepingRecord(c) ==
    /\ conn[c] = "idle"
    /\ row # "absent"
    /\ record # NoConn
    /\ at[Timer(record)] = "sleep"
    /\ closed' = FALSE
    /\ sttConn' = NoConn
    /\ conn' = [conn EXCEPT ![c] = "open"]
    /\ at' = [at EXCEPT ![Timer(record)] = "gone", ![Handler(c)] = "welcome"]
    /\ UNCHANGED <<locals, hasAudio, record, ledger, elapsed>>

Resume(c) ==
    /\ conn[c] = "idle"
    /\ row # "absent"
    /\ record # NoConn
    /\ at[Timer(record)] = "sleep"
    /\ record' = NoConn
    /\ closed' = FALSE
    /\ sttConn' = NoConn
    /\ conn' = [conn EXCEPT ![c] = "open"]
    /\ at' = [at EXCEPT ![Timer(record)] = "gone", ![Handler(c)] = "welcome"]
    /\ UNCHANGED <<locals, hasAudio, ledger, elapsed>>

\* Past expires_at the registry drops the record and refuses; the timer's task
\* stays scheduled.
ResumeTooLate(c) ==
    /\ "late" \in Faults
    /\ conn[c] = "idle"
    /\ record # NoConn
    /\ at[Timer(record)] = "due"
    /\ record' = NoConn
    /\ conn' = [conn EXCEPT ![c] = "shut"]
    /\ Goto(Handler(c), "gone")
    /\ UNCHANGED <<locals, stateObject, ledger, elapsed>>

\* No record: session_resume_failed.
ResumeRefused(c) ==
    /\ conn[c] = "idle"
    /\ row # "absent"
    /\ record = NoConn
    /\ conn' = [conn EXCEPT ![c] = "shut"]
    /\ Goto(Handler(c), "gone")
    /\ UNCHANGED <<locals, stateObject, record, ledger, elapsed>>

-----------------------------------------------------------------------------
(* The receive loop.                                                        *)

\* A binary frame: the first one activates the session, a later one starts a
\* speech-to-text stream if a resumed state has none.  closed is not consulted.
FirstAudio(c) ==
    /\ at[Handler(c)] = "recv"
    /\ conn[c] = "open"
    /\ ~hasAudio
    /\ Goto(Handler(c), "activate")
    /\ UNCHANGED <<conn, locals, stateObject, record, ledger, elapsed>>

MarkActive(c) ==
    /\ at[Handler(c)] = "activate"
    /\ row' = "active"
    /\ hasAudio' = TRUE
    /\ Goto(Handler(c), "tell")
    /\ UNCHANGED <<conn, locals, closed, sttConn, record, rowSeconds, slot, used, elapsed>>

\* audio_status is sent before the speech-to-text task is created.
TellAudio(c) ==
    /\ at[Handler(c)] = "tell"
    /\ IF conn[c] = "open"
       THEN /\ sttConn' = c
            /\ at' = [at EXCEPT ![Handler(c)] = "recv", ![Stt(c)] = "run"]
       ELSE /\ Goto(Handler(c), FinallyLabel)
            /\ UNCHANGED sttConn
    /\ UNCHANGED <<conn, locals, closed, hasAudio, record, ledger, elapsed>>

NextAudio(c) ==
    /\ at[Handler(c)] = "recv"
    /\ conn[c] = "open"
    /\ hasAudio
    /\ sttConn = NoConn
    /\ sttConn' = c
    /\ Goto(Stt(c), "run")
    /\ UNCHANGED <<conn, locals, closed, hasAudio, record, ledger, elapsed>>

SessionStop(c) ==
    /\ at[Handler(c)] = "recv"
    /\ conn[c] = "open"
    /\ cause' = [cause EXCEPT ![c] = "user_stopped"]
    /\ Goto(Handler(c), FinalizeLabel)
    /\ UNCHANGED <<conn, victim, seconds, stateObject, record, ledger, elapsed>>

\* Unparsable text, a second session_start or session_resume, or a session id
\* that is not this session's.
BadMessage(c) ==
    /\ at[Handler(c)] = "recv"
    /\ conn[c] = "open"
    /\ cause' = [cause EXCEPT ![c] = "invalid_message"]
    /\ Goto(Handler(c), "report")
    /\ UNCHANGED <<conn, victim, seconds, stateObject, record, ledger, elapsed>>

\* Mutant of Hangup: the finally clause of handle does not pause the session.
HangupForgetting(c) ==
    /\ at[Handler(c)] = "recv"
    /\ conn[c] \in {"dropped", "shut"}
    /\ Goto(Handler(c), "gone")
    /\ UNCHANGED <<conn, locals, stateObject, record, ledger, elapsed>>

\* receive() returns websocket.disconnect: the peer left, or a speech-to-text
\* task closed the socket.
Hangup(c) ==
    /\ at[Handler(c)] = "recv"
    /\ conn[c] \in {"dropped", "shut"}
    /\ Goto(Handler(c), FinallyLabel)
    /\ UNCHANGED <<conn, locals, stateObject, record, ledger, elapsed>>

-----------------------------------------------------------------------------
(* The speech-to-text task.                                                 *)

SttEnds(c) ==
    /\ at[Stt(c)] = "run"
    /\ Goto(Stt(c), "gone")
    /\ UNCHANGED <<conn, locals, stateObject, record, ledger, elapsed>>

SttRaises(c) ==
    /\ "stt" \in Faults
    /\ at[Stt(c)] = "run"
    /\ Goto(Stt(c), "report")
    /\ UNCHANGED <<conn, locals, stateObject, record, ledger, elapsed>>

-----------------------------------------------------------------------------
(* _close_with_error, around _finalize_session: the error message goes out  *)
(* first, so on a dead socket it raises before anything is finalized.       *)

\* Mutant of Raised: a task without a finally clause is treated as a handler.
RaisedInHandle(p) == FinallyLabel

Raised(p) == IF p[1] = "handler" THEN FinallyLabel ELSE "gone"

Report(p) ==
    /\ at[p] = "report"
    /\ Goto(p, IF conn[p[2]] = "open" THEN FinalizeLabel ELSE Raised(p))
    /\ UNCHANGED <<conn, locals, stateObject, record, ledger, elapsed>>

\* Mutant of Bye: the finally clause of handle pauses a closed session too.
ByeThenPause(p) ==
    /\ at[p] = "bye"
    /\ IF conn[p[2]] = "open"
       THEN /\ conn' = [conn EXCEPT ![p[2]] = "shut"]
            /\ closed' = TRUE
            /\ Goto(p, IF p[1] = "handler" THEN "pause" ELSE "gone")
       ELSE /\ Goto(p, Raised(p))
            /\ UNCHANGED <<conn, closed>>
    /\ UNCHANGED <<locals, hasAudio, sttConn, record, ledger, elapsed>>

Bye(p) ==
    /\ at[p] = "bye"
    /\ IF conn[p[2]] = "open"
       THEN /\ conn' = [conn EXCEPT ![p[2]] = "shut"]
            /\ closed' = TRUE
            /\ Goto(p, "gone")
       ELSE /\ Goto(p, Raised(p))
            /\ UNCHANGED <<conn, closed>>
    /\ UNCHANGED <<locals, hasAudio, sttConn, record, ledger, elapsed>>

-----------------------------------------------------------------------------
(* Cancelling the speech-to-text task k and awaiting it.  A task suspended  *)
(* in its own _cancel_task swallows the CancelledError and runs on, so the  *)
(* canceller waits until it has finished by itself.                         *)

Live(k) == k # NoConn /\ at[Stt(k)] \notin {"none", "gone"}

CancelAndGoto(p, k, next, wait) ==
    at' = IF ~Live(k) \/ p = Stt(k) THEN [at EXCEPT ![p] = next]
          ELSE IF at[Stt(k)] \in {"join", "drain"} THEN [at EXCEPT ![p] = wait]
          ELSE [at EXCEPT ![p] = next, ![Stt(k)] = "gone"]

-----------------------------------------------------------------------------
(* _finalize_session, run by a handler, a speech-to-text task or a timer.   *)

\* Mutant of Teardown: state.closed is set before the settlement, not after it.
TeardownSealing(p) ==
    /\ at[p] = "teardown"
    /\ victim' = [victim EXCEPT ![p] = sttConn]
    /\ closed' = TRUE
    /\ CancelAndGoto(p, sttConn, "drain", "join")
    /\ UNCHANGED <<conn, cause, seconds, hasAudio, sttConn, record, ledger, elapsed>>

\* The providers are closed, then the speech-to-text task of the state object
\* is cancelled unless it is the caller.
Teardown(p) ==
    /\ at[p] = "teardown"
    /\ victim' = [victim EXCEPT ![p] = sttConn]
    /\ CancelAndGoto(p, sttConn, "drain", "join")
    /\ UNCHANGED <<conn, cause, seconds, stateObject, record, ledger, elapsed>>

Join(p) ==
    /\ at[p] = "join"
    /\ ~Live(victim[p])
    /\ Goto(p, "drain")
    /\ UNCHANGED <<conn, locals, stateObject, record, ledger, elapsed>>

\* The final translation task has been cancelled and awaited.
Drain(p) ==
    /\ at[p] = "drain"
    /\ Goto(p, "charge")
    /\ UNCHANGED <<conn, locals, stateObject, record, ledger, elapsed>>

\* Mutant of RecordConsumed: close_session is left out after the charge.
RecordConsumedOnly(p) ==
    /\ at[p] = "charge"
    /\ seconds' = [seconds EXCEPT ![p] = elapsed]
    /\ used' = used + elapsed
    /\ Goto(p, "release")
    /\ UNCHANGED <<conn, cause, victim, stateObject, record, row, rowSeconds, slot, elapsed>>

\* Unfinished finals are archived as failed; then the duration is computed and
\* charged to the daily quota.
RecordConsumed(p) ==
    /\ at[p] = "charge"
    /\ seconds' = [seconds EXCEPT ![p] = elapsed]
    /\ used' = used + elapsed
    /\ Goto(p, "close")
    /\ UNCHANGED <<conn, cause, victim, stateObject, record, row, rowSeconds, slot, elapsed>>

\* Mutant of CloseSession: the duration is computed a second time for the row.
CloseSessionRecomputed(p) ==
    /\ at[p] = "close"
    /\ row' = IF p[1] = "handler" /\ cause[p[2]] = "user_stopped" THEN "ended" ELSE "error"
    /\ rowSeconds' = elapsed
    /\ Goto(p, "release")
    /\ UNCHANGED <<conn, locals, stateObject, record, slot, used, elapsed>>

CloseSession(p) ==
    /\ at[p] = "close"
    /\ row' = IF p[1] = "handler" /\ cause[p[2]] = "user_stopped" THEN "ended" ELSE "error"
    /\ rowSeconds' = seconds[p]
    /\ Goto(p, "release")
    /\ UNCHANGED <<conn, locals, stateObject, record, slot, used, elapsed>>

ReleaseSlot(p) ==
    /\ at[p] = "release"
    /\ slot' = FALSE
    /\ Goto(p, "seal")
    /\ UNCHANGED <<conn, locals, stateObject, record, row, rowSeconds, used, elapsed>>

\* After session_stop, quota_update and session_closed are sent; only then is
\* the state marked closed.  A dead socket raises before the mark.
Seal(p) ==
    /\ at[p] = "seal"
    /\ IF p[1] = "handler" /\ cause[p[2]] = "user_stopped" /\ conn[p[2]] # "open"
       THEN /\ Goto(p, FinallyLabel)
            /\ UNCHANGED closed
       ELSE /\ closed' = TRUE
            /\ Goto(p, IF p[1] = "timer" THEN "gone" ELSE "bye")
    /\ UNCHANGED <<conn, locals, hasAudio, sttConn, record, ledger, elapsed>>

-----------------------------------------------------------------------------
(* _pause_session_for_resume and the grace timer.                           *)

\* Between the drain of the final translations and the registry put there is no
\* await: the record is visible before the old tasks are swept away.
Pause(c) ==
    /\ at[Handler(c)] = "pause"
    /\ closed' = TRUE
    /\ sttConn' = NoConn
    /\ record' = c
    /\ victim' = [victim EXCEPT ![Handler(c)] = sttConn]
    /\ at' = [at EXCEPT ![Handler(c)] = "sweep", ![Timer(c)] = "sleep"]
    /\ UNCHANGED <<conn, cause, seconds, hasAudio, ledger, elapsed>>

Sweep(c) ==
    /\ at[Handler(c)] = "sweep"
    /\ CancelAndGoto(Handler(c), victim[Handler(c)], "gone", "swept")
    /\ UNCHANGED <<conn, locals, stateObject, record, ledger, elapsed>>

Swept(c) ==
    /\ at[Handler(c)] = "swept"
    /\ ~Live(victim[Handler(c)])
    /\ Goto(Handler(c), "gone")
    /\ UNCHANGED <<conn, locals, stateObject, record, ledger, elapsed>>

\* expires_at passes; the task that sleeps until then is only made ready.
GraceElapses(c) ==
    /\ at[Timer(c)] = "sleep"
    /\ Goto(Timer(c), "due")
    /\ UNCHANGED <<conn, locals, stateObject, record, ledger, elapsed>>

\* Mutant of Expire: state.closed is not reset, so _finalize_session returns.
ExpireStillClosed(c) ==
    /\ at[Timer(c)] = "due"
    /\ record' = IF record = c THEN NoConn ELSE record
    /\ Goto(Timer(c), "gone")
    /\ UNCHANGED <<conn, locals, stateObject, ledger, elapsed>>

\* _expire_resumable_session: finalize only the record that is still there.
Expire(c) ==
    /\ at[Timer(c)] = "due"
    /\ IF record = c
       THEN /\ record' = NoConn
            /\ closed' = FALSE
            /\ Goto(Timer(c), "teardown")
       ELSE /\ Goto(Timer(c), "gone")
            /\ UNCHANGED <<closed, record>>
    /\ UNCHANGED <<conn, locals, hasAudio, sttConn, ledger, elapsed>>

-----------------------------------------------------------------------------
(* The environment.                                                         *)

Drop(c) ==
    /\ conn[c] = "open"
    /\ at[Handler(c)] = "recv" \/ "drop" \in Faults
    /\ conn' = [conn EXCEPT ![c] = "dropped"]
    /\ UNCHANGED <<at, locals, stateObject, record, ledger, elapsed>>

Tick ==
    /\ hasAudio
    /\ elapsed < MaxElapsed
    /\ elapsed' = elapsed + 1
    /\ UNCHANGED <<conn, at, locals, stateObject, record, ledger>>

\* The starting handler owns no state yet: the error ends the connection.  A
\* reservation that raised may have added its member all the same.
StartFails(c) ==
    /\ "io" \in Faults
    /\ \/ /\ at[Handler(c)] = "create"
          /\ Goto(Handler(c), "undo")
          /\ UNCHANGED <<conn, slot>>
       \/ /\ at[Handler(c)] \in {"reserve", "undo"}
          /\ Goto(Handler(c), "gone")
          /\ conn' = [conn EXCEPT ![c] = "shut"]
          /\ (slot' = slot) \/ (at[Handler(c)] = "reserve" /\ slot' = TRUE)
    /\ UNCHANGED <<locals, stateObject, record, row, rowSeconds, used, elapsed>>

\* The except clause of handle closes with internal_error; an exception raised
\* there reaches the finally clause.  A task of its own just dies.
CloseFails(p) ==
    /\ "io" \in Faults
    /\ at[p] \in {"charge", "close", "release"} \/ (p[1] = "handler" /\ at[p] = "activate")
    /\ IF p[1] = "handler" /\ (at[p] = "activate" \/ cause[p[2]] # "internal_error")
       THEN /\ cause' = [cause EXCEPT ![p[2]] = "internal_error"]
            /\ Goto(p, "report")
       ELSE /\ Goto(p, Raised(p))
            /\ UNCHANGED cause
    /\ UNCHANGED <<conn, victim, seconds, stateObject, record, ledger, elapsed>>

\* Archiving the unfinished finals raises inside the finally clause.
PauseFails(c) ==
    /\ "io" \in Faults
    /\ at[Handler(c)] = "pause"
    /\ Goto(Handler(c), "gone")
    /\ UNCHANGED <<conn, locals, stateObject, record, ledger, elapsed>>

-----------------------------------------------------------------------------
StartStep(c) == \/ ReserveSlot(c) \/ ReserveRefused(c) \/ CreatePendingSession(c)
                \/ UndoReservation(c) \/ Greet(c)
LoopStep(c) == MarkActive(c) \/ TellAudio(c) \/ Hangup(c)
PauseStep(c) == Pause(c) \/ Sweep(c) \/ Swept(c)
TimerStep(c) == GraceElapses(c) \/ Expire(c)
CloseStep(p) == \/ Report(p) \/ Teardown(p) \/ Join(p) \/ Drain(p) \/ RecordConsumed(p)
                \/ CloseSession(p) \/ ReleaseSlot(p) \/ Seal(p) \/ Bye(p)

ClientStep(c) == \/ Connect(c) \/ Resume(c) \/ ResumeTooLate(c) \/ ResumeRefused(c)
                 \/ FirstAudio(c) \/ NextAudio(c) \/ SessionStop(c) \/ BadMessage(c) \/ Drop(c)
FaultStep(c) == SttRaises(c) \/ StartFails(c) \/ PauseFails(c)

Next ==
    \/ \E c \in Conns : \/ ClientStep(c) \/ StartStep(c) \/ LoopStep(c) \/ PauseStep(c)
                        \/ TimerStep(c) \/ SttEnds(c) \/ FaultStep(c)
    \/ \E p \in Procs : CloseStep(p) \/ CloseFails(p)
    \/ Tick

Spec == Init /\ [][Next]_vars

\* The event loop runs every ready task and every awaited call returns; what the
\* browser sends, faults and the end of a stream are not promised.
Fairness ==
    /\ \A c \in Conns : /\ WF_vars(StartStep(c)) /\ WF_vars(LoopStep(c))
                       /\ WF_vars(PauseStep(c)) /\ WF_vars(TimerStep(c))
    /\ \A p \in Procs : WF_vars(CloseStep(p))

FairSpec == Spec /\ Fairness
-----------------------------------------------------------------------------
(* Properties.                                                              *)

Running == row \in {"pending_audio", "active"}
Settled == ~slot /\ row \in {"ended", "error"}

(* At any time at most one of these is responsible for the session: one     *)
(* connection handler, one expiring grace timer, or the registry record.    *)
(* It rests on pop and expire removing the record, on pause putting it only *)
(* when its handler is done with the state, and must survive every fault.   *)
SoleOwner ==
    /\ \A c, d \in Conns :
          /\ at[Handler(c)] \in Owning /\ at[Handler(d)] \in Owning => c = d
          /\ at[Timer(c)] \in Closing /\ at[Timer(d)] \in Closing => c = d
          /\ ~(at[Handler(c)] \in Owning /\ at[Timer(d)] \in Closing)
    /\ record # NoConn => \A c \in Conns : /\ at[Handler(c)] \notin Owning
                                           /\ at[Timer(c)] \notin Closing

(* A session that still holds its slot or whose row is still open has a     *)
(* task that will settle it: a handler, an expiring timer, or a record      *)
(* whose timer is pending.  Fails as soon as a code path drops the state    *)
(* object on the floor.                                                     *)
NoOrphan ==
    slot \/ Running =>
        \/ \E c \in Conns : at[Handler(c)] \in Owning \/ at[Timer(c)] \in Closing
        \/ record # NoConn

(* state.closed with no registry record means settled: nobody skips         *)
(* _finalize_session on the flag while the slot or the row is still open.   *)
ClosedMeansSettled ==
    closed /\ record = NoConn => Settled

(* A session that can still receive audio holds its client's slot.          *)
SlotCoversRow ==
    Running => slot

(* When the session is settled and no task is still closing it, the seconds *)
(* taken from the daily quota are the seconds the row says it consumed.     *)
Quiet == \A p \in Procs : at[p] \notin Closing
ChargedOnce ==
    Settled /\ Quiet => used = rowSeconds

(* Settlement is final: no later step of any task touches the quota, the    *)
(* row or the slot of a settled session.                                    *)
SettledIsFinal ==
    [][Settled => UNCHANGED ledger]_vars

(* When no socket is left open, the session is settled in the end, or a     *)
(* client comes back: by session_stop, by an error, or by the grace timer.  *)
Abandoned == \A c \in Conns : conn[c] # "open"
AbandonedIsSettled ==
    Abandoned ~> (~slot /\ ~Running) \/ ~Abandoned

(* The session refines the one-step settlement: the quota charge and the    *)
(* row update count when the slot is given back.                            *)
Phase == IF slot THEN "held" ELSE IF row = "absent" THEN "none" ELSE "settled"
Settlement == INSTANCE SessionSettlement WITH
    phase <- Phase,
    billed <- IF Phase = "settled" THEN used ELSE 0,
    recorded <- IF Phase = "settled" THEN rowSeconds ELSE 0
SettlesOnce == Settlement!SettlementSpec
=============================================================================
