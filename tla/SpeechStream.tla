---------------------------- MODULE SpeechStream ----------------------------
(***************************************************************************)
(* What ws_sessions.py does with the speech-to-text streams of a session:  *)
(* the first audio of a connection starts one, its pipeline task forwards  *)
(* what it hears to the browser, and it is taken down when the session is  *)
(* stopped, is paused, or when the stream fails.  Who settles the session  *)
(* is the subject of MeetingSession; what becomes of the texts is that of  *)
(* InterimTranslation and FinalTranslation.                                *)
(*                                                                         *)
(* Connection k of the session uses stream k, if it brings audio at all.   *)
(* A send on a socket that is gone raises.                                 *)
(***************************************************************************)
EXTENDS SttProvider

VARIABLES
    qwen,        \* a speech-to-text factory is configured; else the mock pipeline runs
    closed,      \* state.closed
    parked,      \* a resume record of the session is in the registry
    conn,        \* the session's connections so far
    online,      \* the socket of the last one is open
    handler,     \* its handler: in the receive loop, in the finally clause, or returned
    closing,     \* closing[p]: the await of _finalize_session at which p is suspended
    target,      \* target[p]: the stream whose close() or task p waits for, or 0
    sweeper,     \* sweeper[k]: the same for the end of _pause_session_for_resume
    stream,      \* state.stt_provider, or 0 for None
    mock         \* the step of the mock pipeline, 0 before and after

connVars == <<qwen, conn, online>>
sessionVars == <<closed, parked, connVars, handler, closing, target, sweeper, stream, mock>>
vars == <<providerVars, sessionVars>>

\* The pipeline task of stream k is k.
Handler == 0
Timer == MaxStreams + 1
Tasks == Streams \cup {Handler, Timer}
\* The awaits of _finalize_session; "provider" is the first call of close(), "settle"
\* all that follows when nothing of the stream is left.
Steps == {"none", "close", "provider", "task", "join", "settle"}
\* Sleeps of _run_mock_provider_pipeline.
MockSteps == 6

TypeOK ==
    /\ ProviderTypeOK
    /\ {qwen, closed, parked, online} \subseteq BOOLEAN
    /\ conn \in Streams
    /\ handler \in {"loop", "leaving", "gone"}
    /\ closing \in [Tasks -> Steps]
    /\ target \in [Tasks -> 0..MaxStreams]
    /\ sweeper \in [Streams -> {"none", "task", "join", "close", "provider"}]
    /\ stream \in 0..conn
    /\ mock \in 0..MockSteps

Init ==
    /\ ProviderInit
    /\ qwen \in BOOLEAN
    /\ closed = FALSE
    /\ parked = FALSE
    /\ conn = 1
    /\ online = TRUE
    /\ handler = "loop"
    /\ closing = [p \in Tasks |-> "none"]
    /\ target = [p \in Tasks |-> 0]
    /\ sweeper = [k \in Streams |-> "none"]
    /\ stream = 0
    /\ mock = 0

Serving == handler = "loop" /\ closing[Handler] = "none"
\* The socket that the tasks of stream k send on.
Reaches(k) == online /\ k = conn

-----------------------------------------------------------------------------
(* The receive loop: audio.                                                 *)

\* The first frame of a connection starts a stream and is its first frame.
StartStream ==
    /\ Serving /\ online /\ qwen
    /\ stream = 0
    /\ stream' = conn
    /\ reader' = [reader EXCEPT ![conn] = "connect"]
    /\ queue' = [queue EXCEPT ![conn] = 1]
    /\ flush' = [flush EXCEPT ![conn] = TRUE]
    /\ UNCHANGED <<shut, upstream, sender, finish, finished, closer,
                   closed, parked, connVars, handler, closing, target, sweeper, mock>>

\* A provider that is set gets the audio, whatever has become of its stream.
ForwardAudio ==
    /\ Serving /\ online
    /\ stream # 0
    /\ queue[stream] < MaxAudio
    /\ SendAudio(stream)
    /\ UNCHANGED sessionVars

StartMock ==
    /\ Serving /\ online /\ ~qwen
    /\ conn = 1 /\ mock = 0
    /\ mock' = 1
    /\ UNCHANGED <<providerVars, closed, parked, connVars, handler, closing, target, sweeper, stream>>

\* One sleep and what is sent after it; a send that raises ends the task.
MockStep ==
    /\ mock # 0
    /\ mock' = IF mock < MockSteps /\ online THEN mock + 1 ELSE 0
    /\ UNCHANGED <<providerVars, closed, parked, connVars, handler, closing, target, sweeper, stream>>

-----------------------------------------------------------------------------
(* The pipeline task of stream k.                                           *)

\* asr_interim or asr_final is sent and the text scheduled.  When the send raises,
\* so does the error message of the handler around the loop, and the task dies.
ShowEvent(k) ==
    /\ reader[k] = "event"
    /\ IF Reaches(k) THEN Read(k, "read") ELSE CancelReader(k)
    /\ UNCHANGED <<shut, upstream, queueVars, finish, finished, closer, sessionVars>>

\* An exception of task k is raised in whoever awaits it, too: the sweep of its
\* provider stops, and so does a finalization, which leaves the session open.
RaiseIn(k) ==
    LET awaiting == {p \in Tasks : closing[p] = "join" /\ target[p] = k} IN
    /\ sweeper' = [sweeper EXCEPT ![k] = IF @ = "join" THEN "none" ELSE @]
    /\ closing' = [p \in Tasks |-> IF p \in awaiting THEN "none" ELSE closing[p]]
    /\ handler' = IF Handler \notin awaiting THEN handler ELSE IF closed THEN "gone" ELSE "leaving"

\* _close_with_error: raises when the message cannot be sent; else the session is
\* finalized unless it is closed already.
StreamFails(k) ==
    /\ reader[k] = "failed"
    /\ closing[k] = "none"
    /\ CASE ~Reaches(k) -> Read(k, "over") /\ RaiseIn(k)
         [] Reaches(k) /\ closed -> Read(k, "over") /\ UNCHANGED <<sweeper, closing, handler>>
         [] OTHER -> /\ closing' = [closing EXCEPT ![k] = "close"]
                     /\ UNCHANGED <<reader, sweeper, handler>>
    /\ UNCHANGED <<shut, upstream, queueVars, finish, finished, closer,
                   closed, parked, connVars, target, stream, mock>>

-----------------------------------------------------------------------------
(* _finalize_session, run by the handler, by a failing pipeline task or by  *)
(* the grace timer.                                                         *)

At(p, step) == closing[p] = step
Goto(p, step) == closing' = [closing EXCEPT ![p] = step]

\* session_stop.
SessionStop ==
    /\ Serving /\ online /\ ~closed
    /\ Goto(Handler, "close")
    /\ mock' = 0
    /\ UNCHANGED <<providerVars, closed, parked, connVars, handler, target, sweeper, stream>>

NothingToClose(p) ==
    /\ At(p, "close")
    /\ stream = 0
    /\ Goto(p, "settle")
    /\ UNCHANGED <<providerVars, closed, parked, connVars, handler, target, sweeper, stream, mock>>

\* A task that is awaiting another one it has cancelled takes its own cancellation
\* for that one's, and goes on.
MaySwallow(k) == At(k, "settle")

\* close() has nothing to await before the upstream socket is there: the task is
\* cancelled in the same breath, unless it is the one that runs.
CloseUnopened(p) ==
    /\ At(p, "close")
    /\ stream # 0 /\ upstream[stream] = "none"
    /\ Close(stream)
    /\ \/ p = stream /\ Goto(p, "settle") /\ UNCHANGED reader
       \/ /\ p # stream
          /\ \/ /\ CancelReader(stream)
                /\ closing' = [closing EXCEPT ![stream] = "none", ![p] = "join"]
             \/ MaySwallow(stream) /\ Goto(p, "join") /\ UNCHANGED reader
    /\ target' = [target EXCEPT ![p] = stream]
    /\ UNCHANGED <<closed, parked, connVars, handler, sweeper, stream, mock>>

\* Only the first caller of close() waits for it.
CloseStream(p) ==
    /\ At(p, "close")
    /\ stream # 0 /\ upstream[stream] # "none"
    /\ Close(stream)
    /\ target' = [target EXCEPT ![p] = stream]
    /\ Goto(p, IF shut[stream] THEN "task" ELSE "provider")
    /\ UNCHANGED <<reader, closed, parked, connVars, handler, sweeper, stream, mock>>

StreamClosed(p) ==
    /\ At(p, "provider")
    /\ closer[target[p]] = "done"
    /\ Goto(p, "task")
    /\ UNCHANGED <<providerVars, closed, parked, connVars, handler, target, sweeper, stream, mock>>

\* Pipeline task k is cancelled wherever it is, a close() it has called included.
CancelPipeline(k) ==
    /\ CancelReader(k)
    /\ closer' = IF At(k, "provider") THEN [closer EXCEPT ![target[k]] = "done"] ELSE closer
    /\ UNCHANGED <<shut, upstream, queueVars, finish, finished>>

\* A pipeline task does not cancel itself.
CancelTask(p) ==
    /\ At(p, "task")
    /\ \/ /\ stream \in {0, p}
          /\ Goto(p, "settle")
          /\ UNCHANGED <<providerVars, target>>
       \/ /\ stream \notin {0, p}
          /\ target' = [target EXCEPT ![p] = stream]
          /\ \/ CancelPipeline(stream)
                /\ closing' = [closing EXCEPT ![p] = "join", ![stream] = "none"]
             \/ MaySwallow(stream) /\ Goto(p, "join") /\ UNCHANGED providerVars
    /\ UNCHANGED <<closed, parked, connVars, handler, sweeper, stream, mock>>

TaskDone(k) == reader[k] \in {"over", "abandoned"}

Join(p) ==
    /\ At(p, "join")
    /\ TaskDone(target[p])
    /\ Goto(p, "settle")
    /\ UNCHANGED <<providerVars, closed, parked, connVars, handler, target, sweeper, stream, mock>>

\* A pipeline task closes the socket at the end, a handler leaves its loop: when it
\* cannot send session_closed, without having set closed.
Settle(p) ==
    /\ At(p, "settle")
    /\ Goto(p, "none")
    /\ target' = [target EXCEPT ![p] = 0]
    /\ IF p = Handler
       THEN /\ handler' = IF online \/ closed THEN "gone" ELSE "leaving"
            /\ closed' = (online \/ closed)
            /\ UNCHANGED <<online, reader>>
       ELSE /\ closed' = TRUE
            /\ online' = (online /\ p = Timer)
            /\ reader' = IF p \in Streams THEN [reader EXCEPT ![p] = "over"] ELSE reader
            /\ UNCHANGED handler
    /\ UNCHANGED <<shut, upstream, queueVars, finish, finished, closer,
                   qwen, conn, parked, sweeper, stream, mock>>

-----------------------------------------------------------------------------
(* Disconnection, pause and resume.                                         *)

BrowserLeaves ==
    /\ "browser" \in Faults
    /\ online
    /\ online' = FALSE
    /\ UNCHANGED <<providerVars, qwen, conn, closed, parked, handler, closing, target, sweeper,
                   stream, mock>>

\* The finally clause of handle.
Disconnect ==
    /\ Serving /\ ~online
    /\ handler' = IF closed THEN "gone" ELSE "leaving"
    /\ UNCHANGED <<providerVars, closed, parked, connVars, closing, target, sweeper, stream, mock>>

\* _pause_session_for_resume after the finals are archived, without another look
\* at closed: up to the first await after the record is put.
Park ==
    /\ handler = "leaving"
    /\ handler' = "gone"
    /\ closed' = TRUE
    /\ parked' = TRUE
    /\ sweeper' = IF stream = 0 THEN sweeper ELSE [sweeper EXCEPT ![stream] = "task"]
    /\ stream' = 0
    /\ mock' = 0
    /\ UNCHANGED <<providerVars, connVars, closing, target>>

SweepTo(k, step) == sweeper' = [sweeper EXCEPT ![k] = step]

\* Here the task is cancelled first and the provider closed after it.
SweepTask(k) ==
    /\ sweeper[k] = "task"
    /\ \/ CancelPipeline(k) /\ closing' = [closing EXCEPT ![k] = "none"]
       \/ MaySwallow(k) /\ UNCHANGED <<providerVars, closing>>
    /\ SweepTo(k, "join")
    /\ UNCHANGED <<closed, parked, connVars, handler, target, stream, mock>>

SweepJoin(k) ==
    /\ sweeper[k] = "join"
    /\ TaskDone(k)
    /\ SweepTo(k, "close")
    /\ UNCHANGED <<providerVars, closed, parked, connVars, handler, closing, target, stream, mock>>

\* Mutant of SweepClose: the cancelled task is trusted to have closed its socket.
SweepCloseSkipped(k) ==
    /\ sweeper[k] = "close"
    /\ SweepTo(k, "none")
    /\ UNCHANGED <<providerVars, closed, parked, connVars, handler, closing, target, stream, mock>>

SweepClose(k) ==
    /\ \/ sweeper[k] = "close" /\ SweepTo(k, IF shut[k] THEN "none" ELSE "provider")
          /\ Close(k) /\ UNCHANGED reader
       \/ sweeper[k] = "provider" /\ closer[k] = "done" /\ SweepTo(k, "none")
          /\ UNCHANGED providerVars
    /\ UNCHANGED <<closed, parked, connVars, handler, closing, target, stream, mock>>

\* The handler of the connection before has returned, or is still sweeping.
Resume ==
    /\ parked
    /\ conn < MaxStreams
    /\ parked' = FALSE
    /\ closed' = FALSE
    /\ stream' = 0
    /\ conn' = conn + 1
    /\ online' = TRUE
    /\ handler' = "loop"
    /\ UNCHANGED <<providerVars, qwen, closing, target, sweeper, mock>>

\* The grace period is over: closed is reset, and the session finalized.
Expire ==
    /\ parked
    /\ parked' = FALSE
    /\ closed' = FALSE
    /\ Goto(Timer, "close")
    /\ UNCHANGED <<providerVars, connVars, handler, target, sweeper, stream, mock>>

-----------------------------------------------------------------------------
ShowStep(k) == ShowEvent(k) \/ StreamFails(k)
SweepStep(k) == SweepTask(k) \/ SweepJoin(k) \/ SweepClose(k)
FinalizeStep(p) == \/ NothingToClose(p) \/ CloseUnopened(p) \/ CloseStream(p) \/ StreamClosed(p)
                   \/ CancelTask(p) \/ Join(p) \/ Settle(p)
Provider(k) == /\ ReaderStep(k) \/ CloseStep(k) \/ UpstreamStep(k) \/ StartFails(k)
                  \/ FlushSilence(k) \/ SendFrame(k)
               /\ UNCHANGED sessionVars

Next ==
    \/ StartStream \/ ForwardAudio \/ StartMock \/ MockStep
    \/ \E k \in Streams : Provider(k) \/ ShowStep(k) \/ SweepStep(k)
    \/ \E p \in Tasks : FinalizeStep(p)
    \/ SessionStop \/ BrowserLeaves \/ Disconnect \/ Park \/ Resume \/ Expire

Spec == Init /\ [][Next]_vars

\* Tasks that are ready run, sleeps and timeouts end, and the receive loop notices
\* a closed socket.  Nothing is assumed of the browser or of what upstream sends.
Own(step) == step /\ UNCHANGED sessionVars
Fairness ==
    /\ WF_vars(MockStep) /\ WF_vars(Disconnect) /\ WF_vars(Park) /\ WF_vars(Expire)
    /\ \A k \in Streams :
          /\ WF_vars(Own(ReaderStep(k))) /\ WF_vars(Own(CloseStep(k)))
          /\ WF_vars(Own(SendFrame(k))) /\ WF_vars(Own(FlushSilence(k)))
          /\ WF_vars(ShowStep(k)) /\ WF_vars(SweepStep(k))
    /\ \A p \in Tasks : WF_vars(FinalizeStep(p))

FairSpec == Spec /\ Fairness

-----------------------------------------------------------------------------
(* Properties.                                                              *)

(* Whoever finalizes a session gets to its end, however the tasks cancel    *)
(* and await each other, and whatever upstream answers to session.finish.   *)
ClosingEnds ==
    \A p \in Tasks : closing[p] # "none" ~> closing[p] = "none"

(* A closed session leaves nothing behind: unless it is resumed, the socket *)
(* of every stream is closed, and pipeline, silence and mock tasks are over.*)
ClosedIsQuiet ==
    closed ~>
        \/ ~closed
        \/ /\ mock = 0
           /\ \A k \in Streams : /\ reader[k] \in {"new", "over"}
                                 /\ upstream[k] # "open"
                                 /\ ~flush[k]

(* A stream that breaks while audio is being sent to it ends the session,   *)
(* although nobody looks at the sender task until the reader stops.         *)
BrokenStreamEndsSession ==
    \A k \in Streams : ~sender[k] ~> (closed \/ stream # k)
=============================================================================
