---------------------------- MODULE SttProvider ----------------------------
(***************************************************************************)
(* QwenRealtimeAsrProvider (stt_providers.py), one per speech-to-text      *)
(* stream of a session: an unbounded queue of audio, a sender task that    *)
(* empties it into the upstream WebSocket, the generator events() that     *)
(* reads what comes back, a task that adds silence after a gap, and        *)
(* close().  Who calls close(), and what is done with the events, is in    *)
(* SpeechStream.                                                           *)
(*                                                                         *)
(* Audio is counted in frames.  What becomes of the texts that are heard,  *)
(* and how finals are numbered, is the subject of other modules.  One      *)
(* action is the code between two awaits.                                  *)
(***************************************************************************)
EXTENDS Integers

CONSTANTS
    MaxStreams,   \* bound: streams of a session, one per connection
    MaxAudio,     \* bound: frames from the browser that wait in the queue
    Faults        \* subset of FaultKinds

FaultKinds == {"connect",   \* the upstream socket cannot be opened or set up
               "error",     \* upstream sends an error
               "hangup",    \* upstream closes the socket
               "browser"}   \* the browser's socket closes, and a send on it raises

ASSUME StreamBounds == {MaxStreams, MaxAudio} \subseteq Nat \ {0}
ASSUME FaultsAssumption == Faults \subseteq FaultKinds

Streams == 1..MaxStreams

VARIABLES
    shut,        \* shut[k]: _closed
    upstream,    \* upstream[k]: the upstream socket
    queue,       \* queue[k]: length of _audio_queue
    sender,      \* sender[k]: the sender task has not died of a send
    flush,       \* flush[k]: the silence task is asleep
    reader,      \* reader[k]: where the generator is suspended
    finish,      \* finish[k]: session.finish has been sent
    finished,    \* finished[k]: _finished_event
    closer       \* closer[k]: where close() is suspended

providerVars == <<shut, upstream, queue, sender, flush, reader, finish, finished, closer>>
queueVars == <<queue, sender, flush>>

\* "event": the pipeline task is at work on an event; "leaving", "breaking" and
\* "abandoned": the finally clause, after a plain end or a cancellation, after an
\* error message, and without a task that awaits it; "failed" and "over": the
\* pipeline task has an exception to handle, or nothing more.
Readers == {"new", "connect", "update", "read", "event", "leaving", "breaking",
            "abandoned", "failed", "over"}
Cleanup == {"leaving", "breaking", "abandoned"}
Closers == {"open", "finish", "wait", "hang up", "done"}

ProviderTypeOK ==
    /\ shut \in [Streams -> BOOLEAN]
    /\ upstream \in [Streams -> {"none", "open", "lost", "closed"}]
    /\ queue \in [Streams -> 0..(MaxAudio + 1)]
    /\ sender \in [Streams -> BOOLEAN]
    /\ flush \in [Streams -> BOOLEAN]
    /\ reader \in [Streams -> Readers]
    /\ finish \in [Streams -> BOOLEAN]
    /\ finished \in [Streams -> BOOLEAN]
    /\ closer \in [Streams -> Closers]

ProviderInit ==
    /\ shut = [k \in Streams |-> FALSE]
    /\ upstream = [k \in Streams |-> "none"]
    /\ queue = [k \in Streams |-> 0]
    /\ sender = [k \in Streams |-> TRUE]
    /\ flush = [k \in Streams |-> FALSE]
    /\ reader = [k \in Streams |-> "new"]
    /\ finish = [k \in Streams |-> FALSE]
    /\ finished = [k \in Streams |-> FALSE]
    /\ closer = [k \in Streams |-> "open"]

Read(k, next) == reader' = [reader EXCEPT ![k] = next]

-----------------------------------------------------------------------------
(* Audio: send_audio, the silence task and the sender task.                 *)

\* Every frame starts the gap anew.
SendAudio(k) ==
    /\ IF shut[k]
       THEN UNCHANGED <<queue, flush>>
       ELSE /\ queue' = [queue EXCEPT ![k] = @ + 1]
            /\ flush' = [flush EXCEPT ![k] = TRUE]
    /\ UNCHANGED <<shut, upstream, sender, reader, finish, finished, closer>>

\* Mutant of FlushSilence: the task goes to sleep again instead of ending.
FlushSilenceAgain(k) ==
    /\ flush[k] /\ ~shut[k]
    /\ queue' = [queue EXCEPT ![k] = @ + 1]
    /\ UNCHANGED <<shut, upstream, sender, flush, reader, finish, finished, closer>>

\* The gap has lasted: the silent frames, queued without an await, count as one.
FlushSilence(k) ==
    /\ flush[k]
    /\ flush' = [flush EXCEPT ![k] = FALSE]
    /\ queue' = IF shut[k] THEN queue ELSE [queue EXCEPT ![k] = @ + 1]
    /\ UNCHANGED <<shut, upstream, sender, reader, finish, finished, closer>>

\* A send on a socket that is gone ends the sender task with an exception, which
\* nobody sees before the generator's finally clause awaits the task.
SendFrame(k) ==
    /\ reader[k] \in {"read", "event"}
    /\ sender[k]
    /\ queue[k] > 0
    /\ queue' = [queue EXCEPT ![k] = @ - 1]
    /\ sender' = [sender EXCEPT ![k] = (upstream[k] = "open")]
    /\ UNCHANGED <<shut, upstream, flush, reader, finish, finished, closer>>

-----------------------------------------------------------------------------
(* The generator events().                                                  *)

Connected(k) ==
    /\ reader[k] = "connect"
    /\ upstream' = [upstream EXCEPT ![k] = "open"]
    /\ Read(k, "update")
    /\ UNCHANGED <<shut, queueVars, finish, finished, closer>>

SessionUpdated(k) ==
    /\ reader[k] = "update"
    /\ Read(k, "read")
    /\ UNCHANGED <<shut, upstream, queueVars, finish, finished, closer>>

\* Before the try block nothing is cleaned up.
StartFails(k) ==
    /\ "connect" \in Faults
    /\ reader[k] \in {"connect", "update"}
    /\ upstream' = [upstream EXCEPT ![k] = IF @ = "open" THEN "lost" ELSE @]
    /\ Read(k, "failed")
    /\ UNCHANGED <<shut, queueVars, finish, finished, closer>>

\* An interim or a final with some text in it.
ReadEvent(k) ==
    /\ reader[k] = "read" /\ upstream[k] = "open"
    /\ Read(k, "event")
    /\ UNCHANGED <<shut, upstream, queueVars, finish, finished, closer>>

ReadFinished(k) ==
    /\ reader[k] = "read" /\ upstream[k] = "open" /\ finish[k]
    /\ finished' = [finished EXCEPT ![k] = TRUE]
    /\ Read(k, "leaving")
    /\ UNCHANGED <<shut, upstream, queueVars, finish, closer>>

\* The socket has been closed by either side, which ends the loop without an
\* exception; an error message raises.
ReadEnds(k) ==
    /\ reader[k] = "read"
    /\ upstream[k] \in {"lost", "closed"}
    /\ Read(k, "leaving")
    /\ UNCHANGED <<shut, upstream, queueVars, finish, finished, closer>>

ReadError(k) ==
    /\ "error" \in Faults
    /\ reader[k] = "read" /\ upstream[k] = "open"
    /\ Read(k, "breaking")
    /\ UNCHANGED <<shut, upstream, queueVars, finish, finished, closer>>

\* Mutant of Leave: every exception of the sender is swallowed.
LeaveSwallowing(k) ==
    /\ reader[k] \in Cleanup
    /\ finished' = [finished EXCEPT ![k] = TRUE]
    /\ upstream' = [upstream EXCEPT ![k] = "closed"]
    /\ Read(k, IF reader[k] = "breaking" THEN "failed" ELSE "over")
    /\ UNCHANGED <<shut, queueVars, finish, closer>>

\* The finally clause: awaiting a sender that died of a send raises, and neither
\* the event is set nor the socket closed.
Leave(k) ==
    /\ reader[k] \in Cleanup
    /\ IF sender[k]
       THEN /\ finished' = [finished EXCEPT ![k] = TRUE]
            /\ upstream' = [upstream EXCEPT ![k] = "closed"]
       ELSE UNCHANGED <<finished, upstream>>
    /\ Read(k, IF reader[k] # "abandoned" /\ (reader[k] = "breaking" \/ ~sender[k])
               THEN "failed" ELSE "over")
    /\ UNCHANGED <<shut, queueVars, finish, closer>>

\* The pipeline task is cancelled, or dies of an event: at work on one it abandons
\* the generator, whose finally clause the event loop runs.
CancelReader(k) ==
    \/ reader[k] \in {"read", "leaving", "breaking"} /\ Read(k, "leaving")
    \/ reader[k] = "breaking" /\ Read(k, "breaking")
    \/ reader[k] \in {"event", "abandoned"} /\ Read(k, "abandoned")
    \/ reader[k] \in {"new", "connect", "update", "failed", "over"} /\ Read(k, "over")

HangUp(k) ==
    /\ "hangup" \in Faults
    /\ upstream[k] = "open"
    /\ upstream' = [upstream EXCEPT ![k] = "lost"]
    /\ UNCHANGED <<shut, queueVars, reader, finish, finished, closer>>

-----------------------------------------------------------------------------
(* close().                                                                 *)

\* Up to the first await that waits for somebody else; a second call returns at
\* once, whatever the first one is waiting for.  The reader is the caller's to set.
Close(k) ==
    /\ shut' = [shut EXCEPT ![k] = TRUE]
    /\ flush' = [flush EXCEPT ![k] = FALSE]
    /\ closer' = [closer EXCEPT ![k] = IF shut[k] THEN @
                                       ELSE IF upstream[k] = "none" THEN "done" ELSE "finish"]
    /\ UNCHANGED <<upstream, queue, sender, finish, finished>>

\* session.finish is sent past the queue: it may overtake audio.
SendFinish(k) ==
    /\ closer[k] = "finish"
    /\ IF upstream[k] = "open"
       THEN /\ finish' = [finish EXCEPT ![k] = TRUE]
            /\ closer' = [closer EXCEPT ![k] = "wait"]
       ELSE /\ closer' = [closer EXCEPT ![k] = "hang up"]
            /\ UNCHANGED finish
    /\ UNCHANGED <<shut, upstream, queueVars, reader, finished>>

\* Mutant of WaitFinished: without the timeout.
WaitFinishedForEver(k) ==
    /\ closer[k] = "wait"
    /\ finished[k]
    /\ closer' = [closer EXCEPT ![k] = "hang up"]
    /\ UNCHANGED <<shut, upstream, queueVars, reader, finish, finished>>

\* The event is set, or the timeout is over, which may be at any time.
WaitFinished(k) ==
    /\ closer[k] = "wait"
    /\ closer' = [closer EXCEPT ![k] = "hang up"]
    /\ UNCHANGED <<shut, upstream, queueVars, reader, finish, finished>>

CloseSocket(k) ==
    /\ closer[k] = "hang up"
    /\ upstream' = [upstream EXCEPT ![k] = "closed"]
    /\ closer' = [closer EXCEPT ![k] = "done"]
    /\ UNCHANGED <<shut, queueVars, reader, finish, finished>>

-----------------------------------------------------------------------------
ReaderStep(k) == Connected(k) \/ SessionUpdated(k) \/ ReadEnds(k) \/ Leave(k)
CloseStep(k) == SendFinish(k) \/ WaitFinished(k) \/ CloseSocket(k)
UpstreamStep(k) == ReadEvent(k) \/ ReadFinished(k) \/ ReadError(k) \/ HangUp(k)
=============================================================================
