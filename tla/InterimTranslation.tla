------------------------- MODULE InterimTranslation -------------------------
(***************************************************************************)
(* The interim captions of one session (ws_sessions.py, translation_       *)
(* providers.py): each interim text replaces the pending one, and one loop *)
(* asks Qwen for a translation of the latest.  The loop waits for a slot,  *)
(* which is free MinInterval after the last one was taken, records a usage *)
(* event, and only then makes the request.                                 *)
(* Of the session there is what starts and ends the loop: texts arrive as  *)
(* long as its speech-to-text stream lives, which is cancelled only after  *)
(* the loop and the client of a session that is finalized (SpeechStream).  *)
(*                                                                         *)
(* Times are counted up to MinInterval.                                    *)
(***************************************************************************)
EXTENDS Integers

CONSTANTS
    Texts,         \* normalised interim texts
    NoText,        \* stands for None
    MinInterval    \* translation_min_interval_seconds

ASSUME TextAssumption == NoText \notin Texts
ASSUME IntervalAssumption == MinInterval \in Nat

VARIABLES
    phase,       \* what the session is doing; "loop", "client", "stream": _finalize_session
    socket,      \* the browser's socket is open
    heard,       \* text of the last asr_interim of the connection (history)
    wanted,      \* the last one that was not translated already (history)
    pending,     \* state.pending_translation_text
    lastText,    \* state.last_translated_interim_text
    client,      \* state.translation_provider
    loop,        \* the await at which the loop is suspended
    asked,       \* text the loop has taken
    since,       \* time since state.last_translation_request_at
    delay,       \* time the loop still sleeps
    lastCall,    \* time since the last request was made (history)
    callBefore   \* time since the one before it (history)

sessionState == <<phase, socket>>
captions == <<heard, wanted, pending, lastText>>
clock == <<since, delay>>
calls == <<lastCall, callBefore>>
interimVars == <<sessionState, captions, client, loop, asked, clock, calls>>

Phases == {"live", "loop", "client", "stream", "paused", "over"}

\* What comes back for a request: an answer without a translation in it raises like
\* a request that fails.
Unusable == {"no object", "no choices", "no message", "no text"}
Replies == {"text", "HTTP status", "transport", "invalid JSON"} \cup Unusable

InterimTypeOK ==
    /\ phase \in Phases
    /\ socket \in BOOLEAN
    /\ {heard, wanted, pending, lastText, asked} \subseteq Texts \cup {NoText}
    /\ client \in {"none", "open", "closed"}
    /\ loop \in {"done", "top", "sleep", "record", "request"}
    /\ since \in 0..MinInterval
    /\ delay \in 0..MinInterval
    /\ lastCall \in 0..MinInterval
    /\ callBefore \in 0..MinInterval

InterimInit ==
    /\ phase = "live"
    /\ socket = TRUE
    /\ heard = NoText
    /\ wanted = NoText
    /\ pending = NoText
    /\ lastText = NoText
    /\ client = "none"
    /\ loop = "done"
    /\ asked = NoText
    /\ since = MinInterval
    /\ delay = 0
    /\ lastCall = MinInterval
    /\ callBefore = MinInterval

\* state.closed
IsClosed == phase \in {"paused", "over"}

-----------------------------------------------------------------------------
(* Scheduling.                                                              *)

\* Mutant of Schedule: text that arrives while the loop is at work is dropped.
ScheduleWhenIdle(t) ==
    IF t \in {lastText, pending} \/ loop # "done"
    THEN UNCHANGED <<pending, loop>>
    ELSE pending' = t /\ loop' = "top"

\* _schedule_interim_translation: only the latest text is kept.
Schedule(t) ==
    IF t \in {lastText, pending}
    THEN UNCHANGED <<pending, loop>>
    ELSE /\ pending' = t
         /\ loop' = IF loop = "done" THEN "top" ELSE loop

\* asr_interim has been sent.
HearInterim(t) ==
    /\ socket /\ ~IsClosed
    /\ heard' = t
    /\ wanted' = IF t = lastText THEN wanted ELSE t
    /\ Schedule(t)
    /\ UNCHANGED <<sessionState, lastText, client, asked, clock, calls>>

-----------------------------------------------------------------------------
(* _run_interim_translation_loop.                                           *)

\* The client is made for the first request and kept, also when it has been closed.
\* The slot is stamped, and the usage event is being written.
TakeSlot ==
    /\ client' = IF client = "none" THEN "open" ELSE client
    /\ since' = 0
    /\ loop' = "record"

Take ==
    /\ loop = "top"
    /\ pending # NoText /\ ~IsClosed
    /\ asked' = pending
    /\ pending' = NoText
    /\ UNCHANGED <<sessionState, heard, wanted, lastText, calls>>

\* Mutants of TakePending: without the second comparison; the slot is free a moment
\* too early.
TakePendingAgain ==
    /\ Take
    /\ IF since < MinInterval
       THEN delay' = MinInterval - since /\ loop' = "sleep" /\ UNCHANGED <<client, since>>
       ELSE TakeSlot /\ UNCHANGED delay

TakePendingEarly ==
    /\ Take
    /\ CASE pending = lastText -> UNCHANGED <<loop, client, clock>>
         [] pending # lastText /\ since < MinInterval ->
               delay' = MinInterval - since - 1 /\ loop' = "sleep" /\ UNCHANGED <<client, since>>
         [] OTHER -> TakeSlot /\ UNCHANGED delay

\* _wait_for_interim_translation_slot only sleeps when the slot is not free.
TakePending ==
    /\ Take
    /\ CASE pending = lastText -> UNCHANGED <<loop, client, clock>>
         [] pending # lastText /\ since < MinInterval ->
               delay' = MinInterval - since /\ loop' = "sleep" /\ UNCHANGED <<client, since>>
         [] OTHER -> TakeSlot /\ UNCHANGED delay

LoopEnds ==
    /\ loop = "top"
    /\ pending = NoText \/ IsClosed
    /\ loop' = "done"
    /\ UNCHANGED <<sessionState, captions, client, asked, clock, calls>>

\* Mutant of SlotIsFree: closed is not looked at again after the sleep.
SlotIsFreeUnchecked ==
    /\ loop = "sleep" /\ delay = 0
    /\ TakeSlot
    /\ UNCHANGED <<sessionState, captions, asked, delay, calls>>

SlotIsFree ==
    /\ loop = "sleep" /\ delay = 0
    /\ IF IsClosed THEN loop' = "done" /\ UNCHANGED <<client, since>> ELSE TakeSlot
    /\ UNCHANGED <<sessionState, captions, asked, delay, calls>>

\* The event is written, however long that took; closed is not looked at again.
Request ==
    /\ loop = "record"
    /\ loop' = "request"
    /\ lastCall' = 0
    /\ callBefore' = lastCall
    /\ UNCHANGED <<sessionState, captions, client, asked, clock>>

\* translation_interim or a warning is sent; either send may raise and end the task.
\* A client that has been closed raises at once.
Answer(reply) ==
    /\ loop = "request"
    /\ client = "open" \/ reply # "text"
    /\ lastText' = IF reply = "text" THEN asked ELSE lastText
    /\ loop' = IF socket THEN "top" ELSE "done"
    /\ UNCHANGED <<sessionState, heard, wanted, pending, client, asked, clock, calls>>

Later(time) == IF time < MinInterval THEN time + 1 ELSE time

Tick ==
    /\ since < MinInterval \/ delay > 0 \/ lastCall < MinInterval
    /\ since' = Later(since)
    /\ delay' = IF delay > 0 THEN delay - 1 ELSE 0
    /\ lastCall' = Later(lastCall)
    /\ callBefore' = Later(callBefore)
    /\ UNCHANGED <<sessionState, captions, client, loop, asked>>

-----------------------------------------------------------------------------
(* The end of a session, and its pause.                                     *)

\* session_stop, an error, or a stream that fails.
BeginClosing ==
    /\ phase = "live"
    /\ phase' = "loop"
    /\ UNCHANGED <<socket, captions, client, loop, asked, clock, calls>>

CancelInterimLoop ==
    /\ phase = "loop"
    /\ phase' = "client"
    /\ loop' = "done"
    /\ UNCHANGED <<socket, captions, client, asked, clock, calls>>

\* The reference to the closed client stays.
CloseClient ==
    /\ phase = "client"
    /\ phase' = "stream"
    /\ client' = IF client = "open" THEN "closed" ELSE client
    /\ UNCHANGED <<socket, captions, loop, asked, clock, calls>>

\* The stream is closed and the session settled.
FinishClosing ==
    /\ phase = "stream"
    /\ phase' = "over"
    /\ UNCHANGED <<socket, captions, client, loop, asked, clock, calls>>

LoseSocket ==
    /\ socket
    /\ socket' = FALSE
    /\ UNCHANGED <<phase, captions, client, loop, asked, clock, calls>>

\* _pause_session_for_resume: the last text and the time of its request are kept.
PauseInterim ==
    /\ phase = "live" /\ ~socket
    /\ phase' = "paused"
    /\ pending' = NoText
    /\ client' = "none"
    /\ loop' = "done"
    /\ UNCHANGED <<socket, heard, wanted, lastText, asked, clock, calls>>

ResumeInterim ==
    /\ phase = "paused"
    /\ phase' = "live"
    /\ socket' = TRUE
    /\ heard' = NoText
    /\ wanted' = NoText
    /\ pending' = NoText
    /\ client' = "none"
    /\ UNCHANGED <<lastText, loop, asked, clock, calls>>

\* The grace period of a paused session, or the process, ends.
ExpireInterim ==
    /\ phase = "paused"
    /\ phase' = "over"
    /\ UNCHANGED <<socket, captions, client, loop, asked, clock, calls>>

-----------------------------------------------------------------------------
LoopStep == TakePending \/ LoopEnds \/ SlotIsFree \/ Request \/ \E reply \in Replies : Answer(reply)

InterimNext ==
    \/ \E t \in Texts : HearInterim(t)
    \/ LoopStep \/ Tick
    \/ BeginClosing \/ CancelInterimLoop \/ CloseClient \/ FinishClosing
    \/ LoseSocket \/ PauseInterim \/ ResumeInterim \/ ExpireInterim

\* A ready loop runs, a usage event is written or not, a request ends in an answer or a
\* timeout, time passes.
InterimFairness == WF_interimVars(LoopStep) /\ WF_interimVars(Tick)

InterimSpec == InterimInit /\ [][InterimNext]_interimVars /\ InterimFairness

-----------------------------------------------------------------------------
(* Properties.                                                              *)

Requests == loop' = "request" /\ loop # "request"
Slots == loop' = "record" /\ loop # "record"

(* Qwen is asked at most twice within MinInterval, over failures, loops     *)
(* that end and start again, resumes, and usage events that are written     *)
(* slowly: the request before the last one is MinInterval ago.  (The stamps *)
(* of two slots are MinInterval apart; the requests need not be.)           *)
RequestRate ==
    [][Requests => callBefore = MinInterval]_interimVars

(* The text translated last is never asked for again, although it may have  *)
(* been scheduled while its own request was under way.                      *)
NoRepeat ==
    [][Requests => asked' # lastText]_interimVars

(* No slot is taken on behalf of a session that was paused or settled while *)
(* the loop slept.  (One that ends while the usage event is being written   *)
(* is still asked for.)                                                     *)
NothingAskedAfterEnd ==
    [][Slots => ~IsClosed]_interimVars

(* An interim text is taken by the loop unless it is replaced by a later    *)
(* one or the session ends, and Qwen is asked for what has been taken: no   *)
(* text is left pending without a loop, nor in the hands of one that sleeps *)
(* for a slot.                                                              *)
CaptionCatchesUp ==
    \A t \in Texts :
        /\ wanted = t ~> (asked = t \/ wanted # t \/ ~socket \/ phase # "live")
        /\ asked = t /\ loop \in {"sleep", "record"}
              ~> (loop = "request" \/ ~socket \/ phase # "live")

(* What the documents say (architecture.md:692, meeting-prd.md:221):        *)
(* requests are made 1.5 seconds apart.                                     *)
(* A usage event that is written slowly and one that is written fast bring  *)
(* two of them closer together.                                             *)
RequestSpacing ==
    [][Requests => lastCall = MinInterval]_interimVars

(* During a request only the latest interim is kept for translation         *)
(* (architecture.md:692).                                                   *)
PendingIsLatest ==
    pending # NoText => pending = heard
=============================================================================
