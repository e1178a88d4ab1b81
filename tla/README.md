# Formal models of the meeting backend

TLA+ specifications of the parts of this repository where interleavings,
failures and restarts decide whether the program is right: the life of a
meeting session and of its speech-to-text streams, the quota store, interim and
final translation, the background retry of failed translations, the archive with
its exports, the usage dashboard and the registration of clients. TLC checks each
of them on small instances; TLAPS proves the central invariants for every value
of the constants.

File names below are relative to `src/backend/src/meeting_mvp_backend/` unless
they start with `frontend/`, `meeting-prd.md` or `memory-bank/`.

## 1. The system

A browser captures meeting audio and streams it over one WebSocket to a FastAPI
process. The process forwards the audio to a speech-to-text service, shows
interim and final sentences, translates the finals, stores them, and keeps a
daily quota per anonymous client in Redis. Sentences whose translation failed
are retried in the background. Afterwards an archive page reads and exports the
transcript. One uvicorn process runs everything in one asyncio event loop; the
container is restarted unless stopped.

| Part | State it keeps | Operations | Talks to |
|---|---|---|---|
| Session orchestration, `ws_sessions.py` | one `WebSocketSessionState` per session, shared by its tasks; the in-memory resume registry; `meeting_session` rows | start, resume, binary frame, stop, error close, finalize, pause, grace timer | quota store, database, providers, browser |
| Quota and budget, `quota.py` | Redis: sorted set of active sessions with lease deadlines, used-seconds counter per Shanghai day, budget keys | reserve, release, record consumed seconds | Redis |
| Final translation, `ws_sessions.py` 972-1292, 1706-1729 | pending queue, current event, archived numbers, task; `transcript_segment` rows | schedule, translate, archive completed or failed, drain | provider, database, retry queue, browser |
| Translation retry, `translation_retries.py`, `main.py` 75-120 | Redis sorted set of jobs, lock keys, row status, attempt events | startup scan, poll, lock, translate, complete, fail, back off | Redis, database, provider |
| Interim translation, `ws_sessions.py` 1294-1410 | latest pending text, last request time, task | schedule, throttle, translate | provider, browser |
| Speech-to-text provider, `stt_providers.py` | upstream socket, audio queue, sentence number, silence timer | send audio, events, close | upstream service |
| Translation providers, mock pipeline | an HTTP client; the step of a script | one request each | upstream services |
| Archives, exports, timeline, key sentences | `transcript_segment`, `export_file` rows, exported objects | view, mark, record an event, export | database, object storage |
| Usage events, dashboard | `usage_event` rows | record, report | database |
| Anonymous clients | `anonymous_client` rows | initialize | database |
| Browser client, `frontend/src/lib/meeting-websocket.ts` | socket, stopping and settled flags, resume timers | connect, resume, stop, fail | backend |
| Browser store, `frontend/src/stores/session-store.ts` | capture status, stream, processor, socket | beginCapture, endSession, message callbacks | audio capture, browser client |

### What is hard

* **Shared session state.** Connection handlers, speech-to-text tasks and grace
  timers share one state object and may all call `_finalize_session`, which
  charges the quota, closes the row and releases the slot in three awaits and
  sets `state.closed` last. `closed` is set and reset by pause, resume and the
  timer.
* **Disconnects.** A send to a dead socket raises, at whichever await it happens
  to be; handle's `finally` decides from `closed` alone whether to pause.
* **Resume against timer.** A registry record is taken by a resume or by the
  grace timer, and by nobody else.
* **Redis without transactions.** Reserve is check, add, recount; the charge is
  GET then SET; a job is popped by range then remove; the lock is deleted
  without looking at its owner.
* **Cancellation.** A cancelled task may be in the middle of an insert, or of a drain
  whose list nobody else has; a task suspended in `_cancel_task` swallows its own
  cancellation.
* **Crashes.** Locks, slots and rows outlive the process that owned them.
* **One stream, many tasks.** A speech-to-text stream has a generator, a sender, a
  silence task and a `close()` with a timeout; pause, stop, error and grace timer
  cancel and close them in different orders, and what dies in one of them is seen
  by another one later or never.
* **Throttling.** Whatever fails, ends or resumes, the interim loop owes the
  upstream service its interval and the browser its latest text.
* **Reads and writes in several statements.** An archive page reads session,
  segments, reason, exports and exceptions one after the other while the meeting is
  being closed; an export stores an object, signs a URL and writes a row.
* **Time zones.** Rows are in UTC, days, windows and months are local.

### What makes each part correct

* Session: one owner at a time; never without an owner while its slot or row is
  open; settled once, with the same seconds in row and quota; settled in the end.
* Quota: never more live leases than allowed; no charge lost; no start refused
  because of a session that was stopped properly.
* Final translation: a sentence that was shown is only lost to a raising insert or to
  a drain that is cancelled; rows in spoken order; the set of archived numbers never ahead of the table; a retry job only
  for a failed row.
* Retry: one translator per segment; a bounded number of provider calls;
  a completed translation never undone; every job settles.
* Speech-to-text: closing a stream ends, leaves no socket and no task behind, and
  a stream that breaks under the audio ends its session.
* Interim translation: no more than two requests within the interval, none repeated,
  no slot taken for a session that ended while the loop slept, and a text that is not
  superseded is asked for in the end.
* Archive and exports: a page that calls a meeting ended has all of it; an object
  in storage is named by a row or on record as a failure; a URL lives as long as
  announced; the timeline is in order and tells of every export.
* Dashboard: its figures are those of exactly the rows of the window and the month.
* Clients: created once, however many pages are opened at once.

The full list of hazards, each at its line, is in `PROJECT.json`.

## 2. Modules

| Module | Models |
|---|---|
| `MeetingSession` | one session: handlers, speech-to-text tasks, timers, registry, and its share of the quota store and the database row |
| `SessionSettlement` | abstract: take a slot, settle it once, in one step each |
| `QuotaLedger` | one client's Redis state under concurrent sessions |
| `FinalTranslation` | finals of one session from `asr_final` to their row and retry job |
| `TranslationRetry` | the retry queue, its locks and its workers |
| `SttProvider` | one speech-to-text provider: audio queue, sender, generator, silence task, `close()` |
| `SpeechStream` | the streams of a session over `SttProvider`: who starts them, forwards their events and takes them down; the mock pipeline |
| `InterimTranslation` | the interim captions of one session: pending text, loop, throttle, client |
| `Timeline` | what the archive's timeline is made of, and its order |
| `Archive` | the requests to one session's archive beside the meeting that writes it, over `Timeline`; exports |
| `UsageDashboard` | the tables, the query and every figure of the dashboard |
| `AnonymousClients` | concurrent calls of `initialize_client` for one id |
| `MC*` | fault sets, symmetry and the parts of an instance for TLC |
| `*_proofs` | theorems about every module; those about `Timeline` are in `Archive_proofs`, those about `AnonymousClients` and `UsageDashboard` in `MCArchive_proofs` |

The modules are coupled through what they leave abstract. `MeetingSession` keeps
of the quota store one session's slot and its charge; `QuotaLedger` takes over
where several sessions meet. `MeetingSession` passes through "drain" in one
step; `FinalTranslation` opens it up. A row that `FinalTranslation` archives as
failed is where `TranslationRetry` starts (`SegmentFails`). `SpeechStream` keeps of
the session what starts and ends a stream, and of its settlement one step
(`Settle`); who settles is `MeetingSession`'s subject, as what becomes of the texts
is that of the two translation modules. `Archive` keeps of the meeting its writes to
the tables it reads; that no segment is written after the row is closed is an
assumption there, which the drain of `FinalTranslation` is for.

### MeetingSession

`at[p]` is the await at which task `p` is suspended; an action is the code
between two awaits that matter. `conn[c]` is the socket of a connection;
`closed`, `hasAudio`, `sttConn` are fields of the state object; `record` is the
registry; `row`, `rowSeconds` the database row; `slot`, `used` the session's
share of Redis; `seconds[p]` the local `duration_seconds`.

* Start: `Connect`, `ReserveSlot`, `ReserveRefused`, `CreatePendingSession`,
  `UndoReservation`, `Greet`. A handler owns no state until `_start_session`
  has returned, so a greeting that raises leaves the session without owner.
* Resume: `Resume`, `ResumeTooLate`, `ResumeRefused`.
* Loop: `FirstAudio`, `MarkActive`, `TellAudio`, `NextAudio`, `SessionStop`,
  `BadMessage`, `Hangup`; the speech-to-text task: `SttEnds`, `SttRaises`.
* `_close_with_error`: `Report`, then `_finalize_session`, then `Bye`.
* `_finalize_session`: `Teardown`, `Join`, `Drain`, `RecordConsumed`,
  `CloseSession`, `ReleaseSlot`, `Seal`. It runs in a handler, a speech-to-text
  task or a timer, hence the parameter `p`.
* Pause: `Pause` (up to the registry put there is no await after the drain),
  `Sweep`, `Swept`; timer: `GraceElapses`, `Expire`.
* Faults, each switched on by a member of `Faults`: a stream that raises
  (`SttRaises`), a database or Redis call that raises (`StartFails`,
  `CloseFails`, `PauseFails`), a peer that vanishes at any await (`Drop`), a
  resume past the deadline (`ResumeTooLate`). Without `"drop"` a peer only
  vanishes while the server waits in `receive()`.

Left out: interim translation, timeline and usage events (best effort, no
influence on the control), the client and token checks of `pop` (a resume is
one by the right client), the mock provider task, which the speech-to-text task
replaces.

### QuotaLedger

One action per Redis command. `stamp[s]` is the `now` argument, taken once per
store call and stale by the time later commands run; `score` is the sorted set,
`used[d]` the counter of a day, `charged[d]` and `overrun` are history. Nothing
in the code ends a session at `session_max_seconds`, so `Tick` is unrestricted.
The three budget and count reads of the snapshot are one action: the budget
keys are written by no code here and stay fixed. The EXPIRE of the set is not
modelled: it is later than every member's deadline.

### FinalTranslation

A final is a record of stream and number; the speech-to-text provider of each
connection numbers from 1. `Hear` is the send of `asr_final` together with
`_schedule_final_translation`: the send to a local socket buffer is not treated
as a suspension. `loop` is the translation task's await.

Who closes the session is the connection's handler (`SessionStop`, then once more
after an exception, or `Disconnect` and its pause) or a speech-to-text task that fails
(`StreamFails`: it finalizes the session itself in `_close_with_error`). Both may do so at
the same time. `closing[p]` is the await of closer `p`: the provider, the speech-to-text
task it has cancelled (`target[p]`), the translation task, or one unfinished final after
the other, from `rest[p]`, the local `pending_events`. `CancelLoop` copies the unfinished
finals and empties the queue; `StopLoop` and `EndLoop` are the cancellation of the
translation task, which the second of two closers finds already under way. `CancelStt` (line
1578) and `SweepStt` (line 1703, after `Park` has put the resume record) cancel a
speech-to-text task wherever it is: one that awaits another task in `_cancel_task` swallows
that and goes on, one in the middle of its drain ends there and takes its list with it.
`Raise` is an exception in closing code: it kills a speech-to-text task, whose
canceller gets the exception in turn (`Join`), and sends the handler on to finalize
again or to pause (`HandlerRaises`). `Expire` is the grace timer, which finds nothing to
drain.

Faults: an insert that raises (`"io"`), an enqueue that raises (`"queue"`), an insert
committed although its await was cancelled (`"commit"`), a stream that raises
(`"stream"`), and a resume that does not wait until the tasks of the connection before have
ended (`"early"`). `heard`, `spoilt` and `cut` are history: `spoilt` holds the
finals whose insert raised and those behind them in the same drain, `cut` those that
were in the hands of a drain when it was cancelled.

What the code does here, and is modelled as it is:

* A failing stream drains what is unfinished; if the browser leaves at that moment, or
  stops the session, the pause or the second finalization finds the queue empty and
  cancels the task in one of its inserts. No insert has raised, and the rest of the
  finals is lost (`cut`). `memory-bank/architecture.md` 732 says that they are archived.
* A resume sets `closed` back to False, whoever is still at work. With `"early"` and `"stream"`
  together, a task of the former connection may still be closing the session when the
  new one listens: it takes the new connection's finals into a drain of its own, or sets
  `closed` under it, so that the translation task stops and finals are neither archived nor
  in a cancelled drain, and rows of the new stream may be written out of order.
  `NothingForgotten` and `RowsInOrder` do not hold then, which is why the run and their
  theorems have resumes wait (`Punctual`); the code itself does not make them.

### TranslationRetry

One action per awaited call. Time is abstract: a job is due or later, a lock
exists or not; a lock without a living owner may expire at any time, one with an
owner only under the fault `"slow"` (the request timeout of 60 s is half the
lock's time to live). The order of jobs within a popped batch is arbitrary.
`Stop` is the cancellation at shutdown, with its `finally`; `Crash` leaves the
lock; `Raise` ends the worker task and not the process. `attempts` counts the
recorded usage events, `calls` the provider calls (history).

### SttProvider and SpeechStream

`reader[k]` is the await of the generator `events()` of stream `k` together with
that of the pipeline task that consumes it: reading, at work on an event, in the
`finally` clause after a plain end, an error or without a task awaiting it, or with
an exception to handle. `closer[k]` is the await of `close()`; `sender[k]` turns
false when a frame is sent into a socket that is gone. Audio is counted in frames.
In `SpeechStream`, `closing[p]` is the await of `_finalize_session` in task `p` (the
handler, a failing pipeline task, the grace timer) as far as it concerns the
stream, `sweeper[k]` that of `_pause_session_for_resume`.

What the code does here is worth knowing, and is modelled as it is:

* An upstream that closes without an error leaves `stt_provider` set: no stream is
  started any more, and audio piles up in its queue. Only if a frame is still sent
  into the closed socket does the sender die, `await sender` in the generator's
  `finally` raise, and the session get closed with an error
  (`BrokenStreamEndsSession` is about this half; the other is not a failure of any
  step and is a hazard with a note).
* That raising `finally` neither sets the finished event nor closes the socket;
  `close()` then relies on its timeout.
* A connection or session update that fails happens before the `try`, so the
  `finally` clause does not run.
* `close()` returns at once to its second caller; `session.finish` is sent past the
  queue and may overtake audio.
* A task that awaits another one in `_cancel_task` swallows its own cancellation
  (`MaySwallow`); one that is cancelled inside a `close()` it has called, of whichever
  stream, takes that `close()` down with it. An exception of a pipeline task whose error message cannot be sent
  is raised in whoever awaits the task (`RaiseIn`): a pause stops sweeping, and a
  finalization aborts, leaving the session open for the grace timer.

### InterimTranslation

`loop` is the await of the translation task: about to look at the pending text,
asleep for its slot, writing the usage event of a slot it has taken (`TakeSlot`), in a
request (`Request`). `since` is the time since the last slot was stamped, counted up to
`MinInterval`, `delay` what is left of the sleep, and `lastCall`, `callBefore` are the
times since the last two requests (history). Time passes in every await, that of the usage
event included. So the stamps are the interval apart and the requests need not be: an
event that is written slowly delays its request, and the next one, whose event is
written fast, follows closer than the interval. What remains true is `RequestRate`, that
of three requests the last comes at least the interval after the first. Nor is
`closed` looked at again after the event: a session that is paused or settled while it is
written may still be asked for; when the loop is cancelled in that await, it is not.

`phase` passes through the awaits of `_finalize_session` that matter: the loop is cancelled,
then the client closed, then the speech-to-text stream, and since that one may still
deliver an interim, the loop may be started again with the closed client, whose
request raises at once and costs a spurious warning.

### Timeline and Archive

One action per statement or storage call. `step[r]` is what request `r` does next,
`seen[r]` what it has read, `made[r]` the times of an export. The client of
exports.py is synchronous: between upload and signature no task of the server runs
and only time passes (`Runs`), for other meetings as well. Every step of an export
may fail, and under "reply" may fail after it has been done: an export whose row was
committed and whose answer was lost appears on the timeline as an export and as an
exception. An orphaned object is never cleaned up. The reason for the end is read
after the segments, so a page may name it while the status it shows is still the
earlier one and segments are missing; `CompleteWhenEnded` is about the status.
Segments that end in the same millisecond are in the order of their random ids; since
no two items have the same key, `sort_timeline_items` is modelled by the place of each
item, one more than the number of those before it. A
signed URL may outlive the retention of the session.

### UsageDashboard

The tables are filled by actions, the report is an operator. Meetings are dated by
`started_at` and events by `created_at`, so that a meeting over midnight is split;
the two SELECTs of the code are taken together, since the module asks what a report
says of given tables. Money is in whole units without the rounding.

### AnonymousClients

Select, insert or update, then the event. The unique `client_id` makes the second
of two concurrent inserts raise; the request then fails.

## 3. Runs

| Run | Instance | Shows |
|---|---|---|
| `session_any_fault` | 2 connections, every fault | types, `SoleOwner` |
| `session_provider_fault` | 2 connections, streams may raise | `NoOrphan`, `SlotCoversRow`, `ClosedMeansSettled`, `AbandonedIsSettled` |
| `session_exactly_once` | 3 connections, late resumes | `ChargedOnce`, `SettledIsFinal`, `SettlesOnce` (refinement) |
| `quota_interleaved` | 3 sessions, limit 1, lease 2, midnight at 3, clock to 4 | `LeaseLimit`, `MembershipExact`, `NoLostCharge`, `DenialJustified` |
| `finals_drained` | 2 streams of 2 finals, every fault but a resume that overtakes the former connection's tasks | `NothingForgotten`, `ArchivedIsStored`, `JobsAreFailedRows`, `RowsInOrder`, `EventuallyArchived` |
| `retry_two_workers` | 2 segments, 2 workers, 2 attempts, 1 stop; crashes and raising calls | `OneTranslator`, `AttemptsBounded`, `StatusFlow` |
| `retry_settles` | 2 segments, 1 worker, 1 stop | `JobSettles` |
| `speech_and_captions` | 1 stream with every provider fault, 2 with a disconnect and a resume; 2 interim texts, interval 2 | `ClosingEnds`, `ClosedIsQuiet`, `BrokenStreamEndsSession`, `RequestRate`, `NoRepeat`, `NothingAskedAfterEnd`, `CaptionCatchesUp` |
| `archive_and_dashboard` | 2 requests with every fault, or with 2 segments; 2 rows over 4 local days and 2 months; 3 concurrent first visits | `CompleteWhenEnded`, `ObjectsAccounted`, `UrlLivesAsAnnounced`, `TimelineTruthful`, `ReportIsExact`, `ClientCreatedOnce` |

The last two runs hold several instances side by side: a behaviour of `MCSpeech` or
`MCArchive` is one of one `part`, and the variables of the others do not change.

Three runs end in a counterexample to a sentence of the documentation:

| Run | What happens | Source |
|---|---|---|
| `session_stop_then_drop` | The browser is gone when `session_closed` is sent: the send raises before `closed` is set, the settled session is paused, the timer settles it again and charges again. | `ws_sessions.py` 1622-1633, 551-554, 1746; `meeting-prd.md` 396 |
| `finals_after_resume` | The second stream counts from 1 again and its finals are skipped as archived. | `stt_providers.py` 83, `ws_sessions.py` 1000; `memory-bank/architecture.md` 732 |
| `captions_stale_pending` | An interim equal to the text translated last returns before it replaces the pending one: when the recogniser goes from A (translated) to B and back, B is translated and shown after A. | `ws_sessions.py` 1308; `memory-bank/architecture.md` 692 |

Five more disagree with the documentation but have no run of their own; TLC finds
each of them within seconds to minutes with the property and the constants named here:

* A resume past the deadline, before the timer has run: `pop` drops the record that
  `expire` then no longer finds, and slot and row stay open (`ws_sessions.py`
  239-241, 253; `meeting-prd.md` 594): `AbandonedIsSettled` under `FairSpec` with two
  connections and `Faults <- LateResume`.
* Nothing ends a session at its limit: its member is pruned and a second session
  starts beside it (`quota.py` 305, 217; `meeting-prd.md` 180-181):
  `ConcurrencyLimit` in the instance of `quota_interleaved`.
* The startup scan's job meets the lock of the process that crashed and is dropped;
  the row stays retrying (`translation_retries.py` 524; `memory-bank/progress.md`
  1372): `JobSettles` with one segment, one worker and `Faults <- CrashFaults`.
* A failing stream whose drain is cancelled by the pause or by another finalization loses
  the finals it had not archived (`ws_sessions.py` 1703, 1578; `memory-bank/architecture.md`
  732): `EveryFinalArchived` with one stream of one final and `Faults = {"stream"}`.
* Two requests for an interim translation may be closer together than the interval
  (`ws_sessions.py` 1343-1354; `memory-bank/architecture.md` 692, `meeting-prd.md` 221):
  `RequestSpacing` in the instance of `speech_and_captions`.

Also seen while modelling, and stated as comments at the actions rather than
run: a browser that vanishes during the greeting leaves slot and row without an
owner (`Greet` with `"drop"`), an exception between charge and row charges again
(`CloseFails`), and `FailedIsQueued` of `FinalTranslation` does not hold when the
task is cancelled between insert and enqueue.

### Bounds and why they are enough

* *Connections.* Two make every pair of handler, old speech-to-text task, timer
  and resuming handler meet; three let a resumed session be resumed again.
  Session state remembers nothing of connections before the last but one.
* *`MaxElapsed`.* One tick tells apart two computations of the duration; two
  let a pause fall between them.
* *Quota.* With a limit of one, three sessions give a holder and two racing
  starters. A lease of two ticks, a day of three and a clock up to four put
  expiry and midnight before, inside and after a session; `DailyFree` 2 lets
  the cap be reached and exceeded.
* *Finals.* Two let one be translated or in a drain and one wait or arrive; two streams are
  one resume, and two closers in each: the handler and a failing task. (With three finals
  the run is out of reach; the theorems are about any number.)
* *Retry.* Two attempts are a first and a last one, with a backoff between; one
  stop or crash can fall between any two calls.
* *Streams.* A stream can break at any await under every fault with one connection.
  A resume brings in a second stream while the first is still being swept; it is
  explored without provider faults, and once the first queue is empty. One frame
  waiting is enough to be sent into a dead socket.
* *Captions.* Two texts let one be translated, one pend and the first return; an
  interval of two ticks lets a request, a failure, a resume or a slow usage event fall
  inside it.
* *Archive.* A request beside another one is enough for a page to meet an export;
  two segments for an order, a tie and a missing last one; three instants for a
  retention, a time to live of one and an export that takes longer. Faults are
  explored with one segment, two segments without faults, and request 2 is a view
  beside an export or a mark.
* *Dashboard.* Days of two hours, an offset of one, months of two days and a clock
  of six hours give four local days and two months, with windows of one to three
  days shorter and longer than the month; two rows, of whichever tables, are enough
  to be in different days, and one of them at the edge of the query.
* *Clients.* Three calls are two that race and one that comes later.
* `CHECK_DEADLOCK FALSE` everywhere: sessions end, clocks and connections are
  used up, and idle workers only poll.

### Fairness

`MeetingSession` and `FinalTranslation`: weak fairness of the steps of tasks,
because the event loop runs every ready task and every awaited call returns (the
providers have timeouts); none for what the browser sends, for faults, or for
the end of a stream. In `FinalTranslation` it is asked of the translation task, the
handler, each speech-to-text task that closes the session (`StreamStep`) and each sweep of
a pause (`SweepStt`); a `LoopStep` may be preempted by `CancelLoop`, as in the code. `TranslationRetry`: weak fairness of a worker's
steps, of a backoff, and of the expiry of a lock without owner; `Start` is
included because `deploy/docker-compose.yml` restarts the container.
`JobSettles` is only claimed without `"io"`: a worker killed by an exception
stays dead until the process is restarted.

`SpeechStream`: weak fairness of each task's own steps (generator, sender, silence
task, `close()`, pipeline, sweep, finalization, mock script), because sleeps and
timeouts end and ready tasks run; of `Disconnect`, because the receive loop notices
a closed socket; of the grace timer. None of the browser, and none of what upstream
sends: `ClosingEnds` does not rest on an answer to `session.finish`.
`InterimTranslation`: weak fairness of the loop and of time; a usage event is written or
fails, a request ends in an answer or a timeout. `Archive`, `UsageDashboard` and `AnonymousClients` are checked
for safety only.

## 4. Proofs

All proofs are checked for every value of the constants under the named
assumptions of the modules; where a fault must be excluded it is a hypothesis of
the theorem.

* `MeetingSession_proofs`: `TypeCorrect` and `SoleOwnership` under every fault. The
  inductive `OwnerInv` says, besides `SoleOwner`, that an idle connection has no tasks,
  that a sleeping timer's record is still the registered one
  and that a registered record has its timer (sleeping or due). Without the
  middle part, `Resume` could cancel one timer while another one finalizes.
  `CloseStepFrame` is the lemma that a step of `_finalize_session` or
  `_close_with_error` touches neither the registry nor other handlers and timers.

  On top of it, `CourseInv` says where in its course a session is: speech-to-text tasks
  exist only once there was audio, until then the state is open as long as somebody owns
  it, and who is past `close_session` finds the row closed. It is the ground for
  * `ClosedMeansSettledHolds` (`ClosedInv`: who is about to say goodbye on an open
    socket has seen the session settled), without `"late"`;
  * `SlotCoversRowHolds` (`SlotInv`: as long as there was no audio, every task that may
    still mark the row active finds the slot taken), without `"drop"`;
  * `NoOrphanHolds` (`KeptInv`), when only streams fail;
  * `ChargedOnceHolds`, `SettledIsFinalHolds` and `SettlesOnceHolds`, with no fault but
    `"late"`, from `SettleInv`: for each await of `_finalize_session`, how far charge, row
    and slot have got (`LedgerFollows`), and that a registered record has none of
    it begun (`RecordUntouched`). `SoleMover` is the lemma that two tasks are never in the middle
    of a settlement. `SettlesOnceHolds` is the step simulation of `SessionSettlement`,
    from `LedgerStep`, which lists what one step may do to the ledger.

  The fault hypotheses are the widest under which TLC finds no counterexample with two
  connections: one excluded fault more and it does. Section 3 tells of some of those
  counterexamples.
* `QuotaLedger_proofs`: `TypeCorrect`. `LeaseLimitHolds`, from `LeaseInv`: a
  call's time stamp is never ahead of the clock, and a session past `Add` is a
  member with its lease as score unless that lease has run out. It rests on the
  code adding before it counts and on `Prune` removing nothing later than its
  own stale `now`; that no prune is ahead of the clock is what makes it inductive.
  `MembershipExactHolds` and `DenialJustifiedHolds` add `NoStrayMember`: only a session
  at a stage that may be a member has a score. `NoLostChargeHolds`, from `ChargeInv`:
  while one session is allowed and none has outlived its lease, a session that charges
  holds an unexpired one or has lasted no second, so by `LeaseLimit` nobody else does;
  what it read is still the counter when it writes (`ReadIsFresh`).
* `FinalTranslation_proofs`. Under every fault: `TypeCorrect`, from `ShapeInv`, which
  says that the translation task at work has a current final (`LoopInv`), that only a closer in
  its drain has a list (`RestInv`) and how handler, tasks and closers fit together
  (`TaskInv`); `ArchivedIsStoredHolds` and `JobsAreFailedRowsHolds`, from `StoreInv`: the
  row is there before the number is marked and before the job is queued.

  With resumes that wait for the former connection's tasks (`"early"` excluded, every other
  fault admitted), `PunctualInv` says that only the last stream's task is at work
  (`Former`), that a closed session has nothing in work (`ClosedIsIdle`), and that
  while anyone drains it nothing is queued (`Drained`). On it rest
  * `NothingForgottenHolds`, from `ForgetInv`: every final heard has a row, is one of
    the two losses, or is in a hand (`Accounted`); what a dead translation task leaves as
    current is no longer needed or on a list (`LeftBehind`). At rest there are no hands.
  * `RowsInOrderHolds`, from `OrderInv`: queue and lists ascend, the current final comes
    before them, what comes before the members of a list is on it or has its row (`Behind`),
    and no row of the stream is later than any work left.
  * `OnlyInsertsLose`, with `"stream"` excluded as well (`UncutInv`): no drain is ever
    cancelled, and a raising insert is the only way to lose a final.

  `RaiseEffect` and `CancelEffect` say what an exception and a cancellation may change;
  the queue lemmas (`MembersAppend`, `MembersTail`, `MembersPrepend`, `DrainQueue`) what a
  drain puts back in front.
* `SpeechStream_proofs`, for any number of connections and every fault. `TypeCorrect`:
  the bound of the queue needs `QueueRoom`, that the silence of a gap is only due while
  there is room for it. `WaitsAreAnsweredHolds` is the safe half of `ClosingEnds`: who
  waits for `close()` waits for a call that has been made, and who waits for a
  pipeline task, in a finalization or in the sweep of a pause, waits for one that has been
  cancelled or has failed. The inductive `WaitInv` adds that a stream starts once, at the first
  audio of its connection, that a task which finalizes is in its exception handler, and
  `JoinsLater`. `NoCircularWaitHolds`: handler, timer and pipeline tasks never wait for
  each other in a circle. It is no property of a run, and not for want of occasion: a
  pipeline task that handles an error can outlive its connection, finalize
  the session after another connection has resumed it, and join that one's task.
  But it only ever joins the task of a later connection (`JoinsLater`), so that of any tasks
  that wait, the last one waits for none of the others (`LaterJoinsMakeNoCircle`).
* `TranslationRetry_proofs`: `TypeCorrect`; `LockExclusive`: no job outlasting
  its lock (`"slow"` excluded) means one translator per segment; `RowsFlow`: under the same
  hypothesis the unconditional updates only hit a row in status retrying;
  `AttemptsLimited`: if in addition events are recorded, calls never exceed
  `MaxAttempts`. Each has its own inductive invariant (`TypedInv`, `OwnInv`,
  `FlowInv`, `CountInv`), building on the one before.

* `InterimTranslation_proofs`: `InterimTypesHold`, `RequestRateHolds`,
  `NoRepeatHolds` and `NothingAskedAfterEndHolds`, for any texts and any interval.
  `SleepInv` says that a loop that sleeps wakes no earlier than the slot is free, and that
  what it has taken is not the text translated last. `CallInv` orders stamps and
  requests: a request comes after the stamp of its slot and before the next stamp, so the
  request before the last one is older than the last stamp. `SlotTaken` and
  `RequestMade` are the lemmas about the steps that take a slot and make a request.
* `Archive_proofs`: for any number of requests and segments and any set of faults.
  `UrlLivesAsAnnouncedHolds`, from `UrlInv`: an export that got as far as its row
  has both times, in order. `ArchiveTypesHold`. `ObjectsAccountedHolds`, from
  `StoreInv`: the account of the objects, the object behind each row, and
  `Prepared`, which says what an export under way has already left in the store;
  `StoreGrows` is the lemma that one request's work leaves the account of the others
  alone. `CompleteWhenEndedHolds`, from `ReadInOrder`: the row is read before the
  segments and closed after the last of them, which is the order of statements the
  property rests on. `TimelineTruthfulHolds`, from `PageInv`: an export that was over
  before a page was asked for stays so and has left a row, an exception or a mark among
  the lost, and of what the page reads, in that order, nothing is ever taken back. That
  the timeline it makes is in order is the lemma `SortIsSorted`: the items are finitely many
  and any two of them compare (`ItemsAreSortable`, which needs that a page has no
  two segments of one id), so their places are exactly those of a sequence (`PlacesAreTaken`).
* `MCArchive_proofs`: `ClientCreatedOnceHolds`, for any set of calls; whoever
  made the client has left a row. `RowsAreExactHolds`, for any window, time zone and
  calendar: a report is made from exactly the rows with a local date in the window, each
  day's figures from the rows of that date, and the cost of the month from all rows of the
  month. It rests on `DayBegins` and `MonthBegins`, which turn the code's UTC bounds into
  local dates, and on no row being of the future. `ReportIsExactHolds` goes from the rows to
  the figures: they are those of exactly these rows, the totals over the days are
  the figures of the whole window (`DaysAddUp`, `TotalsAreExact`), and this for windows of any
  length, those beyond `MaxWindow` included. Sums are functions over finite sets, and what is
  said of them by induction over the set rests on `SubsetInduction`, a lemma about sets
  (from `SetInduction`, that any numbers have a least one) without an operator as a parameter. `TypeCorrect` puts the types of the
  run together.

Only model-checked:

* everything about liveness (`AbandonedIsSettled`, `EventuallyArchived`, `JobSettles`,
  `ClosingEnds`, `ClosedIsQuiet`, `BrokenStreamEndsSession`, `CaptionCatchesUp`),
  which the prover does not reach;
* `MeetingSession` beyond the fault hypotheses above, where the properties are false.

## 5. Plan

Done: all modules of section 2, each with its theorems. Every invariant and every
action property that a run checks, and the refinement, is proved; what is left to TLC is
listed above. A settlement under failing calls does not charge at most once in this
code (`CloseFails`), so there is no theorem about it.

What would come next, in this order:

1. `SessionStore` (`frontend/src/stores/session-store.ts`): `beginCapture` and
   `endSession` interleaved over three awaits; no stream, processor or socket may be
   left running that the store does not know of.
2. `MeetingSocket` (`frontend/src/lib/meeting-websocket.ts`): connect and resume
   attempts against an abstraction of `MeetingSession` (a session that is live,
   paused or gone).
3. Composition of `SpeechStream` with the settlement of `MeetingSession`, in place
   of its one step `Settle`.

## 6. Not modelled, and why

* *Browser client and store* (`frontend/`): next in the plan. The order in which a
  browser fires `onerror` and `onclose` is not in the repository.
* *Audio capture and framing*: browser APIs and arithmetic on floating point samples.
* *Pages and API clients*: rendering and fetch calls.
* *Translation providers*: prompts and the HTTP request are data of an external
  service; outcomes and the closed client are modelled where they are used.
* *The mock pipeline's script*, and the rows it writes: fixed text for local use. Its
  sleeps, sends and end are in `SpeechStream`.
* *Retry metadata in archive pages* (`archives.py` 706-745): a read-only summary of
  event payloads for display.
* *Key sentence matching* (`key_sentences.py`): a list of words.
* *Payload and settings validation* (`config.py`, `ws_messages.py`, the key checks of
  `usage_events.py`), hashing of tokens, and what a hello message is checked for:
  parsing, of which the models keep the outcome.
* *Rounding and latency averages of the dashboard*: decimals for display, and figures
  of events no code records.
* *Timeline messages of a running meeting*: sent best effort, with no influence on
  the control.
* *Deployment files*: used to justify fairness.

`PROJECT.json` lists each component with its status and the reason.
