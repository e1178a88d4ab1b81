------------------------------ MODULE Archive ------------------------------
(***************************************************************************)
(* The archive of one session: the HTTP requests that show it, export it   *)
(* and mark its key sentences (archives.py, exports.py), while the meeting *)
(* may still be writing it.  A request reads the tables one statement at a *)
(* time; an export writes an object, signs a URL and writes a row, each of *)
(* which may fail.                                                         *)
(*                                                                         *)
(* The storage client of exports.py is not asynchronous: between upload    *)
(* and signed URL no other task of the server runs, only time passes.      *)
(***************************************************************************)
EXTENDS Timeline, FiniteSets

CONSTANTS
    MaxRequests, MaxSegments, MaxTime,   \* bounds
    Retention,     \* the session's retention_expires_at
    Ttl,           \* COS_SIGNED_URL_TTL_SECONDS
    Never,         \* stands for None
    ArchiveFaults  \* subset of ArchiveFaultKinds

ArchiveFaultKinds ==
    {"upload",     \* put_object raises
     "sign",       \* get_presigned_url raises
     "database",   \* create_export_file raises
     "reply",      \* what raises has been done all the same
     "event",      \* record_usage_event_best_effort swallows an exception
     "crash"}      \* the server dies

ASSUME ArchiveBounds == MaxRequests \in Nat /\ MaxSegments \in Nat /\ MaxTime \in Nat
ASSUME TimesAssumption == Retention \in Nat /\ Ttl \in Nat /\ Never \notin Nat
ASSUME ArchiveFaultsAssumption == ArchiveFaults \subseteq ArchiveFaultKinds

Requests == 1..MaxRequests
Operations == {"view", "export", "mark", "search", "copy"}

VARIABLES
    now,
    meeting,    \* what writes the archive: "live", "closing", "over"
    row,        \* status and started_at of the session's row
    segments,   \* its rows of transcript_segment by sequence: id, end_ms, is_key_sentence
    events,     \* its usage_event rows: type, request (0: the meeting), created_at
    lost,       \* requests whose event could not be written (history)
    objects,    \* the exports in the object store: request, exported_at, segments
    files,      \* its rows of export_file: request, created_at
    op,         \* operation of a request
    step,       \* what a request does next
    seen,       \* what it has read
    made        \* an export's exported_at, when its URL was signed, and the announced expiry

session == <<meeting, row, segments>>
recorded == <<events, lost>>
stored == <<objects, files>>
request == <<op, step, seen, made>>
archiveVars == <<now, session, recorded, stored, request>>

Ended == {"answered", "denied", "empty", "unavailable", "gone"}
Steps == Ended \cup {"idle", "authorized", "reason", "exports", "exceptions", "upload",
                     "sign", "file", "event", "fail empty", "fail unavailable"}
Times == 0..MaxTime
Segments == [id : 1..MaxSegments, end : Times, key : BOOLEAN]
Rows == [status : {"pending", "active", "ended"}, started : Times \cup {Never}]
FileRows == [by : Requests, at : Times]
ExceptionTypes == {"provider_error", "export_failed"}
EventTypes == ExceptionTypes \cup {"session_closed", "archive_viewed", "export_created",
                                   "key_sentence_marked", "archive_searched",
                                   "segment_copied"}
UsageEvents == [type : EventTypes, by : 0..MaxRequests, at : Times]
Readings == [row : Rows, segments : Seq(Segments),
             reason : {"none", "pending", "active", "ended", "session_closed"},
             files : SUBSET FileRows, exceptions : SUBSET UsageEvents,
             before : SUBSET Requests]   \* exports that were over when the request began

ArchiveTypeOK ==
    /\ now \in Times
    /\ meeting \in {"live", "closing", "over"}
    /\ row \in Rows
    /\ segments \in Seq(Segments) /\ Len(segments) <= MaxSegments
    /\ events \subseteq UsageEvents
    /\ lost \subseteq Requests
    /\ objects \subseteq [by : Requests, at : Times, segments : Seq(Segments)]
    /\ files \subseteq FileRows
    /\ op \in [Requests -> Operations]
    /\ step \in [Requests -> Steps]
    /\ seen \in [Requests -> Readings]
    /\ made \in [Requests -> [at : Times \cup {Never}, signed : Times \cup {Never},
                              expires : Nat \cup {Never}]]

Nothing == [row |-> [status |-> "pending", started |-> Never], segments |-> <<>>,
            reason |-> "none", files |-> {}, exceptions |-> {}, before |-> {}]

ArchiveInit ==
    /\ now = 0
    /\ meeting = "live"
    /\ row = [status |-> "pending", started |-> Never]
    /\ segments = <<>>
    /\ events = {}
    /\ lost = {}
    /\ objects = {}
    /\ files = {}
    /\ op = [r \in Requests |-> "view"]
    /\ step = [r \in Requests |-> "idle"]
    /\ seen = [r \in Requests |-> Nothing]
    /\ made = [r \in Requests |-> [at |-> Never, signed |-> Never, expires |-> Never]]

\* A task can only run while the event loop is not inside the storage client.
Runs == \A r \in Requests : step[r] \notin {"upload", "sign"}

GoTo(r, s) == step' = [step EXCEPT ![r] = s]

\* The response, of which nothing stays behind.
End(r, s) == GoTo(r, s) /\ seen' = [seen EXCEPT ![r] = Nothing]

\* Nothing here reads the created_at of the other events.
Event(type, by) ==
    [type |-> type, by |-> by, at |-> IF type \in ExceptionTypes THEN now ELSE 0]

\* record_usage_event_best_effort.
Record(type, r) ==
    \/ events' = events \cup {Event(type, r)} /\ UNCHANGED lost
    \/ "event" \in ArchiveFaults /\ lost' = lost \cup {r} /\ UNCHANGED events

-----------------------------------------------------------------------------
(* The meeting, as far as it writes the archive (ws_sessions.py).           *)

DetectAudio ==
    /\ Runs /\ meeting = "live" /\ row.status = "pending"
    /\ row' = [status |-> "active", started |-> now]
    /\ UNCHANGED <<now, meeting, segments, recorded, stored, request>>

\* end_ms never falls within a stream; nothing keeps it from staying the same.
StoreSegment ==
    /\ Runs /\ meeting = "live" /\ row.status = "active"
    /\ Len(segments) < MaxSegments
    /\ \E s \in Segments :
          /\ \A i \in DOMAIN segments : segments[i].id # s.id /\ segments[i].end <= s.end
          /\ s.end <= now
          /\ segments' = Append(segments, s)
    /\ UNCHANGED <<now, meeting, row, recorded, stored, request>>

ProviderError ==
    /\ Runs /\ meeting = "live" /\ row.status = "active"
    /\ \A e \in events : e.type # "provider_error"
    /\ events' = events \cup {Event("provider_error", 0)}
    /\ UNCHANGED <<now, session, lost, stored, request>>

\* _finalize_session has drained the finals before it closes the row.
CloseSession ==
    /\ Runs /\ meeting = "live"
    /\ meeting' = "closing"
    /\ row' = [row EXCEPT !.status = "ended"]
    /\ UNCHANGED <<now, segments, recorded, stored, request>>

RecordClosed ==
    /\ Runs /\ meeting = "closing"
    /\ meeting' = "over"
    /\ \/ events' = events \cup {Event("session_closed", 0)}
       \/ "event" \in ArchiveFaults /\ UNCHANGED events
    /\ UNCHANGED <<now, row, segments, lost, stored, request>>

Tick ==
    /\ now < MaxTime
    /\ now' = now + 1
    /\ UNCHANGED <<session, recorded, stored, request>>

\* Requests end without an answer, and the meeting with its row as it is.
Crash ==
    /\ "crash" \in ArchiveFaults
    /\ meeting' = "over"
    /\ step' = [r \in Requests |-> IF step[r] \in Ended \cup {"idle"} THEN step[r] ELSE "gone"]
    /\ seen' = [r \in Requests |-> Nothing]
    /\ UNCHANGED <<now, row, segments, recorded, stored, op, made>>

-----------------------------------------------------------------------------
(* What every request begins with, and what it reads.                       *)

FinishedExports == {e \in Requests : op[e] = "export" /\ step[e] \in {"answered", "empty", "unavailable"}}

\* A missing token, a session that does not exist and a wrong token are denied as well.
Authorize(r, o) ==
    /\ Runs /\ step[r] = "idle"
    /\ op' = [op EXCEPT ![r] = o]
    /\ \/ GoTo(r, "denied") /\ UNCHANGED seen
       \/ /\ now < Retention
          /\ GoTo(r, "authorized")
          /\ seen' = [seen EXCEPT ![r].row = row, ![r].before = FinishedExports]
    /\ UNCHANGED <<now, session, recorded, stored, made>>

ReadSegments(r) ==
    /\ Runs /\ step[r] = "authorized" /\ op[r] \in {"view", "export"}
    /\ seen' = [seen EXCEPT ![r].segments = segments]
    /\ GoTo(r, IF op[r] = "export" /\ segments = <<>> THEN "fail empty" ELSE "reason")
    /\ UNCHANGED <<now, session, recorded, stored, op, made>>

\* Mutant of EndReason: the status does not stand in for the reason.
EndReasonOrNone(r) ==
    IF \E e \in events : e.type = "session_closed" THEN "session_closed" ELSE Never

\* latest_session_closed_reason, or the status read before.
EndReason(r) ==
    IF \E e \in events : e.type = "session_closed" THEN "session_closed" ELSE seen[r].row.status

\* Mutant of ReadReason: the session is read again with its reason.
ReadReasonRefreshing(r) ==
    /\ Runs /\ step[r] = "reason"
    /\ seen' = [seen EXCEPT ![r].reason = EndReason(r), ![r].row = row]
    /\ IF op[r] = "export"
       THEN GoTo(r, "upload") /\ made' = [made EXCEPT ![r].at = now]
       ELSE GoTo(r, "exports") /\ UNCHANGED made
    /\ UNCHANGED <<now, session, recorded, stored, op>>

\* An export renders its content at once and goes on to store it.
ReadReason(r) ==
    /\ Runs /\ step[r] = "reason"
    /\ seen' = [seen EXCEPT ![r].reason = EndReason(r)]
    /\ IF op[r] = "export"
       THEN GoTo(r, "upload") /\ made' = [made EXCEPT ![r].at = now]
       ELSE GoTo(r, "exports") /\ UNCHANGED made
    /\ UNCHANGED <<now, session, recorded, stored, op>>

-----------------------------------------------------------------------------
(* The other operations on the archive.                                     *)

ReadExports(r) ==
    /\ Runs /\ step[r] = "exports"
    /\ seen' = [seen EXCEPT ![r].files = files]
    /\ GoTo(r, "exceptions")
    /\ UNCHANGED <<now, session, recorded, stored, op, made>>

\* Mutant of Exceptions: failed exports are not among the types asked for.
ExceptionsOfProviders == {e \in events : e.type = "provider_error"}

\* list_exception_timeline_records; an event without a code gets that of its type.
Exceptions == {e \in events : e.type \in ExceptionTypes}

ReadExceptions(r) ==
    /\ Runs /\ step[r] = "exceptions"
    /\ seen' = [seen EXCEPT ![r].exceptions = Exceptions]
    /\ GoTo(r, "event")
    /\ UNCHANGED <<now, session, recorded, stored, op, made>>

MarkKeySentence(r) ==
    /\ Runs /\ step[r] = "authorized" /\ op[r] = "mark"
    /\ \/ End(r, "denied") /\ UNCHANGED segments
       \/ /\ \E i \in DOMAIN segments, b \in BOOLEAN :
                segments' = [segments EXCEPT ![i].key = b]
          /\ GoTo(r, "event") /\ UNCHANGED seen
    /\ UNCHANGED <<now, meeting, row, recorded, stored, op, made>>

\* record_archive_event finds the copied segment, or denies that there is one.
FindCopied(r) ==
    /\ Runs /\ step[r] = "authorized" /\ op[r] \in {"search", "copy"}
    /\ \/ op[r] = "copy" /\ End(r, "denied")
       \/ (op[r] = "copy" => segments # <<>>) /\ GoTo(r, "event") /\ UNCHANGED seen
    /\ UNCHANGED <<now, session, recorded, stored, op, made>>

-----------------------------------------------------------------------------
(* create_export.                                                           *)

Object(r) == [by |-> r, at |-> made[r].at, segments |-> seen[r].segments]

Upload(r) ==
    /\ step[r] = "upload"
    /\ objects' = objects \cup {Object(r)}
    /\ GoTo(r, "sign")
    /\ UNCHANGED <<now, session, recorded, files, op, seen, made>>

UploadFails(r) ==
    /\ "upload" \in ArchiveFaults
    /\ step[r] = "upload"
    /\ \/ UNCHANGED objects
       \/ "reply" \in ArchiveFaults /\ objects' = objects \cup {Object(r)}
    /\ GoTo(r, "fail unavailable")
    /\ UNCHANGED <<now, session, recorded, files, op, seen, made>>

Sign(r) ==
    /\ step[r] = "sign"
    /\ made' = [made EXCEPT ![r].signed = now]
    /\ GoTo(r, "file")
    /\ UNCHANGED <<now, session, recorded, stored, op, seen>>

\* Mutant of SignFails: the request fails without a word.
SignFailsSilently(r) ==
    /\ "sign" \in ArchiveFaults
    /\ step[r] = "sign"
    /\ End(r, "unavailable")
    /\ UNCHANGED <<now, session, recorded, stored, op, made>>

\* The object stays where it is.
SignFails(r) ==
    /\ "sign" \in ArchiveFaults
    /\ step[r] = "sign"
    /\ GoTo(r, "fail unavailable")
    /\ UNCHANGED <<now, session, recorded, stored, op, seen, made>>

FileRow(r) == [by |-> r, at |-> made[r].at]

CreateExportFile(r) ==
    /\ Runs /\ step[r] = "file"
    /\ files' = files \cup {FileRow(r)}
    /\ GoTo(r, "event")
    /\ UNCHANGED <<now, session, recorded, objects, op, seen, made>>

CreateExportFileFails(r) ==
    /\ "database" \in ArchiveFaults
    /\ Runs /\ step[r] = "file"
    /\ \/ UNCHANGED files
       \/ "reply" \in ArchiveFaults /\ files' = files \cup {FileRow(r)}
    /\ GoTo(r, "fail unavailable")
    /\ UNCHANGED <<now, session, recorded, objects, op, seen, made>>

\* _record_failed_event, and the exception that becomes 409 or 503.
RecordFailure(r) ==
    /\ Runs /\ step[r] \in {"fail empty", "fail unavailable"}
    /\ Record("export_failed", r)
    /\ End(r, IF step[r] = "fail empty" THEN "empty" ELSE "unavailable")
    /\ UNCHANGED <<now, session, stored, op, made>>

EventType == [view |-> "archive_viewed", export |-> "export_created",
              mark |-> "key_sentence_marked", search |-> "archive_searched",
              copy |-> "segment_copied"]

\* Mutant of Answer: the URL is said to expire a full Ttl after the answer.
AnswerFromNow(r) ==
    /\ Runs /\ step[r] = "event"
    /\ Record(EventType[op[r]], r)
    /\ made' = IF op[r] = "export" THEN [made EXCEPT ![r].expires = now + Ttl] ELSE made
    /\ End(r, "answered")
    /\ UNCHANGED <<now, session, stored, op>>

\* The usage event of what was done, and the response.
Answer(r) ==
    /\ Runs /\ step[r] = "event"
    /\ Record(EventType[op[r]], r)
    /\ made' = IF op[r] = "export" THEN [made EXCEPT ![r].expires = made[r].at + Ttl] ELSE made
    /\ End(r, "answered")
    /\ UNCHANGED <<now, session, stored, op>>

-----------------------------------------------------------------------------
MeetingStep == DetectAudio \/ StoreSegment \/ ProviderError \/ CloseSession \/ RecordClosed
ReadStep(r) == ReadSegments(r) \/ ReadReason(r) \/ ReadExports(r) \/ ReadExceptions(r)
ExportStep(r) == Upload(r) \/ Sign(r) \/ CreateExportFile(r)
ExportFails(r) == UploadFails(r) \/ SignFails(r) \/ CreateExportFileFails(r) \/ RecordFailure(r)
RequestStep(r) ==
    \/ \E o \in Operations : Authorize(r, o)
    \/ ReadStep(r) \/ MarkKeySentence(r) \/ FindCopied(r)
    \/ ExportStep(r) \/ ExportFails(r) \/ Answer(r)

ArchiveNext == MeetingStep \/ Tick \/ Crash \/ \E r \in Requests : RequestStep(r)

ArchiveSpec == ArchiveInit /\ [][ArchiveNext]_archiveVars

-----------------------------------------------------------------------------
(* Properties.                                                              *)

HasRead(r) == op[r] \in {"view", "export"} /\ seen[r].reason # "none"

(* An archive page or an export that presents the meeting as ended has all  *)
(* of its segments, though it reads them in a statement of its own while    *)
(* the session may be closing: the row is read first and closed last.       *)
CompleteWhenEnded ==
    \A r \in Requests :
        HasRead(r) /\ seen[r].row.status = "ended" => Len(seen[r].segments) = Len(segments)

(* An object in the store is named by a row, belongs to a request that is   *)
(* under way, or its loss is on record as a failed export, unless the very  *)
(* record was lost or the server died; and no row names a missing object.   *)
ObjectsAccounted ==
    /\ \A o \in objects :
          \/ \E f \in files : f.by = o.by
          \/ \E e \in events : e.type = "export_failed" /\ e.by = o.by
          \/ o.by \in lost
          \/ step[o.by] \in {"sign", "file", "fail unavailable", "gone"}
    /\ \A f \in files : \E o \in objects : o.by = f.by /\ o.at = f.at /\ o.segments # <<>>

(* A download URL is good for at least as long as the response says, how-   *)
(* ever long the store, the database and the event took in between.         *)
UrlLivesAsAnnounced ==
    \A r \in Requests :
        made[r].expires # Never => made[r].expires <= made[r].signed + Ttl

TimelineOf(r) == TimelineItems({seen[r].segments[i] : i \in DOMAIN seen[r].segments},
                               seen[r].exceptions, seen[r].files, seen[r].row.started)

(* The timeline of an archive page is in order of time, with every key      *)
(* sentence behind its own segment, and tells of every export that was over *)
(* before the page was asked for, successful or failed, unless the failure  *)
(* could not be recorded.                                                   *)
TimelineTruthful ==
    \A r \in Requests : op[r] = "view" /\ step[r] = "event" =>
        LET t == TimelineOf(r) IN
        /\ \A i, j \in DOMAIN t : i < j =>
              t[i].at <= t[j].at /\ ~(t[i].type = "key_sentence" /\ t[j].type = "segment_final"
                                        /\ t[i].id = t[j].id)
        /\ \A e \in seen[r].before :
              \E type \in {IF step[e] = "answered" THEN "export_created" ELSE "exception"} :
                  \/ \E i \in DOMAIN t : t[i].id = e /\ t[i].type = type
                  \/ type = "exception" /\ e \in lost
=============================================================================
