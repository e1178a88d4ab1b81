---------------------------- MODULE Archive_proofs ----------------------------
(***************************************************************************)
(* Proofs about Archive, for any number of requests, segments and faults.  *)
(***************************************************************************)
EXTENDS Archive, FiniteSetTheorems, TLAPS

-----------------------------------------------------------------------------
(* The announced expiry of a download URL.                                 *)

(* An export's times are set one after the other, and what is announced is *)
(* counted from the first of them.                                         *)
ExportTimes(r) ==
    /\ step[r] \in {"upload", "sign", "file"} => op[r] = "export"
    /\ step[r] \in {"exports", "exceptions"} => op[r] # "export"
    /\ step[r] \in {"idle", "authorized", "reason"} =>
          made[r].signed = Never /\ made[r].expires = Never
    /\ step[r] \in {"upload", "sign"} =>
          /\ made[r].at \in Nat /\ made[r].at <= now
          /\ made[r].signed = Never /\ made[r].expires = Never
    /\ \/ step[r] = "file"
       \/ step[r] = "event" /\ op[r] = "export"
       \/ made[r].expires # Never
       => made[r].at \in Nat /\ made[r].signed \in Nat /\ made[r].at <= made[r].signed
    /\ made[r].expires # Never => made[r].expires = made[r].at + Ttl

MadeType ==
    /\ now \in Times
    /\ step \in [Requests -> Steps]
    /\ op \in [Requests -> Operations]
    /\ made \in [Requests -> [at : Times \cup {Never}, signed : Times \cup {Never},
                              expires : Nat \cup {Never}]]

UrlInv == MadeType /\ \A r \in Requests : ExportTimes(r)

LEMMA ClockIsNat == ASSUME MadeType PROVE now \in Nat
BY ArchiveBounds DEF MadeType, Times

LEMMA UrlInvInit == ArchiveInit => UrlInv
BY TimesAssumption, ArchiveBounds
DEF ArchiveInit, UrlInv, ExportTimes, MadeType, Times, Steps, Ended, Operations

(* A request goes on without touching its times.                           *)
LEMMA MoveKeepsUrlInv ==
    ASSUME UrlInv, NEW r \in Requests, NEW s \in Steps, GoTo(r, s), UNCHANGED <<now, op, made>>,
           \/ s \in Ended \cup {"fail empty", "fail unavailable"}
           \/ s = "exports" /\ op[r] # "export"
           \/ s = "exceptions" /\ step[r] = "exports"
           \/ s = "event" /\ (op[r] # "export" \/ step[r] = "file")
           \/ s = "reason" /\ step[r] = "authorized"
           \/ s = "sign" /\ step[r] = "upload"
    PROVE  UrlInv'
<1> USE DEF UrlInv
<1>1. MadeType' /\ step' = [step EXCEPT ![r] = s]
    BY DEF MadeType, GoTo
<1>2. ASSUME NEW q \in Requests, q # r PROVE ExportTimes(q)'
    <2>1. step'[q] = step[q] /\ op'[q] = op[q] /\ made'[q] = made[q] /\ now' = now
        BY <1>1, <1>2 DEF MadeType
    <2> QED
        BY <2>1 DEF ExportTimes
<1>3. ExportTimes(r)'
    <2>1. step'[r] = s /\ op'[r] = op[r] /\ made'[r] = made[r] /\ now' = now /\ ExportTimes(r)
        BY <1>1 DEF MadeType
    <2> QED
        BY <2>1 DEF ExportTimes, Ended
<1> QED
    BY <1>1, <1>2, <1>3

(* What a request does to its own times says nothing of the others.        *)
LEMMA OwnTimesKeepUrlInv ==
    ASSUME UrlInv, NEW r \in Requests, NEW s \in Steps, GoTo(r, s), UNCHANGED now,
           MadeType', ExportTimes(r)',
           \A q \in Requests \ {r} : made'[q] = made[q] /\ op'[q] = op[q]
    PROVE  UrlInv'
<1>1. ASSUME NEW q \in Requests, q # r PROVE ExportTimes(q)'
    <2>1. step'[q] = step[q] /\ op'[q] = op[q] /\ made'[q] = made[q] /\ now' = now
        BY <1>1 DEF MadeType, GoTo, UrlInv
    <2> QED
        BY <2>1 DEF ExportTimes, UrlInv
<1> QED
    BY <1>1 DEF UrlInv

(* Reading: exported_at is the only time it sets.                          *)
LEMMA ReadsKeepUrlInv ==
    ASSUME UrlInv, NEW r \in Requests,
           (\E o \in Operations : Authorize(r, o)) \/ ReadStep(r) \/ MarkKeySentence(r) \/ FindCopied(r)
    PROVE  UrlInv'
<1> USE DEF Steps, Ended, session, recorded, stored
<1>1. ASSUME NEW o \in Operations, Authorize(r, o) PROVE UrlInv'
    <2>1. PICK s \in {"denied", "authorized"} : GoTo(r, s)
        BY <1>1 DEF Authorize
    <2>2. MadeType'
        BY <1>1, <2>1 DEF Authorize, UrlInv, MadeType, GoTo
    <2>3. step[r] = "idle" /\ step'[r] = s /\ made' = made /\ now' = now
        BY <1>1, <2>1 DEF Authorize, UrlInv, MadeType, GoTo
    <2>4. ExportTimes(r)'
        BY <2>1, <2>3 DEF UrlInv, ExportTimes
    <2>5. \A q \in Requests \ {r} : made'[q] = made[q] /\ op'[q] = op[q]
        BY <1>1 DEF Authorize, UrlInv, MadeType
    <2> QED
        BY <2>1, <2>2, <2>3, <2>4, <2>5, OwnTimesKeepUrlInv
<1>2. CASE ReadSegments(r)
    <2>1. PICK s \in {"fail empty", "reason"} : GoTo(r, s)
        BY <1>2 DEF ReadSegments
    <2> QED
        BY <1>2, <2>1, MoveKeepsUrlInv DEF ReadSegments
<1>3. CASE ReadReason(r)
    <2>1. CASE op[r] = "export"
        <3>1. GoTo(r, "upload") /\ made' = [made EXCEPT ![r].at = now] /\ UNCHANGED <<now, op>>
            BY <1>3, <2>1 DEF ReadReason
        <3>2. MadeType'
            BY <3>1 DEF UrlInv, MadeType, GoTo
        <3>3. step[r] = "reason" /\ step'[r] = "upload"
            BY <1>3, <3>1 DEF ReadReason, UrlInv, MadeType, GoTo
        <3>4. made'[r].at = now /\ made'[r].signed = made[r].signed /\ made'[r].expires = made[r].expires
            BY <3>1 DEF UrlInv, MadeType
        <3>5. now \in Nat
            BY ClockIsNat DEF UrlInv
        <3>6. ExportTimes(r)'
            BY <2>1, <3>1, <3>3, <3>4, <3>5 DEF UrlInv, ExportTimes
        <3>7. \A q \in Requests \ {r} : made'[q] = made[q] /\ op'[q] = op[q]
            BY <3>1 DEF UrlInv, MadeType
        <3> QED
            BY <3>1, <3>2, <3>6, <3>7, OwnTimesKeepUrlInv
    <2>2. CASE op[r] # "export"
        BY <1>3, <2>2, MoveKeepsUrlInv DEF ReadReason
    <2> QED
        BY <2>1, <2>2
<1>4. CASE ReadExports(r)
    BY <1>4, MoveKeepsUrlInv DEF ReadExports
<1>5. CASE ReadExceptions(r)
    <2>1. step[r] = "exceptions" /\ op[r] # "export"
        BY <1>5 DEF ReadExceptions, UrlInv, ExportTimes
    <2> QED
        BY <1>5, <2>1, MoveKeepsUrlInv DEF ReadExceptions
<1>6. CASE MarkKeySentence(r)
    <2>1. PICK s \in {"denied", "event"} : GoTo(r, s)
        BY <1>6 DEF MarkKeySentence, End
    <2> QED
        BY <1>6, <2>1, MoveKeepsUrlInv DEF MarkKeySentence
<1>7. CASE FindCopied(r)
    <2>1. PICK s \in {"denied", "event"} : GoTo(r, s)
        BY <1>7 DEF FindCopied, End
    <2> QED
        BY <1>7, <2>1, MoveKeepsUrlInv DEF FindCopied
<1> QED
    BY <1>1, <1>2, <1>3, <1>4, <1>5, <1>6, <1>7 DEF ReadStep

(* Exporting: the URL is signed after exported_at and before the answer.   *)
LEMMA ExportKeepsUrlInv ==
    ASSUME UrlInv, NEW r \in Requests, ExportStep(r) \/ ExportFails(r) \/ Answer(r)
    PROVE  UrlInv'
<1> USE DEF Steps, Ended, session, recorded, stored
<1>1. CASE Upload(r)
    BY <1>1, MoveKeepsUrlInv DEF Upload
<1>2. CASE Sign(r)
    <2>1. GoTo(r, "file") /\ made' = [made EXCEPT ![r].signed = now] /\ UNCHANGED <<now, op>>
        BY <1>2 DEF Sign
    <2>2. MadeType'
        BY <2>1 DEF UrlInv, MadeType, GoTo
    <2>3. step[r] = "sign" /\ step'[r] = "file"
        BY <1>2, <2>1 DEF Sign, UrlInv, MadeType, GoTo
    <2>4. made'[r].signed = now /\ made'[r].at = made[r].at /\ made'[r].expires = made[r].expires
        BY <2>1 DEF UrlInv, MadeType
    <2>5. now \in Nat
        BY ClockIsNat DEF UrlInv
    <2>6. ExportTimes(r)'
        BY <2>1, <2>3, <2>4, <2>5 DEF UrlInv, ExportTimes
    <2>7. \A q \in Requests \ {r} : made'[q] = made[q] /\ op'[q] = op[q]
        BY <2>1 DEF UrlInv, MadeType
    <2> QED
        BY <2>1, <2>2, <2>6, <2>7, OwnTimesKeepUrlInv
<1>3. CASE CreateExportFile(r)
    BY <1>3, MoveKeepsUrlInv DEF CreateExportFile
<1>4. CASE UploadFails(r)
    BY <1>4, MoveKeepsUrlInv DEF UploadFails
<1>5. CASE SignFails(r)
    BY <1>5, MoveKeepsUrlInv DEF SignFails
<1>6. CASE CreateExportFileFails(r)
    BY <1>6, MoveKeepsUrlInv DEF CreateExportFileFails
<1>7. CASE RecordFailure(r)
    <2>1. PICK s \in {"empty", "unavailable"} : GoTo(r, s)
        BY <1>7 DEF RecordFailure, End
    <2> QED
        BY <1>7, <2>1, MoveKeepsUrlInv DEF RecordFailure
<1>8. CASE Answer(r)
    <2>1. GoTo(r, "answered") /\ UNCHANGED <<now, op>> /\ step[r] = "event"
        BY <1>8 DEF Answer, End
    <2>2. CASE op[r] = "export"
        <3>1. made' = [made EXCEPT ![r].expires = made[r].at + Ttl]
            BY <1>8, <2>2 DEF Answer
        <3>2. made[r].at \in Nat /\ made[r].signed \in Nat /\ made[r].at <= made[r].signed
            BY <2>1, <2>2 DEF UrlInv, ExportTimes
        <3>3. made[r].at + Ttl \in Nat
            BY <3>2, TimesAssumption
        <3>4. MadeType'
            BY <2>1, <3>1, <3>3 DEF UrlInv, MadeType, GoTo
        <3>5. /\ made'[r].expires = made[r].at + Ttl
              /\ made'[r].at = made[r].at /\ made'[r].signed = made[r].signed
            BY <3>1 DEF UrlInv, MadeType
        <3>6. step'[r] = "answered"
            BY <2>1 DEF GoTo, UrlInv, MadeType
        <3>7. ExportTimes(r)'
            BY <3>2, <3>5, <3>6 DEF ExportTimes
        <3>8. \A q \in Requests \ {r} : made'[q] = made[q] /\ op'[q] = op[q]
            BY <2>1, <3>1 DEF UrlInv, MadeType
        <3> QED
            BY <2>1, <3>4, <3>7, <3>8, OwnTimesKeepUrlInv
    <2>3. CASE op[r] # "export"
        <3>1. made' = made
            BY <1>8, <2>3 DEF Answer
        <3> QED
            BY <2>1, <3>1, MoveKeepsUrlInv
    <2> QED
        BY <2>2, <2>3
<1> QED
    BY <1>1, <1>2, <1>3, <1>4, <1>5, <1>6, <1>7, <1>8 DEF ExportStep, ExportFails

(* The meeting, the clock and a crash.                                     *)
LEMMA OthersKeepUrlInv ==
    ASSUME UrlInv, MeetingStep \/ Tick \/ Crash \/ UNCHANGED archiveVars PROVE UrlInv'
<1>1. ASSUME UNCHANGED <<now, op, step, made>> PROVE UrlInv'
    BY <1>1 DEF UrlInv, MadeType, ExportTimes
<1>2. CASE MeetingStep
    BY <1>1, <1>2
    DEF MeetingStep, DetectAudio, StoreSegment, ProviderError, CloseSession, RecordClosed, request
<1>3. CASE Tick
    <2>1. now \in Nat /\ now' = now + 1 /\ now' \in Times /\ UNCHANGED <<op, step, made>>
        BY <1>3, ArchiveBounds DEF Tick, request, Times, UrlInv, MadeType
    <2>2. MadeType'
        BY <2>1 DEF UrlInv, MadeType
    <2>3. ASSUME NEW q \in Requests PROVE ExportTimes(q)'
        BY <2>1 DEF UrlInv, ExportTimes
    <2> QED
        BY <2>2, <2>3 DEF UrlInv
<1>4. CASE Crash
    <2>1. UNCHANGED <<now, op, made>>
        BY <1>4 DEF Crash
    <2>2. /\ step' \in [Requests -> Steps]
          /\ \A q \in Requests :
                \/ step'[q] = step[q] /\ step[q] \in Ended \cup {"idle"}
                \/ step'[q] = "gone"
        BY <1>4 DEF Crash, Steps, Ended, UrlInv, MadeType
    <2>3. MadeType'
        BY <2>1, <2>2 DEF UrlInv, MadeType
    <2>4. ASSUME NEW q \in Requests PROVE ExportTimes(q)'
        BY <2>1, <2>2 DEF UrlInv, ExportTimes
    <2> QED
        BY <2>3, <2>4 DEF UrlInv
<1>5. CASE UNCHANGED archiveVars
    BY <1>1, <1>5 DEF archiveVars, request
<1> QED
    BY <1>2, <1>3, <1>4, <1>5

LEMMA UrlInvInductive == UrlInv /\ [ArchiveNext]_archiveVars => UrlInv'
BY ReadsKeepUrlInv, ExportKeepsUrlInv, OthersKeepUrlInv DEF ArchiveNext, RequestStep

(* However long storage, database and event take, and whatever fails, a    *)
(* URL is good for as long as its response says.                           *)
THEOREM UrlLivesAsAnnouncedHolds == ArchiveSpec => []UrlLivesAsAnnounced
<1>1. UrlInv /\ [ArchiveNext]_archiveVars => UrlInv'
    BY UrlInvInductive
<1>2. UrlInv => UrlLivesAsAnnounced
    BY TimesAssumption, ArchiveBounds
    DEF UrlInv, ExportTimes, MadeType, Times, UrlLivesAsAnnounced
<1> QED
    BY <1>1, <1>2, UrlInvInit, PTL DEF ArchiveSpec

-----------------------------------------------------------------------------
(* Types.                                                                  *)

LEMMA TypesInit == ArchiveInit => ArchiveTypeOK
BY TimesAssumption, ArchiveBounds
DEF ArchiveInit, ArchiveTypeOK, Nothing, Times, Rows, Steps, Ended, Operations, Readings

(* What is appended and what is marked stays a sequence of segments.       *)
LEMMA SegmentsTyped ==
    ASSUME ArchiveTypeOK,
           StoreSegment \/ \E r \in Requests : MarkKeySentence(r)
    PROVE  segments' \in Seq(Segments) /\ Len(segments') <= MaxSegments
<1>1. CASE StoreSegment
    <2>1. PICK s \in Segments : segments' = Append(segments, s)
        BY <1>1 DEF StoreSegment
    <2>2. Len(segments) \in Nat /\ Len(segments) < MaxSegments
        BY <1>1 DEF StoreSegment, ArchiveTypeOK
    <2> QED
        BY <2>1, <2>2, ArchiveBounds DEF ArchiveTypeOK
<1>2. CASE \E r \in Requests : MarkKeySentence(r)
    <2>1. CASE UNCHANGED segments
        BY <2>1 DEF ArchiveTypeOK
    <2>2. CASE \E i \in DOMAIN segments, b \in BOOLEAN : segments' = [segments EXCEPT ![i].key = b]
        <3>1. PICK i \in DOMAIN segments, b \in BOOLEAN : segments' = [segments EXCEPT ![i].key = b]
            BY <2>2
        <3>2. segments \in Seq(Segments) /\ segments[i] \in Segments
            BY <3>1 DEF ArchiveTypeOK
        <3>3. [segments[i] EXCEPT !.key = b] \in Segments
            BY <3>1, <3>2 DEF Segments
        <3>4. segments' = [segments EXCEPT ![i] = [segments[i] EXCEPT !.key = b]]
            BY <3>1
        <3>5. segments' \in Seq(Segments) /\ Len(segments') = Len(segments)
            BY <3>2, <3>3, <3>4
        <3> QED
            BY <3>5 DEF ArchiveTypeOK
    <2> QED
        BY <1>2, <2>1, <2>2 DEF MarkKeySentence
<1> QED
    BY <1>1, <1>2

(* An event that is recorded, or is lost, is one of its request.           *)
LEMMA RecordTyped ==
    ASSUME ArchiveTypeOK, NEW type \in EventTypes, NEW r \in Requests, Record(type, r)
    PROVE  events' \subseteq UsageEvents /\ lost' \subseteq Requests
<1>1. r \in 0..MaxRequests /\ now \in Times /\ 0 \in Times
    BY ArchiveBounds DEF ArchiveTypeOK, Requests, Times
<1>2. Event(type, r) \in UsageEvents
    BY <1>1 DEF Event, UsageEvents
<1> QED
    BY <1>2 DEF Record, ArchiveTypeOK

LEMMA MeetingKeepsTypes == ASSUME ArchiveTypeOK, MeetingStep PROVE ArchiveTypeOK'
<1> USE DEF recorded, stored, request
<1>1. CASE DetectAudio
    BY <1>1 DEF DetectAudio, ArchiveTypeOK, Rows
<1>2. CASE StoreSegment
    BY <1>2, SegmentsTyped DEF StoreSegment, ArchiveTypeOK
<1>3. now \in Times /\ 0 \in Times /\ 0 \in 0..MaxRequests
    BY ArchiveBounds DEF ArchiveTypeOK, Times
<1>4. CASE ProviderError
    <2>1. Event("provider_error", 0) \in UsageEvents
        BY <1>3 DEF Event, UsageEvents, EventTypes, ExceptionTypes
    <2> QED
        BY <1>4, <2>1 DEF ProviderError, ArchiveTypeOK, session
<1>5. CASE CloseSession
    BY <1>5 DEF CloseSession, ArchiveTypeOK, Rows
<1>6. CASE RecordClosed
    <2>1. Event("session_closed", 0) \in UsageEvents
        BY <1>3 DEF Event, UsageEvents, EventTypes, ExceptionTypes
    <2> QED
        BY <1>6, <2>1 DEF RecordClosed, ArchiveTypeOK
<1> QED
    BY <1>1, <1>2, <1>4, <1>5, <1>6 DEF MeetingStep

LEMMA RequestsKeepTypes ==
    ASSUME ArchiveTypeOK, UrlInv, NEW r \in Requests, RequestStep(r)
    PROVE  ArchiveTypeOK'
<1> USE DEF session, recorded, stored, GoTo, Steps, Ended
<1>n. Nothing \in Readings
    BY DEF Nothing, Readings, Rows, Times
<1>s. seen[r] \in Readings
    BY DEF ArchiveTypeOK
<1>1. ASSUME NEW o \in Operations, Authorize(r, o) PROVE ArchiveTypeOK'
    <2>1. seen' \in [Requests -> Readings]
        <3>1. FinishedExports \subseteq Requests
            BY DEF FinishedExports
        <3>2. [seen[r] EXCEPT !.row = row, !.before = FinishedExports] \in Readings
            BY <1>s, <3>1 DEF Readings, ArchiveTypeOK
        <3> QED
            BY <1>1, <3>2 DEF Authorize, ArchiveTypeOK
    <2> QED
        BY <1>1, <2>1 DEF Authorize, ArchiveTypeOK
<1>2. CASE ReadSegments(r)
    <2>1. [seen[r] EXCEPT !.segments = segments] \in Readings
        BY <1>s DEF Readings, ArchiveTypeOK
    <2> QED
        BY <1>2, <2>1 DEF ReadSegments, ArchiveTypeOK
<1>3. CASE ReadReason(r)
    <2>1. EndReason(r) \in {"none", "pending", "active", "ended", "session_closed"}
        BY <1>s DEF EndReason, Readings, Rows
    <2>2. [seen[r] EXCEPT !.reason = EndReason(r)] \in Readings
        BY <1>s, <2>1 DEF Readings
    <2>3. made' \in [Requests -> [at : Times \cup {Never}, signed : Times \cup {Never},
                                 expires : Nat \cup {Never}]]
        <3>1. \/ made' = [made EXCEPT ![r].at = now]
              \/ made' = made
            BY <1>3 DEF ReadReason
        <3> QED
            BY <3>1, ZenonT(40) DEF ArchiveTypeOK
    <2>4. seen' \in [Requests -> Readings]
        BY <1>3, <2>2 DEF ReadReason, ArchiveTypeOK
    <2>5. \/ step' = [step EXCEPT ![r] = "upload"]
          \/ step' = [step EXCEPT ![r] = "exports"]
        BY <1>3 DEF ReadReason
    <2>6. step' \in [Requests -> Steps]
        BY <2>5 DEF ArchiveTypeOK
    <2> QED
        BY <1>3, <2>3, <2>4, <2>6 DEF ReadReason, ArchiveTypeOK
<1>4. CASE ReadExports(r)
    <2>1. [seen[r] EXCEPT !.files = files] \in Readings
        BY <1>s DEF Readings, ArchiveTypeOK
    <2> QED
        BY <1>4, <2>1 DEF ReadExports, ArchiveTypeOK
<1>5. CASE ReadExceptions(r)
    <2>1. [seen[r] EXCEPT !.exceptions = Exceptions] \in Readings
        BY <1>s DEF Readings, ArchiveTypeOK, Exceptions
    <2> QED
        BY <1>5, <2>1 DEF ReadExceptions, ArchiveTypeOK
<1>6. CASE MarkKeySentence(r)
    <2>1. segments' \in Seq(Segments) /\ Len(segments') <= MaxSegments
        BY <1>6, SegmentsTyped
    <2> QED
        BY <1>6, <2>1, <1>n, ZenonT(40) DEF MarkKeySentence, End, ArchiveTypeOK
<1>7. CASE FindCopied(r)
    BY <1>7, <1>n DEF FindCopied, End, ArchiveTypeOK
<1>8. CASE ExportStep(r) \/ ExportFails(r)
    <2> DEFINE Stored == [by : Requests, at : Times, segments : Seq(Segments)]
    <2>1. ASSUME step[r] \in {"upload", "sign", "file"}
          PROVE  Object(r) \in Stored /\ FileRow(r) \in FileRows
        <3>1. made[r].at \in Times
            BY <2>1, TimesAssumption DEF UrlInv, ExportTimes, MadeType
        <3> QED
            BY <3>1, <1>s DEF Object, FileRow, FileRows, Readings
    <2>2. CASE Upload(r) \/ UploadFails(r)
        BY <2>1, <2>2 DEF Upload, UploadFails, ArchiveTypeOK
    <2>3. CASE Sign(r)
        BY <2>3 DEF Sign, ArchiveTypeOK
    <2>4. CASE SignFails(r)
        BY <2>4 DEF SignFails, ArchiveTypeOK
    <2>5. CASE CreateExportFile(r) \/ CreateExportFileFails(r)
        BY <2>1, <2>5 DEF CreateExportFile, CreateExportFileFails, ArchiveTypeOK
    <2>6. CASE RecordFailure(r)
        <3>1. events' \subseteq UsageEvents /\ lost' \subseteq Requests
            BY <2>6, RecordTyped DEF RecordFailure, EventTypes, ExceptionTypes
        <3> QED
            BY <2>6, <3>1, <1>n DEF RecordFailure, End, ArchiveTypeOK
    <2> QED
        BY <1>8, <2>2, <2>3, <2>4, <2>5, <2>6 DEF ExportStep, ExportFails
<1>9. CASE Answer(r)
    <2>1. EventType[op[r]] \in EventTypes
        <3>1. op[r] \in Operations
            BY DEF ArchiveTypeOK
        <3> QED
            BY <3>1 DEF EventType, EventTypes, Operations
    <2>2. events' \subseteq UsageEvents /\ lost' \subseteq Requests
        BY <1>9, <2>1, RecordTyped DEF Answer
    <2>3. made' \in [Requests -> [at : Times \cup {Never}, signed : Times \cup {Never},
                                 expires : Nat \cup {Never}]]
        <3>1. CASE op[r] = "export"
            <4>1. made[r].at + Ttl \in Nat
                BY <1>9, <3>1, TimesAssumption DEF Answer, UrlInv, ExportTimes
            <4> QED
                BY <1>9, <3>1, <4>1 DEF Answer, ArchiveTypeOK
        <3>2. CASE op[r] # "export"
            BY <1>9, <3>2 DEF Answer, ArchiveTypeOK
        <3> QED
            BY <3>1, <3>2
    <2> QED
        BY <1>9, <2>2, <2>3, <1>n DEF Answer, End, ArchiveTypeOK
<1> QED
    BY <1>1, <1>2, <1>3, <1>4, <1>5, <1>6, <1>7, <1>8, <1>9 DEF RequestStep, ReadStep

(* The archive's variables keep their types: what a request has read is    *)
(* always rows the tables can hold, and what it stores is named and dated. *)
THEOREM ArchiveTypesHold == ArchiveSpec => []ArchiveTypeOK
<1>1. ArchiveTypeOK /\ UrlInv /\ UrlInv' /\ [ArchiveNext]_archiveVars => ArchiveTypeOK'
    <2> SUFFICES ASSUME ArchiveTypeOK, UrlInv, [ArchiveNext]_archiveVars PROVE ArchiveTypeOK'
        OBVIOUS
    <2> USE DEF session, recorded, stored, request
    <2>1. CASE Tick
        BY <2>1, ArchiveBounds DEF Tick, ArchiveTypeOK, Times
    <2>2. CASE Crash
        <3>1. Nothing \in Readings
            BY DEF Nothing, Readings, Rows, Times
        <3> QED
            BY <2>2, <3>1 DEF Crash, ArchiveTypeOK, Steps, Ended
    <2>3. CASE UNCHANGED archiveVars
        BY <2>3 DEF archiveVars, ArchiveTypeOK
    <2> QED
        BY <2>1, <2>2, <2>3, MeetingKeepsTypes, RequestsKeepTypes DEF ArchiveNext
<1>2. UrlInv /\ [ArchiveNext]_archiveVars => UrlInv'
    BY UrlInvInductive
<1> QED
    BY <1>1, <1>2, TypesInit, UrlInvInit, PTL DEF ArchiveSpec

-----------------------------------------------------------------------------
(* What an export leaves in the store.                                     *)

Accounted(o) ==
    \/ \E f \in files : f.by = o.by
    \/ \E e \in events : e.type = "export_failed" /\ e.by = o.by
    \/ o.by \in lost
    \/ step[o.by] \in {"sign", "file", "fail unavailable", "gone"}

Named(f) == \E o \in objects : o.by = f.by /\ o.at = f.at /\ o.segments # <<>>

(* A request that goes on to sign has stored its object, one that goes on  *)
(* to answer has its row, and none exports an archive without segments.    *)
Prepared(r) ==
    /\ step[r] \in {"reason", "upload", "sign", "file"} /\ op[r] = "export" => seen[r].segments # <<>>
    /\ step[r] \in {"sign", "file"} => Object(r) \in objects
    /\ step[r] = "event" /\ op[r] = "export" => \E f \in files : f.by = r

StoreInv ==
    /\ \A o \in objects : Accounted(o)
    /\ \A f \in files : Named(f)
    /\ \A r \in Requests : Prepared(r)

(* Nothing is taken out of the store, its rows and its events, and what one*)
(* request does leaves the account of the others as it is.                 *)
LEMMA StoreGrows ==
    ASSUME StoreInv, ArchiveTypeOK, NEW r \in Requests,
           objects \subseteq objects', files \subseteq files', events \subseteq events',
           lost \subseteq lost',
           \A o \in objects' : o.by = r => Accounted(o)',
           \A o \in objects' : o.by # r => o \in objects,
           \A f \in files' : f \in files \/ Named(f)',
           Prepared(r)',
           \A q \in Requests \ {r} :
              step'[q] = step[q] /\ op'[q] = op[q] /\ seen'[q] = seen[q] /\ made'[q] = made[q]
    PROVE  StoreInv'
<1>1. ASSUME NEW o \in objects' PROVE Accounted(o)'
    <2>1. CASE o.by # r
        <3>1. o \in objects /\ o.by \in Requests
            BY <2>1 DEF ArchiveTypeOK
        <3>2. step'[o.by] = step[o.by] /\ Accounted(o)
            BY <2>1, <3>1 DEF StoreInv
        <3> QED
            BY <3>2 DEF Accounted
    <2> QED
        BY <2>1
<1>2. ASSUME NEW f \in files' PROVE Named(f)'
    BY DEF StoreInv, Named
<1>3. ASSUME NEW q \in Requests PROVE Prepared(q)'
    <2>1. CASE q # r
        BY <2>1 DEF StoreInv, Prepared, Object
    <2> QED
        BY <2>1
<1> QED
    BY <1>1, <1>2, <1>3 DEF StoreInv

(* A request that is not exporting has nothing in the store that waits for *)
(* its next step.                                                          *)
LEMMA KeepsAccount ==
    ASSUME StoreInv, NEW r \in Requests,
           objects' = objects, files \subseteq files', events \subseteq events', lost \subseteq lost',
           \/ step[r] \notin {"sign", "file", "fail unavailable", "gone"}
           \/ step'[r] \in {"sign", "file", "fail unavailable", "gone"}
           \/ \E f \in files' : f.by = r
           \/ \E e \in events' : e.type = "export_failed" /\ e.by = r
           \/ r \in lost'
    PROVE  \A o \in objects' : o.by = r => Accounted(o)'
BY DEF StoreInv, Accounted

LEMMA StoreInvInit == ArchiveInit => StoreInv
BY DEF ArchiveInit, StoreInv, Prepared

LEMMA OthersKeepStoreInv ==
    ASSUME StoreInv, ArchiveTypeOK, MeetingStep \/ Tick \/ Crash \/ UNCHANGED archiveVars
    PROVE  StoreInv'
<1> USE DEF session, recorded, stored, request
<1>1. ASSUME UNCHANGED <<objects, files, lost, step, op, seen, made>>, events \subseteq events'
      PROVE  StoreInv'
    BY <1>1 DEF StoreInv, Accounted, Named, Prepared, Object
<1>2. CASE MeetingStep
    BY <1>1, <1>2
    DEF MeetingStep, DetectAudio, StoreSegment, ProviderError, CloseSession, RecordClosed
<1>3. CASE Tick
    BY <1>1, <1>3 DEF Tick
<1>4. CASE Crash
    <2>1. UNCHANGED <<objects, files, events, lost>>
        BY <1>4 DEF Crash
    <2>2. \A q \in Requests :
             \/ step'[q] = step[q] /\ step[q] \in Ended \cup {"idle"}
             \/ step'[q] = "gone"
        BY <1>4 DEF Crash
    <2>3. ASSUME NEW o \in objects' PROVE Accounted(o)'
        <3>1. o.by \in Requests /\ Accounted(o)
            BY <2>1 DEF StoreInv, ArchiveTypeOK
        <3> QED
            BY <3>1, <2>1, <2>2 DEF Accounted, Ended
    <2>4. \A f \in files' : Named(f)'
        BY <2>1 DEF StoreInv, Named
    <2>5. \A q \in Requests : Prepared(q)'
        BY <2>2 DEF Prepared, Ended
    <2> QED
        BY <2>3, <2>4, <2>5 DEF StoreInv
<1>5. CASE UNCHANGED archiveVars
    BY <1>1, <1>5 DEF archiveVars
<1> QED
    BY <1>2, <1>3, <1>4, <1>5

LEMMA ReadsKeepStoreInv ==
    ASSUME StoreInv, ArchiveTypeOK, UrlInv, NEW r \in Requests,
           (\E o \in Operations : Authorize(r, o)) \/ ReadStep(r) \/ MarkKeySentence(r) \/ FindCopied(r)
    PROVE  StoreInv'
<1> USE DEF session, recorded, stored
<1>1. UNCHANGED <<objects, files, events, lost>>
    BY DEF Authorize, ReadStep, ReadSegments, ReadReason, ReadExports, ReadExceptions,
           MarkKeySentence, FindCopied
<1>2. \A q \in Requests \ {r} :
         step'[q] = step[q] /\ op'[q] = op[q] /\ seen'[q] = seen[q] /\ made'[q] = made[q]
    BY DEF Authorize, ReadStep, ReadSegments, ReadReason, ReadExports, ReadExceptions,
           MarkKeySentence, FindCopied, GoTo, End, ArchiveTypeOK
<1>3. step[r] \in {"idle", "authorized", "reason", "exports", "exceptions"}
    BY DEF Authorize, ReadStep, ReadSegments, ReadReason, ReadExports, ReadExceptions,
           MarkKeySentence, FindCopied
<1>4. Prepared(r)'
    <2>1. CASE \E o \in Operations : Authorize(r, o)
        <3>1. step'[r] \in {"denied", "authorized"}
            BY <2>1 DEF Authorize, GoTo, ArchiveTypeOK
        <3> QED
            BY <3>1 DEF Prepared
    <2>2. CASE ReadSegments(r)
        <3>1. op'[r] = op[r]
            BY <2>2 DEF ReadSegments
        <3>2. seen'[r].segments = segments
            <4>1. seen[r] \in Readings /\ seen' = [seen EXCEPT ![r].segments = segments]
                BY <2>2 DEF ReadSegments, ArchiveTypeOK
            <4> QED
                BY <4>1 DEF Readings, ArchiveTypeOK
        <3>3. step'[r] = IF op[r] = "export" /\ segments = <<>> THEN "fail empty" ELSE "reason"
            BY <2>2 DEF ReadSegments, GoTo, ArchiveTypeOK
        <3> QED
            BY <3>1, <3>2, <3>3 DEF Prepared
    <2>3. CASE ReadReason(r)
        <3>1. /\ op'[r] = op[r] /\ seen'[r].segments = seen[r].segments
              /\ step[r] = "reason" /\ step'[r] \in {"upload", "exports"}
            BY <2>3 DEF ReadReason, GoTo, ArchiveTypeOK, Readings
        <3> QED
            BY <3>1 DEF Prepared, StoreInv
    <2>4. CASE ReadExports(r)
        <3>1. step'[r] = "exceptions"
            BY <2>4 DEF ReadExports, GoTo, ArchiveTypeOK
        <3> QED
            BY <3>1 DEF Prepared
    <2>5. CASE ReadExceptions(r) \/ MarkKeySentence(r) \/ FindCopied(r)
        <3>1. op'[r] = op[r] /\ step'[r] \in {"denied", "event"} /\ op[r] # "export"
            BY <2>5
            DEF ReadExceptions, MarkKeySentence, FindCopied, GoTo, End, ArchiveTypeOK, UrlInv, ExportTimes
        <3> QED
            BY <3>1 DEF Prepared
    <2> QED
        BY <2>1, <2>2, <2>3, <2>4, <2>5 DEF ReadStep
<1> QED
    BY <1>1, <1>2, <1>3, <1>4, StoreGrows, KeepsAccount

LEMMA RecordLeavesTrace ==
    ASSUME NEW type, NEW r, Record(type, r)
    PROVE  (\E e \in events' : e.type = type /\ e.by = r) \/ r \in lost'
<1>1. Event(type, r).type = type /\ Event(type, r).by = r
    BY DEF Event
<1> QED
    BY <1>1 DEF Record

LEMMA ExportKeepsStoreInv ==
    ASSUME StoreInv, ArchiveTypeOK, UrlInv, NEW r \in Requests,
           ExportStep(r) \/ ExportFails(r) \/ Answer(r)
    PROVE  StoreInv'
<1> USE DEF session, recorded, stored
<1>1. /\ objects \subseteq objects' /\ files \subseteq files'
      /\ events \subseteq events' /\ lost \subseteq lost'
    BY DEF ExportStep, ExportFails, Answer, Upload, Sign, CreateExportFile, UploadFails, SignFails,
           CreateExportFileFails, RecordFailure, Record
<1>2. \A q \in Requests \ {r} :
         step'[q] = step[q] /\ op'[q] = op[q] /\ seen'[q] = seen[q] /\ made'[q] = made[q]
    BY DEF ExportStep, ExportFails, Answer, Upload, Sign, CreateExportFile, UploadFails, SignFails,
           CreateExportFileFails, RecordFailure, GoTo, End, ArchiveTypeOK
<1>3. op'[r] = op[r]
    BY DEF ExportStep, ExportFails, Answer, Upload, Sign, CreateExportFile, UploadFails, SignFails,
           CreateExportFileFails, RecordFailure
<1> DEFINE Others == \A o \in objects' : o.by # r => o \in objects
           Own == \A o \in objects' : o.by = r => Accounted(o)'
           NewRows == \A f \in files' : f \in files \/ Named(f)'
<1>4. CASE Upload(r) \/ UploadFails(r)
    <2>1. /\ step[r] = "upload" /\ UNCHANGED <<seen, made, files>>
          /\ objects' = objects \/ objects' = objects \cup {Object(r)}
          /\ step'[r] \in {"sign", "fail unavailable"}
          /\ step'[r] = "sign" => Object(r) \in objects'
        BY <1>4 DEF Upload, UploadFails, GoTo, ArchiveTypeOK
    <2>2. Others
        <3>1. Object(r).by = r
            BY DEF Object
        <3> QED
            BY <2>1, <3>1
    <2>3. ASSUME NEW o \in objects', o.by = r PROVE Accounted(o)'
        BY <2>1, <2>3 DEF Accounted
    <2>4. Prepared(r)'
        BY <1>3, <2>1 DEF Prepared, StoreInv, Object
    <2> QED
        BY <1>1, <1>2, <2>1, <2>2, <2>3, <2>4, StoreGrows
<1>5. CASE Sign(r)
    <2>1. /\ step[r] = "sign" /\ step'[r] = "file" /\ UNCHANGED <<seen, objects, files>>
          /\ made'[r].at = made[r].at
        BY <1>5 DEF Sign, GoTo, ArchiveTypeOK
    <2>2. Own
        BY <1>1, <2>1, KeepsAccount
    <2>3. Prepared(r)'
        BY <1>3, <2>1 DEF Prepared, StoreInv, Object
    <2> QED
        BY <1>1, <1>2, <2>1, <2>2, <2>3, StoreGrows
<1>6. CASE SignFails(r)
    <2>1. step'[r] = "fail unavailable" /\ UNCHANGED <<objects, files>>
        BY <1>6 DEF SignFails, GoTo, ArchiveTypeOK
    <2>2. Own
        BY <1>1, <2>1, KeepsAccount
    <2>3. Prepared(r)'
        BY <2>1 DEF Prepared
    <2> QED
        BY <1>1, <1>2, <2>1, <2>2, <2>3, StoreGrows
<1>7. CASE CreateExportFile(r) \/ CreateExportFileFails(r)
    <2>1. /\ step[r] = "file" /\ UNCHANGED <<objects, seen, made>>
          /\ files' = files \/ files' = files \cup {FileRow(r)}
          /\ \/ step'[r] = "event" /\ FileRow(r) \in files'
             \/ step'[r] = "fail unavailable"
        BY <1>7 DEF CreateExportFile, CreateExportFileFails, GoTo, ArchiveTypeOK
    <2>2. Own
        BY <1>1, <2>1, KeepsAccount DEF FileRow
    <2>3. Prepared(r)'
        BY <2>1 DEF Prepared, FileRow
    <2>4. ASSUME NEW f, f = FileRow(r) PROVE Named(f)'
        <3>1. op[r] = "export" /\ Object(r) \in objects /\ seen[r].segments # <<>>
            BY <2>1 DEF StoreInv, Prepared, UrlInv, ExportTimes
        <3> QED
            BY <2>1, <2>4, <3>1 DEF Named, FileRow, Object
    <2>5. NewRows
        BY <2>1, <2>4
    <2> QED
        BY <1>1, <1>2, <2>1, <2>2, <2>3, <2>5, StoreGrows
<1>8. CASE RecordFailure(r)
    <2>1. UNCHANGED <<objects, files>> /\ step'[r] \in {"empty", "unavailable"}
        <3>1. \/ step' = [step EXCEPT ![r] = "empty"]
              \/ step' = [step EXCEPT ![r] = "unavailable"]
            BY <1>8 DEF RecordFailure, End, GoTo
        <3> QED
            BY <1>8, <3>1 DEF RecordFailure, ArchiveTypeOK
    <2>2. (\E e \in events' : e.type = "export_failed" /\ e.by = r) \/ r \in lost'
        BY <1>8, RecordLeavesTrace DEF RecordFailure
    <2>3. Own
        BY <1>1, <2>1, <2>2, KeepsAccount
    <2>4. Prepared(r)'
        BY <2>1 DEF Prepared
    <2> QED
        BY <1>1, <1>2, <2>1, <2>3, <2>4, StoreGrows
<1>9. CASE Answer(r)
    <2>1. UNCHANGED <<objects, files>> /\ step[r] = "event" /\ step'[r] = "answered"
        BY <1>9 DEF Answer, GoTo, End, ArchiveTypeOK
    <2>2. Own
        BY <1>1, <2>1, KeepsAccount
    <2>3. Prepared(r)'
        BY <2>1 DEF Prepared
    <2> QED
        BY <1>1, <1>2, <2>1, <2>2, <2>3, StoreGrows
<1> QED
    BY <1>4, <1>5, <1>6, <1>7, <1>8, <1>9 DEF ExportStep, ExportFails

(* Whichever step of an export fails, and whatever it has done before it   *)
(* raises: every object is named, being worked on, or its loss on record,  *)
(* and every row names an object with the content of its export.           *)
THEOREM ObjectsAccountedHolds == ArchiveSpec => []ObjectsAccounted
<1>1. StoreInv /\ ArchiveTypeOK /\ UrlInv /\ [ArchiveNext]_archiveVars => StoreInv'
    BY ReadsKeepStoreInv, ExportKeepsStoreInv, OthersKeepStoreInv DEF ArchiveNext, RequestStep
<1>2. StoreInv => ObjectsAccounted
    BY DEF StoreInv, Accounted, Named, ObjectsAccounted
<1>3. ArchiveSpec => []ArchiveTypeOK
    BY ArchiveTypesHold
<1>4. ArchiveSpec => []UrlInv
    BY UrlInvInit, UrlInvInductive, PTL DEF ArchiveSpec
<1> QED
    BY <1>1, <1>2, <1>3, <1>4, StoreInvInit, PTL DEF ArchiveSpec

-----------------------------------------------------------------------------
(* What a page says of an ended meeting.                                   *)

(* The row is read before the segments and closed after the last of them,  *)
(* and what is read before the reason stays as it was.                     *)
ReadInOrder ==
    /\ row.status = "ended" => meeting # "live"
    /\ \A r \in Requests :
          /\ seen[r].row.status = "ended" => row.status = "ended"
          /\ step[r] \in {"idle", "authorized"} => seen[r].reason = "none"
          /\ seen[r].row.status = "ended" /\ (step[r] = "reason" \/ seen[r].reason # "none")
             => Len(seen[r].segments) = Len(segments)

LEMMA ReadInOrderInit == ArchiveInit => ReadInOrder
BY DEF ArchiveInit, ReadInOrder, Nothing

LEMMA MeetingKeepsOrder == ASSUME ReadInOrder, ArchiveTypeOK, MeetingStep PROVE ReadInOrder'
<1> USE DEF session, recorded, stored, request
<1>1. CASE DetectAudio
    BY <1>1 DEF DetectAudio, ReadInOrder, ArchiveTypeOK, Rows
<1>2. CASE StoreSegment
    BY <1>2 DEF StoreSegment, ReadInOrder
<1>3. CASE ProviderError
    BY <1>3 DEF ProviderError, ReadInOrder
<1>4. CASE CloseSession
    BY <1>4 DEF CloseSession, ReadInOrder, ArchiveTypeOK, Rows
<1>5. CASE RecordClosed
    BY <1>5 DEF RecordClosed, ReadInOrder
<1> QED
    BY <1>1, <1>2, <1>3, <1>4, <1>5 DEF MeetingStep

LEMMA RequestsKeepOrder ==
    ASSUME ReadInOrder, ArchiveTypeOK, NEW r \in Requests, RequestStep(r)
    PROVE  ReadInOrder'
<1> USE DEF session, recorded, stored
<1>1. row' = row /\ meeting' = meeting /\ Len(segments') = Len(segments)
    <2>1. CASE MarkKeySentence(r)
        BY <2>1 DEF MarkKeySentence, ArchiveTypeOK
    <2>2. CASE ~MarkKeySentence(r)
        BY <2>2 DEF RequestStep, Authorize, ReadStep, ReadSegments, ReadReason, ReadExports,
            ReadExceptions, FindCopied, ExportStep, ExportFails, Answer, Upload, Sign,
            CreateExportFile, UploadFails, SignFails, CreateExportFileFails, RecordFailure
    <2> QED
        BY <2>1, <2>2
<1>2. \A q \in Requests \ {r} : step'[q] = step[q] /\ seen'[q] = seen[q]
    BY DEF RequestStep, Authorize, ReadStep, ReadSegments, ReadReason, ReadExports,
        ReadExceptions, FindCopied, MarkKeySentence, ExportStep, ExportFails, Answer, Upload, Sign,
        CreateExportFile, UploadFails, SignFails, CreateExportFileFails, RecordFailure, GoTo, End,
        ArchiveTypeOK
<1>3. ASSUME seen'[r] \in Readings,
             /\ seen'[r].row.status = "ended" => row.status = "ended"
             /\ step'[r] \in {"idle", "authorized"} => seen'[r].reason = "none"
             /\ seen'[r].row.status = "ended" /\ (step'[r] = "reason" \/ seen'[r].reason # "none")
                => Len(seen'[r].segments) = Len(segments)
      PROVE  ReadInOrder'
    BY <1>1, <1>2, <1>3 DEF ReadInOrder
<1>r. seen[r] \in Readings /\ Nothing \in Readings
    BY DEF ArchiveTypeOK, Nothing, Readings, Rows, Times
<1>4. ASSUME seen'[r] = seen[r] \/ seen'[r] = Nothing, step'[r] \notin {"idle", "authorized", "reason"}
      PROVE  ReadInOrder'
    BY <1>3, <1>4, <1>r DEF ReadInOrder, Nothing
<1>5. ASSUME NEW o \in Operations, Authorize(r, o) PROVE ReadInOrder'
    <2>1. step[r] = "idle" /\ step'[r] \in {"denied", "authorized"}
        BY <1>5 DEF Authorize, GoTo, ArchiveTypeOK
    <2>2. CASE UNCHANGED seen
        BY <2>1, <2>2, <1>3, <1>r DEF ReadInOrder
    <2>3. CASE seen' = [seen EXCEPT ![r].row = row, ![r].before = FinishedExports]
        <3>1. seen'[r] = [seen[r] EXCEPT !.row = row, !.before = FinishedExports]
            BY <2>3 DEF ArchiveTypeOK
        <3>2. FinishedExports \subseteq Requests
            BY DEF FinishedExports
        <3>3. seen'[r] \in Readings /\ seen'[r].row = row /\ seen'[r].reason = seen[r].reason
            BY <3>1, <3>2, <1>r DEF Readings, ArchiveTypeOK
        <3> QED
            BY <2>1, <3>3, <1>3 DEF ReadInOrder
    <2> QED
        BY <1>5, <2>2, <2>3 DEF Authorize
<1>6. CASE ReadSegments(r)
    <2>1. step[r] = "authorized" /\ step'[r] \in {"fail empty", "reason"}
        BY <1>6 DEF ReadSegments, GoTo, ArchiveTypeOK
    <2>2. seen'[r] = [seen[r] EXCEPT !.segments = segments]
        BY <1>6 DEF ReadSegments, ArchiveTypeOK
    <2>3. /\ seen'[r] \in Readings /\ seen'[r].row = seen[r].row
          /\ seen'[r].reason = seen[r].reason /\ seen'[r].segments = segments
        BY <2>2, <1>r DEF Readings, ArchiveTypeOK
    <2> QED
        BY <2>1, <2>3, <1>3 DEF ReadInOrder
<1>7. CASE ReadReason(r)
    <2>1. step[r] = "reason" /\ step'[r] \in {"upload", "exports"}
        BY <1>7 DEF ReadReason, GoTo, ArchiveTypeOK
    <2>2. EndReason(r) \in {"none", "pending", "active", "ended", "session_closed"}
        BY <1>r DEF EndReason, Readings, Rows
    <2>3. seen'[r] = [seen[r] EXCEPT !.reason = EndReason(r)]
        BY <1>7 DEF ReadReason, ArchiveTypeOK
    <2>4. /\ seen'[r] \in Readings /\ seen'[r].row = seen[r].row
          /\ seen'[r].segments = seen[r].segments
        BY <2>2, <2>3, <1>r DEF Readings
    <2> QED
        BY <2>1, <2>4, <1>3 DEF ReadInOrder
<1>8. CASE ReadExports(r)
    <2>1. step[r] = "exports" /\ step'[r] = "exceptions"
        BY <1>8 DEF ReadExports, GoTo, ArchiveTypeOK
    <2>2. seen'[r] = [seen[r] EXCEPT !.files = files]
        BY <1>8 DEF ReadExports, ArchiveTypeOK
    <2>3. /\ seen'[r] \in Readings /\ seen'[r].row = seen[r].row
          /\ seen'[r].reason = seen[r].reason /\ seen'[r].segments = seen[r].segments
        BY <2>2, <1>r DEF Readings, ArchiveTypeOK
    <2> QED
        BY <2>1, <2>3, <1>3 DEF ReadInOrder
<1>9. CASE ReadExceptions(r)
    <2>1. step[r] = "exceptions" /\ step'[r] = "event"
        BY <1>9 DEF ReadExceptions, GoTo, ArchiveTypeOK
    <2>2. seen'[r] = [seen[r] EXCEPT !.exceptions = Exceptions]
        BY <1>9 DEF ReadExceptions, ArchiveTypeOK
    <2>3. /\ seen'[r] \in Readings /\ seen'[r].row = seen[r].row
          /\ seen'[r].reason = seen[r].reason /\ seen'[r].segments = seen[r].segments
        BY <2>2, <1>r, ZenonT(40) DEF Readings, ArchiveTypeOK, Exceptions
    <2> QED
        BY <2>1, <2>3, <1>3 DEF ReadInOrder
<1>10. CASE MarkKeySentence(r) \/ FindCopied(r) \/ ExportStep(r) \/ ExportFails(r) \/ Answer(r)
    <2>1. seen'[r] = seen[r] \/ seen'[r] = Nothing
        BY <1>10 DEF FindCopied, MarkKeySentence, ExportStep, ExportFails, Answer, Upload, Sign,
            CreateExportFile, UploadFails, SignFails, CreateExportFileFails, RecordFailure, End,
            ArchiveTypeOK
    <2>2. PICK s \in Steps \ {"idle", "authorized", "reason"} : GoTo(r, s)
        BY <1>10 DEF FindCopied, MarkKeySentence, ExportStep, ExportFails, Answer, Upload, Sign,
            CreateExportFile, UploadFails, SignFails, CreateExportFileFails, RecordFailure, End,
            Steps, Ended
    <2> QED
        BY <2>1, <2>2, <1>4 DEF GoTo, ArchiveTypeOK
<1> QED
    BY <1>5, <1>6, <1>7, <1>8, <1>9, <1>10 DEF RequestStep, ReadStep

(* An archive page or an export that calls its meeting ended has all of its*)
(* segments, however its statements interleave with the closing session.   *)
THEOREM CompleteWhenEndedHolds == ArchiveSpec => []CompleteWhenEnded
<1>1. ReadInOrder /\ ArchiveTypeOK /\ [ArchiveNext]_archiveVars => ReadInOrder'
    <2> SUFFICES ASSUME ReadInOrder, ArchiveTypeOK, [ArchiveNext]_archiveVars PROVE ReadInOrder'
        OBVIOUS
    <2> USE DEF session, recorded, stored, request
    <2>1. CASE Tick
        BY <2>1 DEF Tick, ReadInOrder
    <2>2. CASE Crash
        BY <2>2 DEF Crash, ReadInOrder, Nothing, Ended
    <2>3. CASE UNCHANGED archiveVars
        BY <2>3 DEF archiveVars, ReadInOrder
    <2> QED
        BY <2>1, <2>2, <2>3, MeetingKeepsOrder, RequestsKeepOrder DEF ArchiveNext
<1>2. ReadInOrder => CompleteWhenEnded
    BY DEF ReadInOrder, CompleteWhenEnded, HasRead
<1>3. ArchiveSpec => []ArchiveTypeOK
    BY ArchiveTypesHold
<1> QED
    BY <1>1, <1>2, <1>3, ReadInOrderInit, PTL DEF ArchiveSpec

-----------------------------------------------------------------------------
(* The order of a timeline.                                                *)

(* Items whose keys can be compared.                                       *)
Sortable(items) ==
    \A x \in items : x.at \in Int /\ x.type \in DOMAIN TypeOrder /\ x.id \in Int
                     /\ x = Item(x.type, x.id, x.at)

LEMMA PrecedesIsOrder ==
    ASSUME NEW items, Sortable(items), NEW x \in items, NEW y \in items
    PROVE  /\ ~Precedes(x, x)
           /\ x = y \/ Precedes(x, y) \/ Precedes(y, x)
           /\ Precedes(x, y) => ~Precedes(y, x)
           /\ \A z \in items : Precedes(x, y) /\ Precedes(y, z) => Precedes(x, z)
<1>1. ASSUME NEW s \in DOMAIN TypeOrder, NEW t \in DOMAIN TypeOrder
      PROVE  TypeOrder[s] \in Int /\ (TypeOrder[s] = TypeOrder[t] => s = t)
    BY DEF TypeOrder
<1>2. \A z \in items : /\ z.at \in Int /\ z.type \in DOMAIN TypeOrder /\ z.id \in Int
                       /\ TypeOrder[z.type] \in Int
    BY <1>1 DEF Sortable
<1>3. x.at = y.at /\ x.type = y.type /\ x.id = y.id => x = y
    BY DEF Sortable
<1>4. TypeOrder[x.type] = TypeOrder[y.type] => x.type = y.type
    BY <1>1, <1>2
<1>5. ~Precedes(x, x)
    BY <1>2 DEF Precedes
<1>6. x = y \/ Precedes(x, y) \/ Precedes(y, x)
    BY <1>2, <1>3, <1>4 DEF Precedes
<1>7. Precedes(x, y) => ~Precedes(y, x)
    BY <1>2 DEF Precedes
<1>8. ASSUME NEW z \in items, Precedes(x, y), Precedes(y, z) PROVE Precedes(x, z)
    BY <1>2, <1>8 DEF Precedes
<1> QED
    BY <1>5, <1>6, <1>7, <1>8

(* Places are those of a sequence, each taken once.                        *)
LEMMA PlacesAreTaken ==
    ASSUME NEW items, IsFiniteSet(items), Sortable(items)
    PROVE  /\ Cardinality(items) \in Nat
           /\ \A x \in items : Place(x, items) \in 1..Cardinality(items)
           /\ \A x, y \in items : Precedes(x, y) => Place(x, items) < Place(y, items)
           /\ \A i \in 1..Cardinality(items) : \E x \in items : Place(x, items) = i
<1> DEFINE Before(x) == {y \in items : Precedes(y, x)}
           n == Cardinality(items)
           P == [x \in items |-> Place(x, items)]
<1>1. n \in Nat
    BY FS_CardinalityType
<1>2. ASSUME NEW x \in items
      PROVE  /\ IsFiniteSet(Before(x)) /\ Cardinality(Before(x)) \in Nat
             /\ Cardinality(Before(x)) <= n - 1
    <2>1. Before(x) \in SUBSET (items \ {x})
        BY PrecedesIsOrder
    <2>2. IsFiniteSet(items \ {x}) /\ Cardinality(items \ {x}) = n - 1
        BY FS_RemoveElement
    <2> HIDE DEF Before, n
    <2> QED
        BY <2>1, <2>2, FS_Subset, FS_CardinalityType
<1>3. ASSUME NEW x \in items, NEW y \in items, Precedes(x, y)
      PROVE  Cardinality(Before(x)) < Cardinality(Before(y))
    <2>1. Before(x) \in SUBSET Before(y)
        BY <1>3, PrecedesIsOrder
    <2>2. x \in Before(y) /\ x \notin Before(x)
        BY <1>3, PrecedesIsOrder
    <2>3. /\ IsFiniteSet(Before(y)) /\ Cardinality(Before(x)) \in Nat /\ Cardinality(Before(y)) \in Nat
        BY <1>2
    <2> HIDE DEF Before
    <2>4. /\ Cardinality(Before(x)) <= Cardinality(Before(y))
          /\ Cardinality(Before(x)) # Cardinality(Before(y))
        BY <2>1, <2>2, <2>3, FS_Subset
    <2> QED
        BY <2>3, <2>4
<1>4. \A x \in items : Place(x, items) = Cardinality(Before(x)) + 1
    BY DEF Place
<1> HIDE DEF Before
<1>5. \A x \in items : Place(x, items) \in 1..n
    <2> HIDE DEF n
    <2> QED
        BY <1>1, <1>2, <1>4
<1>6. \A x, y \in items : Precedes(x, y) => Place(x, items) < Place(y, items)
    BY <1>2, <1>3, <1>4
<1>7. P \in Injection(items, 1..n)
    <2>1. P \in [items -> 1..n]
        BY <1>5
    <2>2. ASSUME NEW x \in items, NEW y \in items, P[x] = P[y] PROVE x = y
        <3>1. P[x] \in Int /\ P[x] = Place(x, items) /\ P[y] = Place(y, items)
            BY <1>1, <2>1
        <3>2. ~Precedes(x, y) /\ ~Precedes(y, x)
            BY <1>6, <2>2, <3>1
        <3> QED
            BY <3>2, PrecedesIsOrder
    <2> QED
        BY <2>1, <2>2 DEF Injection, IsInjective
<1>8. P \in Surjection(items, 1..n)
    <2>1. IsFiniteSet(1..n) /\ Cardinality(1..n) = n
        BY <1>1, FS_Interval
    <2> HIDE DEF P
    <2> QED
        BY <1>7, <2>1, FS_Injection
<1>9. ASSUME NEW i \in 1..n PROVE \E x \in items : Place(x, items) = i
    <2>1. \E x \in items : P[x] = i
        BY <1>8 DEF Surjection
    <2> QED
        BY <2>1
<1> QED
    BY <1>1, <1>5, <1>6, <1>9

(* What is sorted is in order and has every item.                          *)
LEMMA SortIsSorted ==
    ASSUME NEW items, IsFiniteSet(items), Sortable(items),
           NEW t, t = SortTimelineItems(items)
    PROVE  /\ DOMAIN t \in SUBSET Int
           /\ \A i \in DOMAIN t : t[i] \in items
           /\ \A i, j \in DOMAIN t : i < j => Precedes(t[i], t[j])
           /\ \A x \in items : \E i \in DOMAIN t : t[i] = x
<1> DEFINE n == Cardinality(items)
<1>1. n \in Nat /\ DOMAIN t = 1..n
    BY PlacesAreTaken DEF SortTimelineItems
<1>2. ASSUME NEW i \in 1..n PROVE t[i] \in items /\ Place(t[i], items) = i
    <2>1. t[i] = CHOOSE x \in items : Place(x, items) = i
        BY DEF SortTimelineItems
    <2>2. \E x \in items : Place(x, items) = i
        BY PlacesAreTaken
    <2> QED
        BY <2>1, <2>2
<1> HIDE DEF n
<1>3. ASSUME NEW i \in 1..n, NEW j \in 1..n, i < j PROVE Precedes(t[i], t[j])
    <2>1. t[i] \in items /\ t[j] \in items /\ Place(t[i], items) = i /\ Place(t[j], items) = j
        BY <1>2
    <2>2. t[i] # t[j] /\ ~(Place(t[j], items) < Place(t[i], items))
        BY <1>3, <2>1
    <2>3. ~Precedes(t[j], t[i])
        BY <2>1, <2>2, PlacesAreTaken
    <2> QED
        BY <2>1, <2>2, <2>3, PrecedesIsOrder
<1>4. ASSUME NEW x \in items PROVE \E i \in 1..n : t[i] = x
    <2> DEFINE i == Place(x, items)
    <2>1. i \in 1..n
        BY PlacesAreTaken DEF n
    <2>2. t[i] \in items /\ Place(t[i], items) = Place(x, items) /\ Place(x, items) \in Int
        BY <1>2, <2>1
    <2>3. ~Precedes(t[i], x) /\ ~Precedes(x, t[i])
        BY <2>2, PlacesAreTaken
    <2> QED
        BY <2>1, <2>2, <2>3, PrecedesIsOrder
<1> QED
    BY <1>1, <1>2, <1>3, <1>4

-----------------------------------------------------------------------------
(* What a page tells of the exports before it.                             *)

(* What a function makes of a finite set is finite.                         *)
LEMMA ImageIsFinite ==
    ASSUME NEW D, IsFiniteSet(D), NEW f, f = [x \in D |-> f[x]]
    PROVE  IsFiniteSet({f[x] : x \in D})
<1> DEFINE R == {f[x] : x \in D}
<1>1. f \in Surjection(D, R)
    BY DEF Surjection
<1> QED
    BY <1>1, FS_Surjection

\* The segments of a sequence are different ones, marked or not.
UniqueIds(s) == \A i, j \in DOMAIN s : s[i].id = s[j].id => i = j

(* An export that is over, and what tells of it.                           *)
Over(e) == op[e] = "export" /\ step[e] \in {"answered", "empty", "unavailable"}
Told(e) ==
    IF step[e] = "answered" THEN \E f \in files : f.by = e
    ELSE e \in lost \/ \E x \in events : x.type = "export_failed" /\ x.by = e

(* An export that was over when a page was asked for stays so, and the page*)
(* reads what tells of it: the exports first, the exceptions next.         *)
PageRead(r) ==
    /\ UniqueIds(seen[r].segments)
    /\ IsFiniteSet(seen[r].files) /\ IsFiniteSet(seen[r].exceptions)
    /\ Over(r) => Told(r)
    /\ \A e \in seen[r].before : Over(e)
    /\ op[r] = "view" /\ step[r] \in {"exceptions", "event"} =>
          \A e \in seen[r].before : step[e] = "answered" => \E f \in seen[r].files : f.by = e
    /\ op[r] = "view" /\ step[r] = "event" =>
          \A e \in seen[r].before :
              step[e] # "answered" => e \in lost \/ \E x \in seen[r].exceptions : x.by = e

(* Inductive with StoreInv: of what a page reads, nothing is taken back.    *)
PageInv ==
    /\ IsFiniteSet(files) /\ IsFiniteSet(events)
    /\ UniqueIds(segments)
    /\ \A r \in Requests : PageRead(r)

LEMMA PageInvInit == ArchiveInit => PageInv
<1> SUFFICES ASSUME ArchiveInit PROVE PageInv
    OBVIOUS
<1>1. IsFiniteSet(files) /\ IsFiniteSet(events) /\ UniqueIds(segments)
    BY FS_EmptySet DEF ArchiveInit, UniqueIds
<1>2. ASSUME NEW r \in Requests PROVE PageRead(r)
    <2>1. seen[r] = Nothing /\ step[r] = "idle"
        BY DEF ArchiveInit
    <2> QED
        BY <2>1, FS_EmptySet DEF PageRead, Nothing, UniqueIds, Over
<1> QED
    BY <1>1, <1>2 DEF PageInv

(* What becomes longer still tells of the same exports.                    *)
LEMMA PageKept ==
    ASSUME PageInv, ArchiveTypeOK, NEW r \in Requests, step[r] \notin Ended,
           files \subseteq files', events \subseteq events', lost \subseteq lost',
           IsFiniteSet(files'), IsFiniteSet(events'), UniqueIds(segments'), PageRead(r)',
           \A q \in Requests \ {r} : step'[q] = step[q] /\ op'[q] = op[q] /\ seen'[q] = seen[q]
    PROVE  PageInv'
<1>1. ASSUME NEW e \in Requests, Over(e) PROVE step'[e] = step[e] /\ op'[e] = op[e]
    BY <1>1 DEF Over, Ended
<1>2. ASSUME NEW q \in Requests, q # r PROVE PageRead(q)'
    <2>1. PageRead(q) /\ step'[q] = step[q] /\ op'[q] = op[q] /\ seen'[q] = seen[q]
        BY <1>2 DEF PageInv
    <2>2. seen[q].before \subseteq Requests
        BY DEF ArchiveTypeOK, Readings
    <2>3. \A e \in seen[q].before : Over(e) /\ step'[e] = step[e] /\ op'[e] = op[e]
        BY <1>1, <2>1, <2>2 DEF PageRead
    <2>4. Over(q)' => Told(q)'
        BY <2>1 DEF PageRead, Over, Told
    <2> QED
        BY <2>1, <2>3, <2>4 DEF PageRead, Over
<1> QED
    BY <1>2 DEF PageInv

(* A request that goes on with what it has read, or with nothing.          *)
LEMMA MoveKeepsPage ==
    ASSUME PageInv, ArchiveTypeOK, NEW r \in Requests, step[r] \notin Ended,
           op'[r] = op[r], seen'[r] = seen[r] \/ seen'[r] = Nothing,
           \A q \in Requests \ {r} : step'[q] = step[q] /\ op'[q] = op[q],
           op[r] # "view" \/ step'[r] \notin {"exceptions", "event"},
           Over(r)' => Told(r)'
    PROVE  PageRead(r)'
<1>1. CASE seen'[r] = Nothing
    BY <1>1, FS_EmptySet DEF PageRead, Nothing, UniqueIds
<1>2. CASE seen'[r] = seen[r]
    <2>1. PageRead(r) /\ seen[r].before \subseteq Requests
        BY DEF PageInv, ArchiveTypeOK, Readings
    <2>2. \A e \in seen[r].before : Over(e) /\ e # r
        BY <2>1 DEF PageRead, Over, Ended
    <2>3. \A e \in seen[r].before : Over(e)'
        BY <2>1, <2>2 DEF Over
    <2> QED
        BY <1>2, <2>1, <2>3 DEF PageRead
<1> QED
    BY <1>1, <1>2

(* The meeting, the clock and a crash.                                      *)
LEMMA OthersKeepPage ==
    ASSUME PageInv, ArchiveTypeOK, MeetingStep \/ Tick \/ Crash \/ UNCHANGED archiveVars
    PROVE  PageInv'
<1> USE DEF session, recorded, stored, request
<1>1. ASSUME UNCHANGED <<files, lost, step, op, seen>>, events \subseteq events',
             IsFiniteSet(events'), UniqueIds(segments')
      PROVE  PageInv'
    BY <1>1 DEF PageInv, PageRead, Over, Told
<1>2. CASE StoreSegment
    <2>1. PICK s \in Segments : /\ \A i \in DOMAIN segments : segments[i].id # s.id
                                /\ segments' = Append(segments, s)
        BY <1>2 DEF StoreSegment
    <2>2. segments \in Seq(Segments) /\ UniqueIds(segments)
        BY DEF ArchiveTypeOK, PageInv
    <2>3. DOMAIN segments = 1..Len(segments) /\ DOMAIN segments' = 1..(Len(segments) + 1)
          /\ Len(segments) \in Nat
        BY <2>1, <2>2
    <2>4. \A i \in DOMAIN segments' :
             segments'[i] = IF i = Len(segments) + 1 THEN s ELSE segments[i]
        BY <2>1, <2>2, <2>3
    <2>5. UniqueIds(segments')
        BY <2>1, <2>2, <2>3, <2>4 DEF UniqueIds
    <2> QED
        BY <1>1, <1>2, <2>5 DEF StoreSegment, PageInv
<1>3. CASE DetectAudio \/ CloseSession
    BY <1>1, <1>3 DEF DetectAudio, CloseSession, PageInv
<1>4. CASE ProviderError \/ RecordClosed
    <2>1. UNCHANGED <<files, lost, step, op, seen, segments>>
        BY <1>4 DEF ProviderError, RecordClosed
    <2>2. events' = events \/ \E x : events' = events \cup {x}
        BY <1>4 DEF ProviderError, RecordClosed
    <2>3. events \subseteq events' /\ IsFiniteSet(events')
        BY <2>2, FS_AddElement DEF PageInv
    <2> QED
        BY <1>1, <2>1, <2>3 DEF PageInv
<1>5. CASE Tick
    BY <1>1, <1>5 DEF Tick, PageInv
<1>6. CASE Crash
    <2>1. UNCHANGED <<files, events, lost, segments, op>>
        BY <1>6 DEF Crash
    <2>2. ASSUME NEW q \in Requests PROVE PageRead(q)'
        <3>1. /\ seen'[q] = Nothing /\ op'[q] = op[q]
              /\ step'[q] = step[q] \/ step'[q] = "gone"
            BY <1>6 DEF Crash
        <3>2. Over(q)' => Told(q)'
            BY <2>1, <3>1 DEF PageInv, PageRead, Over, Told
        <3> QED
            BY <3>1, <3>2, FS_EmptySet DEF PageRead, Nothing, UniqueIds
    <2> QED
        BY <2>1, <2>2 DEF PageInv
<1>7. CASE UNCHANGED archiveVars
    BY <1>1, <1>7 DEF archiveVars, PageInv
<1> QED
    BY <1>2, <1>3, <1>4, <1>5, <1>6, <1>7 DEF MeetingStep

(* A request, of the page or of what the page tells of.                     *)
LEMMA RequestsKeepPage ==
    ASSUME PageInv, ArchiveTypeOK, UrlInv, StoreInv, NEW r \in Requests, RequestStep(r)
    PROVE  PageInv'
<1> USE DEF session, recorded, stored
<1>1. step[r] \notin Ended
    BY DEF RequestStep, Authorize, ReadStep, ReadSegments, ReadReason, ReadExports,
        ReadExceptions, FindCopied, MarkKeySentence, ExportStep, ExportFails, Answer, Upload, Sign,
        CreateExportFile, UploadFails, SignFails, CreateExportFileFails, RecordFailure, Ended
<1>2. \A q \in Requests \ {r} : step'[q] = step[q] /\ op'[q] = op[q] /\ seen'[q] = seen[q]
    BY DEF RequestStep, Authorize, ReadStep, ReadSegments, ReadReason, ReadExports,
        ReadExceptions, FindCopied, MarkKeySentence, ExportStep, ExportFails, Answer, Upload, Sign,
        CreateExportFile, UploadFails, SignFails, CreateExportFileFails, RecordFailure, GoTo, End,
        ArchiveTypeOK
<1>3. UniqueIds(segments')
    <2>1. CASE MarkKeySentence(r)
        <3>1. CASE UNCHANGED segments
            BY <3>1 DEF PageInv
        <3>2. CASE \E i \in DOMAIN segments, b \in BOOLEAN : segments' = [segments EXCEPT ![i].key = b]
            <4>1. PICK i \in DOMAIN segments, b \in BOOLEAN :
                      segments' = [segments EXCEPT ![i].key = b]
                BY <3>2
            <4>2. segments \in Seq(Segments) /\ UniqueIds(segments)
                BY DEF ArchiveTypeOK, PageInv
            <4>3. DOMAIN segments' = DOMAIN segments
                BY <4>1
            <4>4. segments'[i] = [segments[i] EXCEPT !.key = b] /\ segments[i] \in Segments
                BY <4>1, <4>2
            <4>5. segments'[i].id = segments[i].id
                BY <4>4 DEF Segments
            <4>6. \A j \in DOMAIN segments : j # i => segments'[j] = segments[j]
                BY <4>1
            <4> QED
                BY <4>2, <4>3, <4>5, <4>6 DEF UniqueIds
        <3> QED
            BY <2>1, <3>1, <3>2 DEF MarkKeySentence
    <2>2. CASE ~MarkKeySentence(r)
        <3>1. segments' = segments
            BY <2>2 DEF RequestStep, Authorize, ReadStep, ReadSegments, ReadReason, ReadExports,
                ReadExceptions, FindCopied, ExportStep, ExportFails, Answer, Upload, Sign,
                CreateExportFile, UploadFails, SignFails, CreateExportFileFails, RecordFailure
        <3> QED
            BY <3>1 DEF PageInv
    <2> QED
        BY <2>1, <2>2
<1>4. /\ files' = files \/ \E x : files' = files \cup {x}
      /\ events' = events \/ \E x : events' = events \cup {x}
      /\ lost \subseteq lost'
    BY DEF RequestStep, Authorize, ReadStep, ReadSegments, ReadReason, ReadExports,
        ReadExceptions, FindCopied, MarkKeySentence, ExportStep, ExportFails, Answer, Upload, Sign,
        CreateExportFile, UploadFails, SignFails, CreateExportFileFails, RecordFailure, Record
<1>5. /\ files \subseteq files' /\ IsFiniteSet(files')
      /\ events \subseteq events' /\ IsFiniteSet(events')
    BY <1>4, FS_AddElement DEF PageInv
<1>6. ASSUME PageRead(r)' PROVE PageInv'
    BY <1>1, <1>2, <1>3, <1>4, <1>5, <1>6, PageKept
<1>r. PageRead(r) /\ seen[r] \in Readings
    BY DEF PageInv, ArchiveTypeOK
<1>7. ASSUME NEW e \in seen[r].before PROVE e # r /\ Over(e) /\ step'[e] = step[e] /\ op'[e] = op[e]
    <2>1. e \in Requests /\ Over(e)
        BY <1>r DEF PageRead, Readings
    <2>2. e # r
        BY <1>1, <2>1 DEF Over, Ended
    <2> QED
        BY <1>2, <2>1, <2>2
<1>8. ASSUME op'[r] = op[r], seen'[r] = seen[r] \/ seen'[r] = Nothing,
             op[r] # "view" \/ step'[r] \notin {"exceptions", "event"}, Over(r)' => Told(r)'
      PROVE  PageInv'
    BY <1>1, <1>2, <1>6, <1>8, MoveKeepsPage
<1>9. ASSUME NEW o \in Operations, Authorize(r, o) PROVE PageInv'
    <2>1. step[r] = "idle" /\ step'[r] \in {"denied", "authorized"}
        BY <1>9 DEF Authorize, GoTo, ArchiveTypeOK
    <2>2. ~Over(r)'
        BY <2>1 DEF Over
    <2>3. CASE UNCHANGED seen
        <3>1. \A e \in seen'[r].before : Over(e)'
            BY <1>7, <2>3 DEF Over
        <3> QED
            BY <1>r, <1>6, <2>1, <2>2, <2>3, <3>1 DEF PageRead
    <2>4. CASE seen' = [seen EXCEPT ![r].row = row, ![r].before = FinishedExports]
        <3>1. seen'[r] = [seen[r] EXCEPT !.row = row, !.before = FinishedExports]
            BY <2>4 DEF ArchiveTypeOK
        <3>2. /\ seen'[r].before = FinishedExports /\ seen'[r].segments = seen[r].segments
              /\ seen'[r].files = seen[r].files /\ seen'[r].exceptions = seen[r].exceptions
            BY <3>1, <1>r DEF Readings
        <3>3. \A e \in FinishedExports : Over(e)'
            <4>1. \A e \in FinishedExports : e \in Requests \ {r} /\ Over(e)
                BY <2>1 DEF FinishedExports, Over
            <4> QED
                BY <1>2, <4>1 DEF Over
        <3> QED
            BY <1>r, <1>6, <2>1, <2>2, <3>2, <3>3 DEF PageRead
    <2> QED
        BY <1>9, <2>3, <2>4 DEF Authorize
<1>10. CASE ReadSegments(r) \/ ReadReason(r)
    <2>1. op'[r] = op[r] /\ step'[r] \in {"fail empty", "reason", "upload", "exports"}
        BY <1>10 DEF ReadSegments, ReadReason, GoTo, ArchiveTypeOK
    <2>2. \/ seen'[r] = [seen[r] EXCEPT !.segments = segments]
          \/ seen'[r] = [seen[r] EXCEPT !.reason = EndReason(r)]
        BY <1>10 DEF ReadSegments, ReadReason, ArchiveTypeOK
    <2>3. /\ seen'[r].before = seen[r].before /\ UniqueIds(seen'[r].segments)
          /\ seen'[r].files = seen[r].files /\ seen'[r].exceptions = seen[r].exceptions
        BY <2>2, <1>r DEF Readings, PageRead, PageInv
    <2>4. \A e \in seen'[r].before : Over(e)'
        BY <1>7, <2>3 DEF Over
    <2> QED
        BY <1>r, <1>6, <2>1, <2>3, <2>4 DEF PageRead, Over
<1>11. CASE ReadExports(r)
    <2>1. op'[r] = op[r] /\ step'[r] = "exceptions" /\ files' = files
        BY <1>11 DEF ReadExports, GoTo, ArchiveTypeOK
    <2>2. seen'[r] = [seen[r] EXCEPT !.files = files]
        BY <1>11 DEF ReadExports, ArchiveTypeOK
    <2>3. /\ seen'[r].before = seen[r].before /\ seen'[r].segments = seen[r].segments
          /\ seen'[r].files = files /\ seen'[r].exceptions = seen[r].exceptions
        BY <2>2, <1>r DEF Readings
    <2>4. \A e \in seen'[r].before : Over(e)'
        BY <1>7, <2>3 DEF Over
    <2>5. ASSUME NEW e \in seen[r].before, step[e] = "answered" PROVE \E f \in files : f.by = e
        <3>1. e \in Requests /\ Over(e)
            BY <1>7, <1>r DEF Readings
        <3> QED
            BY <2>5, <3>1 DEF PageInv, PageRead, Told
    <2>6. \A e \in seen'[r].before : step'[e] = "answered" => \E f \in seen'[r].files : f.by = e
        BY <1>7, <2>3, <2>5
    <2> QED
        BY <1>r, <1>6, <2>1, <2>3, <2>4, <2>6 DEF PageRead, PageInv, Over
<1>12. CASE ReadExceptions(r)
    <2>1. op'[r] = op[r] /\ step[r] = "exceptions" /\ step'[r] = "event" /\ lost' = lost
        BY <1>12 DEF ReadExceptions, GoTo, ArchiveTypeOK
    <2>2. seen'[r] = [seen[r] EXCEPT !.exceptions = Exceptions]
        BY <1>12 DEF ReadExceptions, ArchiveTypeOK
    <2>3. /\ seen'[r].before = seen[r].before /\ seen'[r].segments = seen[r].segments
          /\ seen'[r].files = seen[r].files /\ seen'[r].exceptions = Exceptions
        BY <2>2, <1>r DEF Readings
    <2>4. \A e \in seen'[r].before : Over(e)'
        BY <1>7, <2>3 DEF Over
    <2>5. IsFiniteSet(Exceptions)
        BY FS_Subset DEF Exceptions, PageInv
    <2>6. ASSUME NEW e \in seen[r].before, step[e] # "answered"
          PROVE  e \in lost \/ \E x \in Exceptions : x.by = e
        <3>1. e \in Requests /\ Over(e)
            BY <1>7, <1>r DEF Readings
        <3> QED
            BY <2>6, <3>1 DEF PageInv, PageRead, Told, Exceptions, ExceptionTypes
    <2>7. \A e \in seen'[r].before :
             step'[e] # "answered" => e \in lost' \/ \E x \in seen'[r].exceptions : x.by = e
        BY <1>7, <2>1, <2>3, <2>6
    <2>8. op[r] = "view" => \A e \in seen'[r].before :
             step'[e] = "answered" => \E f \in seen'[r].files : f.by = e
        BY <1>r, <1>7, <2>1, <2>3 DEF PageRead
    <2>9. ~Over(r)'
        BY <2>1 DEF Over
    <2> QED
        BY <1>r, <1>6, <2>1, <2>3, <2>4, <2>5, <2>7, <2>8, <2>9 DEF PageRead
<1>13. CASE MarkKeySentence(r) \/ FindCopied(r)
    <2>1. /\ op'[r] = op[r] /\ op[r] \notin {"view", "export"}
          /\ seen'[r] = seen[r] \/ seen'[r] = Nothing
        BY <1>13 DEF MarkKeySentence, FindCopied, End, ArchiveTypeOK
    <2> QED
        BY <1>8, <2>1 DEF Over
<1>14. CASE \/ Upload(r) \/ UploadFails(r) \/ Sign(r) \/ SignFails(r)
            \/ CreateExportFile(r) \/ CreateExportFileFails(r)
    <2>1. op'[r] = op[r] /\ seen'[r] = seen[r]
        BY <1>14 DEF Upload, UploadFails, Sign, SignFails, CreateExportFile, CreateExportFileFails
    <2>2. /\ step[r] \in {"upload", "sign", "file"}
          /\ step'[r] \in {"sign", "file", "event", "fail unavailable"}
        BY <1>14 DEF Upload, UploadFails, Sign, SignFails, CreateExportFile, CreateExportFileFails,
            GoTo, ArchiveTypeOK
    <2>3. op[r] = "export"
        BY <2>2 DEF UrlInv, ExportTimes
    <2> QED
        BY <1>8, <2>1, <2>2, <2>3 DEF Over
<1>15. CASE RecordFailure(r)
    <2>1. op'[r] = op[r] /\ Record("export_failed", r)
        BY <1>15 DEF RecordFailure
    <2>2. step' = [step EXCEPT ![r] = "empty"] \/ step' = [step EXCEPT ![r] = "unavailable"]
        BY <1>15 DEF RecordFailure, End, GoTo
    <2>3. step'[r] \in {"empty", "unavailable"}
        BY <2>2 DEF ArchiveTypeOK
    <2>4. seen'[r] = Nothing
        BY <1>15 DEF RecordFailure, End, ArchiveTypeOK
    <2>5. Told(r)'
        BY <2>1, <2>3, RecordLeavesTrace DEF Told
    <2> QED
        BY <1>8, <2>1, <2>3, <2>4, <2>5
<1>16. CASE Answer(r)
    <2>1. /\ op'[r] = op[r] /\ step[r] = "event" /\ step'[r] = "answered" /\ files' = files
          /\ seen'[r] = Nothing
        BY <1>16 DEF Answer, GoTo, End, ArchiveTypeOK
    <2>2. Over(r)' => Told(r)'
        BY <2>1 DEF Over, Told, StoreInv, Prepared
    <2> QED
        BY <1>8, <2>1, <2>2
<1> QED
    BY <1>9, <1>10, <1>11, <1>12, <1>13, <1>14, <1>15, <1>16
    DEF RequestStep, ReadStep, ExportStep, ExportFails

-----------------------------------------------------------------------------
(* What a timeline is made of.                                             *)

(* The items of a page whose request has read everything.                  *)
SeenSegments(r) == {seen[r].segments[i] : i \in DOMAIN seen[r].segments}
ItemsOf(r) ==
    SegmentItems(SeenSegments(r))
        \cup StampedItems("exception", seen[r].exceptions, seen[r].row.started)
        \cup StampedItems("export_created", seen[r].files, seen[r].row.started)

(* A timeline is of finitely many items, whose keys can be compared.        *)
LEMMA StampedItemsAreFinite ==
    ASSUME NEW records, IsFiniteSet(records), NEW type, NEW started
    PROVE  IsFiniteSet(StampedItems(type, records, started))
<1> DEFINE f == [x \in records |-> Item(type, x.by, SinceStart(x.at, started))]
<1>1. IsFiniteSet({f[x] : x \in records})
    <2>1. f = [x \in records |-> f[x]]
        OBVIOUS
    <2> HIDE DEF f
    <2> QED
        BY <2>1, ImageIsFinite
<1> QED
    BY <1>1 DEF StampedItems

LEMMA SegmentItemsAreFinite ==
    ASSUME NEW records, IsFiniteSet(records) PROVE IsFiniteSet(SegmentItems(records))
<1> DEFINE Keys == {s \in records : s.key}
           f == [s \in records |-> Item("segment_final", s.id, s.end)]
           g == [s \in Keys |-> Item("key_sentence", s.id, s.end)]
<1>1. IsFiniteSet(Keys)
    BY FS_Subset
<1>2. IsFiniteSet({f[s] : s \in records})
    <2>1. f = [s \in records |-> f[s]]
        OBVIOUS
    <2> HIDE DEF f
    <2> QED
        BY <2>1, ImageIsFinite
<1>3. IsFiniteSet({g[s] : s \in Keys})
    <2>1. g = [s \in Keys |-> g[s]]
        OBVIOUS
    <2> HIDE DEF g, Keys
    <2> QED
        BY <1>1, <2>1, ImageIsFinite
<1>4. SegmentItems(records) = {f[s] : s \in records} \cup {g[s] : s \in Keys}
    BY DEF SegmentItems
<1> HIDE DEF f, g, Keys
<1> QED
    BY <1>2, <1>3, <1>4, FS_Union

LEMMA ItemsAreFinite ==
    ASSUME PageInv, ArchiveTypeOK, NEW r \in Requests PROVE IsFiniteSet(ItemsOf(r))
<1>1. PageRead(r) /\ seen[r].segments \in Seq(Segments)
    BY DEF PageInv, ArchiveTypeOK, Readings
<1>2. IsFiniteSet(SeenSegments(r))
    <2> DEFINE s == seen[r].segments
    <2>1. s = [i \in DOMAIN s |-> s[i]] /\ DOMAIN s = 1..Len(s) /\ Len(s) \in Nat
        BY <1>1
    <2>2. IsFiniteSet(DOMAIN s)
        BY <2>1, FS_Interval
    <2> HIDE DEF s
    <2>3. IsFiniteSet({s[i] : i \in DOMAIN s})
        BY <2>1, <2>2, ImageIsFinite
    <2> QED
        BY <2>3 DEF s, SeenSegments
<1>3. /\ IsFiniteSet(SegmentItems(SeenSegments(r)))
      /\ IsFiniteSet(StampedItems("exception", seen[r].exceptions, seen[r].row.started))
      /\ IsFiniteSet(StampedItems("export_created", seen[r].files, seen[r].row.started))
    BY <1>1, <1>2, SegmentItemsAreFinite, StampedItemsAreFinite DEF PageRead
<1> QED
    BY <1>3, FS_Union DEF ItemsOf

LEMMA ItemsAreSortable ==
    ASSUME ArchiveTypeOK, NEW r \in Requests PROVE Sortable(ItemsOf(r))
<1> DEFINE Typed(x) == x.at \in Int /\ x.type \in DOMAIN TypeOrder /\ x.id \in Int
                       /\ x = Item(x.type, x.id, x.at)
<1>1. ASSUME NEW type \in DOMAIN TypeOrder, NEW id \in Int, NEW at \in Int
      PROVE  Typed(Item(type, id, at))
    BY DEF Item
<1>2. DOMAIN TypeOrder = {"segment_final", "key_sentence", "exception", "export_created"}
    BY DEF TypeOrder
<1>3. seen[r] \in Readings
    BY DEF ArchiveTypeOK
<1>4. ASSUME NEW s \in SeenSegments(r) PROVE s.id \in Int /\ s.end \in Int
    <2>1. seen[r].segments \in Seq(Segments)
        BY <1>3 DEF Readings
    <2>2. s \in Segments
        BY <2>1 DEF SeenSegments
    <2> QED
        BY <2>2, ArchiveBounds DEF Segments, Times
<1>5. ASSUME NEW x \in seen[r].exceptions \cup seen[r].files
      PROVE  x.by \in Int /\ SinceStart(x.at, seen[r].row.started) \in Int
    <2>1. x \in UsageEvents \cup FileRows
        BY <1>3 DEF Readings
    <2>2. x.by \in Int
        BY <2>1, ArchiveBounds DEF UsageEvents, FileRows, Requests
    <2> QED
        BY <2>2 DEF SinceStart
<1> HIDE DEF Typed
<1>6. \A x \in SegmentItems(SeenSegments(r)) : Typed(x)
    BY <1>1, <1>2, <1>4 DEF SegmentItems
<1>7. \A x \in StampedItems("exception", seen[r].exceptions, seen[r].row.started) : Typed(x)
    BY <1>1, <1>2, <1>5 DEF StampedItems
<1>8. \A x \in StampedItems("export_created", seen[r].files, seen[r].row.started) : Typed(x)
    BY <1>1, <1>2, <1>5 DEF StampedItems
<1>9. \A x \in ItemsOf(r) : Typed(x)
    BY <1>6, <1>7, <1>8 DEF ItemsOf
<1> QED
    BY <1>9 DEF Typed, Sortable

(* A key sentence has its segment's id and time, and no other segment's.   *)
LEMMA KeySentenceBehindSegment ==
    ASSUME PageInv, ArchiveTypeOK, NEW r \in Requests, NEW x \in ItemsOf(r), NEW y \in ItemsOf(r),
           x.type = "key_sentence", y.type = "segment_final", x.id = y.id
    PROVE  ~Precedes(x, y)
<1>1. \A type, records, started : \A z \in StampedItems(type, records, started) : z.type = type
    BY DEF StampedItems, Item
<1>2. x \in SegmentItems(SeenSegments(r)) /\ y \in SegmentItems(SeenSegments(r))
    BY <1>1 DEF ItemsOf
<1>3. PICK s \in SeenSegments(r) : x.id = s.id /\ x.at = s.end
    BY <1>2 DEF SegmentItems, Item
<1>4. PICK u \in SeenSegments(r) : y.id = u.id /\ y.at = u.end
    BY <1>2 DEF SegmentItems, Item
<1>5. s = u
    <2>1. UniqueIds(seen[r].segments)
        BY DEF PageInv, PageRead
    <2>2. PICK i \in DOMAIN seen[r].segments : s = seen[r].segments[i]
        BY DEF SeenSegments
    <2>3. PICK j \in DOMAIN seen[r].segments : u = seen[r].segments[j]
        BY DEF SeenSegments
    <2>4. seen[r].segments[i].id = seen[r].segments[j].id
        BY <1>3, <1>4, <2>2, <2>3
    <2>5. i = j
        BY <2>1, <2>4 DEF UniqueIds
    <2> QED
        BY <2>2, <2>3, <2>5
<1>6. TypeOrder[x.type] = 1 /\ TypeOrder[y.type] = 0
    BY DEF TypeOrder
<1> QED
    <2>1. x.at = y.at /\ x.at \in Int
        BY <1>3, <1>4, <1>5, ItemsAreSortable DEF Sortable
    <2> QED
        BY <1>6, <2>1 DEF Precedes

LEMMA PagesAreTruthful == PageInv /\ ArchiveTypeOK => TimelineTruthful
<1> SUFFICES ASSUME PageInv, ArchiveTypeOK, NEW r \in Requests, op[r] = "view", step[r] = "event",
                    NEW t, t = TimelineOf(r)
             PROVE  /\ \A i, j \in DOMAIN t : i < j =>
                          t[i].at <= t[j].at
                             /\ ~(t[i].type = "key_sentence" /\ t[j].type = "segment_final"
                                    /\ t[i].id = t[j].id)
                    /\ \A e \in seen[r].before :
                          \E type \in {IF step[e] = "answered" THEN "export_created" ELSE "exception"} :
                              \/ \E i \in DOMAIN t : t[i].id = e /\ t[i].type = type
                              \/ type = "exception" /\ e \in lost
    BY DEF TimelineTruthful
<1> DEFINE items == ItemsOf(r)
<1>1. t = SortTimelineItems(items)
    BY DEF TimelineOf, TimelineItems, ItemsOf, SeenSegments
<1>2. Sortable(items) /\ IsFiniteSet(items)
    BY ItemsAreSortable, ItemsAreFinite
<1> HIDE DEF items
<1>3. /\ \A i \in DOMAIN t : t[i] \in items
      /\ \A i, j \in DOMAIN t : i < j => Precedes(t[i], t[j])
      /\ \A x \in items : \E i \in DOMAIN t : t[i] = x
    BY <1>1, <1>2, SortIsSorted
<1>4. ASSUME NEW i \in DOMAIN t, NEW j \in DOMAIN t, i < j
      PROVE  t[i].at <= t[j].at /\ ~(t[i].type = "key_sentence" /\ t[j].type = "segment_final"
                                        /\ t[i].id = t[j].id)
    <2>1. t[i] \in items /\ t[j] \in items /\ Precedes(t[i], t[j])
        BY <1>3, <1>4
    <2>2. t[i].at \in Int /\ t[j].at \in Int
        BY <1>2, <2>1 DEF Sortable
    <2>3. t[i].at <= t[j].at
        BY <2>1, <2>2 DEF Precedes
    <2> QED
        BY <2>1, <2>3, KeySentenceBehindSegment DEF items
<1>5. ASSUME NEW e \in seen[r].before, step[e] = "answered"
      PROVE  \E i \in DOMAIN t : t[i].id = e /\ t[i].type = "export_created"
    <2>1. PICK f \in seen[r].files : f.by = e
        BY <1>5 DEF PageInv, PageRead
    <2> DEFINE x == Item("export_created", f.by, SinceStart(f.at, seen[r].row.started))
    <2>2. x \in items /\ x.id = e /\ x.type = "export_created"
        BY <2>1 DEF items, ItemsOf, StampedItems, Item
    <2> HIDE DEF x
    <2> QED
        BY <1>3, <2>2
<1>6. ASSUME NEW e \in seen[r].before, step[e] # "answered", e \notin lost
      PROVE  \E i \in DOMAIN t : t[i].id = e /\ t[i].type = "exception"
    <2>1. PICK f \in seen[r].exceptions : f.by = e
        BY <1>6 DEF PageInv, PageRead
    <2> DEFINE x == Item("exception", f.by, SinceStart(f.at, seen[r].row.started))
    <2>2. x \in items /\ x.id = e /\ x.type = "exception"
        BY <2>1 DEF items, ItemsOf, StampedItems, Item
    <2> HIDE DEF x
    <2> QED
        BY <1>3, <2>2
<1> QED
    BY <1>4, <1>5, <1>6

(* Whatever interleaves with the statements of a page, its timeline is in  *)
(* order of time, no key sentence is before its segment, and every export  *)
(* that was over when the page was asked for is on it, but a failure that  *)
(* could not be recorded.                                                  *)
THEOREM TimelineTruthfulHolds == ArchiveSpec => []TimelineTruthful
<1>1. PageInv /\ StoreInv /\ ArchiveTypeOK /\ UrlInv /\ [ArchiveNext]_archiveVars => PageInv'
    BY RequestsKeepPage, OthersKeepPage DEF ArchiveNext
<1>2. StoreInv /\ ArchiveTypeOK /\ UrlInv /\ [ArchiveNext]_archiveVars => StoreInv'
    BY ReadsKeepStoreInv, ExportKeepsStoreInv, OthersKeepStoreInv DEF ArchiveNext, RequestStep
<1>3. ArchiveSpec => []ArchiveTypeOK
    BY ArchiveTypesHold
<1>4. ArchiveSpec => []UrlInv
    BY UrlInvInit, UrlInvInductive, PTL DEF ArchiveSpec
<1> QED
    BY <1>1, <1>2, <1>3, <1>4, StoreInvInit, PageInvInit, PagesAreTruthful, PTL DEF ArchiveSpec
=============================================================================
