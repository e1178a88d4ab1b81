--------------------------- MODULE UsageDashboard ---------------------------
(***************************************************************************)
(* The operators' usage dashboard (usage_dashboard.py): one query over the *)
(* meetings and usage events of a period, put into days and added up.  The *)
(* tables hold UTC times; days, the window and the month are those of the  *)
(* configured time zone.                                                   *)
(*                                                                         *)
(* Days are numbered and months have a fixed length.  Money is counted in  *)
(* whole units: the rounding to four decimals is left out, and so are the  *)
(* averages of latencies, which no event records.                          *)
(***************************************************************************)
EXTENDS Integers, FiniteSetsExt

CONSTANTS
    Clients,
    Hours, Offset, Days,      \* hours of a day, of the time zone; days of a month
    AsrPrice, InputPrice, OutputPrice,
    MaxClock, MaxMeetings, MaxUsage, MaxWindow   \* bounds

ASSUME CalendarAssumption == Hours \in Nat \ {0} /\ Offset \in 0..Hours /\ Days \in Nat \ {0}
ASSUME PriceAssumption == AsrPrice \in Nat /\ InputPrice \in Nat /\ OutputPrice \in Nat

VARIABLES
    clock,      \* hours, in UTC
    meetings,   \* meeting_session rows: client, started_at, seconds, platform, status
    usage       \* usage_event rows: client, type, created_at, lengths of the texts

dashboardVars == <<clock, meetings, usage>>

Interim == "translation_interim_requested"
Final == "translation_final_completed"
ErrorTypes == {"budget_fuse_triggered", "capture_failed", "export_failed",
               "provider_error", "quota_exhausted"}
CountedTypes == {Interim, Final, "export_created", "provider_error", "client_created"}
TencentWeb == "tencent_meeting_web"

-----------------------------------------------------------------------------
(* Dates.                                                                   *)

LocalDay(t) == (t + Offset) \div Hours
LocalStart(day) == day * Hours - Offset
MonthStart(day) == day - (day % Days)

WindowStart(days) == LocalDay(clock) - (days - 1)

\* Mutant of QueryStart: what the window needs is queried, the month's beginning is not.
QueryStartOfWindow(days) == LocalStart(WindowStart(days))

QueryStart(days) ==
    LET window == WindowStart(days)
        month == MonthStart(LocalDay(clock)) IN
    LocalStart(IF window < month THEN window ELSE month)

QueryEnd == LocalStart(LocalDay(clock) + 1)

ListRecords(table, days) == {x \in table : QueryStart(days) <= x.at /\ x.at < QueryEnd}

Between(records, first, last) == {x \in records : LocalDay(x.at) \in first..last}

-----------------------------------------------------------------------------
(* Figures of a set of meetings and a set of events.                        *)

Total(f(_), S) == MapThenSumSet(f, S)

\* Four characters to a token, rounded up; nothing for a length that is not positive.
Tokens(length) == IF length <= 0 THEN 0 ELSE (length + 3) \div 4

InputTokens(E) == Total(LAMBDA e : IF e.type \in {Interim, Final} THEN Tokens(e.english) ELSE 0, E)
OutputTokens(E) == Total(LAMBDA e : IF e.type = Final THEN Tokens(e.chinese) ELSE 0, E)

\* duration_seconds and quota_seconds_consumed are always written together.
AsrSeconds(M) == Total(LAMBDA m : m.seconds, M)
Effective(M) == {m \in M : m.seconds > 0}
Count(E, types) == Cardinality({e \in E : e.type \in types})
ClientsOf(records) == {x.client : x \in records}
EstimatedCost(M, E) ==
    AsrPrice * AsrSeconds(M) + InputPrice * InputTokens(E) + OutputPrice * OutputTokens(E)

\* In ten thousandths.
Rate(n, d) == IF d <= 0 THEN 0 ELSE (10000 * n) \div d

DailyMetric(M, E) ==
    [meetings |-> Cardinality(M), effective |-> Cardinality(Effective(M)),
     clients |-> Cardinality(ClientsOf(M)), asr |-> AsrSeconds(M),
     interims |-> Count(E, {Interim}), finals |-> Count(E, {Final}),
     input |-> InputTokens(E), output |-> OutputTokens(E),
     exports |-> Count(E, {"export_created"}), errors |-> Count(E, ErrorTypes),
     fuse |-> Count(E, {"budget_fuse_triggered"}), cost |-> EstimatedCost(M, E)]

\* Every figure is the sum of the days' but for the clients, who may come on several days.
Totals(daily, M) ==
    [f \in DOMAIN DailyMetric({}, {}) |->
        IF f = "clients" THEN Cardinality(ClientsOf(M))
        ELSE Total(LAMBDA d : daily[d][f], DOMAIN daily)]

Funnels(E) ==
    [created |-> Cardinality(ClientsOf({e \in E : e.type = "client_created"})),
     captureToAudio |-> Rate(Count(E, {"audio_detected"}), Count(E, {"capture_started"})),
     exported |-> Count(E, {"export_created"})]

Quality(M, E) ==
    LET tencent == {m \in M : m.platform = TencentWeb}
        successful == {m \in Effective(tencent) : m.status = "ended"} IN
    [errors |-> Count(E, {"provider_error"}),
     sessions |-> Cardinality(tencent),
     successful |-> Cardinality(successful),
     rate |-> Rate(Cardinality(successful), Cardinality(tencent))]

BuildDashboard(days) ==
    LET today == LocalDay(clock)
        M == ListRecords(meetings, days)
        E == ListRecords(usage, days)
        window(records) == Between(records, WindowStart(days), today)
        month(records) == Between(records, MonthStart(today), today)
        daily == [d \in WindowStart(days)..today |->
                     DailyMetric(Between(window(M), d, d), Between(window(E), d, d))] IN
    [daily |-> daily,
     totals |-> Totals(daily, window(M)),
     funnels |-> Funnels(window(E)),
     quality |-> Quality(window(M), window(E)),
     monthCost |-> EstimatedCost(month(M), month(E))]

-----------------------------------------------------------------------------
(* The tables fill.                                                         *)

DashboardInit == clock = 0 /\ meetings = {} /\ usage = {}

StartMeeting ==
    /\ Cardinality(meetings) < MaxMeetings
    /\ \E c \in Clients, p \in {TencentWeb, "other"} :
          meetings' = meetings \cup {[id |-> Cardinality(meetings), client |-> c, at |-> clock,
                                      seconds |-> 0, platform |-> p, status |-> "active"]}
    /\ UNCHANGED <<clock, usage>>

\* close_session writes seconds and status, perhaps on a later day.
CloseMeeting ==
    /\ \E m \in meetings, seconds \in 0..1, status \in {"ended", "error"} :
          /\ m.status = "active"
          /\ meetings' = (meetings \ {m})
                             \cup {[m EXCEPT !.seconds = seconds, !.status = status]}
    /\ UNCHANGED <<clock, usage>>

RecordUsage ==
    /\ Cardinality(usage) < MaxUsage
    /\ \E type \in CountedTypes, c \in Clients :
          usage' = usage \cup {[id |-> Cardinality(usage), client |-> c, type |-> type,
                                at |-> clock, english |-> 5,
                                chinese |-> IF type = Final THEN 4 ELSE 0]}
    /\ UNCHANGED <<clock, meetings>>

HourPasses ==
    /\ clock < MaxClock
    /\ clock' = clock + 1
    /\ UNCHANGED <<meetings, usage>>

DashboardNext == StartMeeting \/ CloseMeeting \/ RecordUsage \/ HourPasses

DashboardSpec == DashboardInit /\ [][DashboardNext]_dashboardVars

-----------------------------------------------------------------------------
(* Whatever window is asked for, its figures are those of all the rows in   *)
(* the tables with a local date in the window, each counted on one day, and *)
(* the cost of the month is that of all its rows: neither the query's range *)
(* in UTC nor a window shorter or longer than the month loses or adds one.  *)
ReportIsExact ==
    \A days \in 1..MaxWindow :
        LET report == BuildDashboard(days)
            today == LocalDay(clock)
            recent(table) == {x \in table : today - LocalDay(x.at) < days}
            thisMonth(table) == {x \in table : LocalDay(x.at) \div Days = today \div Days} IN
        /\ report.totals = DailyMetric(recent(meetings), recent(usage))
        /\ report.quality.successful <= report.totals.effective
        /\ report.funnels.exported = report.totals.exports
        /\ report.monthCost = EstimatedCost(thisMonth(meetings), thisMonth(usage))
=============================================================================
