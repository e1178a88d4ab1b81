-------------------------- MODULE MCArchive_proofs --------------------------
(***************************************************************************)
(* Proofs about the two modules that MCArchive puts beside Archive:        *)
(* AnonymousClients, for any set of calls, and the report of               *)
(* UsageDashboard, for any rows, window, calendar, time zone and prices.   *)
(* Archive's own theorems are in Archive_proofs.                           *)
(*                                                                         *)
(* The sums of a report are folds over sets, of which no lemma can be      *)
(* stated that takes the summand as an operator.  Here a summand is a      *)
(* function, induction is over a set of numbers or of subsets, and a lemma *)
(* for each sum of the report says which function it adds up.              *)
(***************************************************************************)
EXTENDS MCArchive, Archive_proofs, WellFoundedInduction

-----------------------------------------------------------------------------
(* AnonymousClients.                                                       *)

\* A call that has made the client, or has been told that it did.
Makes(k) == call[k] \in {"record", "new"}

(* Inductive: whoever made the client leaves a row, and so an insert that  *)
(* succeeds finds that nobody has made it.                                 *)
ClientInv ==
    /\ ClientTypeOK
    /\ ClientCreatedOnce
    /\ \A k \in Calls : Makes(k) => known

(* Every step of a call keeps it.                                          *)
LEMMA ClientInvInductive == ClientInv /\ [ClientNext]_clientVars => ClientInv'
<1> SUFFICES ASSUME ClientInv, [ClientNext]_clientVars PROVE ClientInv'
    OBVIOUS
<1> USE DEF ClientInv, ClientTypeOK, ClientCreatedOnce, CallSteps, Makes, Step
<1>1. ASSUME NEW k \in Calls, SelectClient(k) PROVE ClientInv'
    BY <1>1 DEF SelectClient
<1>2. ASSUME NEW k \in Calls, InsertClient(k) PROVE ClientInv'
    BY <1>2 DEF InsertClient
<1>3. ASSUME NEW k \in Calls, UpdateClient(k) PROVE ClientInv'
    BY <1>3 DEF UpdateClient
<1>4. ASSUME NEW k \in Calls, RecordCreated(k) PROVE ClientInv'
    BY <1>4 DEF RecordCreated
<1>5. ASSUME NEW k \in Calls, CallFails(k) PROVE ClientInv'
    BY <1>5 DEF CallFails
<1>6. CASE UNCHANGED clientVars
    BY <1>6 DEF clientVars
<1> QED
    BY <1>1, <1>2, <1>3, <1>4, <1>5, <1>6 DEF ClientNext

(* One call at most makes the client, whatever the number of calls and their *)
(* interleaving: what initialize_client owes to the unique client_id.      *)
THEOREM ClientCreatedOnceHolds == ClientSpec => [](ClientTypeOK /\ ClientCreatedOnce)
<1>1. ClientInit => ClientInv
    BY DEF ClientInit, ClientInv, ClientTypeOK, ClientCreatedOnce, CallSteps, Makes
<1>2. ClientInv => ClientTypeOK /\ ClientCreatedOnce
    BY DEF ClientInv
<1> QED
    BY <1>1, <1>2, ClientInvInductive, PTL DEF ClientSpec

(* MCArchive.TypeOK: requests, rows, objects and calls keep their types, of*)
(* whichever number of requests, segments and calls.                       *)
THEOREM TypeCorrect == ArchiveSpec /\ ClientSpec => []TypeOK
<1> QED
    BY ArchiveTypesHold, ClientCreatedOnceHolds, PTL DEF TypeOK

-----------------------------------------------------------------------------
(* Days of a time zone.                                                    *)

LEMMA Quotient ==
    ASSUME NEW a \in Int, NEW b \in Nat \ {0}
    PROVE  a \div b \in Int /\ b * (a \div b) <= a /\ a < b * (a \div b) + b
OBVIOUS

LEMMA Multiples ==
    ASSUME NEW b \in Nat \ {0}, NEW c \in Int, NEW d \in Int, c < d
    PROVE  b * c + b <= b * d
<1>1. d - c - 1 \in Nat
    OBVIOUS
<1>2. b * (d - c - 1) \in Nat
    BY <1>1
<1> QED
    BY <1>2

(* a \div b is the largest multiple of b up to a.                          *)
LEMMA Division ==
    ASSUME NEW a \in Int, NEW b \in Nat \ {0}, NEW d \in Int
    PROVE  d <= a \div b <=> d * b <= a
<1>1. CASE d <= a \div b
    BY <1>1, Quotient, Multiples
<1>2. CASE a \div b < d
    BY <1>2, Quotient, Multiples
<1> QED
    BY <1>1, <1>2, Quotient

(* A time is on a local day or a later one when that day has begun, in UTC.*)
LEMMA DayBegins ==
    ASSUME NEW t \in Int, NEW d \in Int
    PROVE  LocalDay(t) \in Int /\ LocalStart(d) \in Int /\ (d <= LocalDay(t) <=> LocalStart(d) <= t)
<1>1. t + Offset \in Int /\ Hours \in Nat \ {0} /\ Offset \in Int
    BY CalendarAssumption
<1>2. (t + Offset) \div Hours \in Int /\ d * Hours \in Int
    BY <1>1, Quotient
<1>3. d <= (t + Offset) \div Hours <=> d * Hours <= t + Offset
    BY <1>1, Division
<1> QED
    BY <1>1, <1>2, <1>3 DEF LocalDay, LocalStart

(* Days of one month, the later of which is the other argument's.          *)
LEMMA MonthBegins ==
    ASSUME NEW day \in Int, NEW today \in Int, day <= today
    PROVE  /\ MonthStart(today) \in Int
           /\ MonthStart(today) <= day <=> day \div Days = today \div Days
<1>1. Days \in Nat \ {0}
    BY CalendarAssumption
<1>2. day \div Days \in Int /\ today \div Days \in Int /\ today \div Days >= day \div Days
    BY <1>1, Quotient, Division
<1>3. MonthStart(today) = (today \div Days) * Days
    BY <1>1 DEF MonthStart
<1>4. today \div Days <= day \div Days <=> (today \div Days) * Days <= day
    BY <1>1, <1>2, Division
<1> QED
    BY <1>1, <1>2, <1>3, <1>4

-----------------------------------------------------------------------------
(* The rows of a report.                                                   *)

(* No row is of the future.                                                *)
RowsDated ==
    /\ clock \in Nat
    /\ \A x \in meetings \cup usage : "at" \in DOMAIN x /\ x.at \in Nat /\ x.at <= clock

LEMMA RowsDatedHolds == DashboardSpec => []RowsDated
<1>1. DashboardInit => RowsDated
    BY DEF DashboardInit, RowsDated
<1>2. RowsDated /\ [DashboardNext]_dashboardVars => RowsDated'
    <2> SUFFICES ASSUME RowsDated, [DashboardNext]_dashboardVars PROVE RowsDated'
        OBVIOUS
    <2> USE DEF RowsDated
    <2>1. CASE StartMeeting
        BY <2>1 DEF StartMeeting
    <2>2. CASE CloseMeeting
        <3>1. PICK m \in meetings, seconds \in 0..1, status \in {"ended", "error"} :
                  meetings' = (meetings \ {m})
                                  \cup {[m EXCEPT !.seconds = seconds, !.status = status]}
            BY <2>2 DEF CloseMeeting
        <3> DEFINE closed == [m EXCEPT !.seconds = seconds, !.status = status]
        <3>2. DOMAIN closed = DOMAIN m /\ closed.at = m.at
            OBVIOUS
        <3> HIDE DEF closed
        <3> QED
            BY <2>2, <3>1, <3>2 DEF CloseMeeting, closed
    <2>3. CASE RecordUsage
        BY <2>3 DEF RecordUsage
    <2>4. CASE HourPasses
        BY <2>4 DEF HourPasses
    <2>5. CASE UNCHANGED dashboardVars
        BY <2>5 DEF dashboardVars
    <2> QED
        BY <2>1, <2>2, <2>3, <2>4, <2>5 DEF DashboardNext
<1> QED
    BY <1>1, <1>2, PTL DEF DashboardSpec

(* What is left of the query after a day that the query reaches back to.   *)
LEMMA QueryReaches ==
    ASSUME clock \in Nat, NEW days \in Nat \ {0}, NEW first \in Int,
           first = WindowStart(days) \/ first = MonthStart(LocalDay(clock)),
           NEW table, \A x \in table : x.at \in Nat /\ x.at <= clock
    PROVE  Between(ListRecords(table, days), first, LocalDay(clock))
               = {x \in table : first <= LocalDay(x.at)}
<1> DEFINE today == LocalDay(clock)
           reach == IF WindowStart(days) < MonthStart(today)
                    THEN WindowStart(days) ELSE MonthStart(today)
<1>1. today \in Int
    BY DayBegins
<1>2. WindowStart(days) \in Int /\ MonthStart(today) \in Int
    BY <1>1, MonthBegins DEF WindowStart
<1>3. reach \in Int /\ reach <= first
    BY <1>2
<1>4. QueryStart(days) = LocalStart(reach) /\ QueryEnd = LocalStart(today + 1)
    BY DEF QueryStart, QueryEnd
<1> HIDE DEF today, reach
<1>5. ASSUME NEW x \in table
      PROVE  /\ LocalDay(x.at) \in Int /\ LocalDay(x.at) <= today
             /\ x.at < LocalStart(today + 1)
             /\ reach <= LocalDay(x.at) <=> LocalStart(reach) <= x.at
    <2>1. x.at \in Int /\ clock \in Int /\ x.at <= clock
        OBVIOUS
    <2>2. LocalDay(x.at) \in Int
        BY <2>1, <1>1, DayBegins
    <2>3. LocalStart(LocalDay(x.at)) <= x.at /\ LocalStart(LocalDay(x.at)) \in Int
        BY <2>1, <2>2, DayBegins
    <2>4. LocalDay(x.at) <= today
        BY <2>1, <2>2, <2>3, DayBegins DEF today
    <2>5. ~(LocalStart(today + 1) <= x.at) /\ LocalStart(today + 1) \in Int
        BY <2>1, <2>2, <2>4, <1>1, DayBegins
    <2>6. reach <= LocalDay(x.at) <=> LocalStart(reach) <= x.at
        BY <2>1, <1>3, DayBegins
    <2> QED
        BY <2>1, <2>2, <2>4, <2>5, <2>6
<1>6. ASSUME NEW x \in table
      PROVE  (LocalStart(reach) <= x.at /\ x.at < LocalStart(today + 1) /\ LocalDay(x.at) \in first..today)
                 <=> first <= LocalDay(x.at)
    BY <1>1, <1>3, <1>5
<1> QED
    BY <1>4, <1>6 DEF Between, ListRecords, today

(* The part of ReportIsExact that is about the query, for any window, month*)
(* and time zone: the rows a report is made from are those of the tables   *)
(* with a local date in the window, each day's are those of that date, and *)
(* the cost of the month is that of all its rows.                          *)
RowsExact(days) ==
    LET report == BuildDashboard(days)
        today == LocalDay(clock)
        window(table) == Between(ListRecords(table, days), WindowStart(days), today)
        recent(table) == {x \in table : today - LocalDay(x.at) < days}
        thisMonth(table) == {x \in table : LocalDay(x.at) \div Days = today \div Days} IN
    /\ window(meetings) = recent(meetings) /\ window(usage) = recent(usage)
    /\ report.daily = [d \in WindowStart(days)..today |->
                          DailyMetric({x \in meetings : LocalDay(x.at) = d},
                                      {x \in usage : LocalDay(x.at) = d})]
    /\ report.quality = Quality(recent(meetings), recent(usage))
    /\ report.funnels = Funnels(recent(usage))
    /\ report.monthCost = EstimatedCost(thisMonth(meetings), thisMonth(usage))

(* A report loses no row and adds none: neither by the query's range in UTC*)
(* nor by a window that is shorter or longer than the month.               *)
THEOREM RowsAreExactHolds == DashboardSpec => [](\A days \in Nat \ {0} : RowsExact(days))
<1>1. RowsDated => \A days \in Nat \ {0} : RowsExact(days)
    <2> SUFFICES ASSUME RowsDated, NEW days \in Nat \ {0}
                 PROVE  RowsExact(days)
        OBVIOUS
    <2> DEFINE today == LocalDay(clock)
    <2>1. today \in Int /\ WindowStart(days) = today - (days - 1) /\ WindowStart(days) \in Int
        BY DayBegins DEF RowsDated, WindowStart
    <2>2. MonthStart(today) \in Int
        BY <2>1, MonthBegins
    <2>3. ASSUME NEW x \in meetings \cup usage
          PROVE  /\ LocalDay(x.at) \in Int /\ LocalDay(x.at) <= today
                 /\ WindowStart(days) <= LocalDay(x.at) <=> today - LocalDay(x.at) < days
                 /\ MonthStart(today) <= LocalDay(x.at) <=> LocalDay(x.at) \div Days = today \div Days
        <3>1. x.at \in Int /\ clock \in Int /\ x.at <= clock
            BY DEF RowsDated
        <3>2. LocalDay(x.at) \in Int
            BY <3>1, <2>1, DayBegins
        <3>3. LocalStart(LocalDay(x.at)) <= x.at /\ LocalStart(LocalDay(x.at)) \in Int
            BY <3>1, <3>2, DayBegins
        <3>4. LocalDay(x.at) <= today
            BY <3>1, <3>2, <3>3, DayBegins
        <3> HIDE DEF today
        <3> QED
            BY <2>1, <3>2, <3>4, MonthBegins
    <2>4. /\ Between(ListRecords(meetings, days), WindowStart(days), today)
                = {x \in meetings : WindowStart(days) <= LocalDay(x.at)}
          /\ Between(ListRecords(usage, days), WindowStart(days), today)
                = {x \in usage : WindowStart(days) <= LocalDay(x.at)}
        BY <2>1, QueryReaches DEF RowsDated
    <2>5. /\ Between(ListRecords(meetings, days), MonthStart(today), today)
                = {x \in meetings : MonthStart(today) <= LocalDay(x.at)}
          /\ Between(ListRecords(usage, days), MonthStart(today), today)
                = {x \in usage : MonthStart(today) <= LocalDay(x.at)}
        BY <2>2, QueryReaches DEF RowsDated
    <2>6. /\ {x \in meetings : WindowStart(days) <= LocalDay(x.at)}
                = {x \in meetings : today - LocalDay(x.at) < days}
          /\ {x \in usage : WindowStart(days) <= LocalDay(x.at)}
                = {x \in usage : today - LocalDay(x.at) < days}
        BY <2>3
    <2>7. /\ {x \in meetings : MonthStart(today) <= LocalDay(x.at)}
                = {x \in meetings : LocalDay(x.at) \div Days = today \div Days}
          /\ {x \in usage : MonthStart(today) <= LocalDay(x.at)}
                = {x \in usage : LocalDay(x.at) \div Days = today \div Days}
        BY <2>3
    <2> DEFINE window(table) == Between(ListRecords(table, days), WindowStart(days), today)
    <2>8. ASSUME NEW d \in WindowStart(days)..today
          PROVE  /\ Between(window(meetings), d, d) = {x \in meetings : LocalDay(x.at) = d}
                 /\ Between(window(usage), d, d) = {x \in usage : LocalDay(x.at) = d}
        <3>1. /\ window(meetings) = {x \in meetings : WindowStart(days) <= LocalDay(x.at)}
              /\ window(usage) = {x \in usage : WindowStart(days) <= LocalDay(x.at)}
            BY <2>4
        <3> HIDE DEF window, today
        <3>2. \A x \in meetings \cup usage :
                  WindowStart(days) <= LocalDay(x.at) /\ LocalDay(x.at) \in d..d <=> LocalDay(x.at) = d
            BY <2>1, <2>3
        <3> QED
            BY <3>1, <3>2 DEF Between
    <2>9. BuildDashboard(days).daily
              = [d \in WindowStart(days)..today |->
                    DailyMetric(Between(window(meetings), d, d), Between(window(usage), d, d))]
        BY DEF BuildDashboard
    <2>10. BuildDashboard(days).daily
              = [d \in WindowStart(days)..today |->
                    DailyMetric({x \in meetings : LocalDay(x.at) = d},
                                {x \in usage : LocalDay(x.at) = d})]
        <3> HIDE DEF window
        <3> QED
            BY <2>8, <2>9
    <2> QED
        BY <2>4, <2>5, <2>6, <2>7, <2>10, Zenon DEF RowsExact, BuildDashboard
<1> QED
    BY <1>1, RowsDatedHolds, PTL

-----------------------------------------------------------------------------
(* Sums over a finite set.                                                 *)

(* Numbers have a least one, and induction goes by it.                     *)
LEMMA Least ==
    ASSUME NEW T, T \subseteq Nat, T # {}
    PROVE  \E n \in T : \A m \in T : n <= m
<1>1. IsWellFoundedOn({ss \in Nat \X Nat : ss[1] < ss[2]}, Nat)
    BY NatLessThanWellFounded, Zenon DEF OpToRel
<1>2. PICK n \in T : \A m \in T : <<m, n>> \notin {ss \in Nat \X Nat : ss[1] < ss[2]}
    BY <1>1, WFMin
<1>3. \A m \in T : n \in Nat /\ m \in Nat /\ ~(m < n)
    BY <1>2
<1> QED
    BY <1>3

(* Induction over the numbers, for a set in place of a predicate.          *)
LEMMA SetInduction ==
    ASSUME NEW T, 0 \in T, \A n \in Nat : n \in T => n + 1 \in T
    PROVE  \A n \in Nat : n \in T
<1>1. SUFFICES ASSUME Nat \ T # {} PROVE FALSE
    OBVIOUS
<1>2. PICK n \in Nat \ T : \A m \in Nat \ T : n <= m
    BY <1>1, Least
<1>3. n # 0 /\ n - 1 \in Nat
    BY <1>2
<1>4. n - 1 \in T
    BY <1>2, <1>3
<1> QED
    BY <1>3, <1>4

\* The element a fold of the community modules takes first, and its step as a function g of sets.
Pick(s) == CHOOSE x \in s : TRUE
SumStep(g, F, s) == IF s = {} THEN 0 ELSE F[Pick(s)] + g[s \ {Pick(s)}]
IsSum(g, F, S) == g = [s \in SUBSET S |-> SumStep(g, F, s)]

LEMMA Picked == \A s : s # {} => Pick(s) \in s
BY DEF Pick

(* The function that sums F up over the subsets of a finite set exists.    *)
LEMMA SumExists ==
    ASSUME NEW S, IsFiniteSet(S), NEW F
    PROVE  \E g : IsSum(g, F, S)
<1> DEFINE Upto(n, g) == \A s \in SUBSET S : Cardinality(s) <= n => g[s] = SumStep(g, F, s)
           T == {n \in Nat : \E g : g = [s \in SUBSET S |-> g[s]] /\ Upto(n, g)}
<1>0. \A s \in SUBSET S : IsFiniteSet(s) /\ Cardinality(s) \in Nat /\ (Cardinality(s) = 0 <=> s = {})
    BY FS_Subset, FS_CardinalityType, FS_EmptySet
<1>1. 0 \in T
    <2> DEFINE g == [s \in SUBSET S |-> 0]
    <2>1. Upto(0, g)
        BY <1>0 DEF SumStep
    <2>2. g = [s \in SUBSET S |-> g[s]]
        OBVIOUS
    <2> HIDE DEF g
    <2> QED
        BY <2>1, <2>2
<1>2. ASSUME NEW n \in Nat, n \in T PROVE n + 1 \in T
    <2>1. PICK g : g = [s \in SUBSET S |-> g[s]] /\ Upto(n, g)
        BY <1>2
    <2> DEFINE h == [s \in SUBSET S |-> SumStep(g, F, s)]
    <2>2. ASSUME NEW s \in SUBSET S, Cardinality(s) <= n + 1 PROVE h[s] = SumStep(h, F, s)
        <3>1. CASE s = {}
            BY <3>1 DEF SumStep
        <3>2. CASE s # {}
            <4> DEFINE r == s \ {Pick(s)}
            <4>1. Pick(s) \in s /\ r \in SUBSET S
                BY <3>2, Picked
            <4>2. Cardinality(r) = Cardinality(s) - 1
                BY <4>1, <1>0, FS_RemoveElement
            <4>3. Cardinality(r) <= n
                BY <4>1, <4>2, <2>2, <1>0
            <4>4. h[r] = g[r]
                BY <2>1, <4>1, <4>3
            <4> QED
                BY <3>2, <4>4 DEF SumStep
        <3> QED
            BY <3>1, <3>2
    <2>3. h = [s \in SUBSET S |-> h[s]]
        OBVIOUS
    <2> HIDE DEF h
    <2>4. Upto(n + 1, h)
        BY <2>2
    <2>5. \E f : f = [s \in SUBSET S |-> f[s]] /\ Upto(n + 1, f)
        <3> HIDE DEF Upto
        <3> QED
            BY <2>3, <2>4
    <2> QED
        BY ONLY <2>5, n + 1 \in Nat DEF T
<1>3. Cardinality(S) \in T
    <2> HIDE DEF T
    <2> QED
    BY <1>1, <1>2, SetInduction, FS_CardinalityType
<1>4. PICK g : g = [s \in SUBSET S |-> g[s]] /\ Upto(Cardinality(S), g)
    BY <1>3
<1>5. \A s \in SUBSET S : Cardinality(s) <= Cardinality(S)
    BY FS_Subset
<1>6. \A s \in SUBSET S : g[s] = SumStep(g, F, s)
    BY <1>4, <1>5
<1> QED
    BY <1>4, <1>6 DEF IsSum

(* What is true of the empty set, and of a set when it is true of all those*)
(* with one element less, is true of every subset of a finite set.         *)
LEMMA SubsetInduction ==
    ASSUME NEW S, IsFiniteSet(S), NEW T, {} \in T,
           \A s \in SUBSET S : s # {} /\ (\A x \in s : s \ {x} \in T) => s \in T
    PROVE  SUBSET S \subseteq T
<1> DEFINE U == {n \in Nat : \A s \in SUBSET S : Cardinality(s) = n => s \in T}
<1>0. \A s \in SUBSET S : IsFiniteSet(s) /\ Cardinality(s) \in Nat /\ (Cardinality(s) = 0 <=> s = {})
    BY FS_Subset, FS_CardinalityType, FS_EmptySet
<1>1. 0 \in U
    BY <1>0
<1>2. ASSUME NEW n \in Nat, n \in U PROVE n + 1 \in U
    <2>1. ASSUME NEW s \in SUBSET S, Cardinality(s) = n + 1 PROVE s \in T
        <3>1. s # {}
            BY <2>1, <1>0
        <3>2. \A x \in s : s \ {x} \in SUBSET S /\ Cardinality(s \ {x}) = n
            BY <2>1, <1>0, FS_RemoveElement, SMTT(30)
        <3> QED
            BY <1>2, <3>1, <3>2
    <2> QED
        BY <2>1
<1>3. \A n \in Nat : n \in U
    <2> HIDE DEF U
    <2> QED
        BY <1>1, <1>2, SetInduction
<1> QED
    BY <1>0, <1>3

NatOn(F, S) == \A x \in S : F[x] \in Nat

(* A sum of numbers is a number.                                           *)
LEMMA SumType ==
    ASSUME NEW S, IsFiniteSet(S), NEW F, NatOn(F, S), NEW g, IsSum(g, F, S)
    PROVE  g \in [SUBSET S -> Nat] /\ g[{}] = 0
<1> DEFINE T == {s \in SUBSET S : g[s] \in Nat}
<1>0. \A s \in SUBSET S : g[s] = SumStep(g, F, s)
    BY DEF IsSum
<1>n. g[{}] = 0
    BY <1>0 DEF SumStep
<1>1. {} \in T
    BY <1>n
<1>2. ASSUME NEW s \in SUBSET S, s # {}, \A x \in s : s \ {x} \in T PROVE s \in T
    <2>1. Pick(s) \in s /\ g[s] = F[Pick(s)] + g[s \ {Pick(s)}]
        BY <1>0, <1>2, Picked DEF SumStep
    <2>2. F[Pick(s)] \in Nat /\ g[s \ {Pick(s)}] \in Nat
        BY <1>2, <2>1 DEF NatOn
    <2> QED
        BY <2>1, <2>2
<1>3. SUBSET S \subseteq T
    <2> HIDE DEF T
    <2> QED
        BY <1>1, <1>2, SubsetInduction
<1> QED
    BY <1>n, <1>3 DEF IsSum


(* What a sum over the subsets of S does, whichever element it takes first.*)
Sums(g, F, S) ==
    /\ g \in [SUBSET S -> Nat]
    /\ g[{}] = 0
    /\ \A s \in SUBSET S : \A a \in s : g[s] = F[a] + g[s \ {a}]

(* The order in which the elements are taken makes no difference.          *)
LEMMA SumOrder ==
    ASSUME NEW S, IsFiniteSet(S), NEW F, NatOn(F, S), NEW g, IsSum(g, F, S)
    PROVE  Sums(g, F, S)
<1> DEFINE Any(s) == \A a \in s : g[s] = F[a] + g[s \ {a}]
           T == {s \in SUBSET S : Any(s)}
<1>0. \A s \in SUBSET S : s # {} => g[s] = F[Pick(s)] + g[s \ {Pick(s)}]
    BY DEF IsSum, SumStep
<1>t. g \in [SUBSET S -> Nat] /\ g[{}] = 0
    BY SumType
<1>1. {} \in T
    OBVIOUS
<1>2. ASSUME NEW s \in SUBSET S, s # {}, \A x \in s : s \ {x} \in T PROVE s \in T
    <2>1. SUFFICES ASSUME NEW a \in s PROVE g[s] = F[a] + g[s \ {a}]
        OBVIOUS
    <2> DEFINE x == Pick(s)
    <2>2. x \in s /\ g[s] = F[x] + g[s \ {x}]
        BY <1>0, <1>2, Picked
    <2>3. CASE x = a
        BY <2>2, <2>3
    <2>4. CASE x # a
        <3> HIDE DEF x
        <3> DEFINE r == (s \ {a}) \ {x}
        <3>1. (s \ {x}) \ {a} = r /\ a \in s \ {x} /\ x \in s \ {a}
            BY <2>2, <2>4
        <3>2. g[s \ {x}] = F[a] + g[r]
            BY <1>2, <2>2, <3>1
        <3>3. g[s \ {a}] = F[x] + g[r]
            BY <1>2, <2>2, <3>1
        <3>4. F[a] \in Nat /\ F[x] \in Nat /\ g[r] \in Nat
            BY <1>t, <2>2 DEF NatOn
        <3> HIDE DEF r
        <3>5. F[x] + (F[a] + g[r]) = F[a] + (F[x] + g[r])
            BY <3>4
        <3> QED
            BY <2>2, <3>2, <3>3, <3>5
    <2> QED
        BY <2>3, <2>4
<1>3. SUBSET S \subseteq T
    <2> HIDE DEF T
    <2> QED
        BY <1>1, <1>2, SubsetInduction
<1> QED
    BY <1>t, <1>3 DEF Sums

(* A sum over two sets without a common element is that of their sums.     *)
Additive(g, S) ==
    \A A \in SUBSET S, B \in SUBSET S : A \cap B = {} => g[A \cup B] = g[A] + g[B]

LEMMA SumUnion ==
    ASSUME NEW S, IsFiniteSet(S), NEW F, NatOn(F, S), NEW g, Sums(g, F, S)
    PROVE  Additive(g, S)
<1> SUFFICES ASSUME NEW A \in SUBSET S, NEW B \in SUBSET S, A \cap B = {}
             PROVE  g[A \cup B] = g[A] + g[B]
    BY DEF Additive
<1> DEFINE T == {s \in SUBSET S : s \cap B = {} => g[s \cup B] = g[s] + g[B]}
<1>t. g \in [SUBSET S -> Nat] /\ g[{}] = 0
    BY DEF Sums
<1>1. {} \in T
    <2>1. {} \cup B = B /\ g[B] \in Nat
        BY <1>t
    <2> QED
        BY <1>t, <2>1
<1>2. ASSUME NEW s \in SUBSET S, s # {}, \A x \in s : s \ {x} \in T PROVE s \in T
    <2>1. SUFFICES ASSUME s \cap B = {} PROVE g[s \cup B] = g[s] + g[B]
        OBVIOUS
    <2>2. PICK a \in s : TRUE
        BY <1>2
    <2> DEFINE r == s \ {a}
    <2>3. (s \cup B) \ {a} = r \cup B /\ r \cap B = {} /\ a \in s \cup B /\ s \cup B \in SUBSET S
        BY <2>1
    <2>4. g[r \cup B] = g[r] + g[B]
        BY <1>2, <2>3
    <2>5. g[s] = F[a] + g[r]
        BY DEF Sums
    <2>6. g[s \cup B] = F[a] + g[r \cup B]
        BY <2>3 DEF Sums
    <2>7. F[a] \in Nat /\ g[r] \in Nat /\ g[B] \in Nat
        BY <1>t DEF NatOn
    <2> HIDE DEF r
    <2>8. F[a] + (g[r] + g[B]) = (F[a] + g[r]) + g[B]
        BY <2>7
    <2> QED
        BY <2>4, <2>5, <2>6, <2>8
<1>3. SUBSET S \subseteq T
    <2> HIDE DEF T
    <2> QED
        BY <1>1, <1>2, SubsetInduction
<1> QED
    BY <1>3


(* A sum over fewer elements is the sum of those.                          *)
LEMMA SumRestriction ==
    ASSUME NEW S, IsFiniteSet(S), NEW F, NEW g, IsSum(g, F, S),
           NEW R \in SUBSET S, NEW h, IsSum(h, F, R)
    PROVE  g[R] = h[R]
<1> DEFINE T == {s \in SUBSET R : g[s] = h[s]}
<1>f. IsFiniteSet(R)
    BY FS_Subset
<1>g. \A s \in SUBSET R : g[s] = SumStep(g, F, s) /\ h[s] = SumStep(h, F, s)
    BY DEF IsSum
<1>1. {} \in T
    BY <1>g DEF SumStep
<1>2. ASSUME NEW s \in SUBSET R, s # {}, \A x \in s : s \ {x} \in T PROVE s \in T
    <2>1. Pick(s) \in s
        BY <1>2, Picked
    <2> QED
        BY <1>2, <1>g, <2>1 DEF SumStep
<1>3. SUBSET R \subseteq T
    <2> HIDE DEF T
    <2> QED
        BY <1>f, <1>1, <1>2, SubsetInduction
<1> QED
    BY <1>3

(* t is the sum of the values that F gives to the elements of S.           *)
IsTotal(t, F, S) == \E g : IsSum(g, F, S) /\ t = g[S]

LEMMA TotalType ==
    ASSUME NEW S, IsFiniteSet(S), NEW F, NatOn(F, S),
           NEW t, IsTotal(t, F, S)
    PROVE  t \in Nat /\ (S = {} => t = 0)
<1>1. PICK g : IsSum(g, F, S) /\ t = g[S]
    BY DEF IsTotal
<1>2. g \in [SUBSET S -> Nat] /\ g[{}] = 0
    BY <1>1, SumType
<1> QED
    BY <1>1, <1>2

\* t is the sum of the numbers u and v.
Adds(t, u, v) == u \in Nat /\ v \in Nat /\ t = u + v

(* Of two sets without a common element, the totals add up.                *)
LEMMA TotalUnion ==
    ASSUME NEW A, NEW B, NEW F, NatOn(F, A), NatOn(F, B), IsFiniteSet(A), IsFiniteSet(B), A \cap B = {},
           NEW t, IsTotal(t, F, A \cup B), NEW u, IsTotal(u, F, A), NEW v, IsTotal(v, F, B)
    PROVE  Adds(t, u, v)
<1> DEFINE S == A \cup B
<1>1. PICK g : IsSum(g, F, S) /\ t = g[S]
    BY DEF IsTotal
<1>2. PICK h : IsSum(h, F, A) /\ u = h[A]
    BY DEF IsTotal
<1>3. PICK k : IsSum(k, F, B) /\ v = k[B]
    BY DEF IsTotal
<1>4. IsFiniteSet(S) /\ NatOn(F, S) /\ A \in SUBSET S /\ B \in SUBSET S
    BY FS_Union DEF NatOn
<1>5. g[A \cup B] = g[A] + g[B]
    <2> HIDE DEF S
    <2>1. Sums(g, F, S)
        BY <1>1, <1>4, SumOrder
    <2>2. Additive(g, S)
        BY <1>4, <2>1, SumUnion
    <2> QED
        BY <1>4, <2>2 DEF Additive
<1>6. g[A] = h[A] /\ g[B] = k[B]
    BY <1>1, <1>2, <1>3, <1>4, SumRestriction
<1>7. u \in Nat /\ v \in Nat
    BY TotalType
<1> QED
    BY <1>1, <1>2, <1>3, <1>5, <1>6, <1>7 DEF Adds

(* A running total that grows by the values of the days, from nothing, ends*)
(* as their sum.                                                           *)
LEMMA RunningTotal ==
    ASSUME NEW first \in Int, NEW last \in Int, first <= last + 1,
           NEW F, NatOn(F, first..last),
           NEW c \in [(first - 1)..last -> Nat],
           c[first - 1] = 0, \A d \in first..last : c[d] = c[d - 1] + F[d],
           NEW t, IsTotal(t, F, first..last)
    PROVE  t = c[last]
<1>1. PICK g : IsSum(g, F, first..last) /\ t = g[first..last]
    BY DEF IsTotal
<1>2. IsFiniteSet(first..last)
    BY FS_Interval
<1>3. Sums(g, F, first..last)
    BY <1>1, <1>2, SumOrder
<1> DEFINE T == {n \in Nat : first - 1 + n <= last => g[first..(first - 1 + n)] = c[first - 1 + n]}
<1>4. 0 \in T
    <2>1. first..(first - 1 + 0) = {}
        OBVIOUS
    <2> QED
        BY <1>3, <2>1 DEF Sums
<1>5. ASSUME NEW n \in Nat, n \in T PROVE n + 1 \in T
    <2> DEFINE d == first - 1 + (n + 1)
    <2>1. SUFFICES ASSUME d <= last PROVE g[first..d] = c[d]
        OBVIOUS
    <2>2. d \in first..last /\ d - 1 = first - 1 + n /\ d - 1 <= last
        BY <2>1
    <2>3. g[first..(d - 1)] = c[d - 1]
        BY <1>5, <2>2
    <2> HIDE DEF d
    <2>4. (first..d) \ {d} = first..(d - 1) /\ d \in first..d /\ first..d \in SUBSET (first..last)
        <3>1. first \in Int /\ d \in Int /\ last \in Int /\ d <= last /\ first <= d
            BY <2>2
        <3> QED
            BY <3>1
    <2>5. g[first..d] = F[d] + g[first..(d - 1)]
        BY <1>3, <2>4, ZenonT(40) DEF Sums
    <2>6. c[d] = c[d - 1] + F[d] /\ F[d] \in Nat /\ c[d - 1] \in Nat
        BY <2>2 DEF NatOn
    <2> QED
        BY <2>3, <2>5, <2>6
<1>6. last - first + 1 \in T
    <2>1. last - first + 1 \in Nat
        OBVIOUS
    <2> HIDE DEF T
    <2> QED
        BY <1>4, <1>5, <2>1, SetInduction
<1>7. first - 1 + (last - first + 1) = last
    OBVIOUS
<1> QED
    BY <1>1, <1>6, <1>7

-----------------------------------------------------------------------------
(* The sums of a report, as totals of a function of the rows.              *)

LEMMA AsrTotal ==
    ASSUME NEW M, IsFiniteSet(M), NEW F, \A m \in M : F[m] = m.seconds
    PROVE  IsTotal(AsrSeconds(M), F, M)
<1> DEFINE Body(g, s) == IF s = {} THEN 0
                         ELSE Pick(s).seconds + g[s \ {Pick(s)}]
           iter == CHOOSE g : g = [s \in SUBSET M |-> Body(g, s)]
<1>1. AsrSeconds(M) = iter[M]
    BY Zenon DEF AsrSeconds, Total, MapThenSumSet, MapThenFoldSet, Pick
<1>2. ASSUME NEW g, NEW s \in SUBSET M PROVE SumStep(g, F, s) = Body(g, s)
    <2>1. s # {} => Pick(s) \in M /\ F[Pick(s)] = Pick(s).seconds
        BY Picked
    <2> QED
        BY <2>1 DEF SumStep
<1> HIDE DEF Body
<1>3. ASSUME NEW g PROVE IsSum(g, F, M) <=> g = [s \in SUBSET M |-> Body(g, s)]
    BY <1>2, Zenon DEF IsSum
<1>4. \E g : g = [s \in SUBSET M |-> Body(g, s)]
    BY <1>3, SumExists
<1>5. IsSum(iter, F, M)
    BY <1>3, <1>4, Zenon
<1> QED
    BY <1>1, <1>5, Zenon DEF IsTotal

\* What an event adds to the tokens.
InputOf(e) == IF e.type \in {Interim, Final} THEN Tokens(e.english) ELSE 0
OutputOf(e) == IF e.type = Final THEN Tokens(e.chinese) ELSE 0

LEMMA InputTotal ==
    ASSUME NEW E, IsFiniteSet(E), NEW F, \A e \in E : F[e] = InputOf(e)
    PROVE  IsTotal(InputTokens(E), F, E)
<1> DEFINE Body(g, s) == IF s = {} THEN 0
                         ELSE InputOf(Pick(s)) + g[s \ {Pick(s)}]
           iter == CHOOSE g : g = [s \in SUBSET E |-> Body(g, s)]
<1>1. InputTokens(E) = iter[E]
    BY Zenon DEF InputTokens, InputOf, Total, MapThenSumSet, MapThenFoldSet, Pick
<1>2. ASSUME NEW g, NEW s \in SUBSET E PROVE SumStep(g, F, s) = Body(g, s)
    <2>1. s # {} => Pick(s) \in E /\ F[Pick(s)] = InputOf(Pick(s))
        BY Picked
    <2> QED
        BY <2>1 DEF SumStep
<1> HIDE DEF Body
<1>3. ASSUME NEW g PROVE IsSum(g, F, E) <=> g = [s \in SUBSET E |-> Body(g, s)]
    BY <1>2, Zenon DEF IsSum
<1>4. \E g : g = [s \in SUBSET E |-> Body(g, s)]
    BY <1>3, SumExists
<1>5. IsSum(iter, F, E)
    BY <1>3, <1>4, Zenon
<1> QED
    BY <1>1, <1>5, Zenon DEF IsTotal

LEMMA OutputTotal ==
    ASSUME NEW E, IsFiniteSet(E), NEW F, \A e \in E : F[e] = OutputOf(e)
    PROVE  IsTotal(OutputTokens(E), F, E)
<1> DEFINE Body(g, s) == IF s = {} THEN 0
                         ELSE OutputOf(Pick(s)) + g[s \ {Pick(s)}]
           iter == CHOOSE g : g = [s \in SUBSET E |-> Body(g, s)]
<1>1. OutputTokens(E) = iter[E]
    BY Zenon DEF OutputTokens, OutputOf, Total, MapThenSumSet, MapThenFoldSet, Pick
<1>2. ASSUME NEW g, NEW s \in SUBSET E PROVE SumStep(g, F, s) = Body(g, s)
    <2>1. s # {} => Pick(s) \in E /\ F[Pick(s)] = OutputOf(Pick(s))
        BY Picked
    <2> QED
        BY <2>1 DEF SumStep
<1> HIDE DEF Body
<1>3. ASSUME NEW g PROVE IsSum(g, F, E) <=> g = [s \in SUBSET E |-> Body(g, s)]
    BY <1>2, Zenon DEF IsSum
<1>4. \E g : g = [s \in SUBSET E |-> Body(g, s)]
    BY <1>3, SumExists
<1>5. IsSum(iter, F, E)
    BY <1>3, <1>4, Zenon
<1> QED
    BY <1>1, <1>5, Zenon DEF IsTotal

\* The sum that Totals takes of a figure.
DaysSum(daily, f) == Total(LAMBDA d : daily[d][f], DOMAIN daily)

LEMMA DaysTotal ==
    ASSUME NEW daily, NEW f, IsFiniteSet(DOMAIN daily), NEW F, \A d \in DOMAIN daily : F[d] = daily[d][f]
    PROVE  IsTotal(DaysSum(daily, f), F, DOMAIN daily)
<1> DEFINE Body(g, s) == IF s = {} THEN 0
                         ELSE daily[Pick(s)][f] + g[s \ {Pick(s)}]
           iter == CHOOSE g : g = [s \in SUBSET DOMAIN daily |-> Body(g, s)]
<1>1. DaysSum(daily, f) = iter[DOMAIN daily]
    BY Zenon DEF DaysSum, Total, MapThenSumSet, MapThenFoldSet, Pick
<1>2. ASSUME NEW g, NEW s \in SUBSET DOMAIN daily PROVE SumStep(g, F, s) = Body(g, s)
    <2>1. s # {} => Pick(s) \in DOMAIN daily /\ F[Pick(s)] = daily[Pick(s)][f]
        BY Picked
    <2> QED
        BY <2>1 DEF SumStep
<1> HIDE DEF Body
<1>3. ASSUME NEW g PROVE IsSum(g, F, DOMAIN daily) <=> g = [s \in SUBSET DOMAIN daily |-> Body(g, s)]
    BY <1>2, Zenon DEF IsSum
<1>4. \E g : g = [s \in SUBSET DOMAIN daily |-> Body(g, s)]
    BY <1>3, SumExists
<1>5. IsSum(iter, F, DOMAIN daily)
    BY <1>3, <1>4, Zenon
<1> QED
    BY <1>1, <1>5, Zenon DEF IsTotal

-----------------------------------------------------------------------------
(* What rows hold.                                                         *)

MeetingRows(M) == IsFiniteSet(M) /\ \A m \in M : m.seconds \in Nat
UsageRows(E) == IsFiniteSet(E) /\ \A e \in E : e.english \in Int /\ e.chinese \in Int

(* An estimate of tokens is never negative, whatever the length.           *)
LEMMA TokensAreNat == ASSUME NEW n \in Int PROVE Tokens(n) \in Nat
<1>1. (n + 3) \div 4 \in Int
    BY Quotient
<1>2. n > 0 => 0 <= (n + 3) \div 4
    BY Division
<1> QED
    BY <1>1, <1>2 DEF Tokens

(* Each figure of rows A and of rows B, none in both, adds up to that of all.*)
LEMMA CardinalityAdds ==
    ASSUME NEW A, NEW B, IsFiniteSet(A), IsFiniteSet(B), A \cap B = {}
    PROVE  Adds(Cardinality(A \cup B), Cardinality(A), Cardinality(B))
<1>1. Cardinality(A) \in Nat /\ Cardinality(B) \in Nat
    BY FS_CardinalityType
<1>2. Cardinality(A \cup B) = Cardinality(A) + Cardinality(B) - Cardinality(A \cap B)
    BY FS_Union
<1>3. Cardinality(A \cap B) = 0
    BY FS_EmptySet
<1> QED
    BY <1>1, <1>2, <1>3 DEF Adds

LEMMA CountAdds ==
    ASSUME NEW A, NEW B, IsFiniteSet(A), IsFiniteSet(B), A \cap B = {}, NEW types
    PROVE  Adds(Count(A \cup B, types), Count(A, types), Count(B, types))
<1> DEFINE Of(X) == {e \in X : e.type \in types}
<1>1. Of(A \cup B) = Of(A) \cup Of(B) /\ Of(A) \cap Of(B) = {}
    OBVIOUS
<1>2. IsFiniteSet(Of(A)) /\ IsFiniteSet(Of(B))
    BY FS_Subset
<1>3. \A X : Count(X, types) = Cardinality(Of(X))
    BY DEF Count
<1> HIDE DEF Of
<1> QED
    BY <1>1, <1>2, <1>3, CardinalityAdds

LEMMA EffectiveAdds ==
    ASSUME NEW A, NEW B, IsFiniteSet(A), IsFiniteSet(B), A \cap B = {}
    PROVE  Adds(Cardinality(Effective(A \cup B)), Cardinality(Effective(A)), Cardinality(Effective(B)))
<1>1. Effective(A \cup B) = Effective(A) \cup Effective(B) /\ Effective(A) \cap Effective(B) = {}
    BY DEF Effective
<1>2. Effective(A) \in SUBSET A /\ Effective(B) \in SUBSET B
    BY DEF Effective
<1>3. IsFiniteSet(Effective(A)) /\ IsFiniteSet(Effective(B))
    BY <1>2, FS_Subset
<1> QED
    BY <1>1, <1>3, CardinalityAdds

LEMMA AsrAdds ==
    ASSUME NEW A, NEW B, MeetingRows(A), MeetingRows(B), A \cap B = {}
    PROVE  Adds(AsrSeconds(A \cup B), AsrSeconds(A), AsrSeconds(B))
<1> DEFINE F == [m \in A \cup B |-> m.seconds]
<1>1. NatOn(F, A) /\ NatOn(F, B)
    BY DEF NatOn, MeetingRows
<1>2. IsFiniteSet(A) /\ IsFiniteSet(B) /\ IsFiniteSet(A \cup B)
    BY FS_Union DEF MeetingRows
<1>3. \A m \in A \cup B : F[m] = m.seconds
    OBVIOUS
<1> HIDE DEF F
<1>4. IsTotal(AsrSeconds(A), F, A) /\ IsTotal(AsrSeconds(B), F, B)
      /\ IsTotal(AsrSeconds(A \cup B), F, A \cup B)
    BY <1>2, <1>3, AsrTotal
<1> QED
    BY <1>1, <1>2, <1>4, TotalUnion

LEMMA InputAdds ==
    ASSUME NEW A, NEW B, UsageRows(A), UsageRows(B), A \cap B = {}
    PROVE  Adds(InputTokens(A \cup B), InputTokens(A), InputTokens(B))
<1> DEFINE F == [e \in A \cup B |-> InputOf(e)]
<1>1. NatOn(F, A) /\ NatOn(F, B)
    BY TokensAreNat DEF NatOn, UsageRows, InputOf
<1>2. IsFiniteSet(A) /\ IsFiniteSet(B) /\ IsFiniteSet(A \cup B)
    BY FS_Union DEF UsageRows
<1>3. \A e \in A \cup B : F[e] = InputOf(e)
    OBVIOUS
<1> HIDE DEF F
<1>4. IsTotal(InputTokens(A), F, A) /\ IsTotal(InputTokens(B), F, B)
      /\ IsTotal(InputTokens(A \cup B), F, A \cup B)
    BY <1>2, <1>3, InputTotal
<1> QED
    BY <1>1, <1>2, <1>4, TotalUnion

LEMMA OutputAdds ==
    ASSUME NEW A, NEW B, UsageRows(A), UsageRows(B), A \cap B = {}
    PROVE  Adds(OutputTokens(A \cup B), OutputTokens(A), OutputTokens(B))
<1> DEFINE F == [e \in A \cup B |-> OutputOf(e)]
<1>1. NatOn(F, A) /\ NatOn(F, B)
    BY TokensAreNat DEF NatOn, UsageRows, OutputOf
<1>2. IsFiniteSet(A) /\ IsFiniteSet(B) /\ IsFiniteSet(A \cup B)
    BY FS_Union DEF UsageRows
<1>3. \A e \in A \cup B : F[e] = OutputOf(e)
    OBVIOUS
<1> HIDE DEF F
<1>4. IsTotal(OutputTokens(A), F, A) /\ IsTotal(OutputTokens(B), F, B)
      /\ IsTotal(OutputTokens(A \cup B), F, A \cup B)
    BY <1>2, <1>3, OutputTotal
<1> QED
    BY <1>1, <1>2, <1>4, TotalUnion

LEMMA Distribute ==
    ASSUME NEW p \in Nat, NEW t, NEW u, NEW v, Adds(t, u, v)
    PROVE  Adds(p * t, p * u, p * v)
BY DEF Adds

(* And so does the estimated cost, which is linear in three of them.       *)
LEMMA CostAdds ==
    ASSUME NEW A, NEW B, MeetingRows(A), MeetingRows(B), A \cap B = {},
           NEW C, NEW D, UsageRows(C), UsageRows(D), C \cap D = {}
    PROVE  Adds(EstimatedCost(A \cup B, C \cup D), EstimatedCost(A, C), EstimatedCost(B, D))
<1>1. Adds(AsrPrice * AsrSeconds(A \cup B), AsrPrice * AsrSeconds(A), AsrPrice * AsrSeconds(B))
    BY PriceAssumption, AsrAdds, Distribute
<1>2. Adds(InputPrice * InputTokens(C \cup D), InputPrice * InputTokens(C), InputPrice * InputTokens(D))
    BY PriceAssumption, InputAdds, Distribute
<1>3. Adds(OutputPrice * OutputTokens(C \cup D), OutputPrice * OutputTokens(C),
           OutputPrice * OutputTokens(D))
    BY PriceAssumption, OutputAdds, Distribute
<1> QED
    BY <1>1, <1>2, <1>3 DEF EstimatedCost, Adds

\* The figures that Totals adds up: all but the clients.
AddedUp == {"meetings", "effective", "asr", "interims", "finals", "input", "output", "exports",
            "errors", "fuse", "cost"}

LEMMA MetricAdds ==
    ASSUME NEW A, NEW B, MeetingRows(A), MeetingRows(B), A \cap B = {},
           NEW C, NEW D, UsageRows(C), UsageRows(D), C \cap D = {}, NEW f \in AddedUp
    PROVE  Adds(DailyMetric(A \cup B, C \cup D)[f], DailyMetric(A, C)[f], DailyMetric(B, D)[f])
<1>1. IsFiniteSet(A) /\ IsFiniteSet(B) /\ IsFiniteSet(C) /\ IsFiniteSet(D)
    BY DEF MeetingRows, UsageRows
<1>2. Adds(Cardinality(A \cup B), Cardinality(A), Cardinality(B))
    BY <1>1, CardinalityAdds
<1>3. Adds(Cardinality(Effective(A \cup B)), Cardinality(Effective(A)), Cardinality(Effective(B)))
    BY <1>1, EffectiveAdds
<1>4. \A types : Adds(Count(C \cup D, types), Count(C, types), Count(D, types))
    BY <1>1, CountAdds
<1>5. Adds(AsrSeconds(A \cup B), AsrSeconds(A), AsrSeconds(B))
    BY AsrAdds
<1>6. Adds(InputTokens(C \cup D), InputTokens(C), InputTokens(D))
    BY InputAdds
<1>7. Adds(OutputTokens(C \cup D), OutputTokens(C), OutputTokens(D))
    BY OutputAdds
<1>8. Adds(EstimatedCost(A \cup B, C \cup D), EstimatedCost(A, C), EstimatedCost(B, D))
    BY CostAdds
<1>9. CASE f = "meetings"
    BY <1>2, <1>9 DEF DailyMetric
<1>10. CASE f = "effective"
    BY <1>3, <1>10 DEF DailyMetric
<1>11. CASE f = "asr"
    BY <1>5, <1>11 DEF DailyMetric
<1>12. CASE f = "input"
    BY <1>6, <1>12 DEF DailyMetric
<1>13. CASE f = "output"
    BY <1>7, <1>13 DEF DailyMetric
<1>14. CASE f = "cost"
    BY <1>8, <1>14 DEF DailyMetric
<1>15. CASE f \in {"interims", "finals", "exports", "errors", "fuse"}
    BY <1>4, <1>15 DEF DailyMetric
<1> QED
    BY <1>9, <1>10, <1>11, <1>12, <1>13, <1>14, <1>15 DEF AddedUp

-----------------------------------------------------------------------------
(* The days of a window add up to the window.                              *)

(* The tables hold finitely many rows, and rows hold numbers.              *)
RowsTyped ==
    /\ MeetingRows(meetings) /\ UsageRows(usage)
    /\ \A m \in meetings : "seconds" \in DOMAIN m

LEMMA RowsTypedHolds == DashboardSpec => []RowsTyped
<1>1. DashboardInit => RowsTyped
    BY FS_EmptySet DEF DashboardInit, RowsTyped, MeetingRows, UsageRows
<1>2. RowsTyped /\ [DashboardNext]_dashboardVars => RowsTyped'
    <2> SUFFICES ASSUME RowsTyped, [DashboardNext]_dashboardVars PROVE RowsTyped'
        OBVIOUS
    <2> USE DEF RowsTyped, MeetingRows, UsageRows
    <2>1. CASE StartMeeting
        <3>1. PICK c \in Clients, p \in {TencentWeb, "other"} :
                  meetings' = meetings \cup {[id |-> Cardinality(meetings), client |-> c, at |-> clock,
                                              seconds |-> 0, platform |-> p, status |-> "active"]}
            BY <2>1 DEF StartMeeting
        <3> DEFINE m == [id |-> Cardinality(meetings), client |-> c, at |-> clock,
                         seconds |-> 0, platform |-> p, status |-> "active"]
        <3>2. m.seconds \in Nat /\ "seconds" \in DOMAIN m
            OBVIOUS
        <3> HIDE DEF m
        <3>3. IsFiniteSet(meetings')
            BY <3>1, FS_AddElement DEF m
        <3> QED
            BY <2>1, <3>1, <3>2, <3>3 DEF StartMeeting, m
    <2>2. CASE CloseMeeting
        <3>1. PICK m \in meetings, seconds \in 0..1, status \in {"ended", "error"} :
                  meetings' = (meetings \ {m})
                                  \cup {[m EXCEPT !.seconds = seconds, !.status = status]}
            BY <2>2 DEF CloseMeeting
        <3> DEFINE closed == [m EXCEPT !.seconds = seconds, !.status = status]
        <3>2. "seconds" \in DOMAIN closed /\ closed.seconds \in Nat
            OBVIOUS
        <3> HIDE DEF closed
        <3>3. IsFiniteSet(meetings')
            BY <3>1, FS_AddElement, FS_RemoveElement DEF closed
        <3> QED
            BY <2>2, <3>1, <3>2, <3>3 DEF CloseMeeting, closed
    <2>3. CASE RecordUsage
        <3>1. PICK type \in CountedTypes, c \in Clients :
                  usage' = usage \cup {[id |-> Cardinality(usage), client |-> c, type |-> type,
                                        at |-> clock, english |-> 5,
                                        chinese |-> IF type = Final THEN 4 ELSE 0]}
            BY <2>3 DEF RecordUsage
        <3> DEFINE e == [id |-> Cardinality(usage), client |-> c, type |-> type, at |-> clock,
                         english |-> 5, chinese |-> IF type = Final THEN 4 ELSE 0]
        <3>2. e.english \in Int /\ e.chinese \in Int
            OBVIOUS
        <3> HIDE DEF e
        <3>3. IsFiniteSet(usage')
            BY <3>1, FS_AddElement DEF e
        <3> QED
            BY <2>3, <3>1, <3>2, <3>3 DEF RecordUsage, e
    <2>4. CASE HourPasses
        BY <2>4 DEF HourPasses
    <2>5. CASE UNCHANGED dashboardVars
        BY <2>5 DEF dashboardVars
    <2> QED
        BY <2>1, <2>2, <2>3, <2>4, <2>5 DEF DashboardNext
<1> QED
    BY <1>1, <1>2, PTL DEF DashboardSpec

(* The rows of any part of the tables.                                     *)
LEMMA RowsOfTypes ==
    ASSUME RowsTyped, NEW A \in SUBSET meetings, NEW C \in SUBSET usage
    PROVE  MeetingRows(A) /\ UsageRows(C)
<1>1. IsFiniteSet(A) /\ IsFiniteSet(C)
    BY FS_Subset DEF RowsTyped, MeetingRows, UsageRows
<1> QED
    BY <1>1 DEF RowsTyped, MeetingRows, UsageRows

(* Rows of the days of an interval, and of one day.                        *)
Dated(table, first, last) == {x \in table : first <= LocalDay(x.at) /\ LocalDay(x.at) <= last}
OnDay(table, d) == {x \in table : LocalDay(x.at) = d}

(* One day more of an interval.                                            *)
LEMMA DatedStep ==
    ASSUME NEW table, \A x \in table : LocalDay(x.at) \in Int,
           NEW first \in Int, NEW d \in Int, first <= d
    PROVE  /\ Dated(table, first, d) = Dated(table, first, d - 1) \cup OnDay(table, d)
           /\ Dated(table, first, d - 1) \cap OnDay(table, d) = {}
           /\ Dated(table, first, first - 1) = {}
<1>1. ASSUME NEW x \in table
      PROVE  /\ (first <= LocalDay(x.at) /\ LocalDay(x.at) <= d)
                    <=> ((first <= LocalDay(x.at) /\ LocalDay(x.at) <= d - 1) \/ LocalDay(x.at) = d)
             /\ ~(LocalDay(x.at) <= d - 1 /\ LocalDay(x.at) = d)
             /\ ~(first <= LocalDay(x.at) /\ LocalDay(x.at) <= first - 1)
    <2> DEFINE day == LocalDay(x.at)
    <2>1. day \in Int
        OBVIOUS
    <2> HIDE DEF day
    <2>2. /\ (first <= day /\ day <= d) <=> ((first <= day /\ day <= d - 1) \/ day = d)
          /\ ~(day <= d - 1 /\ day = d)
          /\ ~(first <= day /\ day <= first - 1)
        BY <2>1
    <2> QED
        BY <2>2 DEF day
<1> QED
    BY <1>1 DEF Dated, OnDay

(* A figure of the rows of some days is the sum of the figures of each day,*)
(* for every figure but the number of clients.                             *)
LEMMA DaysAddUp ==
    ASSUME RowsTyped, RowsDated, NEW first \in Int, NEW last \in Int, first <= last + 1,
           NEW f \in AddedUp,
           NEW t, IsTotal(t, [d \in first..last |-> DailyMetric(OnDay(meetings, d), OnDay(usage, d))[f]],
                          first..last)
    PROVE  t = DailyMetric(Dated(meetings, first, last), Dated(usage, first, last))[f]
<1> DEFINE On(d) == DailyMetric(OnDay(meetings, d), OnDay(usage, d))[f]
           Upto(d) == DailyMetric(Dated(meetings, first, d), Dated(usage, first, d))[f]
           F == [d \in first..last |-> On(d)]
           c == [d \in (first - 1)..last |-> Upto(d)]
<1>0. \A x \in meetings \cup usage : LocalDay(x.at) \in Int
    <2>1. \A x \in meetings \cup usage : x.at \in Int
        BY DEF RowsDated
    <2>2. \A n \in Int : LocalDay(n) \in Int
        BY DayBegins
    <2> QED
        BY <2>1, <2>2
<1>1. ASSUME NEW d \in Int
      PROVE  /\ MeetingRows(OnDay(meetings, d)) /\ UsageRows(OnDay(usage, d))
             /\ MeetingRows(Dated(meetings, first, d)) /\ UsageRows(Dated(usage, first, d))
    <2>1. /\ OnDay(meetings, d) \in SUBSET meetings /\ Dated(meetings, first, d) \in SUBSET meetings
          /\ OnDay(usage, d) \in SUBSET usage /\ Dated(usage, first, d) \in SUBSET usage
        BY DEF OnDay, Dated
    <2> QED
        BY <2>1, RowsOfTypes
<1>2. ASSUME NEW d \in Int, first <= d PROVE Adds(Upto(d), Upto(d - 1), On(d))
    <2>1. /\ Dated(meetings, first, d) = Dated(meetings, first, d - 1) \cup OnDay(meetings, d)
          /\ Dated(meetings, first, d - 1) \cap OnDay(meetings, d) = {}
        BY <1>0, <1>2, DatedStep
    <2>2. /\ Dated(usage, first, d) = Dated(usage, first, d - 1) \cup OnDay(usage, d)
          /\ Dated(usage, first, d - 1) \cap OnDay(usage, d) = {}
        BY <1>0, <1>2, DatedStep
    <2>3. MeetingRows(OnDay(meetings, d)) /\ UsageRows(OnDay(usage, d))
        BY <1>1
    <2>4. d - 1 \in Int
        OBVIOUS
    <2>5. MeetingRows(Dated(meetings, first, d - 1)) /\ UsageRows(Dated(usage, first, d - 1))
        BY <1>1, <2>4
    <2> QED
        BY <2>1, <2>2, <2>3, <2>5, MetricAdds
<1>3. Upto(first - 1) = 0
    <2>1. Dated(meetings, first, first - 1) = {} /\ Dated(usage, first, first - 1) = {}
        BY <1>0, DatedStep
    <2>2. MeetingRows({}) /\ UsageRows({})
        BY RowsOfTypes
    <2>3. Adds(DailyMetric({} \cup {}, {} \cup {})[f], DailyMetric({}, {})[f], DailyMetric({}, {})[f])
        BY <2>2, MetricAdds
    <2>4. {} \cup {} = {}
        OBVIOUS
    <2> DEFINE z == DailyMetric({}, {})[f]
    <2>5. Adds(z, z, z)
        BY <2>3, <2>4
    <2> HIDE DEF z
    <2>6. z = 0
        BY <2>5 DEF Adds
    <2> QED
        BY <2>1, <2>6 DEF z
<1> HIDE DEF On, Upto
<1>4. \A d \in first..last : Upto(d - 1) \in Nat /\ On(d) \in Nat /\ Upto(d) = Upto(d - 1) + On(d)
    BY <1>2 DEF Adds
<1>5. \A d \in (first - 1)..last : Upto(d) \in Nat
    <2>1. ASSUME NEW d \in (first - 1)..last PROVE Upto(d) \in Nat
        <3>1. d + 1 \in Int /\ first <= d + 1 /\ (d + 1) - 1 = d
            OBVIOUS
        <3>2. Adds(Upto(d + 1), Upto((d + 1) - 1), On(d + 1))
            BY <1>2, <3>1
        <3> QED
            BY <3>1, <3>2 DEF Adds
    <2> QED
        BY <2>1
<1>6. c \in [(first - 1)..last -> Nat] /\ c[first - 1] = 0 /\ c[last] = Upto(last)
    BY <1>3, <1>5
<1>7. NatOn(F, first..last) /\ \A d \in first..last : c[d] = c[d - 1] + F[d]
    <2>1. \A d \in first..last : d \in (first - 1)..last /\ d - 1 \in (first - 1)..last
        OBVIOUS
    <2> QED
        BY <1>4, <2>1 DEF NatOn
<1>8. IsTotal(t, F, first..last)
    BY DEF On
<1> HIDE DEF c, F
<1>9. t = c[last]
    BY <1>6, <1>7, <1>8, RunningTotal
<1> QED
    BY <1>6, <1>9 DEF Upto

Figures == AddedUp \cup {"clients"}

(* A day's record has these figures and no other.                          *)
LEMMA MetricRecord ==
    ASSUME NEW M, NEW E
    PROVE  DailyMetric(M, E) = [f \in Figures |-> DailyMetric(M, E)[f]]
BY DEF DailyMetric, Figures, AddedUp

(* The totals of a window's days are the figures of the window's rows.     *)
LEMMA TotalsAreExact ==
    ASSUME RowsTyped, RowsDated, NEW first \in Int, NEW last \in Int, first <= last + 1,
           NEW daily,
           daily = [d \in first..last |-> DailyMetric(OnDay(meetings, d), OnDay(usage, d))]
    PROVE  Totals(daily, Dated(meetings, first, last))
               = DailyMetric(Dated(meetings, first, last), Dated(usage, first, last))
<1> DEFINE M == Dated(meetings, first, last)
           E == Dated(usage, first, last)
<1>1. DOMAIN DailyMetric({}, {}) = Figures
    BY DEF DailyMetric, Figures, AddedUp
<1>2. ASSUME NEW f \in AddedUp
      PROVE  DaysSum(daily, f) = DailyMetric(M, E)[f]
    <2> DEFINE F == [d \in first..last |-> DailyMetric(OnDay(meetings, d), OnDay(usage, d))[f]]
    <2>1. IsFiniteSet(first..last) /\ DOMAIN daily = first..last
        BY FS_Interval
    <2>2. \A d \in DOMAIN daily : F[d] = daily[d][f]
        OBVIOUS
    <2> HIDE DEF F
    <2>3. IsTotal(DaysSum(daily, f), F, DOMAIN daily)
        BY <2>1, <2>2, DaysTotal
    <2> QED
        BY <2>1, <2>3, DaysAddUp DEF F
<1>3. "clients" \notin AddedUp
    BY DEF AddedUp
<1>4. DailyMetric(M, E)["clients"] = Cardinality(ClientsOf(M))
    BY DEF DailyMetric
<1>5. Totals(daily, M) = [f \in Figures |-> DailyMetric(M, E)[f]]
    BY <1>1, <1>2, <1>3, <1>4, Zenon DEF Totals, Figures, DaysSum
<1> QED
    BY <1>5, MetricRecord

(* ReportIsExact of one window.                                            *)
FiguresExact(days) ==
    LET report == BuildDashboard(days)
        today == LocalDay(clock)
        recent(table) == {x \in table : today - LocalDay(x.at) < days}
        thisMonth(table) == {x \in table : LocalDay(x.at) \div Days = today \div Days} IN
    /\ report.totals = DailyMetric(recent(meetings), recent(usage))
    /\ report.quality.successful <= report.totals.effective
    /\ report.funnels.exported = report.totals.exports
    /\ report.monthCost = EstimatedCost(thisMonth(meetings), thisMonth(usage))

(* The rows of a report are exact, so are its days, and so are their sums.  *)
LEMMA ReportOfRows ==
    ASSUME RowsTyped, RowsDated, NEW days \in Nat \ {0}, RowsExact(days)
    PROVE  FiguresExact(days)
<1> DEFINE today == LocalDay(clock)
           first == WindowStart(days)
           report == BuildDashboard(days)
           recent(table) == {x \in table : today - LocalDay(x.at) < days}
           thisMonth(table) == {x \in table : LocalDay(x.at) \div Days = today \div Days}
<1>1. today \in Int /\ first = today - (days - 1) /\ first \in Int /\ first <= today + 1
    BY DayBegins DEF RowsDated, WindowStart
<1>2. /\ report.daily = [d \in first..today |-> DailyMetric(OnDay(meetings, d), OnDay(usage, d))]
      /\ report.quality = Quality(recent(meetings), recent(usage))
      /\ report.funnels = Funnels(recent(usage))
      /\ report.monthCost = EstimatedCost(thisMonth(meetings), thisMonth(usage))
      /\ Between(ListRecords(meetings, days), WindowStart(days), today) = recent(meetings)
    BY Zenon DEF RowsExact, OnDay
<1>3. report.totals
          = Totals(report.daily, Between(ListRecords(meetings, days), WindowStart(days), today))
    BY Zenon DEF BuildDashboard
<1>4. ASSUME NEW x \in meetings \cup usage
      PROVE  today - LocalDay(x.at) < days <=> (first <= LocalDay(x.at) /\ LocalDay(x.at) <= today)
    <2>1. x.at \in Int /\ clock \in Int /\ x.at <= clock
        BY DEF RowsDated
    <2>2. LocalDay(x.at) \in Int
        BY <2>1, <1>1, DayBegins
    <2>3. LocalStart(LocalDay(x.at)) <= x.at /\ LocalStart(LocalDay(x.at)) \in Int
        BY <2>1, <2>2, DayBegins
    <2>4. LocalDay(x.at) <= today
        BY <2>1, <2>2, <2>3, DayBegins
    <2> HIDE DEF today, first
    <2> QED
        BY <1>1, <2>2, <2>4
<1>5. /\ recent(meetings) = Dated(meetings, first, today)
      /\ recent(usage) = Dated(usage, first, today)
    <2> HIDE DEF today, first
    <2> QED
        BY <1>4 DEF Dated
<1> DEFINE M == recent(meetings)
           E == recent(usage)
<1>6. report.totals = DailyMetric(M, E)
    <2> HIDE DEF report, recent, first, today
    <2>1. report.totals = Totals(report.daily, Dated(meetings, first, today))
        BY <1>2, <1>3, <1>5 DEF first
    <2>2. Totals(report.daily, Dated(meetings, first, today))
              = DailyMetric(Dated(meetings, first, today), Dated(usage, first, today))
        BY <1>1, <1>2, TotalsAreExact
    <2> QED
        BY <1>5, <2>1, <2>2
<1>7. report.quality.successful <= report.totals.effective
    <2> DEFINE tencent == {m \in M : m.platform = TencentWeb}
               successful == {m \in Effective(tencent) : m.status = "ended"}
    <2>1. M \in SUBSET meetings /\ successful \in SUBSET Effective(M) /\ Effective(M) \in SUBSET meetings
        BY DEF Effective
    <2>2. IsFiniteSet(Effective(M))
        BY <2>1, FS_Subset DEF RowsTyped, MeetingRows
    <2>3. Cardinality(successful) <= Cardinality(Effective(M))
        BY <2>1, <2>2, FS_Subset
    <2>4. report.quality.successful = Cardinality(successful)
        <3> HIDE DEF report, recent
        <3> QED
            BY <1>2 DEF Quality
    <2>5. report.totals.effective = Cardinality(Effective(M))
        <3> HIDE DEF report, recent
        <3> QED
            BY <1>6 DEF DailyMetric
    <2> QED
        BY <2>3, <2>4, <2>5
<1>8. report.funnels.exported = report.totals.exports
    <2> HIDE DEF report, recent
    <2> QED
        BY <1>2, <1>6 DEF Funnels, DailyMetric
<1> HIDE DEF report, recent, thisMonth
<1> QED
    BY <1>2, <1>6, <1>7, <1>8 DEF FiguresExact, report, recent, thisMonth

(* Every figure of the dashboard is that of the rows dated in its window, or *)
(* in the month, each counted once: however many days, rows and months, for*)
(* any calendar, time zone and prices, and also for windows no run asks for. *)
THEOREM ReportIsExactHolds ==
    DashboardSpec => [](ReportIsExact /\ \A days \in Nat \ {0} : FiguresExact(days))
<1>1. RowsTyped /\ RowsDated /\ (\A days \in Nat \ {0} : RowsExact(days))
          => \A days \in Nat \ {0} : FiguresExact(days)
    BY ReportOfRows
<1>2. (\A days \in Nat \ {0} : FiguresExact(days)) => ReportIsExact
    <2> SUFFICES ASSUME \A days \in Nat \ {0} : FiguresExact(days), NEW days \in 1..MaxWindow
                 PROVE  FiguresExact(days)
        BY Zenon DEF ReportIsExact, FiguresExact
    <2> QED
        OBVIOUS
<1> QED
    BY <1>1, <1>2, RowsTypedHolds, RowsDatedHolds, RowsAreExactHolds, PTL
=============================================================================
