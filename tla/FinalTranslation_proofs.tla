----------------------- MODULE FinalTranslation_proofs -----------------------
(***************************************************************************)
(* Theorems about FinalTranslation, for every number of streams and finals *)
(* and every fault that is not excluded by a theorem's hypothesis.         *)
(***************************************************************************)
EXTENDS FinalTranslation, SequenceTheorems, TLAPS

USE BoundsAssumption, NoFinalAssumption

-----------------------------------------------------------------------------
(* Lemmas about the queues of finals.                                       *)

(* Every two finals of a queue are in the order they were spoken.           *)
Ascending(s) == \A i, j \in DOMAIN s : i < j => s[i].sequence < s[j].sequence

LEMMA MembersEmpty == Members(<<>>) = {} /\ Ascending(<<>>)
  BY DEF Members, Ascending

LEMMA MembersAppend ==
    ASSUME NEW s \in Seq(Finals), NEW f \in Finals
    PROVE  /\ Append(s, f) \in Seq(Finals)
           /\ Members(Append(s, f)) = Members(s) \cup {f}
           /\ Ascending(s) /\ (\A g \in Members(s) : g.sequence < f.sequence)
                => Ascending(Append(s, f))
  <1>1. /\ Append(s, f) \in Seq(Finals) /\ Len(Append(s, f)) = Len(s) + 1
        /\ \A i \in 1..Len(s) : Append(s, f)[i] = s[i]
        /\ Append(s, f)[Len(s) + 1] = f
    BY AppendProperties
  <1>2. DOMAIN s = 1..Len(s) /\ DOMAIN Append(s, f) = 1..(Len(s) + 1) /\ Len(s) \in Nat
    BY <1>1, LenProperties
  <1>3. Members(Append(s, f)) = Members(s) \cup {f}
    BY <1>1, <1>2 DEF Members
  <1>4. ASSUME Ascending(s), \A g \in Members(s) : g.sequence < f.sequence
        PROVE  Ascending(Append(s, f))
    BY <1>1, <1>2, <1>4 DEF Members, Ascending
  <1>5. QED
    BY <1>1, <1>3, <1>4

LEMMA MembersTail ==
    ASSUME NEW s \in Seq(Finals), s # <<>>
    PROVE  /\ Head(s) \in Finals /\ Tail(s) \in Seq(Finals)
           /\ Members(s) = {Head(s)} \cup Members(Tail(s))
           /\ Ascending(s) => /\ Ascending(Tail(s))
                              /\ \A g \in Members(Tail(s)) : Head(s).sequence < g.sequence
  <1>1. /\ Head(s) = s[1] /\ s[1] \in Finals /\ Tail(s) \in Seq(Finals)
        /\ Len(s) \in Nat \ {0} /\ Len(Tail(s)) = Len(s) - 1
        /\ \A i \in 1..Len(Tail(s)) : Tail(s)[i] = s[i + 1]
    BY HeadTailProperties, EmptySeq, LenProperties
  <1>2. DOMAIN s = 1..Len(s) /\ DOMAIN Tail(s) = 1..(Len(s) - 1)
    BY <1>1, LenProperties
  <1>3. Members(s) = {Head(s)} \cup Members(Tail(s))
    <2>1. ASSUME NEW i \in DOMAIN s PROVE s[i] = Head(s) \/ s[i] \in Members(Tail(s))
      <3>1. CASE i = 1
        BY <1>1, <3>1
      <3>2. CASE i # 1
        <4>1. i - 1 \in DOMAIN Tail(s) /\ Tail(s)[i - 1] = s[i]
          BY <1>1, <1>2, <3>2
        <4>2. QED
          BY <4>1 DEF Members
      <3>3. QED
        BY <3>1, <3>2
    <2>2. ASSUME NEW i \in DOMAIN Tail(s) PROVE Tail(s)[i] \in Members(s)
      BY <1>1, <1>2 DEF Members
    <2>3. Head(s) \in Members(s)
      BY <1>1, <1>2 DEF Members
    <2>4. QED
      BY <2>1, <2>2, <2>3 DEF Members
  <1>4. ASSUME Ascending(s)
        PROVE  /\ Ascending(Tail(s))
               /\ \A g \in Members(Tail(s)) : Head(s).sequence < g.sequence
    BY <1>1, <1>2, <1>4 DEF Members, Ascending
  <1>5. QED
    BY <1>1, <1>3, <1>4

LEMMA MembersPrepend ==
    ASSUME NEW s \in Seq(Finals), NEW f \in Finals
    PROVE  /\ <<f>> \o s \in Seq(Finals)
           /\ Members(<<f>> \o s) = {f} \cup Members(s)
           /\ Ascending(s) /\ (\A g \in Members(s) : f.sequence < g.sequence)
                => Ascending(<<f>> \o s)
  <1> DEFINE t == <<f>> \o s
  <1>1. <<f>> \in Seq(Finals) /\ Len(<<f>>) = 1 /\ <<f>>[1] = f
    OBVIOUS
  <1>2. /\ t \in Seq(Finals) /\ Len(t) = 1 + Len(s) /\ Len(s) \in Nat
        /\ \A i \in 1..Len(t) : t[i] = IF i <= 1 THEN <<f>>[i] ELSE s[i - 1]
    BY <1>1, ConcatProperties, LenProperties
  <1>3. DOMAIN s = 1..Len(s) /\ DOMAIN t = 1..(1 + Len(s))
    BY <1>2, LenProperties
  <1>4. t[1] = f /\ \A i \in 1..Len(s) : i + 1 \in DOMAIN t /\ t[i + 1] = s[i]
    BY <1>1, <1>2, <1>3
  <1>5. \A i \in DOMAIN t : i = 1 \/ (i - 1 \in DOMAIN s /\ t[i] = s[i - 1])
    BY <1>2, <1>3
  <1> HIDE DEF t
  <1>6. Members(t) = {f} \cup Members(s)
    BY <1>3, <1>4, <1>5, SMTT(30) DEF Members
  <1>7. ASSUME Ascending(s), \A g \in Members(s) : f.sequence < g.sequence
        PROVE  Ascending(t)
    <2> SUFFICES ASSUME NEW i \in DOMAIN t, NEW j \in DOMAIN t, i < j
                 PROVE  t[i].sequence < t[j].sequence
      BY DEF Ascending
    <2>1. j - 1 \in DOMAIN s /\ t[j] = s[j - 1] /\ t[j] \in Members(s)
      BY <1>3, <1>5 DEF Members
    <2>2. CASE i = 1
      BY <1>4, <1>7, <2>1, <2>2
    <2>3. CASE i # 1
      BY <1>3, <1>5, <1>7, <2>1, <2>3 DEF Ascending
    <2>4. QED
      BY <2>2, <2>3
  <1>8. QED
    BY <1>2, <1>6, <1>7 DEF t

-----------------------------------------------------------------------------
(* Types, and what is empty when.                                           *)

LEMMA TypeInit == Init => TypeOK
  <1> SUFFICES ASSUME Init PROVE TypeOK
    OBVIOUS
  <1>1. <<>> \in Seq(Finals)
    BY EmptySeq
  <1>2. {closed, parked, online} \subseteq BOOLEAN
    BY DEF Init
  <1>3. /\ stream \in Streams /\ lastSequence \in 0..MaxFinals /\ sttTask \in 0..MaxStreams
        /\ target \in [Closers -> 0..MaxStreams]
    BY DEF Init, Streams
  <1>4. QED
    BY <1>1, <1>2, <1>3 DEF Init, TypeOK, Stages

LEMMA RowTyped ==
    ASSUME NEW f \in Finals
    PROVE  /\ Row(f, "COMPLETED") \in [final : Finals, status : {"COMPLETED", "FAILED"}]
           /\ Row(f, "FAILED") \in [final : Finals, status : {"COMPLETED", "FAILED"}]
           /\ f.stream \in 1..MaxStreams /\ f.sequence \in 1..MaxFinals
           /\ \A status : Row(f, status).final = f
  BY DEF Row, Finals

LEMMA RowsTyped ==
    ASSUME rows \subseteq [final : Finals, status : {"COMPLETED", "FAILED"}],
           NEW f \in Finals, NEW status \in {"COMPLETED", "FAILED"}
    PROVE  rows \cup {Row(f, status)} \subseteq [final : Finals, status : {"COMPLETED", "FAILED"}]
  BY DEF Row

(* The translation task has a final at hand whenever it awaits something on *)
(* its behalf, and is cancelled while somebody awaits its end.              *)
Working == {"translate", "complete", "fail", "enqueue", "announce"}
Ended == {"done", "cancelled"}
HasCurrent == loop \in Working => current # NoFinal
LoopAwaited == \A p \in Closers : At(p, "loop") => loop = "cancelled"

(* A task has a list of unfinished finals only during its drain, and the    *)
(* list is not empty while its head is being archived; who awaits a         *)
(* speech-to-text task has one.                                             *)
RestInDrain == \A p \in Closers : closing[p] \in {"none", "provider", "join", "drain"} => rest[p] = <<>>
RestInInsert == \A p \in Closers : closing[p] \in {"insert", "enqueue"} => rest[p] # <<>>
JoinHasTarget == \A p \in Closers : At(p, "join") => target[p] \in Streams

(* Who closes the session, and which stream is the handler's.               *)
HandlerCloses == At(Handler, "none") <=> handler \in {"loop", "gone"}
StreamCloses == \A k \in Streams : ~At(k, "none") <=> speech[k] = "failed"
PauseDrains == handler = "pause" => closing[Handler] \notin {"none", "provider", "join"}
GoneIsOffline == handler = "gone" => ~online
SttIsLast == /\ sttTask \in {0, stream}
             /\ online /\ speech[stream] # "new" => sttTask = stream
             /\ \A k \in Streams : k > stream => speech[k] = "new"
Started == \A k \in Streams :
    k = sttTask \/ k \in sweeping \/ (\E p \in Closers : target[p] = k) => speech[k] # "new"

(* Nobody can be heard once the handler's closing goes beyond the provider, *)
(* so the queue it has emptied stays empty; a parked session has nothing in *)
(* work.                                                                    *)
Emptied == {"loop", "archive", "insert", "enqueue"}
Waited == {"archive", "insert", "enqueue"}
Silent == closing[Handler] \notin {"none", "provider"} => ~online \/ speech[stream] # "listening"
HandlerDrained ==
    /\ closing[Handler] \in Emptied => pending = <<>> /\ loop \in Ended
    /\ closing[Handler] \in Waited => current = NoFinal
ParkedIsIdle == parked => handler = "gone" /\ pending = <<>> /\ current = NoFinal /\ loop \in Ended

TaskInv == HandlerCloses /\ StreamCloses /\ PauseDrains /\ GoneIsOffline /\ SttIsLast /\ Started
RestInv == RestInDrain /\ RestInInsert /\ JoinHasTarget
LoopInv == HasCurrent /\ LoopAwaited /\ Silent /\ HandlerDrained /\ ParkedIsIdle
ShapeInv == TypeOK /\ TaskInv /\ RestInv /\ LoopInv

LEMMA ShapeInit == Init => ShapeInv
  <1> SUFFICES ASSUME Init PROVE ShapeInv
    OBVIOUS
  <1>1. TypeOK
    BY TypeInit
  <1>2. TaskInv /\ RestInv /\ LoopInv
    BY DEF Init, TaskInv, RestInv, LoopInv, HandlerCloses, StreamCloses, PauseDrains,
       GoneIsOffline, SttIsLast, Started, RestInDrain, RestInInsert, JoinHasTarget, HasCurrent,
       LoopAwaited, Silent, HandlerDrained, ParkedIsIdle, Working, Ended, Emptied, Waited,
       At, Streams, Closers, Handler
  <1>3. QED
    BY <1>1, <1>2 DEF ShapeInv

LEMMA Closing == Handler \in Closers /\ Handler \notin Streams /\ Streams \subseteq Closers
  BY DEF Closers, Handler, Streams

(* The lists stay lists of finals, and what they hold is finals.            *)
LEMMA RestTyped ==
    ASSUME ShapeInv, NEW p \in Closers
    PROVE  /\ rest[p] \in Seq(Finals) /\ Members(rest[p]) \subseteq Finals
           /\ rest[p] # <<>> => /\ Head(rest[p]) \in Finals /\ Tail(rest[p]) \in Seq(Finals)
                                /\ Members(rest[p]) = {Head(rest[p])} \cup Members(Tail(rest[p]))
           /\ <<>> \in Seq(Finals)
  <1>1. rest[p] \in Seq(Finals)
    BY DEF ShapeInv, TypeOK
  <1>2. Members(rest[p]) \subseteq Finals
    BY <1>1, LenProperties DEF Members
  <1>3. QED
    BY <1>1, <1>2, MembersTail, EmptySeq

(* What an exception in the closing code of p does to the session.          *)
Raised(p) ==
    /\ rest' = [rest EXCEPT ![p] = <<>>]
    /\ spoilt' = spoilt \cup Members(rest[p])
    /\ \/ /\ p = Handler /\ closing' = [closing EXCEPT ![p] = "none"]
          /\ handler' = "gone" /\ online' = FALSE /\ UNCHANGED speech
       \/ /\ p = Handler /\ closing' = [closing EXCEPT ![p] = "provider"]
          /\ handler' = "error" /\ UNCHANGED <<online, speech>>
       \/ /\ p = Handler /\ closing' = [closing EXCEPT ![p] = "drain"]
          /\ handler' = "pause" /\ UNCHANGED <<online, speech>>
       \/ /\ p # Handler /\ closing' = [closing EXCEPT ![p] = "none"]
          /\ speech' = [speech EXCEPT ![p] = "raised"] /\ UNCHANGED <<online, handler>>

LEMMA RaiseEffect == ASSUME NEW p, Raise(p) PROVE Raised(p)
  BY DEF Raise, HandlerRaises, Raised, Goto

(* What the cancellation of task k does: it is swallowed, or task j ends.   *)
Cancelled(j, waiting) ==
    /\ closing' = [waiting EXCEPT ![j] = "none"]
    /\ speech' = [speech EXCEPT ![j] = "over"]
    /\ rest' = [rest EXCEPT ![j] = <<>>]
    /\ cut' = cut \cup Members(rest[j])
    /\ rows' = rows \/ /\ At(j, "insert") /\ ~HasRow(Head(rest[j]).sequence)
                       /\ rows' = rows \cup {Row(Head(rest[j]), "FAILED")}

LEMMA CancelEffect ==
    ASSUME ShapeInv, NEW k \in Streams, NEW waiting, CancelTask(k, waiting)
    PROVE  \/ closing' = waiting /\ UNCHANGED <<speech, rest, rows, cut>>
           \/ \E j \in Streams : /\ closing[j] \notin {"join", "loop"}
                                 /\ speech[j] \notin {"over", "raised"}
                                 /\ j = k \/ (\E p \in Closers : target[p] = j)
                                 /\ Cancelled(j, waiting)
  <1>1. k \in Closers
    BY DEF Closers
  <1>2. CASE At(k, "join")
    BY <1>1, <1>2 DEF CancelTask, Cancelled, Over, At, ShapeInv, RestInv, JoinHasTarget
  <1>3. CASE ~At(k, "join")
    BY <1>3 DEF CancelTask, Cancelled, Over, At
  <1>4. QED
    BY <1>2, <1>3

(* A step of the closing code of one task, as far as types go.              *)
LEMMA RaiseTyped ==
    ASSUME ShapeInv, NEW p \in Closers, Raise(p)
    PROVE  /\ rest' \in [Closers -> Seq(Finals)] /\ spoilt' \subseteq Finals
           /\ closing' \in [Closers -> Stages]
           /\ speech' \in [Streams -> {"new", "listening", "failed", "over", "raised"}]
           /\ handler' \in {"loop", "stop", "error", "pause", "gone"} /\ online' \in BOOLEAN
  <1>1. Raised(p) /\ Members(rest[p]) \subseteq Finals /\ <<>> \in Seq(Finals)
    BY RaiseEffect, RestTyped
  <1>2. p \in Closers /\ (p # Handler => p \in Streams)
    BY DEF Closers
  <1>3. QED
    BY <1>1, <1>2 DEF Raised, ShapeInv, TypeOK, Stages

LEMMA CancelTyped ==
    ASSUME ShapeInv, NEW k \in Streams, NEW waiting \in [Closers -> Stages],
           CancelTask(k, waiting)
    PROVE  /\ rest' \in [Closers -> Seq(Finals)] /\ cut' \subseteq Finals
           /\ closing' \in [Closers -> Stages]
           /\ speech' \in [Streams -> {"new", "listening", "failed", "over", "raised"}]
           /\ rows' \subseteq [final : Finals, status : {"COMPLETED", "FAILED"}]
  <1>1. CASE closing' = waiting /\ UNCHANGED <<speech, rest, rows, cut>>
    BY <1>1 DEF ShapeInv, TypeOK
  <1>2. ASSUME NEW j \in Streams, Cancelled(j, waiting)
        PROVE  /\ rest' \in [Closers -> Seq(Finals)] /\ cut' \subseteq Finals
               /\ closing' \in [Closers -> Stages]
               /\ speech' \in [Streams -> {"new", "listening", "failed", "over", "raised"}]
               /\ rows' \subseteq [final : Finals, status : {"COMPLETED", "FAILED"}]
    <2>1. j \in Closers
      BY DEF Closers
    <2>2. Members(rest[j]) \subseteq Finals /\ <<>> \in Seq(Finals)
      BY <2>1, RestTyped
    <2>3. rows' \subseteq [final : Finals, status : {"COMPLETED", "FAILED"}]
      <3>1. CASE rows' = rows
        BY <3>1 DEF ShapeInv, TypeOK
      <3>2. CASE At(j, "insert") /\ rows' = rows \cup {Row(Head(rest[j]), "FAILED")}
        <4>1. Head(rest[j]) \in Finals
          BY <2>1, <3>2, RestTyped DEF ShapeInv, RestInv, RestInInsert, At
        <4>2. QED
          BY <3>2, <4>1, RowTyped DEF ShapeInv, TypeOK
      <3>3. QED
        BY <1>2, <3>1, <3>2 DEF Cancelled
    <2>4. QED
      BY <1>2, <2>1, <2>2, <2>3 DEF Cancelled, ShapeInv, TypeOK, Stages
  <1>3. QED
    BY <1>1, <1>2, CancelEffect

LEMMA TypeStep == ShapeInv /\ [Next]_vars => TypeOK'
  <1> SUFFICES ASSUME ShapeInv, [Next]_vars PROVE TypeOK'
    OBVIOUS
  <1>0. TypeOK
    BY DEF ShapeInv
  <1>a. \A p \in Closers : \A stage \in {"none", "provider", "join", "drain", "loop", "archive",
                                          "insert", "enqueue"} :
            /\ Goto(p, stage) => closing' \in [Closers -> Stages]
            /\ [closing EXCEPT ![p] = stage] \in [Closers -> Stages]
    BY DEF ShapeInv, TypeOK, Goto, Stages
  <1> USE DEF TypeOK, sessionVars, source, tasks, queue, store
  <1>1. CASE StartStream
    BY <1>0, <1>1 DEF StartStream, Streams
  <1>2. CASE Hear
    <2> DEFINE f == [stream |-> stream, sequence |-> lastSequence + 1]
    <2>1. f \in Finals /\ lastSequence + 1 \in 0..MaxFinals
      BY <1>0, <1>2 DEF Hear, Finals, Streams
    <2>2. Append(pending, f) \in Seq(Finals) /\ pending' = Append(pending, f)
      BY <1>0, <1>2, <2>1, MembersAppend DEF Hear
    <2>3. heard' = heard \cup {f} /\ lastSequence' = lastSequence + 1
          /\ UNCHANGED <<sessionVars, stream, tasks, rest, current, store>>
          /\ loop' \in {loop, "ready"}
      BY <1>2 DEF Hear
    <2> HIDE DEF f
    <2>4. QED
      BY <1>0, <2>1, <2>2, <2>3
  <1>3. ASSUME NEW k \in Streams, StopListening(k) PROVE TypeOK'
    BY <1>0, <1>3 DEF StopListening
  <1>4. ASSUME NEW k \in Streams, StreamFails(k) PROVE TypeOK'
    <2>1. closing' \in [Closers -> Stages]
      <3>1. Goto(k, "provider") \/ UNCHANGED closing
        BY <1>4 DEF StreamFails
      <3>2. QED
        BY <1>0, <1>a, <3>1, Closing
    <2>2. QED
      BY <1>0, <1>4, <2>1 DEF StreamFails
  <1>5. CASE TakeNext
    <2>1. CASE pending = <<>> \/ closed
      BY <1>0, <1>5, <2>1 DEF TakeNext
    <2>2. CASE ~(pending = <<>> \/ closed)
      <3>1. Head(pending) \in Finals /\ Tail(pending) \in Seq(Finals)
        BY <1>0, <2>2, MembersTail
      <3>2. QED
        BY <1>0, <1>5, <2>2, <3>1 DEF TakeNext
    <2>3. QED
      BY <2>1, <2>2
  <1>6. CASE Translate
    BY <1>0, <1>6 DEF Translate
  <1>7. CASE InsertSegment \/ InsertFails
    <2>1. current \in Finals
      BY <1>0, <1>7 DEF InsertSegment, InsertFails, ShapeInv, LoopInv, HasCurrent, Working
    <2>2. \/ UNCHANGED rows
          \/ rows' = rows \cup {Row(current, "COMPLETED")}
          \/ rows' = rows \cup {Row(current, "FAILED")}
      BY <1>7 DEF InsertSegment, InsertFails
    <2>4. rows' \subseteq [final : Finals, status : {"COMPLETED", "FAILED"}]
      BY <1>0, <2>1, <2>2, RowsTyped
    <2>6. current.sequence \in 1..MaxFinals
      BY <2>1, RowTyped
    <2>5. archived' \in {archived, archived \cup {current.sequence}}
          /\ spoilt' \in {spoilt, spoilt \cup {current}}
      BY <1>7 DEF InsertSegment, InsertFails
    <2>3. QED
      BY <1>0, <1>7, <2>1, <2>4, <2>5, <2>6 DEF InsertSegment, InsertFails
  <1>8. CASE EnqueueRetry
    <2>1. current \in Finals
      BY <1>0, <1>8 DEF EnqueueRetry, ShapeInv, LoopInv, HasCurrent, Working
    <2>2. QED
      BY <1>0, <1>8, <2>1 DEF EnqueueRetry, Enqueued
  <1>9. CASE Announce
    BY <1>0, <1>9 DEF Announce
  <1>10. CASE EndLoop
    BY <1>0, <1>10 DEF EndLoop, Stages
  <1>11. CASE SessionStop \/ LoseClient \/ Disconnect
    <2>1. closing' \in [Closers -> Stages]
      <3>1. Goto(Handler, "provider") \/ Goto(Handler, "drain") \/ UNCHANGED closing
        BY <1>11 DEF SessionStop, LoseClient, Disconnect
      <3>2. QED
        BY <1>0, <1>a, <3>1, Closing
    <2>2. QED
      BY <1>0, <1>11, <2>1 DEF SessionStop, LoseClient, Disconnect
  <1>12. ASSUME NEW p \in Closers, CancelStt(p) PROVE TypeOK'
    <2>1. CASE sttTask \in {0, p} \/ Over(sttTask)
      <3>1. Goto(p, "drain") /\ UNCHANGED <<speech, target, rest, rows, cut>>
        BY <1>12, <2>1 DEF CancelStt
      <3>2. QED
        BY <1>0, <1>a, <1>12, <3>1 DEF CancelStt
    <2>2. CASE ~(sttTask \in {0, p} \/ Over(sttTask))
      <3>1. sttTask \in Streams /\ CancelTask(sttTask, [closing EXCEPT ![p] = "join"])
            /\ target' = [target EXCEPT ![p] = sttTask]
        BY <1>0, <1>12, <2>2 DEF CancelStt, Streams
      <3>2. [closing EXCEPT ![p] = "join"] \in [Closers -> Stages]
            /\ target' \in [Closers -> 0..MaxStreams]
        BY <1>0, <1>a, <3>1
      <3>3. /\ rest' \in [Closers -> Seq(Finals)] /\ cut' \subseteq Finals
            /\ closing' \in [Closers -> Stages]
            /\ speech' \in [Streams -> {"new", "listening", "failed", "over", "raised"}]
            /\ rows' \subseteq [final : Finals, status : {"COMPLETED", "FAILED"}]
        BY <3>1, <3>2, CancelTyped
      <3>4. QED
        BY <1>0, <1>12, <3>2, <3>3 DEF CancelStt
    <2>3. QED
      BY <2>1, <2>2
  <1>13. ASSUME NEW p \in Closers, Join(p) PROVE TypeOK'
    <2>1. target' \in [Closers -> 0..MaxStreams]
      BY <1>0, <1>13 DEF Join
    <2>2. CASE Raise(p)
      BY <1>0, <1>13, <2>1, <2>2, RaiseTyped DEF Join
    <2>3. CASE ~Raise(p)
      <3>1. Goto(p, "drain") /\ UNCHANGED <<handler, online, speech, rest, spoilt>>
        BY <1>13, <2>3 DEF Join
      <3>2. QED
        BY <1>0, <1>a, <1>13, <2>1, <3>1 DEF Join
    <2>4. QED
      BY <2>2, <2>3
  <1>14. ASSUME NEW p \in Closers, CancelLoop(p) PROVE TypeOK'
    <2>1. CurrentFinal \o pending \in Seq(Finals) /\ <<>> \in Seq(Finals)
      BY <1>0, EmptySeq DEF CurrentFinal
    <2>2. rows' \subseteq [final : Finals, status : {"COMPLETED", "FAILED"}]
      BY <1>0, <1>14, RowTyped DEF CancelLoop, StopLoop, ShapeInv, LoopInv, HasCurrent, Working
    <2>3. closing' \in [Closers -> Stages]
      BY <1>a, <1>14 DEF CancelLoop, StopLoop
    <2>4. QED
      BY <1>0, <1>14, <2>1, <2>2, <2>3 DEF CancelLoop, StopLoop
  <1>15. ASSUME NEW p \in Closers, LookAt(p) PROVE TypeOK'
    <2>1. Tail(rest[p]) \in Seq(Finals)
      BY <1>15, RestTyped DEF LookAt
    <2>2. closing' \in [Closers -> Stages]
      BY <1>0, <1>a, <1>15 DEF LookAt
    <2>4. rest' \in [Closers -> Seq(Finals)]
      BY <1>0, <1>15, <2>1 DEF LookAt
    <2>3. QED
      BY <1>0, <1>15, <2>2, <2>4 DEF LookAt
  <1>16. ASSUME NEW p \in Closers, InsertRest(p) PROVE TypeOK'
    <2>1. Head(rest[p]) \in Finals
      BY <1>16, RestTyped DEF InsertRest, ShapeInv, RestInv, RestInInsert, At
    <2>2. CASE HasRow(Head(rest[p]).sequence)
      BY <1>0, <1>16, <2>2, RaiseTyped DEF InsertRest
    <2>3. CASE ~HasRow(Head(rest[p]).sequence)
      <3>1. rows' = rows \cup {Row(Head(rest[p]), "FAILED")}
            /\ archived' = archived \cup {Head(rest[p]).sequence}
            /\ Goto(p, "enqueue") /\ UNCHANGED <<handler, online, speech, rest, spoilt>>
            /\ UNCHANGED <<closed, parked, source, sttTask, target, sweeping, queue, jobs, cut>>
        BY <1>16, <2>3 DEF InsertRest
      <3>2. rows' \subseteq [final : Finals, status : {"COMPLETED", "FAILED"}]
        BY <1>0, <2>1, <3>1, RowsTyped
      <3>5. Head(rest[p]).sequence \in 1..MaxFinals
        BY <2>1, RowTyped
      <3>4. archived' \subseteq 1..MaxFinals
        BY <1>0, <3>1, <3>5
      <3>3. QED
        BY <1>0, <1>a, <3>1, <3>2, <3>4
    <2>4. QED
      BY <2>2, <2>3
  <1>17. ASSUME NEW p \in Closers, InsertRestFails(p) PROVE TypeOK'
    BY <1>0, <1>17, RaiseTyped DEF InsertRestFails
  <1>18. ASSUME NEW p \in Closers, EnqueueRest(p) PROVE TypeOK'
    <2>1. Head(rest[p]) \in Finals /\ Tail(rest[p]) \in Seq(Finals)
      BY <1>18, RestTyped DEF EnqueueRest, ShapeInv, RestInv, RestInInsert, At
    <2>2. rest' \in [Closers -> Seq(Finals)] /\ jobs' \subseteq Finals
      BY <1>0, <1>18, <2>1 DEF EnqueueRest, Enqueued
    <2>3. QED
      BY <1>0, <1>a, <1>18, <2>2 DEF EnqueueRest
  <1>19. CASE Settle
    <2>1. CASE Raise(Handler)
      BY <1>0, <1>19, <2>1, RaiseTyped, Closing DEF Settle
    <2>2. CASE ~Raise(Handler)
      <3>1. /\ closed' = TRUE /\ online' = FALSE /\ handler' = "gone"
            /\ Goto(Handler, "none") /\ UNCHANGED <<speech, rest, spoilt>>
        BY <1>19, <2>2 DEF Settle
      <3>2. QED
        BY <1>0, <1>a, <1>19, <3>1, Closing DEF Settle
    <2>3. QED
      BY <2>1, <2>2
  <1>20. ASSUME NEW k \in Streams, SettleInStream(k) PROVE TypeOK'
    <2>1. closing' \in [Closers -> Stages]
      BY <1>a, <1>20, Closing DEF SettleInStream
    <2>2. (online /\ k # stream) \in BOOLEAN
      OBVIOUS
    <2>3. QED
      BY <1>0, <1>20, <2>1, <2>2 DEF SettleInStream
  <1>21. CASE Park
    <2>1. closing' \in [Closers -> Stages] /\ <<>> \in Seq(Finals)
      BY <1>a, <1>21, Closing, EmptySeq DEF Park
    <2>2. sttTask' \in 0..MaxStreams /\ sweeping' \subseteq Streams
      BY <1>0, <1>21 DEF Park, Streams
    <2>3. QED
      BY <1>0, <1>21, <2>1, <2>2 DEF Park
  <1>22. ASSUME NEW k \in Streams, SweepStt(k) PROVE TypeOK'
    BY <1>0, <1>22, CancelTyped DEF SweepStt
  <1>23. CASE Resume
    <2>1. stream' \in Streams /\ lastSequence' \in 0..MaxFinals /\ sttTask' \in 0..MaxStreams
          /\ <<>> \in Seq(Finals)
      BY <1>0, <1>23, EmptySeq DEF Resume, Streams
    <2>2. QED
      BY <1>0, <1>23, <2>1 DEF Resume
  <1>24. CASE Expire
    BY <1>0, <1>24 DEF Expire
  <1>25. CASE UNCHANGED vars
    BY <1>0, <1>25 DEF vars
  <1>26. QED
    BY <1>1, <1>2, <1>3, <1>4, <1>5, <1>6, <1>7, <1>8, <1>9, <1>10, <1>11, <1>12, <1>13, <1>14,
       <1>15, <1>16, <1>17, <1>18, <1>19, <1>20, <1>21, <1>22, <1>23, <1>24, <1>25, Closing
       DEF Next, LoopStep, CloseStep, HandlerStep, StreamStep

(* The other parts, first for an exception and for a cancellation.          *)
LEMMA RaiseShape ==
    ASSUME ShapeInv, TypeOK', NEW p \in Closers, Raise(p),
           closing[p] \in {"join", "archive", "insert"},
           UNCHANGED <<parked, stream, sttTask, sweeping, pending, current, loop>>,
           \A q \in Closers : target'[q] \in {target[q], 0} /\ (q # p => target'[q] = target[q])
    PROVE  TaskInv' /\ RestInv' /\ LoopInv'
  <1>1. Raised(p)
    BY RaiseEffect
  <1>2. TypeOK /\ TaskInv /\ RestInv /\ LoopInv
    BY DEF ShapeInv
  <1>3. TaskInv'
    <2>1. HandlerCloses' /\ PauseDrains' /\ GoneIsOffline'
      BY <1>1, <1>2, Closing DEF Raised, TypeOK, TaskInv, HandlerCloses, PauseDrains,
         GoneIsOffline, At
    <2>2. StreamCloses'
      BY <1>1, <1>2, Closing DEF Raised, TypeOK, TaskInv, StreamCloses, At
    <2>3. \A q \in Streams : speech'[q] = speech[q] \/ (speech[q] # "new" /\ speech'[q] = "raised")
      BY <1>1, <1>2, Closing DEF Raised, TypeOK, TaskInv, StreamCloses, At
    <2>4. SttIsLast'
      BY <1>1, <1>2, <2>3 DEF Raised, TypeOK, TaskInv, SttIsLast
    <2>5. Started'
      <3>1. \A k \in Streams : (\E q \in Closers : target'[q] = k) => \E q \in Closers : target[q] = k
        BY Closing DEF Closers, Handler, Streams
      <3>2. QED
        BY <1>2, <2>3, <3>1 DEF TaskInv, Started
    <2>6. QED
      BY <2>1, <2>2, <2>4, <2>5 DEF TaskInv
  <1>4. RestInv'
    BY <1>1, <1>2, Closing DEF Raised, TypeOK, RestInv, RestInDrain, RestInInsert, JoinHasTarget, At
  <1>5. LoopInv'
    BY <1>1, <1>2, Closing DEF Raised, TypeOK, LoopInv, HasCurrent, LoopAwaited, Silent,
       HandlerDrained, ParkedIsIdle, TaskInv, HandlerCloses, Emptied, Waited, At
  <1>6. QED
    BY <1>3, <1>4, <1>5

LEMMA CancelShape ==
    ASSUME ShapeInv, TypeOK', NEW k \in Streams, NEW waiting \in [Closers -> Stages],
           CancelTask(k, waiting),
           speech[k] # "new", sweeping' \subseteq sweeping,
           UNCHANGED <<online, parked, stream, sttTask, handler, pending, current, loop>>,
           \/ waiting = closing /\ UNCHANGED target
           \/ \E p \in Closers : /\ At(p, "provider") /\ k = sttTask
                                 /\ waiting = [closing EXCEPT ![p] = "join"]
                                 /\ target' = [target EXCEPT ![p] = k]
    PROVE  TaskInv' /\ RestInv' /\ LoopInv'
  <1>1. TypeOK /\ TaskInv /\ RestInv /\ LoopInv
    BY DEF ShapeInv
  <1>2. \A q \in Closers : \/ waiting[q] = closing[q] /\ target'[q] = target[q]
                           \/ closing[q] = "provider" /\ waiting[q] = "join" /\ target'[q] = k
    BY <1>1 DEF At, TypeOK
  <1>3. /\ TypeOK'
        /\ waiting[Handler] = closing[Handler] \/ k = sttTask
    BY <1>1 DEF At, TypeOK
  <1>4. CASE closing' = waiting /\ UNCHANGED <<speech, rest, rows, cut>>
    <2>1. TaskInv'
      BY <1>1, <1>2, <1>4, Closing DEF TypeOK, TaskInv, HandlerCloses, StreamCloses, PauseDrains,
         GoneIsOffline, SttIsLast, Started, At
    <2>2. RestInv'
      BY <1>1, <1>2, <1>4, Closing DEF TypeOK, RestInv, RestInDrain, RestInInsert, JoinHasTarget, At
    <2>3. k = sttTask => speech[k] # "listening" \/ ~online
      <3>1. k \in Closers /\ (At(k, "join") => k \in Streams /\ target[k] \in Streams)
        BY <1>1, Closing DEF RestInv, JoinHasTarget
      <3>2. CASE At(k, "none")
        BY <1>1, <1>4, <3>2, Closing DEF CancelTask, Over, At, TaskInv, StreamCloses, TypeOK
      <3>3. CASE ~At(k, "none")
        BY <1>1, <3>3 DEF TaskInv, StreamCloses
      <3>4. QED
        BY <3>2, <3>3
    <2>4. LoopInv'
      BY <1>1, <1>2, <1>3, <1>4, <2>3, Closing DEF TypeOK, LoopInv, HasCurrent, LoopAwaited, Silent,
         HandlerDrained, ParkedIsIdle, TaskInv, SttIsLast, Emptied, Waited, At
    <2>5. QED
      BY <2>1, <2>2, <2>4
  <1>5. ASSUME NEW j \in Streams, Cancelled(j, waiting), closing[j] \notin {"join", "loop"},
                      speech[j] \notin {"over", "raised"},
                      j = k \/ \E p \in Closers : target[p] = j
        PROVE  TaskInv' /\ RestInv' /\ LoopInv'
    <2>1. TaskInv'
      <3>1. HandlerCloses' /\ PauseDrains' /\ GoneIsOffline'
        BY <1>1, <1>2, <1>5, Closing DEF Cancelled, TypeOK, TaskInv, HandlerCloses, PauseDrains,
           GoneIsOffline, At
      <3>2. StreamCloses'
        <4>1. speech' = [speech EXCEPT ![j] = "over"] /\ closing' = [waiting EXCEPT ![j] = "none"]
          BY <1>5 DEF Cancelled
        <4>2. \A q \in Streams : waiting[q] = "none" <=> closing[q] = "none"
          BY <1>2, Closing
        <4>3. QED
          BY <1>1, <4>1, <4>2, Closing DEF TypeOK, TaskInv, StreamCloses, At
      <3>3. speech[j] # "new"
        BY <1>1, <1>5 DEF TaskInv, Started
      <3>4. \A q \in Streams : speech'[q] = speech[q] \/ (speech[q] # "new" /\ speech'[q] = "over")
        BY <1>1, <1>5, <3>3 DEF Cancelled, TypeOK
      <3>5. SttIsLast'
        BY <1>1, <3>4 DEF TypeOK, TaskInv, SttIsLast
      <3>6. Started'
        BY <1>1, <1>2, <3>4 DEF TaskInv, Started
      <3>7. QED
        BY <3>1, <3>2, <3>5, <3>6 DEF TaskInv
    <2>2. RestInv'
      <3>1. /\ \A q \in Closers : closing'[q] = IF q = j THEN "none" ELSE waiting[q]
            /\ \A q \in Closers : rest'[q] = IF q = j THEN <<>> ELSE rest[q]
        BY <1>1, <1>5, Closing DEF Cancelled, TypeOK
      <3>2. RestInDrain' /\ RestInInsert'
        BY <1>1, <1>2, <3>1 DEF RestInv, RestInDrain, RestInInsert
      <3>3. JoinHasTarget'
        BY <1>1, <1>2, <3>1 DEF RestInv, JoinHasTarget, At
      <3>4. QED
        BY <3>2, <3>3 DEF RestInv
    <2>3. speech'[k] # "listening"
      <3>1. CASE j = k
        BY <1>1, <1>5, <3>1 DEF Cancelled, TypeOK
      <3>2. CASE j # k
        BY <1>1, <1>5, <3>2, Closing DEF CancelTask, Cancelled, Over, At, TaskInv, StreamCloses, TypeOK
      <3>3. QED
        BY <3>1, <3>2
    <2>4. LoopInv'
      BY <1>1, <1>2, <1>3, <1>5, <2>3, Closing DEF Cancelled, TypeOK, LoopInv, HasCurrent, LoopAwaited,
         Silent, HandlerDrained, ParkedIsIdle, TaskInv, SttIsLast, Emptied, Waited, At
    <2>5. QED
      BY <2>1, <2>2, <2>4
  <1>6. QED
    BY <1>4, <1>5, CancelEffect

LEMMA CancelSttShape ==
    ASSUME ShapeInv, [Next]_vars, NEW p \in Closers, CancelStt(p)
    PROVE  TaskInv' /\ RestInv' /\ LoopInv'
  <1>1. TypeOK /\ TypeOK' /\ TaskInv /\ RestInv /\ LoopInv
    BY TypeStep DEF ShapeInv
  <1>2. CASE sttTask \in {0, p} \/ Over(sttTask)
    <2>1. /\ closing' = [closing EXCEPT ![p] = "drain"] /\ closing[p] = "provider"
          /\ UNCHANGED <<sessionVars, source, sttTask, speech, handler, target, sweeping, rest, queue>>
      BY <1>2 DEF CancelStt, Goto, At, sessionVars, source, queue
    <2>2. TaskInv'
      BY <1>1, <2>1, Closing DEF TypeOK, TaskInv, HandlerCloses, StreamCloses, PauseDrains,
         GoneIsOffline, SttIsLast, Started, At, sessionVars, source
    <2>3. RestInv'
      BY <1>1, <2>1, Closing DEF TypeOK, RestInv, RestInDrain, RestInInsert, JoinHasTarget, At
    <2>4. p = Handler /\ online => speech[stream] # "listening"
      <3>1. p = Handler => sttTask = 0 \/ Over(sttTask)
        BY <1>2 DEF Handler
      <3>2. QED
        BY <1>1, <3>1 DEF TaskInv, SttIsLast, Over, TypeOK, Streams
    <2>5. LoopInv'
      BY <1>1, <2>1, <2>4, Closing DEF TypeOK, LoopInv, HasCurrent, LoopAwaited, Silent,
         HandlerDrained, ParkedIsIdle, Emptied, Waited, At, sessionVars, source, queue
    <2>6. QED
      BY <2>2, <2>3, <2>5
  <1>3. CASE ~(sttTask \in {0, p} \/ Over(sttTask))
    <2>1. /\ CancelTask(sttTask, [closing EXCEPT ![p] = "join"])
          /\ target' = [target EXCEPT ![p] = sttTask] /\ At(p, "provider")
          /\ UNCHANGED <<sessionVars, source, sttTask, handler, sweeping, queue>>
      BY <1>3 DEF CancelStt
    <2>2. sttTask \in Streams /\ [closing EXCEPT ![p] = "join"] \in [Closers -> Stages]
      BY <1>1, <1>3 DEF TypeOK, Streams, Stages
    <2>3. speech[sttTask] # "new"
      BY <1>1, <2>2 DEF TaskInv, Started
    <2>4. QED
      BY <1>1, <2>1, <2>2, <2>3, CancelShape DEF sessionVars, source, queue
  <1>4. QED
    BY <1>2, <1>3

LEMMA SweepSttShape ==
    ASSUME ShapeInv, [Next]_vars, NEW k \in Streams, SweepStt(k)
    PROVE  TaskInv' /\ RestInv' /\ LoopInv'
  <1>1. TypeOK' /\ closing \in [Closers -> Stages] /\ speech[k] # "new"
    BY TypeStep DEF ShapeInv, TypeOK, TaskInv, Started, SweepStt
  <1>2. /\ CancelTask(k, closing) /\ sweeping' \subseteq sweeping
        /\ UNCHANGED <<online, parked, stream, sttTask, handler, target, pending, current, loop>>
    BY DEF SweepStt, sessionVars, source, queue
  <1>3. QED
    BY <1>1, <1>2, CancelShape

LEMMA InsertRestFailsShape ==
    ASSUME ShapeInv, [Next]_vars, NEW p \in Closers, InsertRestFails(p)
    PROVE  TaskInv' /\ RestInv' /\ LoopInv'
  <1>1. TypeOK' /\ Raise(p) /\ closing[p] = "insert"
        /\ UNCHANGED <<parked, stream, sttTask, target, sweeping, pending, current, loop>>
    BY TypeStep DEF InsertRestFails, At, source, queue
  <1>2. QED
    BY <1>1, RaiseShape

LEMMA InsertRestShape ==
    ASSUME ShapeInv, [Next]_vars, NEW p \in Closers, InsertRest(p)
    PROVE  TaskInv' /\ RestInv' /\ LoopInv'
  <1>1. TypeOK /\ TypeOK' /\ TaskInv /\ RestInv /\ LoopInv
    BY TypeStep DEF ShapeInv
  <1>2. closing[p] = "insert"
        /\ UNCHANGED <<closed, parked, stream, sttTask, target, sweeping, pending, current, loop>>
    BY DEF InsertRest, At, source, queue
  <1>3. CASE Raise(p)
    BY <1>1, <1>2, <1>3, RaiseShape
  <1>4. CASE ~Raise(p)
    <2>1. closing' = [closing EXCEPT ![p] = "enqueue"] /\ UNCHANGED <<handler, online, speech, rest>>
      BY <1>4 DEF InsertRest, Goto
    <2>2. TaskInv'
      BY <1>1, <1>2, <2>1, Closing DEF TypeOK, TaskInv, HandlerCloses, StreamCloses, PauseDrains,
         GoneIsOffline, SttIsLast, Started, At
    <2>3. RestInv'
      BY <1>1, <1>2, <2>1, Closing DEF TypeOK, RestInv, RestInDrain, RestInInsert, JoinHasTarget, At
    <2>4. LoopInv'
      BY <1>1, <1>2, <2>1, Closing DEF TypeOK, LoopInv, HasCurrent, LoopAwaited, Silent,
         HandlerDrained, ParkedIsIdle, Emptied, Waited, At
    <2>5. QED
      BY <2>2, <2>3, <2>4
  <1>5. QED
    BY <1>3, <1>4

LEMMA JoinShape ==
    ASSUME ShapeInv, [Next]_vars, NEW p \in Closers, Join(p)
    PROVE  TaskInv' /\ RestInv' /\ LoopInv'
  <1>1. TypeOK /\ TypeOK' /\ TaskInv /\ RestInv /\ LoopInv
    BY TypeStep DEF ShapeInv
  <1>2. closing[p] = "join" /\ target' = [target EXCEPT ![p] = 0]
        /\ UNCHANGED <<closed, parked, stream, sttTask, sweeping, pending, current, loop>>
    BY DEF Join, At, source, queue
  <1>3. \A q \in Closers : /\ target'[q] \in {target[q], 0}
                           /\ q # p => target'[q] = target[q]
    BY <1>1, <1>2 DEF TypeOK
  <1>4. CASE Raise(p)
    BY <1>1, <1>2, <1>3, <1>4, RaiseShape
  <1>5. CASE ~Raise(p)
    <2>1. closing' = [closing EXCEPT ![p] = "drain"] /\ UNCHANGED <<handler, online, speech, rest>>
      BY <1>5 DEF Join, Goto
    <2>2. TaskInv'
      <3>1. HandlerCloses' /\ StreamCloses' /\ PauseDrains' /\ GoneIsOffline' /\ SttIsLast'
        BY <1>1, <1>2, <2>1, Closing DEF TypeOK, TaskInv, HandlerCloses, StreamCloses, PauseDrains,
           GoneIsOffline, SttIsLast, At
      <3>2. \A k \in Streams : (\E q \in Closers : target'[q] = k) => \E q \in Closers : target[q] = k
        BY <1>3, Closing DEF Streams
      <3>3. Started'
        BY <1>1, <1>2, <2>1, <3>2 DEF TaskInv, Started
      <3>4. QED
        BY <3>1, <3>3 DEF TaskInv
    <2>3. RestInv'
      BY <1>1, <1>2, <2>1, Closing DEF TypeOK, RestInv, RestInDrain, RestInInsert, JoinHasTarget, At
    <2>4. LoopInv'
      BY <1>1, <1>2, <2>1, Closing DEF TypeOK, LoopInv, HasCurrent, LoopAwaited, Silent,
         HandlerDrained, ParkedIsIdle, Emptied, Waited, At
    <2>5. QED
      BY <2>2, <2>3, <2>4
  <1>6. QED
    BY <1>4, <1>5

LEMMA SettleShape ==
    ASSUME ShapeInv, [Next]_vars, Settle
    PROVE  TaskInv' /\ RestInv' /\ LoopInv'
  <1>1. TypeOK /\ TypeOK' /\ TaskInv /\ RestInv /\ LoopInv
    BY TypeStep DEF ShapeInv
  <1>2. closing[Handler] = "archive" /\ rest[Handler] = <<>>
        /\ UNCHANGED <<parked, stream, sttTask, target, sweeping, pending, current, loop>>
    BY DEF Settle, At, source, queue
  <1>3. CASE Raise(Handler)
    BY <1>1, <1>2, <1>3, RaiseShape, Closing
  <1>4. CASE ~Raise(Handler)
    <2>1. /\ closing' = [closing EXCEPT ![Handler] = "none"] /\ handler' = "gone" /\ ~online'
          /\ UNCHANGED <<speech, rest>>
      BY <1>4 DEF Settle, Goto
    <2>2. TaskInv'
      BY <1>1, <1>2, <2>1, Closing DEF TypeOK, TaskInv, HandlerCloses, StreamCloses, PauseDrains,
         GoneIsOffline, SttIsLast, Started, At
    <2>3. RestInv'
      BY <1>1, <1>2, <2>1, Closing DEF TypeOK, RestInv, RestInDrain, RestInInsert, JoinHasTarget, At
    <2>4. LoopInv'
      BY <1>1, <1>2, <2>1, Closing DEF TypeOK, LoopInv, HasCurrent, LoopAwaited, Silent,
         HandlerDrained, ParkedIsIdle, Emptied, Waited, At
    <2>5. QED
      BY <2>2, <2>3, <2>4
  <1>5. QED
    BY <1>3, <1>4

LEMMA TaskStep == ShapeInv /\ [Next]_vars => TaskInv'
  <1> SUFFICES ASSUME ShapeInv, [Next]_vars PROVE TaskInv'
    OBVIOUS
  <1>0. TypeOK /\ TypeOK' /\ TaskInv /\ RestInv /\ LoopInv
    BY TypeStep DEF ShapeInv
  <1> USE DEF sessionVars, source, tasks, queue, store, TypeOK, Goto, At, Over, Reaches,
              TaskInv, HandlerCloses, StreamCloses, PauseDrains, GoneIsOffline, SttIsLast,
              Started, LoopInv, ParkedIsIdle
  <1>1. CASE StartStream
    <2>1. speech[stream] = "new" /\ stream \in Streams /\ sttTask' = stream
          /\ speech' = [speech EXCEPT ![stream] = "listening"]
          /\ UNCHANGED <<online, stream, handler, closing, target, sweeping>>
      BY <1>0, <1>1 DEF StartStream, Streams
    <2>2. HandlerCloses' /\ StreamCloses' /\ PauseDrains' /\ GoneIsOffline'
      BY <1>0, <2>1, Closing
    <2>3. SttIsLast' /\ Started'
      BY <1>0, <2>1
    <2>4. QED
      BY <2>2, <2>3
  <1>2. CASE Hear
    BY <1>0, <1>2, Closing DEF Hear
  <1>3. ASSUME NEW k \in Streams, StopListening(k) PROVE TaskInv'
    BY <1>0, <1>3, Closing DEF StopListening
  <1>4. ASSUME NEW k \in Streams, StreamFails(k) PROVE TaskInv'
    <2>1. /\ speech[k] = "listening" /\ k = stream
          /\ \/ closing' = [closing EXCEPT ![k] = "provider"] /\ speech' = [speech EXCEPT ![k] = "failed"]
                /\ UNCHANGED online
             \/ UNCHANGED closing /\ speech' = [speech EXCEPT ![k] = "over"] /\ ~online'
          /\ UNCHANGED <<stream, sttTask, handler, target, sweeping>>
      BY <1>4 DEF StreamFails
    <2>2. HandlerCloses' /\ PauseDrains' /\ GoneIsOffline'
      BY <1>0, <2>1, Closing
    <2>3. StreamCloses'
      BY <1>0, <2>1, Closing
    <2>4. \A q \in Streams : speech'[q] = speech[q] \/ (speech[q] # "new" /\ speech'[q] # "new")
      BY <1>0, <2>1
    <2>5. SttIsLast'
      BY <1>0, <2>1, <2>4
    <2>6. Started'
      BY <1>0, <2>1, <2>4
    <2>7. QED
      BY <2>2, <2>3, <2>5, <2>6
  <1>5. CASE TakeNext
    BY <1>0, <1>5, Closing DEF TakeNext
  <1>6. CASE Translate \/ InsertSegment \/ InsertFails \/ EnqueueRetry \/ Announce
    BY <1>0, <1>6, Closing DEF Translate, InsertSegment, InsertFails, EnqueueRetry, Announce
  <1>7. CASE EndLoop
    BY <1>0, <1>7, Closing DEF EndLoop
  <1>8. CASE SessionStop
    BY <1>0, <1>8, Closing DEF SessionStop
  <1>9. CASE LoseClient
    BY <1>0, <1>9, Closing DEF LoseClient
  <1>10. CASE Disconnect
    BY <1>0, <1>10, Closing DEF Disconnect
  <1>11. ASSUME NEW p \in Closers, CancelStt(p) PROVE TaskInv'
    BY <1>11, CancelSttShape
  <1>12. ASSUME NEW p \in Closers, Join(p) PROVE TaskInv'
    BY <1>12, JoinShape
  <1>13. ASSUME NEW p \in Closers, CancelLoop(p) PROVE TaskInv'
    <2>1. /\ closing' = [closing EXCEPT ![p] = "loop"] \/ closing' = [closing EXCEPT ![p] = "archive"]
          /\ closing[p] = "drain"
          /\ UNCHANGED <<closed, parked, online, stream, sttTask, speech, handler, target, sweeping>>
      BY <1>13 DEF CancelLoop, StopLoop
    <2>2. QED
      BY <1>0, <2>1, Closing
  <1>14. ASSUME NEW p \in Closers, LookAt(p) PROVE TaskInv'
    BY <1>0, <1>14, Closing DEF LookAt
  <1>15. ASSUME NEW p \in Closers, InsertRest(p) PROVE TaskInv'
    BY <1>15, InsertRestShape
  <1>16. ASSUME NEW p \in Closers, InsertRestFails(p) PROVE TaskInv'
    BY <1>16, InsertRestFailsShape
  <1>17. ASSUME NEW p \in Closers, EnqueueRest(p) PROVE TaskInv'
    BY <1>0, <1>17, Closing DEF EnqueueRest
  <1>18. CASE Settle
    BY <1>18, SettleShape
  <1>19. ASSUME NEW k \in Streams, SettleInStream(k) PROVE TaskInv'
    BY <1>0, <1>19, Closing DEF SettleInStream
  <1>20. CASE Park
    <2>1. /\ closing' = [closing EXCEPT ![Handler] = "none"] /\ handler' = "gone" /\ ~online'
          /\ sttTask' = 0 /\ sweeping' = sweeping \cup ({sttTask} \ {0})
          /\ UNCHANGED <<stream, speech, target>>
      BY <1>20 DEF Park
    <2>2. HandlerCloses' /\ StreamCloses' /\ PauseDrains' /\ GoneIsOffline'
      BY <1>0, <2>1, Closing
    <2>3. SttIsLast' /\ Started'
      BY <1>0, <2>1 DEF Streams
    <2>4. QED
      BY <2>2, <2>3
  <1>21. ASSUME NEW k \in Streams, SweepStt(k) PROVE TaskInv'
    BY <1>21, SweepSttShape
  <1>22. CASE Resume
    <2>1. /\ handler = "gone" /\ handler' = "loop" /\ stream' = stream + 1 /\ sttTask' = 0
          /\ UNCHANGED <<closing, speech, target, sweeping>>
      BY <1>0, <1>22 DEF Resume
    <2>2. HandlerCloses' /\ StreamCloses' /\ PauseDrains' /\ GoneIsOffline'
      BY <1>0, <2>1
    <2>3. stream \in Nat /\ \A k \in Streams : k \in Nat
      BY <1>0 DEF Streams
    <2>4. SttIsLast' /\ Started'
      BY <1>0, <2>1, <2>3 DEF Streams
    <2>5. QED
      BY <2>2, <2>4
  <1>23. CASE Expire
    BY <1>0, <1>23, Closing DEF Expire
  <1>24. CASE UNCHANGED vars
    BY <1>0, <1>24, Closing DEF vars
  <1>25. QED
    BY <1>1, <1>2, <1>3, <1>4, <1>5, <1>6, <1>7, <1>8, <1>9, <1>10, <1>11, <1>12, <1>13, <1>14,
       <1>15, <1>16, <1>17, <1>18, <1>19, <1>20, <1>21, <1>22, <1>23, <1>24, Closing
       DEF Next, LoopStep, CloseStep, HandlerStep, StreamStep

LEMMA RestStep == ShapeInv /\ [Next]_vars => RestInv'
  <1> SUFFICES ASSUME ShapeInv, [Next]_vars PROVE RestInv'
    OBVIOUS
  <1>0. TypeOK /\ TypeOK' /\ TaskInv /\ RestInv /\ LoopInv
    BY TypeStep DEF ShapeInv
  <1> USE DEF sessionVars, source, tasks, queue, store, TypeOK, Goto, At, Over, Reaches,
              RestInv, RestInDrain, RestInInsert, JoinHasTarget, TaskInv, HandlerCloses, StreamCloses
  <1>1. CASE StartStream
    BY <1>0, <1>1, Closing DEF StartStream
  <1>2. CASE Hear
    BY <1>0, <1>2, Closing DEF Hear
  <1>3. ASSUME NEW k \in Streams, StopListening(k) PROVE RestInv'
    BY <1>0, <1>3, Closing DEF StopListening
  <1>4. ASSUME NEW k \in Streams, StreamFails(k) PROVE RestInv'
    BY <1>0, <1>4, Closing DEF StreamFails
  <1>5. CASE TakeNext
    BY <1>0, <1>5, Closing DEF TakeNext
  <1>6. CASE Translate \/ InsertSegment \/ InsertFails \/ EnqueueRetry \/ Announce
    BY <1>0, <1>6, Closing DEF Translate, InsertSegment, InsertFails, EnqueueRetry, Announce
  <1>7. CASE EndLoop
    BY <1>0, <1>7, Closing DEF EndLoop
  <1>8. CASE SessionStop
    BY <1>0, <1>8, Closing DEF SessionStop
  <1>9. CASE LoseClient
    BY <1>0, <1>9, Closing DEF LoseClient
  <1>10. CASE Disconnect
    BY <1>0, <1>10, Closing DEF Disconnect
  <1>11. ASSUME NEW p \in Closers, CancelStt(p) PROVE RestInv'
    BY <1>11, CancelSttShape
  <1>12. ASSUME NEW p \in Closers, Join(p) PROVE RestInv'
    BY <1>12, JoinShape
  <1>13. ASSUME NEW p \in Closers, CancelLoop(p) PROVE RestInv'
    <2>1. /\ closing' = [closing EXCEPT ![p] = "loop"] \/ closing' = [closing EXCEPT ![p] = "archive"]
          /\ closing[p] = "drain" /\ UNCHANGED target
          /\ rest' = [rest EXCEPT ![p] = CurrentFinal \o pending]
      BY <1>13 DEF CancelLoop, StopLoop
    <2>2. QED
      BY <1>0, <2>1, Closing
  <1>14. ASSUME NEW p \in Closers, LookAt(p) PROVE RestInv'
    BY <1>0, <1>14, Closing DEF LookAt
  <1>15. ASSUME NEW p \in Closers, InsertRest(p) PROVE RestInv'
    BY <1>15, InsertRestShape
  <1>16. ASSUME NEW p \in Closers, InsertRestFails(p) PROVE RestInv'
    BY <1>16, InsertRestFailsShape
  <1>17. ASSUME NEW p \in Closers, EnqueueRest(p) PROVE RestInv'
    BY <1>0, <1>17, Closing DEF EnqueueRest
  <1>18. CASE Settle
    BY <1>18, SettleShape
  <1>19. ASSUME NEW k \in Streams, SettleInStream(k) PROVE RestInv'
    BY <1>0, <1>19, Closing DEF SettleInStream
  <1>20. CASE Park
    BY <1>0, <1>20, Closing DEF Park
  <1>21. ASSUME NEW k \in Streams, SweepStt(k) PROVE RestInv'
    BY <1>21, SweepSttShape
  <1>22. CASE Resume
    BY <1>0, <1>22, Closing DEF Resume
  <1>23. CASE Expire
    BY <1>0, <1>23, Closing DEF Expire
  <1>24. CASE UNCHANGED vars
    BY <1>0, <1>24, Closing DEF vars
  <1>25. QED
    BY <1>1, <1>2, <1>3, <1>4, <1>5, <1>6, <1>7, <1>8, <1>9, <1>10, <1>11, <1>12, <1>13, <1>14,
       <1>15, <1>16, <1>17, <1>18, <1>19, <1>20, <1>21, <1>22, <1>23, <1>24, Closing
       DEF Next, LoopStep, CloseStep, HandlerStep, StreamStep

LEMMA LoopPart == ShapeInv /\ [Next]_vars => LoopInv'
  <1> SUFFICES ASSUME ShapeInv, [Next]_vars PROVE LoopInv'
    OBVIOUS
  <1>0. TypeOK /\ TypeOK' /\ TaskInv /\ RestInv /\ LoopInv
    BY TypeStep DEF ShapeInv
  <1> USE DEF sessionVars, source, tasks, queue, store, TypeOK, Goto, At, Over, Reaches,
              LoopInv, HasCurrent, LoopAwaited, Silent, HandlerDrained, ParkedIsIdle, Working,
              Ended, Emptied, Waited, TaskInv, HandlerCloses, StreamCloses,
              GoneIsOffline, SttIsLast, PauseDrains
  <1>1. CASE StartStream
    BY <1>0, <1>1, Closing DEF StartStream
  <1>2. CASE Hear
    BY <1>0, <1>2, Closing DEF Hear
  <1>3. ASSUME NEW k \in Streams, StopListening(k) PROVE LoopInv'
    BY <1>0, <1>3, Closing DEF StopListening
  <1>4. ASSUME NEW k \in Streams, StreamFails(k) PROVE LoopInv'
    BY <1>0, <1>4, Closing DEF StreamFails
  <1>5. CASE TakeNext
    BY <1>0, <1>5, Closing DEF TakeNext
  <1>6. CASE Translate \/ InsertSegment \/ InsertFails \/ EnqueueRetry \/ Announce
    BY <1>0, <1>6, Closing DEF Translate, InsertSegment, InsertFails, EnqueueRetry, Announce
  <1>7. CASE EndLoop
    BY <1>0, <1>7, Closing DEF EndLoop
  <1>8. CASE SessionStop
    BY <1>0, <1>8, Closing DEF SessionStop
  <1>9. CASE LoseClient
    BY <1>0, <1>9, Closing DEF LoseClient
  <1>10. CASE Disconnect
    BY <1>0, <1>10, Closing DEF Disconnect
  <1>11. ASSUME NEW p \in Closers, CancelStt(p) PROVE LoopInv'
    BY <1>11, CancelSttShape
  <1>12. ASSUME NEW p \in Closers, Join(p) PROVE LoopInv'
    BY <1>12, JoinShape
  <1>13. ASSUME NEW p \in Closers, CancelLoop(p) PROVE LoopInv'
    <2>1. /\ closing[p] = "drain" /\ pending' = <<>>
          /\ \/ /\ closing' = [closing EXCEPT ![p] = "archive"]
                /\ loop \in Ended /\ UNCHANGED loop /\ current' = NoFinal
             \/ /\ closing' = [closing EXCEPT ![p] = "loop"]
                /\ loop' = "cancelled" /\ UNCHANGED current
          /\ UNCHANGED <<parked, online, stream, speech, handler>>
      BY <1>13 DEF CancelLoop, StopLoop
    <2>2. HasCurrent' /\ LoopAwaited'
      BY <1>0, <2>1
    <2>3. Silent'
      BY <1>0, <2>1, Closing
    <2>4. HandlerDrained'
      BY <1>0, <2>1, Closing
    <2>5. ParkedIsIdle'
      BY <1>0, <2>1
    <2>6. QED
      BY <2>2, <2>3, <2>4, <2>5
  <1>14. ASSUME NEW p \in Closers, LookAt(p) PROVE LoopInv'
    BY <1>0, <1>14, Closing DEF LookAt
  <1>15. ASSUME NEW p \in Closers, InsertRest(p) PROVE LoopInv'
    BY <1>15, InsertRestShape
  <1>16. ASSUME NEW p \in Closers, InsertRestFails(p) PROVE LoopInv'
    BY <1>16, InsertRestFailsShape
  <1>17. ASSUME NEW p \in Closers, EnqueueRest(p) PROVE LoopInv'
    BY <1>0, <1>17, Closing DEF EnqueueRest
  <1>18. CASE Settle
    BY <1>18, SettleShape
  <1>19. ASSUME NEW k \in Streams, SettleInStream(k) PROVE LoopInv'
    BY <1>0, <1>19, Closing DEF SettleInStream
  <1>20. CASE Park
    BY <1>0, <1>20, Closing DEF Park
  <1>21. ASSUME NEW k \in Streams, SweepStt(k) PROVE LoopInv'
    BY <1>21, SweepSttShape
  <1>22. CASE Resume
    BY <1>0, <1>22, Closing DEF Resume
  <1>23. CASE Expire
    BY <1>0, <1>23, Closing DEF Expire
  <1>24. CASE UNCHANGED vars
    BY <1>0, <1>24, Closing DEF vars
  <1>25. QED
    BY <1>1, <1>2, <1>3, <1>4, <1>5, <1>6, <1>7, <1>8, <1>9, <1>10, <1>11, <1>12, <1>13, <1>14,
       <1>15, <1>16, <1>17, <1>18, <1>19, <1>20, <1>21, <1>22, <1>23, <1>24, Closing
       DEF Next, LoopStep, CloseStep, HandlerStep, StreamStep

LEMMA Shape == Spec => []ShapeInv
  <1>1. ShapeInv /\ [Next]_vars => ShapeInv'
    BY TypeStep, TaskStep, RestStep, LoopPart DEF ShapeInv
  <1>2. QED
    BY <1>1, ShapeInit, PTL DEF Spec

(* Every variable keeps its type.                                           *)
THEOREM TypeCorrect == Spec => []TypeOK
  <1>1. ShapeInv => TypeOK
    BY DEF ShapeInv
  <1>2. QED
    BY <1>1, Shape, PTL

-----------------------------------------------------------------------------
(* What a step does to the table and to the lists.                          *)

(* A row is only ever added for the final that the translation task or a    *)
(* drain is about to insert, and only if its number is free.                *)
RowAdded(f, status) ==
    /\ \/ f = current /\ loop \in {"complete", "fail"}
       \/ \E p \in Closers : At(p, "insert") /\ f = Head(rest[p])
    /\ ~HasRow(f.sequence)
    /\ rows' = rows \cup {Row(f, status)}
RowMoves == rows' = rows \/ \E f \in Finals, status \in {"COMPLETED", "FAILED"} : RowAdded(f, status)

LEMMA CancelRow ==
    ASSUME ShapeInv, NEW k \in Streams, NEW waiting, CancelTask(k, waiting) PROVE RowMoves
  <1>1. CASE UNCHANGED rows
    BY <1>1 DEF RowMoves
  <1>2. ASSUME NEW j \in Streams, At(j, "insert"), ~HasRow(Head(rest[j]).sequence),
               rows' = rows \cup {Row(Head(rest[j]), "FAILED")}
        PROVE  RowMoves
    <2>1. Head(rest[j]) \in Finals /\ j \in Closers
      BY <1>2, RestTyped, Closing DEF ShapeInv, RestInv, RestInInsert, At
    <2>2. RowAdded(Head(rest[j]), "FAILED")
      BY <1>2, <2>1 DEF RowAdded
    <2>3. QED
      BY <2>1, <2>2 DEF RowMoves
  <1>3. QED
    BY <1>1, <1>2, CancelEffect DEF Cancelled

LEMMA RowsGrow == ASSUME ShapeInv, [Next]_vars PROVE RowMoves
  <1>0. TypeOK /\ RestInv /\ LoopInv
    BY DEF ShapeInv
  <1> USE DEF sessionVars, source, tasks, queue, store, Goto, At, Over, RowMoves
  <1>1. CASE StartStream
    BY <1>0, <1>1, Closing DEF StartStream
  <1>2. CASE Hear
    BY <1>0, <1>2, Closing DEF Hear
  <1>3. ASSUME NEW k \in Streams, StopListening(k) PROVE RowMoves
    BY <1>0, <1>3, Closing DEF StopListening
  <1>4. ASSUME NEW k \in Streams, StreamFails(k) PROVE RowMoves
    BY <1>0, <1>4, Closing DEF StreamFails
  <1>5. CASE TakeNext
    BY <1>0, <1>5, Closing DEF TakeNext
  <1>6. CASE Translate \/ InsertSegment \/ InsertFails \/ EnqueueRetry \/ Announce
    <2>1. CASE UNCHANGED rows
      BY <2>1
    <2>2. CASE ~(UNCHANGED rows)
      <3>1. /\ loop \in {"complete", "fail"} /\ current \in Finals /\ ~HasRow(current.sequence)
            /\ \E status \in {"COMPLETED", "FAILED"} : rows' = rows \cup {Row(current, status)}
        BY <1>0, <1>6, <2>2 DEF Translate, InsertSegment, InsertFails, EnqueueRetry, Announce, TypeOK, LoopInv, HasCurrent, Working
      <3>2. QED
        BY <3>1 DEF RowAdded
    <2>3. QED
      BY <2>1, <2>2
  <1>7. CASE EndLoop
    BY <1>0, <1>7, Closing DEF EndLoop
  <1>8. CASE SessionStop
    BY <1>0, <1>8, Closing DEF SessionStop
  <1>9. CASE LoseClient
    BY <1>0, <1>9, Closing DEF LoseClient
  <1>10. CASE Disconnect
    BY <1>0, <1>10, Closing DEF Disconnect
  <1>11. ASSUME NEW p \in Closers, CancelStt(p) PROVE RowMoves
    <2>1. CASE UNCHANGED rows
      BY <2>1
    <2>2. CASE ~(UNCHANGED rows)
      <3>1. sttTask \in Streams /\ CancelTask(sttTask, [closing EXCEPT ![p] = "join"])
        BY <1>0, <1>11, <2>2 DEF CancelStt, TypeOK, Streams
      <3>2. QED
        BY <3>1, CancelRow
    <2>3. QED
      BY <2>1, <2>2
  <1>12. ASSUME NEW p \in Closers, Join(p) PROVE RowMoves
    BY <1>0, <1>12, Closing DEF Join
  <1>13. ASSUME NEW p \in Closers, CancelLoop(p) PROVE RowMoves
    <2>1. CASE UNCHANGED rows
      BY <2>1
    <2>2. CASE ~(UNCHANGED rows)
      <3>1. /\ loop \in {"complete", "fail"} /\ current \in Finals /\ ~HasRow(current.sequence)
            /\ \E status \in {"COMPLETED", "FAILED"} : rows' = rows \cup {Row(current, status)}
        BY <1>0, <1>13, <2>2 DEF CancelLoop, StopLoop, TypeOK, LoopInv, HasCurrent, Working
      <3>2. QED
        BY <3>1 DEF RowAdded
    <2>3. QED
      BY <2>1, <2>2
  <1>14. ASSUME NEW p \in Closers, LookAt(p) PROVE RowMoves
    BY <1>0, <1>14, Closing DEF LookAt
  <1>15. ASSUME NEW p \in Closers, InsertRest(p) PROVE RowMoves
    <2>1. CASE UNCHANGED rows
      BY <2>1
    <2>2. CASE ~(UNCHANGED rows)
      <3>1. /\ At(p, "insert") /\ Head(rest[p]) \in Finals /\ ~HasRow(Head(rest[p]).sequence)
            /\ rows' = rows \cup {Row(Head(rest[p]), "FAILED")}
        BY <1>0, <1>15, <2>2, RestTyped DEF InsertRest, RestInv, RestInInsert
      <3>2. RowAdded(Head(rest[p]), "FAILED")
        BY <3>1 DEF RowAdded
      <3>3. QED
        BY <3>1, <3>2
    <2>3. QED
      BY <2>1, <2>2
  <1>16. ASSUME NEW p \in Closers, InsertRestFails(p) PROVE RowMoves
    BY <1>0, <1>16, Closing DEF InsertRestFails
  <1>17. ASSUME NEW p \in Closers, EnqueueRest(p) PROVE RowMoves
    BY <1>0, <1>17, Closing DEF EnqueueRest
  <1>18. CASE Settle
    BY <1>0, <1>18, Closing DEF Settle
  <1>19. ASSUME NEW k \in Streams, SettleInStream(k) PROVE RowMoves
    BY <1>0, <1>19, Closing DEF SettleInStream
  <1>20. CASE Park
    BY <1>0, <1>20, Closing DEF Park
  <1>21. ASSUME NEW k \in Streams, SweepStt(k) PROVE RowMoves
    BY <1>21, CancelRow DEF SweepStt
  <1>22. CASE Resume
    BY <1>0, <1>22, Closing DEF Resume
  <1>23. CASE Expire
    BY <1>0, <1>23, Closing DEF Expire
  <1>24. CASE UNCHANGED vars
    BY <1>0, <1>24, Closing DEF vars
  <1>25. QED
    BY <1>1, <1>2, <1>3, <1>4, <1>5, <1>6, <1>7, <1>8, <1>9, <1>10, <1>11, <1>12, <1>13, <1>14,
       <1>15, <1>16, <1>17, <1>18, <1>19, <1>20, <1>21, <1>22, <1>23, <1>24, Closing
       DEF Next, LoopStep, CloseStep, HandlerStep, StreamStep

LEMMA RowsKept ==
    ASSUME ShapeInv, [Next]_vars
    PROVE  rows \subseteq rows' /\ \A k : HasRow(k) => HasRow(k)'
  BY RowsGrow DEF RowMoves, RowAdded, HasRow

LEMMA RowFound ==
    ASSUME NEW f, NEW status, rows' = rows \cup {Row(f, status)}
    PROVE  \A k : HasRow(k)' <=> (HasRow(k) \/ k = f.sequence)
  <1>1. Row(f, status).final = f
    BY DEF Row
  <1>2. QED
    BY <1>1 DEF HasRow

(* What a step may do to the list of q: nothing, fill it, pass over its     *)
(* head, or drop it, which history remembers.                               *)
RestMove(q) ==
    \/ rest'[q] = rest[q]
    \/ CancelLoop(q)
    \/ /\ rest[q] # <<>> /\ rest'[q] = Tail(rest[q])
       /\ \/ Head(rest[q]).sequence \in archived
          \/ At(q, "enqueue")
    \/ rest'[q] = <<>> /\ Members(rest[q]) \subseteq spoilt' \cup cut'
(* A drain is at the retry queue with the final it has just inserted.       *)
EnqueueMove(q) ==
    closing'[q] = "enqueue" =>
        /\ rest'[q] = rest[q]
        /\ \/ closing[q] = "enqueue"
           \/ closing[q] = "insert" /\ rows' = rows \cup {Row(Head(rest[q]), "FAILED")}
HistoryMoves == spoilt \subseteq spoilt' /\ cut \subseteq cut'
RestMoves == (\A q \in Closers : RestMove(q) /\ EnqueueMove(q)) /\ HistoryMoves

LEMMA RaiseMoves ==
    ASSUME ShapeInv, NEW p \in Closers, Raise(p), UNCHANGED cut PROVE RestMoves
  <1>1. Raised(p) /\ rest \in [Closers -> Seq(Finals)] /\ closing \in [Closers -> Stages]
    BY RaiseEffect DEF ShapeInv, TypeOK
  <1>2. /\ rest'[p] = <<>> /\ closing'[p] # "enqueue" /\ spoilt' = spoilt \cup Members(rest[p])
        /\ \A q \in Closers : q # p => rest'[q] = rest[q] /\ closing'[q] = closing[q]
    BY <1>1 DEF Raised
  <1>3. QED
    BY <1>2 DEF RestMoves, RestMove, EnqueueMove, HistoryMoves

LEMMA CancelMoves ==
    ASSUME ShapeInv, NEW k \in Streams, NEW waiting \in [Closers -> Stages], CancelTask(k, waiting),
           \A q \in Closers : waiting[q] \in {closing[q], "join"}, UNCHANGED spoilt
    PROVE  RestMoves
  <1>1. CASE closing' = waiting /\ UNCHANGED <<speech, rest, rows, cut>>
    BY <1>1 DEF RestMoves, RestMove, EnqueueMove, HistoryMoves
  <1>2. ASSUME NEW j \in Streams, Cancelled(j, waiting) PROVE RestMoves
    <2>1. rest \in [Closers -> Seq(Finals)] /\ j \in Closers
      BY Closing DEF ShapeInv, TypeOK
    <2>2. /\ rest'[j] = <<>> /\ closing'[j] # "enqueue" /\ cut' = cut \cup Members(rest[j])
          /\ \A q \in Closers : q # j => rest'[q] = rest[q] /\ closing'[q] \in {closing[q], "join"}
      BY <1>2, <2>1 DEF Cancelled
    <2>3. QED
      BY <2>2 DEF RestMoves, RestMove, EnqueueMove, HistoryMoves
  <1>3. QED
    BY <1>1, <1>2, CancelEffect

LEMMA RestsMove == ASSUME ShapeInv, [Next]_vars PROVE RestMoves
  <1>0. /\ TypeOK /\ rest \in [Closers -> Seq(Finals)] /\ closing \in [Closers -> Stages]
        /\ sttTask \in 0..MaxStreams
    BY DEF ShapeInv, TypeOK
  <1> USE DEF sessionVars, source, tasks, queue, store, Goto, At, Over, RestMoves, RestMove, EnqueueMove, HistoryMoves
  <1>1. CASE StartStream
    BY <1>0, <1>1, Closing DEF StartStream
  <1>2. CASE Hear
    BY <1>0, <1>2, Closing DEF Hear
  <1>3. ASSUME NEW k \in Streams, StopListening(k) PROVE RestMoves
    BY <1>0, <1>3, Closing DEF StopListening
  <1>4. ASSUME NEW k \in Streams, StreamFails(k) PROVE RestMoves
    BY <1>0, <1>4, Closing DEF StreamFails
  <1>5. CASE TakeNext
    BY <1>0, <1>5, Closing DEF TakeNext
  <1>6. CASE Translate \/ InsertSegment \/ InsertFails \/ EnqueueRetry \/ Announce
    BY <1>0, <1>6, Closing DEF Translate, InsertSegment, InsertFails, EnqueueRetry, Announce
  <1>7. CASE EndLoop
    BY <1>0, <1>7, Closing DEF EndLoop
  <1>8. CASE SessionStop
    BY <1>0, <1>8, Closing DEF SessionStop
  <1>9. CASE LoseClient
    BY <1>0, <1>9, Closing DEF LoseClient
  <1>10. CASE Disconnect
    BY <1>0, <1>10, Closing DEF Disconnect
  <1>11. ASSUME NEW p \in Closers, CancelStt(p) PROVE RestMoves
    <2>1. CASE closing' = [closing EXCEPT ![p] = "drain"] /\ UNCHANGED <<rest, cut>>
      BY <1>0, <1>11, <2>1 DEF CancelStt
    <2>2. CASE ~(closing' = [closing EXCEPT ![p] = "drain"] /\ UNCHANGED <<rest, cut>>)
      <3>1. sttTask \in Streams /\ CancelTask(sttTask, [closing EXCEPT ![p] = "join"]) /\ UNCHANGED spoilt
        BY <1>0, <1>11, <2>2 DEF CancelStt, Streams
      <3>2. /\ [closing EXCEPT ![p] = "join"] \in [Closers -> Stages]
            /\ \A q \in Closers : [closing EXCEPT ![p] = "join"][q] \in {closing[q], "join"}
        BY <1>0 DEF Stages
      <3> DEFINE waiting == [closing EXCEPT ![p] = "join"]
      <3>4. waiting \in [Closers -> Stages] /\ CancelTask(sttTask, waiting)
            /\ \A q \in Closers : waiting[q] \in {closing[q], "join"}
        BY <3>1, <3>2
      <3> HIDE DEF waiting
      <3>3. QED
        BY <3>1, <3>4, CancelMoves
    <2>3. QED
      BY <2>1, <2>2
  <1>12. ASSUME NEW p \in Closers, Join(p) PROVE RestMoves
    <2>1. CASE Raise(p)
      BY <1>12, <2>1, RaiseMoves, Closing DEF Join
    <2>2. CASE ~Raise(p)
      BY <1>0, <1>12, <2>2, Closing DEF Join
    <2>3. QED
      BY <2>1, <2>2
  <1>13. ASSUME NEW p \in Closers, CancelLoop(p) PROVE RestMoves
    <2>1. /\ closing'[p] # "enqueue" /\ UNCHANGED <<spoilt, cut>>
          /\ \A q \in Closers : q # p => rest'[q] = rest[q] /\ closing'[q] = closing[q]
      BY <1>0, <1>13 DEF CancelLoop, StopLoop
    <2>2. QED
      BY <1>13, <2>1
  <1>14. ASSUME NEW p \in Closers, LookAt(p) PROVE RestMoves
    BY <1>0, <1>14, Closing DEF LookAt
  <1>15. ASSUME NEW p \in Closers, InsertRest(p) PROVE RestMoves
    <2>1. CASE Raise(p)
      BY <1>15, <2>1, RaiseMoves, Closing DEF InsertRest
    <2>2. CASE ~Raise(p)
      BY <1>0, <1>15, <2>2, Closing DEF InsertRest
    <2>3. QED
      BY <2>1, <2>2
  <1>16. ASSUME NEW p \in Closers, InsertRestFails(p) PROVE RestMoves
    BY <1>16, RaiseMoves DEF InsertRestFails
  <1>17. ASSUME NEW p \in Closers, EnqueueRest(p) PROVE RestMoves
    BY <1>0, <1>17, Closing DEF EnqueueRest
  <1>18. CASE Settle
    <2>1. CASE Raise(Handler)
      BY <1>18, <2>1, RaiseMoves, Closing DEF Settle
    <2>2. CASE ~Raise(Handler)
      BY <1>0, <1>18, <2>2, Closing DEF Settle
    <2>3. QED
      BY <2>1, <2>2
  <1>19. ASSUME NEW k \in Streams, SettleInStream(k) PROVE RestMoves
    BY <1>0, <1>19, Closing DEF SettleInStream
  <1>20. CASE Park
    BY <1>0, <1>20, Closing DEF Park
  <1>21. ASSUME NEW k \in Streams, SweepStt(k) PROVE RestMoves
    <2>1. CancelTask(k, closing) /\ UNCHANGED spoilt
      BY <1>21 DEF SweepStt
    <2>2. QED
      BY <1>0, <2>1, CancelMoves
  <1>22. CASE Resume
    BY <1>0, <1>22, Closing DEF Resume
  <1>23. CASE Expire
    BY <1>0, <1>23, Closing DEF Expire
  <1>24. CASE UNCHANGED vars
    BY <1>0, <1>24, Closing DEF vars
  <1>25. QED
    BY <1>1, <1>2, <1>3, <1>4, <1>5, <1>6, <1>7, <1>8, <1>9, <1>10, <1>11, <1>12, <1>13, <1>14,
       <1>15, <1>16, <1>17, <1>18, <1>19, <1>20, <1>21, <1>22, <1>23, <1>24, Closing
       DEF Next, LoopStep, CloseStep, HandlerStep, StreamStep

-----------------------------------------------------------------------------
(* What the table, the set of archived numbers and the queue of jobs hold.  *)

(* A job's row is stored before the job is queued, and announced after it.  *)
LoopHasRow == /\ loop = "enqueue" => Row(current, "FAILED") \in rows
              /\ loop = "announce" => HasRow(current.sequence)
DrainHasRow == \A p \in Closers : At(p, "enqueue") => Row(Head(rest[p]), "FAILED") \in rows
StoreInv == ArchivedIsStored /\ JobsAreFailedRows /\ LoopHasRow /\ DrainHasRow

LEMMA StoreInit == Init => StoreInv
  BY DEF Init, StoreInv, ArchivedIsStored, JobsAreFailedRows, LoopHasRow, DrainHasRow, At

(* What a step does to the translation task, to the numbers and to the jobs. *)
LoopMove ==
    loop' \in {"enqueue", "announce"} =>
        /\ UNCHANGED current
        /\ \/ loop' = loop
           \/ loop = "enqueue" /\ loop' = "announce"
           \/ rows' = rows \cup {Row(current, "FAILED")}
           \/ loop' = "announce" /\ rows' = rows \cup {Row(current, "COMPLETED")}
StoreMove ==
    /\ \/ UNCHANGED archived
       \/ \E f \in Finals, status \in {"COMPLETED", "FAILED"} :
              archived' = archived \cup {f.sequence} /\ rows' = rows \cup {Row(f, status)}
    /\ \/ UNCHANGED jobs
       \/ loop = "enqueue" /\ jobs' = jobs \cup {current}
       \/ \E p \in Closers : At(p, "enqueue") /\ jobs' = jobs \cup {Head(rest[p])}

LEMMA StoreMoves == ASSUME ShapeInv, [Next]_vars PROVE LoopMove /\ StoreMove
  <1>0. TypeOK /\ LoopInv /\ TaskInv
    BY DEF ShapeInv
  <1> USE DEF sessionVars, source, tasks, queue, store, Goto, At, Over, LoopMove, StoreMove, TypeOK, LoopInv, HasCurrent, Working, Ended,
              HandlerDrained, ParkedIsIdle, Waited, StopLoop
  <1>1. CASE StartStream
    BY <1>0, <1>1, Closing DEF StartStream
  <1>2. CASE Hear
    BY <1>0, <1>2, Closing DEF Hear
  <1>3. ASSUME NEW k \in Streams, StopListening(k) PROVE LoopMove /\ StoreMove
    BY <1>0, <1>3, Closing DEF StopListening
  <1>4. ASSUME NEW k \in Streams, StreamFails(k) PROVE LoopMove /\ StoreMove
    BY <1>0, <1>4, Closing DEF StreamFails
  <1>5. CASE TakeNext
    BY <1>0, <1>5, Closing DEF TakeNext
  <1>6. CASE Translate \/ InsertSegment \/ InsertFails \/ EnqueueRetry \/ Announce
    <2>1. CASE InsertSegment
      <3>1. loop \in {"complete", "fail"} /\ current \in Finals /\ UNCHANGED <<current, jobs>>
        BY <1>0, <2>1 DEF InsertSegment
      <3>2. \/ UNCHANGED archived /\ loop' = "done"
            \/ /\ archived' = archived \cup {current.sequence}
               /\ \/ rows' = rows \cup {Row(current, "COMPLETED")} /\ loop' = "announce"
                  \/ rows' = rows \cup {Row(current, "FAILED")} /\ loop' = "enqueue"
        BY <2>1, <3>1 DEF InsertSegment
      <3>3. QED
        BY <3>1, <3>2
    <2>2. CASE Translate \/ InsertFails \/ EnqueueRetry \/ Announce
      BY <1>0, <2>2 DEF Translate, InsertFails, EnqueueRetry, Announce, Enqueued
    <2>3. QED
      BY <1>6, <2>1, <2>2
  <1>7. CASE EndLoop
    BY <1>0, <1>7, Closing DEF EndLoop
  <1>8. CASE SessionStop
    BY <1>0, <1>8, Closing DEF SessionStop
  <1>9. CASE LoseClient
    BY <1>0, <1>9, Closing DEF LoseClient
  <1>10. CASE Disconnect
    BY <1>0, <1>10, Closing DEF Disconnect
  <1>11. ASSUME NEW p \in Closers, CancelStt(p) PROVE LoopMove /\ StoreMove
    BY <1>0, <1>11, Closing DEF CancelStt
  <1>12. ASSUME NEW p \in Closers, Join(p) PROVE LoopMove /\ StoreMove
    BY <1>0, <1>12, Closing DEF Join
  <1>13. ASSUME NEW p \in Closers, CancelLoop(p) PROVE LoopMove /\ StoreMove
    BY <1>0, <1>13, Closing DEF CancelLoop
  <1>14. ASSUME NEW p \in Closers, LookAt(p) PROVE LoopMove /\ StoreMove
    BY <1>0, <1>14, Closing DEF LookAt
  <1>15. ASSUME NEW p \in Closers, InsertRest(p) PROVE LoopMove /\ StoreMove
    <2>1. Head(rest[p]) \in Finals
      BY <1>15, RestTyped DEF InsertRest, ShapeInv, RestInv, RestInInsert
    <2>2. QED
      BY <1>0, <1>15, <2>1 DEF InsertRest
  <1>16. ASSUME NEW p \in Closers, InsertRestFails(p) PROVE LoopMove /\ StoreMove
    BY <1>0, <1>16, Closing DEF InsertRestFails
  <1>17. ASSUME NEW p \in Closers, EnqueueRest(p) PROVE LoopMove /\ StoreMove
    BY <1>0, <1>17 DEF EnqueueRest, Enqueued
  <1>18. CASE Settle
    BY <1>0, <1>18, Closing DEF Settle
  <1>19. ASSUME NEW k \in Streams, SettleInStream(k) PROVE LoopMove /\ StoreMove
    BY <1>0, <1>19, Closing DEF SettleInStream
  <1>20. CASE Park
    BY <1>0, <1>20, Closing DEF Park
  <1>21. ASSUME NEW k \in Streams, SweepStt(k) PROVE LoopMove /\ StoreMove
    BY <1>0, <1>21, Closing DEF SweepStt
  <1>22. CASE Resume
    BY <1>0, <1>22, Closing DEF Resume
  <1>23. CASE Expire
    BY <1>0, <1>23, Closing DEF Expire
  <1>24. CASE UNCHANGED vars
    BY <1>0, <1>24, Closing DEF vars
  <1>25. QED
    BY <1>1, <1>2, <1>3, <1>4, <1>5, <1>6, <1>7, <1>8, <1>9, <1>10, <1>11, <1>12, <1>13, <1>14,
       <1>15, <1>16, <1>17, <1>18, <1>19, <1>20, <1>21, <1>22, <1>23, <1>24, Closing
       DEF Next, LoopStep, CloseStep, HandlerStep, StreamStep

LEMMA StoreStep == ShapeInv /\ StoreInv /\ [Next]_vars => StoreInv'
  <1> SUFFICES ASSUME ShapeInv, StoreInv, [Next]_vars PROVE StoreInv'
    OBVIOUS
  <1>1. rows \subseteq rows' /\ \A k : HasRow(k) => HasRow(k)'
    BY RowsKept
  <1>2. LoopMove /\ StoreMove /\ RestMoves
    BY StoreMoves, RestsMove
  <1>3. ArchivedIsStored'
    <2>1. ASSUME NEW f \in Finals, NEW status \in {"COMPLETED", "FAILED"},
                 archived' = archived \cup {f.sequence}, rows' = rows \cup {Row(f, status)}
          PROVE  ArchivedIsStored'
      <3>1. HasRow(f.sequence)'
        BY <2>1, RowFound
      <3>2. QED
        BY <1>1, <2>1, <3>1 DEF StoreInv, ArchivedIsStored
    <2>2. CASE UNCHANGED archived
      BY <1>1, <2>2 DEF StoreInv, ArchivedIsStored
    <2>3. QED
      BY <1>2, <2>1, <2>2 DEF StoreMove
  <1>4. JobsAreFailedRows'
    BY <1>1, <1>2 DEF StoreMove, StoreInv, JobsAreFailedRows, LoopHasRow, DrainHasRow
  <1>5. LoopHasRow'
    <2>1. CASE loop' = "enqueue"
      BY <1>1, <1>2, <2>1 DEF LoopMove, StoreInv, LoopHasRow
    <2>2. CASE loop' = "announce"
      <3>1. \A status : Row(current, status).final = current
        BY DEF Row
      <3>2. HasRow(current.sequence)'
        BY <1>1, <1>2, <2>2, <3>1 DEF LoopMove, StoreInv, LoopHasRow, HasRow
      <3>3. UNCHANGED current
        BY <1>2, <2>2 DEF LoopMove
      <3>4. QED
        BY <2>2, <3>2, <3>3 DEF LoopHasRow
    <2>3. QED
      BY <2>1, <2>2 DEF LoopHasRow
  <1>6. DrainHasRow'
    BY <1>1, <1>2 DEF RestMoves, EnqueueMove, StoreInv, DrainHasRow, At
  <1>7. QED
    BY <1>3, <1>4, <1>5, <1>6 DEF StoreInv

LEMMA Store == Spec => []StoreInv
  BY Shape, StoreInit, StoreStep, PTL DEF Spec

(* No number is marked as archived without a row.                           *)
THEOREM ArchivedIsStoredHolds == Spec => []ArchivedIsStored
  <1>1. StoreInv => ArchivedIsStored
    BY DEF StoreInv
  <1>2. QED
    BY <1>1, Store, PTL

(* A retry job's row is in the table, as failed.                            *)
THEOREM JobsAreFailedRowsHolds == Spec => []JobsAreFailedRows
  <1>1. StoreInv => JobsAreFailedRows
    BY DEF StoreInv
  <1>2. QED
    BY <1>1, Store, PTL

-----------------------------------------------------------------------------
(* What happens to the finals in hand.                                      *)

(* The finals that are still in somebody's hands; those that have a row, or *)
(* are lost in one of the two ways.                                         *)
InRests == UNION {Members(rest[p]) : p \in Closers}
Unfinished == Members(pending) \cup InRests \cup ({current} \ {NoFinal})
Settled(f) == HasRow(f.sequence) \/ f \in spoilt \cup cut
Accounted == \A f \in heard : Settled(f) \/ f \in Unfinished

(* A final that the translation task has left behind, because it raised or  *)
(* was cancelled, is settled or on somebody's list.                         *)
InWork == {"translate", "complete", "fail"}
LeftBehind == current # NoFinal /\ loop \notin InWork => Settled(current) \/ current \in InRests
ForgetInv == Accounted /\ LeftBehind

LEMMA ForgetInit == Init => ForgetInv
  BY DEF Init, ForgetInv, Accounted, LeftBehind

LEMMA InSomeRest == \A f : f \in InRests <=> \E p \in Closers : f \in Members(rest[p])
  BY DEF InRests

LEMMA SettledKept ==
    ASSUME ShapeInv, [Next]_vars PROVE \A f : Settled(f) => Settled(f)'
  BY RowsKept, RestsMove DEF RestMoves, HistoryMoves, Settled

(* A list keeps its order, and only loses what has a row, or all that it    *)
(* held, which history remembers as lost.                                   *)
LEMMA ListMoves ==
    ASSUME ShapeInv, StoreInv, [Next]_vars, NEW q \in Closers, ~CancelLoop(q)
    PROVE  /\ Members(rest'[q]) \subseteq Members(rest[q])
           /\ Ascending(rest[q]) => Ascending(rest'[q])
           /\ \A f \in Members(rest[q]) : \/ f \in Members(rest'[q]) \/ HasRow(f.sequence)
                                          \/ rest'[q] = <<>> /\ f \in spoilt' \cup cut'
  <1>1. RestMove(q)
    BY RestsMove DEF RestMoves
  <1>2. CASE rest'[q] = rest[q]
    BY <1>2
  <1>3. CASE /\ rest[q] # <<>> /\ rest'[q] = Tail(rest[q])
             /\ \/ Head(rest[q]).sequence \in archived
                \/ At(q, "enqueue")
    <2>1. HasRow(Head(rest[q]).sequence)
      <3>1. CASE Head(rest[q]).sequence \in archived
        BY <3>1 DEF StoreInv, ArchivedIsStored
      <3>2. CASE At(q, "enqueue")
        BY <3>2 DEF StoreInv, DrainHasRow, HasRow, Row
      <3>3. QED
        BY <1>3, <3>1, <3>2
    <2>2. /\ Members(rest[q]) = {Head(rest[q])} \cup Members(rest'[q])
          /\ Ascending(rest[q]) => Ascending(rest'[q])
      BY <1>3, RestTyped, MembersTail
    <2>3. QED
      BY <2>1, <2>2
  <1>4. CASE rest'[q] = <<>> /\ Members(rest[q]) \subseteq spoilt' \cup cut'
    BY <1>4, MembersEmpty
  <1>5. QED
    BY <1>1, <1>2, <1>3, <1>4 DEF RestMove

LEMMA RestsKept ==
    ASSUME ShapeInv, StoreInv, [Next]_vars, NEW f \in InRests
    PROVE  f \in InRests' \/ Settled(f)'
  <1>1. PICK q \in Closers : f \in Members(rest[q])
    BY InSomeRest
  <1>2. ~CancelLoop(q)
    BY <1>1, MembersEmpty DEF CancelLoop, At, ShapeInv, RestInv, RestInDrain
  <1>3. QED
    BY <1>1, <1>2, ListMoves, RowsKept DEF InRests, Settled

(* The queue and the current final change where finals are heard, taken, or *)
(* drained; otherwise the current final is only let go of.                  *)
Settles == loop \in InWork /\ loop' \notin InWork => current \in spoilt' \/ HasRow(current.sequence)'
QueueMove ==
    \/ Hear
    \/ TakeNext
    \/ \E p \in Closers : CancelLoop(p)
    \/ UNCHANGED <<pending, current, heard>> /\ Settles
    \/ UNCHANGED <<pending, heard>> /\ current' = NoFinal /\ loop \in {"announce", "cancelled"}

LEMMA QueueMoves == ASSUME ShapeInv, [Next]_vars PROVE QueueMove
  <1>0. TypeOK /\ LoopInv /\ TaskInv
    BY DEF ShapeInv
  <1> USE DEF sessionVars, source, tasks, queue, store, Goto, At, Over, QueueMove, Settles, InWork, LoopInv, Ended, HandlerDrained, ParkedIsIdle, Emptied, Waited
  <1>1. CASE StartStream
    BY <1>0, <1>1, Closing DEF StartStream
  <1>2. CASE Hear
    BY <1>2
  <1>3. ASSUME NEW k \in Streams, StopListening(k) PROVE QueueMove
    BY <1>0, <1>3, Closing DEF StopListening
  <1>4. ASSUME NEW k \in Streams, StreamFails(k) PROVE QueueMove
    BY <1>0, <1>4, Closing DEF StreamFails
  <1>5. CASE TakeNext
    BY <1>5
  <1>6. CASE Translate \/ InsertSegment \/ InsertFails \/ EnqueueRetry \/ Announce
    <2>1. CASE InsertSegment
      <3>1. UNCHANGED <<pending, current, heard>>
        BY <2>1 DEF InsertSegment
      <3>2. CASE HasRow(current.sequence)
        BY <2>1, <3>1, <3>2 DEF InsertSegment
      <3>3. CASE ~HasRow(current.sequence)
        <4>1. \E status : rows' = rows \cup {Row(current, status)}
          BY <2>1, <3>3 DEF InsertSegment
        <4>2. HasRow(current.sequence)'
          BY <3>1, <4>1, RowFound
        <4>3. QED
          BY <3>1, <4>2
      <3>4. QED
        BY <3>2, <3>3
    <2>2. CASE Translate \/ InsertFails \/ EnqueueRetry \/ Announce
      BY <1>0, <2>2 DEF Translate, InsertFails, EnqueueRetry, Announce
    <2>3. QED
      BY <1>6, <2>1, <2>2
  <1>7. CASE EndLoop
    BY <1>0, <1>7, Closing DEF EndLoop
  <1>8. CASE SessionStop
    BY <1>0, <1>8, Closing DEF SessionStop
  <1>9. CASE LoseClient
    BY <1>0, <1>9, Closing DEF LoseClient
  <1>10. CASE Disconnect
    BY <1>0, <1>10, Closing DEF Disconnect
  <1>11. ASSUME NEW p \in Closers, CancelStt(p) PROVE QueueMove
    BY <1>0, <1>11, Closing DEF CancelStt
  <1>12. ASSUME NEW p \in Closers, Join(p) PROVE QueueMove
    BY <1>0, <1>12, Closing DEF Join
  <1>13. ASSUME NEW p \in Closers, CancelLoop(p) PROVE QueueMove
    BY <1>13
  <1>14. ASSUME NEW p \in Closers, LookAt(p) PROVE QueueMove
    BY <1>0, <1>14, Closing DEF LookAt
  <1>15. ASSUME NEW p \in Closers, InsertRest(p) PROVE QueueMove
    BY <1>0, <1>15, Closing DEF InsertRest
  <1>16. ASSUME NEW p \in Closers, InsertRestFails(p) PROVE QueueMove
    BY <1>0, <1>16, Closing DEF InsertRestFails
  <1>17. ASSUME NEW p \in Closers, EnqueueRest(p) PROVE QueueMove
    BY <1>0, <1>17, Closing DEF EnqueueRest
  <1>18. CASE Settle
    BY <1>0, <1>18, Closing DEF Settle
  <1>19. ASSUME NEW k \in Streams, SettleInStream(k) PROVE QueueMove
    BY <1>0, <1>19, Closing DEF SettleInStream
  <1>20. CASE Park
    BY <1>0, <1>20, Closing DEF Park
  <1>21. ASSUME NEW k \in Streams, SweepStt(k) PROVE QueueMove
    BY <1>0, <1>21, Closing DEF SweepStt
  <1>22. CASE Resume
    BY <1>0, <1>22, Closing DEF Resume
  <1>23. CASE Expire
    BY <1>0, <1>23, Closing DEF Expire
  <1>24. CASE UNCHANGED vars
    BY <1>0, <1>24, Closing DEF vars
  <1>25. QED
    BY <1>1, <1>2, <1>3, <1>4, <1>5, <1>6, <1>7, <1>8, <1>9, <1>10, <1>11, <1>12, <1>13, <1>14,
       <1>15, <1>16, <1>17, <1>18, <1>19, <1>20, <1>21, <1>22, <1>23, <1>24, Closing
       DEF Next, LoopStep, CloseStep, HandlerStep, StreamStep

(* What CancelLoop puts on the list of p is what was current or queued.     *)
LEMMA DrainQueue ==
    ASSUME ShapeInv, NEW p \in Closers, CancelLoop(p)
    PROVE  /\ Members(rest'[p]) = Members(pending) \cup ({current} \ {NoFinal})
           /\ Members(pending') = {} /\ rest[p] = <<>>
           /\ \A q \in Closers : q # p => rest'[q] = rest[q]
           /\ Ascending(pending)
              /\ (current # NoFinal => \A g \in Members(pending) : current.sequence < g.sequence)
                => Ascending(rest'[p])
  <1>1. /\ pending \in Seq(Finals) /\ current \in Finals \cup {NoFinal}
        /\ rest \in [Closers -> Seq(Finals)] /\ rest[p] = <<>>
    BY DEF CancelLoop, ShapeInv, TypeOK, RestInv, RestInDrain, At
  <1>2. /\ rest'[p] = CurrentFinal \o pending /\ pending' = <<>>
        /\ \A q \in Closers : q # p => rest'[q] = rest[q]
    BY <1>1 DEF CancelLoop
  <1>3. CASE current = NoFinal
    BY <1>1, <1>2, <1>3, ConcatEmptySeq, MembersEmpty DEF CurrentFinal
  <1>4. CASE current # NoFinal
    <2>1. rest'[p] = <<current>> \o pending /\ current \in Finals
      BY <1>1, <1>2, <1>4 DEF CurrentFinal
    <2>2. /\ Members(rest'[p]) = {current} \cup Members(pending)
          /\ Ascending(pending) /\ (\A g \in Members(pending) : current.sequence < g.sequence)
                => Ascending(rest'[p])
      BY <1>1, <2>1, MembersPrepend
    <2>3. QED
      BY <1>1, <1>2, <1>4, <2>2, MembersEmpty
  <1>5. QED
    BY <1>3, <1>4

LEMMA ForgetStep ==
    ASSUME ShapeInv, StoreInv, ForgetInv, [Next]_vars PROVE ForgetInv'
  <1>1. \A f : Settled(f) => Settled(f)'
    BY SettledKept
  <1>2. \A f \in InRests : f \in InRests' \/ Settled(f)'
    BY RestsKept
  <1>3. TypeOK
    BY DEF ShapeInv
  <1>4. CASE Hear
    <2> DEFINE f == [stream |-> stream, sequence |-> lastSequence + 1]
    <2>1. f \in Finals /\ pending' = Append(pending, f) /\ heard' = heard \cup {f}
      BY <1>3, <1>4 DEF Hear, Finals, TypeOK, Streams
    <2>2. Members(pending') = Members(pending) \cup {f}
      BY <1>3, <2>1, MembersAppend DEF TypeOK
    <2>3. UNCHANGED current /\ (loop' \in InWork <=> loop \in InWork)
      BY <1>4 DEF Hear, InWork
    <2> HIDE DEF f
    <2>4. QED
      BY <1>1, <1>2, <2>1, <2>2, <2>3 DEF ForgetInv, Accounted, LeftBehind, Unfinished
  <1>5. CASE TakeNext
    <2>1. CASE pending = <<>> \/ closed
      BY <1>1, <1>2, <1>5, <2>1 DEF TakeNext, ForgetInv, Accounted, LeftBehind, Unfinished, source, InWork
    <2>2. CASE ~(pending = <<>> \/ closed)
      <3> DEFINE f == Head(pending)
      <3>1. f \in Finals /\ Members(pending) = {f} \cup Members(pending') /\ UNCHANGED heard
        BY <1>3, <1>5, <2>2, MembersTail DEF TakeNext, TypeOK, source
      <3>2. CASE f.sequence \in archived
        <4>1. Settled(f) /\ UNCHANGED <<current, loop>>
          BY <1>5, <2>2, <3>2 DEF TakeNext, StoreInv, ArchivedIsStored, Settled
        <4>2. QED
          BY <1>1, <1>2, <3>1, <4>1 DEF ForgetInv, Accounted, LeftBehind, Unfinished
      <3>3. CASE f.sequence \notin archived
        <4>1. current' = f /\ loop' = "translate" /\ loop \notin InWork
          BY <1>5, <2>2, <3>3 DEF TakeNext, InWork
        <4> HIDE DEF f
        <4>2. \A g : g = current /\ g # NoFinal => Settled(g)' \/ g \in InRests'
          BY <1>1, <1>2, <4>1 DEF ForgetInv, LeftBehind
        <4>3. Accounted'
          BY <1>1, <1>2, <3>1, <4>1, <4>2, NoFinalAssumption DEF ForgetInv, Accounted, Unfinished
        <4>4. QED
          BY <4>1, <4>3 DEF ForgetInv, LeftBehind, InWork
      <3>4. QED
        BY <3>2, <3>3
    <2>3. QED
      BY <2>1, <2>2
  <1>6. ASSUME NEW p \in Closers, CancelLoop(p) PROVE ForgetInv'
    <2>1. Members(rest'[p]) = Members(pending) \cup ({current} \ {NoFinal}) /\ UNCHANGED heard
      BY <1>6, DrainQueue DEF CancelLoop, source
    <2>2. Members(rest'[p]) \subseteq InRests'
      BY DEF InRests
    <2>3. current' \in {current, NoFinal}
      BY <1>6 DEF CancelLoop, StopLoop
    <2>4. QED
      BY <1>1, <1>2, <2>1, <2>2, <2>3 DEF ForgetInv, Accounted, LeftBehind, Unfinished
  <1>7. CASE UNCHANGED <<pending, current, heard>> /\ Settles
    BY <1>1, <1>2, <1>7 DEF Settles, ForgetInv, Accounted, LeftBehind, Unfinished, Settled
  <1>8. CASE UNCHANGED <<pending, heard>> /\ current' = NoFinal /\ loop \in {"announce", "cancelled"}
    <2>1. \A g : g = current /\ g # NoFinal => Settled(g)' \/ g \in InRests'
      BY <1>1, <1>2, <1>8 DEF ForgetInv, LeftBehind, InWork
    <2>2. QED
      BY <1>1, <1>2, <1>8, <2>1 DEF ForgetInv, Accounted, LeftBehind, Unfinished
  <1>9. QED
    BY <1>4, <1>5, <1>6, <1>7, <1>8, QueueMoves DEF QueueMove

-----------------------------------------------------------------------------
(* Resumes that wait for the tasks of the former connection.                *)

(* Only the last stream's task is still at work; a session that is closed   *)
(* is offline and has nothing in work, and so has one that any task is      *)
(* draining.                                                                *)
Former == /\ \A k \in Streams : k # stream => speech[k] \notin {"listening", "failed"}
          /\ sweeping \subseteq {stream}
ClosedIsIdle == closed => ~online /\ pending = <<>> /\ current = NoFinal /\ loop \in Ended
Drained == \A p \in Closers : /\ closing[p] \in Emptied => pending = <<>> /\ loop \in Ended
                              /\ closing[p] \in Waited => current = NoFinal
PunctualInv == Former /\ ClosedIsIdle /\ Drained

LEMMA PunctualInit == Init => PunctualInv
  BY Closing DEF Init, PunctualInv, Former, ClosedIsIdle, Drained, Emptied, Waited

LEMMA RaisePunctual ==
    ASSUME ShapeInv, PunctualInv, NEW p \in Closers, Raise(p),
           UNCHANGED <<closed, stream, sweeping, pending, current, loop>>
    PROVE  PunctualInv'
  <1>1. Raised(p) /\ closing \in [Closers -> Stages]
        /\ speech \in [Streams -> {"new", "listening", "failed", "over", "raised"}]
    BY RaiseEffect DEF ShapeInv, TypeOK
  <1>2. \A k \in Streams : speech'[k] \in {speech[k], "raised"}
    BY <1>1 DEF Raised
  <1>3. \A q \in Closers : closing'[q] \in {closing[q], "none", "provider", "drain"}
    BY <1>1 DEF Raised
  <1>4. online' => online
    BY <1>1 DEF Raised
  <1>5. QED
    BY <1>2, <1>3, <1>4 DEF PunctualInv, Former, ClosedIsIdle, Drained, Emptied, Waited

LEMMA CancelPunctual ==
    ASSUME ShapeInv, PunctualInv, NEW k \in Streams, NEW waiting \in [Closers -> Stages],
           CancelTask(k, waiting), \A q \in Closers : waiting[q] \in {closing[q], "join"},
           UNCHANGED <<closed, online, stream, pending, current, loop>>, sweeping' \subseteq sweeping
    PROVE  PunctualInv'
  <1>1. /\ \A q \in Streams : speech'[q] \in {speech[q], "over"}
        /\ \A q \in Closers : closing'[q] \in {closing[q], "join", "none"}
    <2>1. CASE closing' = waiting /\ UNCHANGED speech
      BY <2>1
    <2>2. ASSUME NEW j \in Streams, Cancelled(j, waiting)
          PROVE  /\ \A q \in Streams : speech'[q] \in {speech[q], "over"}
                 /\ \A q \in Closers : closing'[q] \in {closing[q], "join", "none"}
      BY <2>2 DEF Cancelled, ShapeInv, TypeOK
    <2>3. QED
      BY <2>1, <2>2, CancelEffect
  <1>2. QED
    BY <1>1 DEF PunctualInv, Former, ClosedIsIdle, Drained, Emptied, Waited

(* While a task drains, or once the session is closed, nobody is heard.     *)
LEMMA DrainSilent ==
    ASSUME ShapeInv, PunctualInv, speech[stream] = "listening", online
    PROVE  ~closed /\ \A p \in Closers : closing[p] \notin Emptied
  <1>1. ~closed
    BY DEF PunctualInv, ClosedIsIdle
  <1>2. closing[Handler] \notin Emptied
    BY DEF ShapeInv, LoopInv, Silent, Emptied
  <1>3. \A k \in Streams : closing[k] = "none"
    BY DEF ShapeInv, TaskInv, StreamCloses, PunctualInv, Former, At
  <1>4. QED
    BY <1>1, <1>2, <1>3 DEF Closers, Emptied

LEMMA PunctualStep ==
    ASSUME "early" \notin Faults, ShapeInv, PunctualInv, [Next]_vars PROVE PunctualInv'
  <1>0. /\ TypeOK /\ TaskInv /\ LoopInv /\ closing \in [Closers -> Stages] /\ sttTask \in 0..MaxStreams
        /\ "early" \notin Faults
    BY DEF ShapeInv, TypeOK
  <1> USE DEF sessionVars, source, tasks, queue, store, Goto, At, Over, PunctualInv, Former, ClosedIsIdle, Drained, Emptied, Waited, Ended,
              TaskInv, LoopInv, LoopAwaited, ParkedIsIdle, Reaches, TypeOK
  <1>1. CASE StartStream
    BY <1>0, <1>1, Closing DEF StartStream
  <1>2. CASE Hear
    <2>1. /\ speech[stream] = "listening" /\ online
          /\ UNCHANGED <<closed, online, stream, speech, sweeping, closing>>
      BY <1>2 DEF Hear
    <2>2. QED
      BY <1>0, <2>1, DrainSilent
  <1>3. ASSUME NEW k \in Streams, StopListening(k) PROVE PunctualInv'
    BY <1>0, <1>3, Closing DEF StopListening
  <1>4. ASSUME NEW k \in Streams, StreamFails(k) PROVE PunctualInv'
    BY <1>0, <1>4, Closing DEF StreamFails
  <1>5. CASE TakeNext
    BY <1>0, <1>5, Closing DEF TakeNext
  <1>6. CASE Translate \/ InsertSegment \/ InsertFails \/ EnqueueRetry \/ Announce
    BY <1>0, <1>6, Closing DEF Translate, InsertSegment, InsertFails, EnqueueRetry, Announce
  <1>7. CASE EndLoop
    BY <1>0, <1>7, Closing DEF EndLoop
  <1>8. CASE SessionStop
    BY <1>0, <1>8, Closing DEF SessionStop
  <1>9. CASE LoseClient
    BY <1>0, <1>9, Closing DEF LoseClient
  <1>10. CASE Disconnect
    BY <1>0, <1>10, Closing DEF Disconnect
  <1>11. ASSUME NEW p \in Closers, CancelStt(p) PROVE PunctualInv'
    <2>1. CASE closing' = [closing EXCEPT ![p] = "drain"] /\ UNCHANGED speech
      BY <1>0, <1>11, <2>1 DEF CancelStt
    <2>2. CASE ~(closing' = [closing EXCEPT ![p] = "drain"] /\ UNCHANGED speech)
      <3> DEFINE waiting == [closing EXCEPT ![p] = "join"]
      <3>1. sttTask \in Streams /\ CancelTask(sttTask, waiting)
            /\ UNCHANGED <<closed, online, stream, pending, current, loop, sweeping>>
        BY <1>0, <1>11, <2>2 DEF CancelStt, Streams
      <3>2. waiting \in [Closers -> Stages] /\ \A q \in Closers : waiting[q] \in {closing[q], "join"}
        BY <1>0 DEF Stages
      <3> HIDE DEF waiting
      <3>3. QED
        BY <3>1, <3>2, CancelPunctual
    <2>3. QED
      BY <2>1, <2>2
  <1>12. ASSUME NEW p \in Closers, Join(p) PROVE PunctualInv'
    <2>1. CASE Raise(p)
      BY <1>12, <2>1, RaisePunctual, Closing DEF Join
    <2>2. CASE ~Raise(p)
      BY <1>0, <1>12, <2>2, Closing DEF Join
    <2>3. QED
      BY <2>1, <2>2
  <1>13. ASSUME NEW p \in Closers, CancelLoop(p) PROVE PunctualInv'
    <2>1. /\ closing[p] = "drain" /\ pending' = <<>>
          /\ \/ /\ closing' = [closing EXCEPT ![p] = "archive"]
                /\ loop \in Ended /\ UNCHANGED loop /\ current' = NoFinal
             \/ /\ closing' = [closing EXCEPT ![p] = "loop"]
                /\ loop' = "cancelled" /\ UNCHANGED current
          /\ UNCHANGED <<closed, online, stream, speech, sweeping>>
      BY <1>13 DEF CancelLoop, StopLoop
    <2>2. Former' /\ ClosedIsIdle'
      BY <1>0, <2>1
    <2>3. Drained'
      BY <1>0, <2>1
    <2>4. QED
      BY <2>2, <2>3
  <1>14. ASSUME NEW p \in Closers, LookAt(p) PROVE PunctualInv'
    BY <1>0, <1>14, Closing DEF LookAt
  <1>15. ASSUME NEW p \in Closers, InsertRest(p) PROVE PunctualInv'
    <2>1. CASE Raise(p)
      BY <1>15, <2>1, RaisePunctual, Closing DEF InsertRest
    <2>2. CASE ~Raise(p)
      BY <1>0, <1>15, <2>2, Closing DEF InsertRest
    <2>3. QED
      BY <2>1, <2>2
  <1>16. ASSUME NEW p \in Closers, InsertRestFails(p) PROVE PunctualInv'
    BY <1>16, RaisePunctual DEF InsertRestFails
  <1>17. ASSUME NEW p \in Closers, EnqueueRest(p) PROVE PunctualInv'
    BY <1>0, <1>17, Closing DEF EnqueueRest
  <1>18. CASE Settle
    <2>1. CASE Raise(Handler)
      BY <1>18, <2>1, RaisePunctual, Closing DEF Settle
    <2>2. CASE ~Raise(Handler)
      BY <1>0, <1>18, <2>2, Closing DEF Settle
    <2>3. QED
      BY <2>1, <2>2
  <1>19. ASSUME NEW k \in Streams, SettleInStream(k) PROVE PunctualInv'
    <2>1. k = stream
      BY <1>0, <1>19, Closing DEF SettleInStream, StreamCloses
    <2>2. QED
      BY <1>0, <1>19, <2>1, Closing DEF SettleInStream
  <1>20. CASE Park
    <2>1. /\ closing[Handler] = "archive" /\ pending' = <<>> /\ current' = NoFinal /\ ~online'
          /\ closing' = [closing EXCEPT ![Handler] = "none"] /\ UNCHANGED <<stream, speech, loop>>
          /\ sweeping' = sweeping \cup ({sttTask} \ {0})
      BY <1>20 DEF Park
    <2>2. loop \in Ended
      BY <2>1, Closing
    <2>3. Former'
      <3>1. sttTask \in {0, stream}
        BY <1>0 DEF SttIsLast
      <3>2. QED
        BY <2>1, <3>1
    <2>4. ClosedIsIdle'
      BY <2>1, <2>2
    <2>5. Drained'
      BY <1>0, <2>1, <2>2, Closing
    <2>6. QED
      BY <2>3, <2>4, <2>5
  <1>21. ASSUME NEW k \in Streams, SweepStt(k) PROVE PunctualInv'
    <2>1. CancelTask(k, closing) /\ sweeping' \subseteq sweeping
          /\ UNCHANGED <<closed, online, stream, pending, current, loop>>
      BY <1>21 DEF SweepStt
    <2>2. QED
      BY <1>0, <2>1, CancelPunctual
  <1>22. CASE Resume
    <2>1. Idle /\ ~closed' /\ pending' = <<>> /\ current' = NoFinal /\ loop \in Ended
          /\ UNCHANGED <<speech, closing, sweeping, loop>>
      BY <1>0, <1>22 DEF Resume
    <2>2. QED
      BY <1>0, <2>1 DEF Idle
  <1>23. CASE Expire
    BY <1>0, <1>23, Closing DEF Expire
  <1>24. CASE UNCHANGED vars
    BY <1>0, <1>24, Closing DEF vars
  <1>25. QED
    BY <1>1, <1>2, <1>3, <1>4, <1>5, <1>6, <1>7, <1>8, <1>9, <1>10, <1>11, <1>12, <1>13, <1>14,
       <1>15, <1>16, <1>17, <1>18, <1>19, <1>20, <1>21, <1>22, <1>23, <1>24, Closing
       DEF Next, LoopStep, CloseStep, HandlerStep, StreamStep

LEMMA Punctual == ASSUME "early" \notin Faults PROVE Spec => []PunctualInv
  <1>1. ShapeInv /\ PunctualInv /\ [Next]_vars => PunctualInv'
    BY PunctualStep
  <1>2. QED
    BY <1>1, PunctualInit, Shape, PTL DEF Spec

(* When a session is paused or closed and its tasks have come to rest,      *)
(* every final shown has its number in the table, or was lost to an insert  *)
(* that raised or to the cancellation of a drain - for every number of      *)
(* connections whose resumes wait for the tasks of the one before.          *)
THEOREM NothingForgottenHolds == ASSUME "early" \notin Faults PROVE Spec => []NothingForgotten
  <1>1. ShapeInv /\ PunctualInv /\ ForgetInv => NothingForgotten
    <2> SUFFICES ASSUME ShapeInv, PunctualInv, ForgetInv, Quiet, NEW f \in heard
                 PROVE  HasRow(f.sequence) \/ f \in spoilt \cup cut
      BY DEF NothingForgotten
    <2>1. pending = <<>> /\ current = NoFinal
      BY DEF PunctualInv, ClosedIsIdle, Quiet
    <2>2. \A p \in Closers : rest[p] = <<>>
      BY DEF Quiet, At, ShapeInv, RestInv, RestInDrain
    <2>3. f \notin Unfinished
      BY <2>1, <2>2, MembersEmpty DEF Unfinished, InRests
    <2>4. QED
      BY <2>3 DEF ForgetInv, Accounted, Settled
  <1>2. ShapeInv /\ StoreInv /\ ForgetInv /\ [Next]_vars => ForgetInv'
    BY ForgetStep
  <1>3. Spec => []ForgetInv
    BY <1>2, Shape, Store, ForgetInit, PTL DEF Spec
  <1>4. QED
    BY <1>1, <1>3, Shape, Punctual, PTL

-----------------------------------------------------------------------------
(* Rows in the order of speech.                                             *)

(* The finals in hand belong to the current stream, and those without a row *)
(* come behind every row of that stream; rows of later streams do not exist. *)
RowsHeard == \A q \in rows : \/ q.final.stream < stream
                             \/ q.final.stream = stream /\ q.final.sequence <= lastSequence
Ahead(f) == \A q \in rows : q.final.stream = stream => q.final.sequence <= f.sequence
WorkAhead == \A f \in Unfinished : /\ f.stream = stream /\ f.sequence <= lastSequence
                                   /\ Ahead(f) \/ HasRow(f.sequence)

(* The current final comes before what is queued or listed; the queue and   *)
(* the lists are in the order of speech, and what comes before the members  *)
(* of a list is on it, or has its row.                                      *)
CurrentFirst == current # NoFinal => /\ \A g \in Members(pending) : current.sequence < g.sequence
                                     /\ \A g \in InRests : current.sequence <= g.sequence
InOrder == Ascending(pending) /\ \A p \in Closers : Ascending(rest[p])
Behind == \A p \in Closers : \A f \in Members(rest[p]), g \in Unfinished :
              g.sequence < f.sequence => g \in Members(rest[p]) \/ HasRow(g.sequence)
OrderInv == RowsHeard /\ WorkAhead /\ CurrentFirst /\ InOrder /\ Behind

LEMMA OrderInit == Init => OrderInv
  BY MembersEmpty DEF Init, OrderInv, RowsHeard, WorkAhead, CurrentFirst, InOrder, Behind,
     Unfinished, InRests

LEMMA UnfinishedTyped ==
    ASSUME ShapeInv
    PROVE  Unfinished \subseteq Finals /\ \A f \in Unfinished : f.sequence \in Nat
  <1>1. \A p \in Closers : Members(rest[p]) \subseteq Finals
    BY RestTyped
  <1>2. InRests \subseteq Finals
    BY <1>1, InSomeRest
  <1>3. Members(pending) \subseteq Finals /\ current \in Finals \cup {NoFinal}
    BY LenProperties DEF ShapeInv, TypeOK, Members
  <1>4. Unfinished \subseteq Finals
    BY <1>2, <1>3 DEF Unfinished
  <1>5. QED
    BY <1>4 DEF Finals

(* The row that is added is for the first of the finals in hand that have   *)
(* none.                                                                    *)
LEMMA FirstInHand ==
    ASSUME ShapeInv, OrderInv, NEW f \in Finals, NEW status, RowAdded(f, status)
    PROVE  f \in Unfinished /\ \A g \in Unfinished : f.sequence <= g.sequence \/ HasRow(g.sequence)
  <1>1. \A g \in Unfinished : g.sequence \in Nat
    BY UnfinishedTyped
  <1>2. CASE f = current /\ loop \in {"complete", "fail"}
    BY <1>1, <1>2, NoFinalAssumption DEF Unfinished, OrderInv, CurrentFirst
  <1>3. ASSUME NEW p \in Closers, At(p, "insert"), f = Head(rest[p])
        PROVE  f \in Unfinished /\ \A g \in Unfinished : f.sequence <= g.sequence \/ HasRow(g.sequence)
    <2>1. rest[p] # <<>> /\ rest[p] \in Seq(Finals)
      BY <1>3, RestTyped DEF ShapeInv, RestInv, RestInInsert, At
    <2>2. f \in Members(rest[p]) /\ \A g \in Members(rest[p]) : g = f \/ f.sequence < g.sequence
      BY <1>3, <2>1, MembersTail DEF OrderInv, InOrder
    <2>3. f \in Unfinished
      BY <2>2 DEF Unfinished, InRests
    <2>4. QED
      BY <1>1, <2>2, <2>3 DEF OrderInv, Behind
  <1>4. QED
    BY <1>2, <1>3 DEF RowAdded

(* Nothing is in hand when a new connection resumes the session.            *)
LEMMA ResumeEmpty ==
    ASSUME "early" \notin Faults, ShapeInv, Resume
    PROVE  /\ UNCHANGED <<pending, current, rest, rows>> /\ stream' = stream + 1
           /\ current = NoFinal /\ Unfinished = {}
  <1>1. Idle /\ parked /\ pending' = <<>> /\ current' = NoFinal /\ stream' = stream + 1
        /\ UNCHANGED <<rest, rows>>
    BY DEF Resume, store
  <1>2. pending = <<>> /\ current = NoFinal /\ handler = "gone"
    BY <1>1 DEF ShapeInv, LoopInv, ParkedIsIdle
  <1>3. \A p \in Closers : closing[p] = "none"
    BY <1>1, <1>2 DEF Closers, Idle, ShapeInv, TaskInv, HandlerCloses, StreamCloses, At
  <1>4. \A p \in Closers : rest[p] = <<>>
    BY <1>3 DEF ShapeInv, RestInv, RestInDrain
  <1>5. QED
    BY <1>1, <1>2, <1>4, MembersEmpty DEF Unfinished, InRests

(* Finals are queued, lists filled, and rows added in the order of speech.  *)
LEMMA QueueOrder ==
    ASSUME ShapeInv, StoreInv, PunctualInv, OrderInv, [Next]_vars, ~Hear
    PROVE  Unfinished' \subseteq Unfinished /\ CurrentFirst' /\ InOrder' /\ Behind'
  <1>1. /\ pending \in Seq(Finals) /\ current \in Finals \cup {NoFinal}
        /\ \A g \in Unfinished : g.sequence \in Nat
    BY UnfinishedTyped DEF ShapeInv, TypeOK
  <1>2. \A q \in Closers : ~CancelLoop(q) =>
            /\ Members(rest'[q]) \subseteq Members(rest[q])
            /\ Ascending(rest'[q])
            /\ \A f \in Members(rest[q]) : f \in Members(rest'[q]) \/ HasRow(f.sequence) \/ rest'[q] = <<>>
    BY ListMoves DEF OrderInv, InOrder
  <1>3. \A k : HasRow(k) => HasRow(k)'
    BY RowsKept
  <1>4. ASSUME NEW p \in Closers, CancelLoop(p)
        PROVE  Unfinished' \subseteq Unfinished /\ CurrentFirst' /\ InOrder' /\ Behind'
    <2>1. /\ Members(rest'[p]) = Members(pending) \cup ({current} \ {NoFinal})
          /\ Members(pending') = {} /\ rest[p] = <<>> /\ Ascending(rest'[p])
          /\ \A q \in Closers : q # p => rest'[q] = rest[q]
      BY <1>4, DrainQueue DEF OrderInv, CurrentFirst, InOrder
    <2>2. current' \in {current, NoFinal} /\ pending' = <<>>
      BY <1>4 DEF CancelLoop, StopLoop
    <2>3. InRests' \subseteq Unfinished
      BY <2>1 DEF InRests, Unfinished
    <2>4. Unfinished' \subseteq Unfinished
      BY <2>1, <2>2, <2>3 DEF Unfinished
    <2>5. CurrentFirst'
      <3>1. \A g \in InRests' : g \in InRests \/ g \in Members(pending) \/ g = current
        BY <2>1 DEF InRests
      <3>2. QED
        BY <1>1, <2>1, <2>2, <3>1 DEF OrderInv, CurrentFirst, Unfinished
    <2>6. InOrder'
      BY <2>1, <2>2, MembersEmpty DEF OrderInv, InOrder
    <2>7. Behind'
      <3> SUFFICES ASSUME NEW q \in Closers, NEW f \in Members(rest'[q]), NEW g \in Unfinished',
                          g.sequence < f.sequence
                   PROVE  g \in Members(rest'[q]) \/ HasRow(g.sequence)'
        BY DEF Behind
      <3>1. CASE q # p
        BY <1>3, <2>1, <2>4, <3>1 DEF OrderInv, Behind
      <3>2. CASE q = p
        <4>1. CASE g \in Members(pending) \cup ({current} \ {NoFinal})
          BY <2>1, <3>2, <4>1
        <4>2. CASE g \in InRests
          <5>1. PICK r \in Closers : g \in Members(rest[r])
            BY <4>2, InSomeRest
          <5>2. closing[r] \in Emptied
            BY <5>1, MembersEmpty DEF ShapeInv, TypeOK, Stages, RestInv, RestInDrain, Emptied
          <5>3. pending = <<>>
            BY <5>2 DEF PunctualInv, Drained
          <5>4. f = current /\ current # NoFinal
            BY <2>1, <3>2, <5>3, MembersEmpty
          <5>5. f.sequence <= g.sequence
            BY <4>2, <5>4 DEF OrderInv, CurrentFirst
          <5>6. f \in Unfinished /\ g \in Unfinished
            BY <2>4, <5>4 DEF Unfinished
          <5>7. QED
            BY <1>1, <5>5, <5>6
        <4>3. QED
          BY <2>4, <4>1, <4>2 DEF Unfinished
      <3>3. QED
        BY <3>1, <3>2
    <2>8. QED
      BY <2>4, <2>5, <2>6, <2>7
  <1>5. ASSUME \A q \in Closers : ~CancelLoop(q)
        PROVE  Unfinished' \subseteq Unfinished /\ CurrentFirst' /\ InOrder' /\ Behind'
    <2>1. InRests' \subseteq InRests
      BY <1>2, <1>5 DEF InRests
    <2>2. /\ Members(pending') \subseteq Members(pending) /\ Ascending(pending')
          /\ \/ current' \in {current, NoFinal}
             \/ /\ InRests = {} /\ current' \in Members(pending)
                /\ \A g \in Members(pending') : current'.sequence < g.sequence
      <3>1. CASE TakeNext
        <4>1. CASE pending = <<>> \/ closed
          BY <3>1, <4>1 DEF TakeNext, OrderInv, InOrder
        <4>2. CASE ~(pending = <<>> \/ closed)
          <5>1. \A q \in Closers : rest[q] = <<>>
            BY <4>2 DEF PunctualInv, Drained, ShapeInv, TypeOK, Stages, RestInv, RestInDrain, Emptied
          <5>2. InRests = {}
            BY <5>1, MembersEmpty DEF InRests
          <5>3. /\ Members(pending) = {Head(pending)} \cup Members(Tail(pending))
                /\ Ascending(Tail(pending))
                /\ \A g \in Members(Tail(pending)) : Head(pending).sequence < g.sequence
            BY <1>1, <4>2, MembersTail DEF OrderInv, InOrder
          <5>4. pending' = Tail(pending) /\ current' \in {current, Head(pending)}
            BY <3>1, <4>2 DEF TakeNext
          <5>5. QED
            BY <5>2, <5>3, <5>4
        <4>3. QED
          BY <4>1, <4>2
      <3>2. CASE UNCHANGED pending /\ current' \in {current, NoFinal}
        BY <3>2 DEF OrderInv, InOrder
      <3>3. QED
        BY <1>5, <3>1, <3>2, QueueMoves DEF QueueMove
    <2>3. Unfinished' \subseteq Unfinished
      BY <2>1, <2>2 DEF Unfinished
    <2>4. CurrentFirst'
      BY <2>1, <2>2 DEF OrderInv, CurrentFirst
    <2>5. InOrder'
      BY <1>2, <1>5, <2>2 DEF InOrder
    <2>6. Behind'
      <3> SUFFICES ASSUME NEW q \in Closers, NEW f \in Members(rest'[q]), NEW g \in Unfinished',
                          g.sequence < f.sequence
                   PROVE  g \in Members(rest'[q]) \/ HasRow(g.sequence)'
        BY DEF Behind
      <3>1. f \in Members(rest[q]) /\ g \in Unfinished /\ rest'[q] # <<>>
        BY <1>2, <1>5, <2>3, MembersEmpty
      <3>2. g \in Members(rest[q]) \/ HasRow(g.sequence)
        BY <3>1 DEF OrderInv, Behind
      <3>3. QED
        BY <1>2, <1>3, <1>5, <3>1, <3>2
    <2>7. QED
      BY <2>3, <2>4, <2>5, <2>6
  <1>6. QED
    BY <1>4, <1>5

LEMMA SourceMoves == ASSUME [Next]_vars PROVE Hear \/ Resume \/ UNCHANGED <<stream, lastSequence>>
  <1> USE DEF sessionVars, source, tasks, queue, store, Goto, At, Over
  <1>1. CASE StartStream
    BY <1>1, Closing DEF StartStream
  <1>2. CASE Hear
    BY <1>2
  <1>3. ASSUME NEW k \in Streams, StopListening(k) PROVE Hear \/ Resume \/ UNCHANGED <<stream, lastSequence>>
    BY <1>3, Closing DEF StopListening
  <1>4. ASSUME NEW k \in Streams, StreamFails(k) PROVE Hear \/ Resume \/ UNCHANGED <<stream, lastSequence>>
    BY <1>4, Closing DEF StreamFails
  <1>5. CASE TakeNext
    BY <1>5, Closing DEF TakeNext
  <1>6. CASE Translate \/ InsertSegment \/ InsertFails \/ EnqueueRetry \/ Announce
    BY <1>6, Closing DEF Translate, InsertSegment, InsertFails, EnqueueRetry, Announce
  <1>7. CASE EndLoop
    BY <1>7, Closing DEF EndLoop
  <1>8. CASE SessionStop
    BY <1>8, Closing DEF SessionStop
  <1>9. CASE LoseClient
    BY <1>9, Closing DEF LoseClient
  <1>10. CASE Disconnect
    BY <1>10, Closing DEF Disconnect
  <1>11. ASSUME NEW p \in Closers, CancelStt(p) PROVE Hear \/ Resume \/ UNCHANGED <<stream, lastSequence>>
    BY <1>11, Closing DEF CancelStt
  <1>12. ASSUME NEW p \in Closers, Join(p) PROVE Hear \/ Resume \/ UNCHANGED <<stream, lastSequence>>
    BY <1>12, Closing DEF Join
  <1>13. ASSUME NEW p \in Closers, CancelLoop(p) PROVE Hear \/ Resume \/ UNCHANGED <<stream, lastSequence>>
    BY <1>13, Closing DEF CancelLoop
  <1>14. ASSUME NEW p \in Closers, LookAt(p) PROVE Hear \/ Resume \/ UNCHANGED <<stream, lastSequence>>
    BY <1>14, Closing DEF LookAt
  <1>15. ASSUME NEW p \in Closers, InsertRest(p) PROVE Hear \/ Resume \/ UNCHANGED <<stream, lastSequence>>
    BY <1>15, Closing DEF InsertRest
  <1>16. ASSUME NEW p \in Closers, InsertRestFails(p) PROVE Hear \/ Resume \/ UNCHANGED <<stream, lastSequence>>
    BY <1>16, Closing DEF InsertRestFails
  <1>17. ASSUME NEW p \in Closers, EnqueueRest(p) PROVE Hear \/ Resume \/ UNCHANGED <<stream, lastSequence>>
    BY <1>17, Closing DEF EnqueueRest
  <1>18. CASE Settle
    BY <1>18, Closing DEF Settle
  <1>19. ASSUME NEW k \in Streams, SettleInStream(k) PROVE Hear \/ Resume \/ UNCHANGED <<stream, lastSequence>>
    BY <1>19, Closing DEF SettleInStream
  <1>20. CASE Park
    BY <1>20, Closing DEF Park
  <1>21. ASSUME NEW k \in Streams, SweepStt(k) PROVE Hear \/ Resume \/ UNCHANGED <<stream, lastSequence>>
    BY <1>21, Closing DEF SweepStt
  <1>22. CASE Resume
    BY <1>22
  <1>23. CASE Expire
    BY <1>23, Closing DEF Expire
  <1>24. CASE UNCHANGED vars
    BY <1>24, Closing DEF vars
  <1>25. QED
    BY <1>1, <1>2, <1>3, <1>4, <1>5, <1>6, <1>7, <1>8, <1>9, <1>10, <1>11, <1>12, <1>13, <1>14,
       <1>15, <1>16, <1>17, <1>18, <1>19, <1>20, <1>21, <1>22, <1>23, <1>24, Closing
       DEF Next, LoopStep, CloseStep, HandlerStep, StreamStep

LEMMA OrderStep ==
    ASSUME "early" \notin Faults, ShapeInv, StoreInv, PunctualInv, OrderInv, [Next]_vars
    PROVE  OrderInv'
  <1>1. /\ \A g \in Unfinished : g \in Finals /\ g.sequence \in Nat
        /\ \A q \in rows : q.final.sequence \in Nat /\ q.final.stream \in Nat
        /\ stream \in Nat /\ lastSequence \in Nat
    <2>1. \A q \in rows : q.final \in Finals
      BY DEF ShapeInv, TypeOK
    <2>2. \A q \in rows : q.final.sequence \in Nat /\ q.final.stream \in Nat
      BY <2>1 DEF Finals
    <2>3. stream \in Nat /\ lastSequence \in Nat
      BY DEF ShapeInv, TypeOK, Streams
    <2>4. QED
      BY <2>2, <2>3, UnfinishedTyped
  <1> USE DEF RowsHeard, WorkAhead, Ahead
  <1>2. CASE Hear
    <2>1. PICK f \in Finals : /\ f.stream = stream /\ f.sequence = lastSequence + 1
                              /\ pending' = Append(pending, f)
      <3>1. [stream |-> stream, sequence |-> lastSequence + 1] \in Finals
        BY <1>2 DEF Hear, Finals, ShapeInv, TypeOK, Streams
      <3>2. QED
        BY <1>2, <3>1 DEF Hear
    <2>2. lastSequence' = lastSequence + 1 /\ UNCHANGED <<current, rest, rows, stream>>
      BY <1>2 DEF Hear, store
    <2>3. \A g \in Unfinished : g.sequence < f.sequence
      BY <1>1, <2>1 DEF OrderInv
    <2>4. Members(pending') = Members(pending) \cup {f} /\ Ascending(pending')
      BY <2>1, <2>3, MembersAppend DEF ShapeInv, TypeOK, Unfinished, OrderInv, InOrder
    <2>5. Unfinished' = Unfinished \cup {f} /\ InRests' = InRests
      BY <2>2, <2>4 DEF Unfinished, InRests
    <2>6. RowsHeard'
      BY <1>1, <2>2 DEF OrderInv
    <2>7. WorkAhead'
      <3>1. \A g \in Unfinished : /\ g.stream = stream' /\ g.sequence <= lastSequence'
                                  /\ Ahead(g)' \/ HasRow(g.sequence)'
        BY <1>1, <2>2 DEF OrderInv, HasRow
      <3>2. f.stream = stream' /\ f.sequence <= lastSequence' /\ Ahead(f)'
        BY <1>1, <2>1, <2>2 DEF OrderInv
      <3>3. QED
        BY <2>5, <3>1, <3>2
    <2>8. CurrentFirst'
      BY <2>2, <2>3, <2>4, <2>5 DEF Unfinished, OrderInv, CurrentFirst
    <2>9. InOrder'
      BY <2>2, <2>4 DEF OrderInv, InOrder
    <2>10. Behind'
      <3> SUFFICES ASSUME NEW q \in Closers, NEW h \in Members(rest'[q]), NEW g \in Unfinished',
                          g.sequence < h.sequence
                   PROVE  g \in Members(rest'[q]) \/ HasRow(g.sequence)'
        BY DEF Behind
      <3>1. h \in Unfinished
        BY <2>2 DEF Unfinished, InRests
      <3>2. g \in Unfinished
        BY <1>1, <2>1, <2>3, <2>5, <3>1
      <3>3. QED
        BY <2>2, <3>1, <3>2 DEF OrderInv, Behind, HasRow
    <2>11. QED
      BY <2>6, <2>7, <2>8, <2>9, <2>10 DEF OrderInv
  <1>3. CASE Resume
    <2>1. /\ UNCHANGED <<pending, current, rest, rows>> /\ stream' = stream + 1
          /\ current = NoFinal /\ Unfinished = {}
      BY <1>3, ResumeEmpty
    <2>2. Unfinished' = {}
      BY <2>1 DEF Unfinished, InRests
    <2>3. RowsHeard' /\ WorkAhead'
      BY <1>1, <2>1, <2>2 DEF OrderInv
    <2>4. CurrentFirst' /\ InOrder' /\ Behind'
      BY <2>1, <2>2 DEF OrderInv, CurrentFirst, InOrder, Behind
    <2>5. QED
      BY <2>3, <2>4 DEF OrderInv
  <1>4. CASE ~Hear /\ ~Resume
    <2>1. UNCHANGED <<stream, lastSequence>>
      BY <1>4, SourceMoves
    <2>2. Unfinished' \subseteq Unfinished /\ CurrentFirst' /\ InOrder' /\ Behind'
      BY <1>4, QueueOrder
    <2>3. RowsHeard' /\ WorkAhead'
      <3>1. CASE UNCHANGED rows
        BY <2>1, <2>2, <3>1 DEF OrderInv, HasRow
      <3>2. ASSUME NEW f \in Finals, NEW status \in {"COMPLETED", "FAILED"}, RowAdded(f, status)
            PROVE  RowsHeard' /\ WorkAhead'
        <4>1. f \in Unfinished /\ \A g \in Unfinished : f.sequence <= g.sequence \/ HasRow(g.sequence)
          BY <3>2, FirstInHand
        <4>2. rows' = rows \cup {Row(f, status)} /\ Row(f, status).final = f
          BY <3>2 DEF RowAdded, Row
        <4>3. f.stream = stream /\ f.sequence <= lastSequence
          BY <4>1 DEF OrderInv
        <4>4. RowsHeard'
          BY <2>1, <4>2, <4>3 DEF OrderInv
        <4>5. \A k : HasRow(k) => HasRow(k)'
          BY <4>2 DEF HasRow
        <4>6. WorkAhead'
          BY <2>1, <2>2, <4>1, <4>2, <4>5 DEF OrderInv
        <4>7. QED
          BY <4>4, <4>6
      <3>3. QED
        BY <3>1, <3>2, RowsGrow DEF RowMoves
    <2>4. QED
      BY <2>2, <2>3 DEF OrderInv
  <1>5. QED
    BY <1>2, <1>3, <1>4

Ordered == \A r \in rows' \ rows, q \in rows :
    q.final.stream = r.final.stream => q.final.sequence < r.final.sequence

LEMMA NewRowIsLast == ASSUME ShapeInv, OrderInv, [Next]_vars PROVE Ordered
  <1> SUFFICES ASSUME NEW r \in rows', r \notin rows, NEW q \in rows, q.final.stream = r.final.stream
               PROVE  q.final.sequence < r.final.sequence
    BY DEF Ordered
  <1>1. PICK f \in Finals, status \in {"COMPLETED", "FAILED"} : RowAdded(f, status)
    BY RowsGrow DEF RowMoves
  <1>2. r.final = f /\ ~HasRow(f.sequence)
    BY <1>1 DEF RowAdded, Row
  <1>3. f \in Unfinished
    BY <1>1, FirstInHand
  <1>4. q.final.sequence <= f.sequence /\ q.final.sequence # f.sequence
    BY <1>2, <1>3 DEF OrderInv, WorkAhead, Ahead, HasRow
  <1>5. QED
    BY <1>1, <1>2, <1>4 DEF ShapeInv, TypeOK, Finals

(* Rows of one stream are created in the order the sentences were spoken,   *)
(* whoever creates them, when resumes wait for the tasks of the former      *)
(* connection.                                                              *)
THEOREM RowsInOrderHolds == ASSUME "early" \notin Faults PROVE Spec => RowsInOrder
  <1>1. ShapeInv /\ StoreInv /\ PunctualInv /\ OrderInv /\ [Next]_vars => OrderInv'
    BY OrderStep
  <1>2. Spec => []OrderInv
    BY <1>1, Shape, Store, Punctual, OrderInit, PTL DEF Spec
  <1>3. ShapeInv /\ OrderInv /\ [Next]_vars => [Ordered]_vars
    BY NewRowIsLast
  <1>4. RowsInOrder <=> [][Ordered]_vars
    BY PTL DEF RowsInOrder, Ordered
  <1>5. QED
    BY <1>2, <1>3, <1>4, Shape, PTL DEF Spec

-----------------------------------------------------------------------------
(* Without failing streams no drain is cancelled.                           *)

UncutInv == cut = {} /\ \A k \in Streams : speech[k] # "failed"

LEMMA CancelUncut ==
    ASSUME ShapeInv, UncutInv, NEW k \in Streams, NEW waiting, CancelTask(k, waiting) PROVE UncutInv'
  <1>1. \A j \in Streams : rest[j] = <<>>
    BY Closing DEF ShapeInv, TaskInv, StreamCloses, RestInv, RestInDrain, UncutInv, At
  <1>2. QED
    BY <1>1, CancelEffect, MembersEmpty DEF Cancelled, UncutInv, ShapeInv, TypeOK

LEMMA RaiseUncut ==
    ASSUME ShapeInv, UncutInv, NEW p \in Closers, Raise(p), UNCHANGED cut PROVE UncutInv'
  BY RaiseEffect DEF Raised, UncutInv, ShapeInv, TypeOK

LEMMA UncutStep ==
    ASSUME "stream" \notin Faults, ShapeInv, UncutInv, [Next]_vars PROVE UncutInv'
  <1>0. TypeOK /\ "stream" \notin Faults
    BY DEF ShapeInv
  <1> USE DEF sessionVars, source, tasks, queue, store, Goto, At, Over, UncutInv, TypeOK
  <1>1. CASE StartStream
    BY <1>0, <1>1, Closing DEF StartStream
  <1>2. CASE Hear
    BY <1>0, <1>2, Closing DEF Hear
  <1>3. ASSUME NEW k \in Streams, StopListening(k) PROVE UncutInv'
    BY <1>0, <1>3, Closing DEF StopListening
  <1>4. ASSUME NEW k \in Streams, StreamFails(k) PROVE UncutInv'
    BY <1>0, <1>4 DEF StreamFails
  <1>5. CASE TakeNext
    BY <1>0, <1>5, Closing DEF TakeNext
  <1>6. CASE Translate \/ InsertSegment \/ InsertFails \/ EnqueueRetry \/ Announce
    BY <1>0, <1>6, Closing DEF Translate, InsertSegment, InsertFails, EnqueueRetry, Announce
  <1>7. CASE EndLoop
    BY <1>0, <1>7, Closing DEF EndLoop
  <1>8. CASE SessionStop
    BY <1>0, <1>8, Closing DEF SessionStop
  <1>9. CASE LoseClient
    BY <1>0, <1>9, Closing DEF LoseClient
  <1>10. CASE Disconnect
    BY <1>0, <1>10, Closing DEF Disconnect
  <1>11. ASSUME NEW p \in Closers, CancelStt(p) PROVE UncutInv'
    <2>1. CASE UNCHANGED <<speech, cut>>
      BY <2>1
    <2>2. CASE ~(UNCHANGED <<speech, cut>>)
      <3>1. sttTask \in Streams /\ CancelTask(sttTask, [closing EXCEPT ![p] = "join"])
        BY <1>0, <1>11, <2>2 DEF CancelStt, TypeOK, Streams
      <3>2. QED
        BY <3>1, CancelUncut
    <2>3. QED
      BY <2>1, <2>2
  <1>12. ASSUME NEW p \in Closers, Join(p) PROVE UncutInv'
    <2>1. CASE Raise(p)
      BY <1>12, <2>1, RaiseUncut, Closing DEF Join
    <2>2. CASE ~Raise(p)
      BY <1>0, <1>12, <2>2 DEF Join
    <2>3. QED
      BY <2>1, <2>2
  <1>13. ASSUME NEW p \in Closers, CancelLoop(p) PROVE UncutInv'
    BY <1>0, <1>13, Closing DEF CancelLoop
  <1>14. ASSUME NEW p \in Closers, LookAt(p) PROVE UncutInv'
    BY <1>0, <1>14, Closing DEF LookAt
  <1>15. ASSUME NEW p \in Closers, InsertRest(p) PROVE UncutInv'
    <2>1. CASE Raise(p)
      BY <1>15, <2>1, RaiseUncut, Closing DEF InsertRest
    <2>2. CASE ~Raise(p)
      BY <1>0, <1>15, <2>2 DEF InsertRest
    <2>3. QED
      BY <2>1, <2>2
  <1>16. ASSUME NEW p \in Closers, InsertRestFails(p) PROVE UncutInv'
    BY <1>16, RaiseUncut DEF InsertRestFails
  <1>17. ASSUME NEW p \in Closers, EnqueueRest(p) PROVE UncutInv'
    BY <1>0, <1>17, Closing DEF EnqueueRest
  <1>18. CASE Settle
    <2>1. CASE Raise(Handler)
      BY <1>18, <2>1, RaiseUncut, Closing DEF Settle
    <2>2. CASE ~Raise(Handler)
      BY <1>0, <1>18, <2>2 DEF Settle
    <2>3. QED
      BY <2>1, <2>2
  <1>19. ASSUME NEW k \in Streams, SettleInStream(k) PROVE UncutInv'
    BY <1>0, <1>19, Closing DEF SettleInStream
  <1>20. CASE Park
    BY <1>0, <1>20, Closing DEF Park
  <1>21. ASSUME NEW k \in Streams, SweepStt(k) PROVE UncutInv'
    BY <1>21, CancelUncut DEF SweepStt
  <1>22. CASE Resume
    BY <1>0, <1>22, Closing DEF Resume
  <1>23. CASE Expire
    BY <1>0, <1>23, Closing DEF Expire
  <1>24. CASE UNCHANGED vars
    BY <1>0, <1>24, Closing DEF vars
  <1>25. QED
    BY <1>1, <1>2, <1>3, <1>4, <1>5, <1>6, <1>7, <1>8, <1>9, <1>10, <1>11, <1>12, <1>13, <1>14,
       <1>15, <1>16, <1>17, <1>18, <1>19, <1>20, <1>21, <1>22, <1>23, <1>24, Closing
       DEF Next, LoopStep, CloseStep, HandlerStep, StreamStep

(* A drain is only ever cancelled because a speech-to-text stream failed:   *)
(* without that fault, a raising insert is the one way to lose a final.     *)
THEOREM OnlyInsertsLose ==
    ASSUME "early" \notin Faults, "stream" \notin Faults
    PROVE  Spec => [](Quiet => \A f \in heard : HasRow(f.sequence) \/ f \in spoilt)
  <1>1. Init => UncutInv
    BY DEF Init, UncutInv
  <1>2. ShapeInv /\ UncutInv /\ [Next]_vars => UncutInv'
    BY UncutStep
  <1>3. NothingForgotten /\ UncutInv => (Quiet => \A f \in heard : HasRow(f.sequence) \/ f \in spoilt)
    BY DEF NothingForgotten, UncutInv
  <1>4. Spec => []NothingForgotten
    BY NothingForgottenHolds
  <1>5. QED
    BY <1>1, <1>2, <1>3, <1>4, Shape, PTL DEF Spec
=============================================================================
