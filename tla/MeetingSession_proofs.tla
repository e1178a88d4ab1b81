----------------------- MODULE MeetingSession_proofs -----------------------
(***************************************************************************)
(* Theorems about MeetingSession, for every set of connections, every      *)
(* subset of the faults and every bound on the clock.                      *)
(***************************************************************************)
EXTENDS MeetingSession, TLAPS

(* The inductive strengthening of SoleOwner: a sleeping timer's record is   *)
(* in the registry, the registry's record has a timer that has not fired,   *)
(* and a connection that was never opened has left nothing behind.          *)
TimerHasRecord == \A c \in Conns : at[Timer(c)] = "sleep" => record = c
RecordHasTimer == record # NoConn => at[Timer(record)] \in {"sleep", "due"}
IdleIsBlank == \A c \in Conns :
    /\ conn[c] = "idle" => at[Handler(c)] = "none"
    /\ at[Handler(c)] = "none" => at[Timer(c)] = "none"

OwnerInv == SoleOwner /\ TimerHasRecord /\ RecordHasTimer /\ IdleIsBlank

USE ConnsAssumption, FaultsAssumption, MaxElapsedAssumption

LEMMA ProcFacts ==
    /\ \A c \in Conns : Handler(c) \in Procs /\ Stt(c) \in Procs /\ Timer(c) \in Procs
    /\ \A p \in Procs : p[2] \in Conns /\ (p = Handler(p[2]) \/ p = Stt(p[2]) \/ p = Timer(p[2]))
    /\ \A c, d \in Conns : Handler(c) # Stt(d) /\ Handler(c) # Timer(d) /\ Stt(c) # Timer(d)
    /\ \A c, d \in Conns : /\ Handler(c) = Handler(d) => c = d
                           /\ Stt(c) = Stt(d) => c = d
                           /\ Timer(c) = Timer(d) => c = d
    /\ \A c \in Conns : /\ Handler(c)[1] = "handler" /\ Handler(c)[2] = c
                        /\ Stt(c)[1] = "stt" /\ Stt(c)[2] = c
                        /\ Timer(c)[1] = "timer" /\ Timer(c)[2] = c
  BY DEF Procs, Handler, Stt, Timer
-----------------------------------------------------------------------------
(* Type correctness.                                                        *)

LEMMA LabelFacts ==
    /\ Closing \subseteq HandlerLabels /\ Closing \subseteq SttLabels
    /\ Closing \subseteq TimerLabels /\ Closing \subseteq Owning
    /\ HandlerLabels \subseteq Labels /\ SttLabels \subseteq Labels
    /\ TimerLabels \subseteq Labels /\ Owning \subseteq HandlerLabels
  BY DEF Labels, HandlerLabels, SttLabels, TimerLabels, Owning, Closing

LEMMA TypeInit == Init => TypeOK
  <1> SUFFICES ASSUME Init PROVE TypeOK
    OBVIOUS
  <1>1. closed \in BOOLEAN /\ hasAudio \in BOOLEAN /\ slot \in BOOLEAN
    BY Zenon DEF Init
  <1>2. QED
    BY <1>1, ProcFacts, LabelFacts
    DEF Init, TypeOK, HandlerLabels, SttLabels, TimerLabels

LEMMA TypeStep == TypeOK /\ [Next]_vars => TypeOK'
  <1> SUFFICES ASSUME TypeOK, [Next]_vars PROVE TypeOK'
    OBVIOUS
  <1> USE ProcFacts, LabelFacts DEF TypeOK, Goto, locals, stateObject, ledger,
          Labels, HandlerLabels, SttLabels, TimerLabels, Owning, Closing
  <1>1. ASSUME NEW c \in Conns, Connect(c) PROVE TypeOK'
    BY <1>1 DEF Connect
  <1>2. ASSUME NEW c \in Conns, ReserveSlot(c) PROVE TypeOK'
    BY <1>2 DEF ReserveSlot
  <1>2a. ASSUME NEW c \in Conns, ReserveRefused(c) PROVE TypeOK'
    BY <1>2a DEF ReserveRefused
  <1>3. ASSUME NEW c \in Conns, CreatePendingSession(c) PROVE TypeOK'
    BY <1>3 DEF CreatePendingSession
  <1>4. ASSUME NEW c \in Conns, UndoReservation(c) PROVE TypeOK'
    <2>1. closed' \in BOOLEAN /\ hasAudio' \in BOOLEAN /\ slot' \in BOOLEAN
      BY <1>4, Zenon DEF UndoReservation
    <2>2. QED
      BY <1>4, <2>1 DEF UndoReservation
  <1>5. ASSUME NEW c \in Conns, Greet(c) PROVE TypeOK'
    BY <1>5 DEF Greet
  <1>6. ASSUME NEW c \in Conns, Resume(c) PROVE TypeOK'
    <2>1. closed' \in BOOLEAN /\ hasAudio' \in BOOLEAN /\ slot' \in BOOLEAN
      BY <1>6, Zenon DEF Resume
    <2>2. QED
      BY <1>6, <2>1 DEF Resume
  <1>7. ASSUME NEW c \in Conns, ResumeTooLate(c) PROVE TypeOK'
    BY <1>7 DEF ResumeTooLate
  <1>8. ASSUME NEW c \in Conns, ResumeRefused(c) PROVE TypeOK'
    BY <1>8 DEF ResumeRefused
  <1>9. ASSUME NEW c \in Conns, FirstAudio(c) PROVE TypeOK'
    BY <1>9 DEF FirstAudio
  <1>10. ASSUME NEW c \in Conns, MarkActive(c) PROVE TypeOK'
    BY <1>10 DEF MarkActive
  <1>11. ASSUME NEW c \in Conns, TellAudio(c) PROVE TypeOK'
    BY <1>11 DEF TellAudio, FinallyLabel
  <1>12. ASSUME NEW c \in Conns, NextAudio(c) PROVE TypeOK'
    BY <1>12 DEF NextAudio
  <1>13. ASSUME NEW c \in Conns, SessionStop(c) PROVE TypeOK'
    BY <1>13 DEF SessionStop, FinalizeLabel
  <1>14. ASSUME NEW c \in Conns, BadMessage(c) PROVE TypeOK'
    BY <1>14 DEF BadMessage
  <1>15. ASSUME NEW c \in Conns, Hangup(c) PROVE TypeOK'
    BY <1>15 DEF Hangup, FinallyLabel
  <1>16. ASSUME NEW c \in Conns, SttEnds(c) PROVE TypeOK'
    BY <1>16 DEF SttEnds
  <1>17. ASSUME NEW c \in Conns, SttRaises(c) PROVE TypeOK'
    BY <1>17 DEF SttRaises
  <1>18. ASSUME NEW c \in Conns, Pause(c) PROVE TypeOK'
    BY <1>18 DEF Pause
  <1>19. ASSUME NEW c \in Conns, Sweep(c) PROVE TypeOK'
    BY <1>19 DEF Sweep, CancelAndGoto, Live
  <1>20. ASSUME NEW c \in Conns, Swept(c) PROVE TypeOK'
    BY <1>20 DEF Swept
  <1>21. ASSUME NEW c \in Conns, GraceElapses(c) PROVE TypeOK'
    BY <1>21 DEF GraceElapses
  <1>22. ASSUME NEW c \in Conns, Expire(c) PROVE TypeOK'
    <2>1. closed' \in BOOLEAN /\ hasAudio' \in BOOLEAN /\ slot' \in BOOLEAN
      BY <1>22, Zenon DEF Expire
    <2>2. QED
      BY <1>22, <2>1 DEF Expire
  <1>23. ASSUME NEW c \in Conns, Drop(c) PROVE TypeOK'
    BY <1>23 DEF Drop
  <1>24. ASSUME NEW c \in Conns, StartFails(c) PROVE TypeOK'
    <2>1. closed' \in BOOLEAN /\ hasAudio' \in BOOLEAN /\ slot' \in BOOLEAN
      BY <1>24, Zenon DEF StartFails
    <2>2. CASE at[Handler(c)] = "create" /\ Goto(Handler(c), "undo") /\ UNCHANGED conn
      BY <1>24, <2>1, <2>2 DEF StartFails
    <2>3. CASE /\ at[Handler(c)] \in {"reserve", "undo"}
               /\ Goto(Handler(c), "gone")
               /\ conn' = [conn EXCEPT ![c] = "shut"]
      BY <1>24, <2>1, <2>3 DEF StartFails
    <2>4. QED
      BY <1>24, <2>2, <2>3 DEF StartFails
  <1>25. ASSUME NEW c \in Conns, PauseFails(c) PROVE TypeOK'
    BY <1>25 DEF PauseFails
  <1>26. ASSUME NEW p \in Procs, Report(p) PROVE TypeOK'
    BY <1>26 DEF Report, FinalizeLabel, Raised, FinallyLabel
  <1>27. ASSUME NEW p \in Procs, Bye(p) PROVE TypeOK'
    <2>1. closed' \in BOOLEAN /\ hasAudio' \in BOOLEAN /\ slot' \in BOOLEAN
      BY <1>27, Zenon DEF Bye
    <2>2. QED
      BY <1>27, <2>1 DEF Bye, Raised, FinallyLabel
  <1>28. ASSUME NEW p \in Procs, Teardown(p) PROVE TypeOK'
    BY <1>28 DEF Teardown, CancelAndGoto, Live
  <1>29. ASSUME NEW p \in Procs, Join(p) PROVE TypeOK'
    BY <1>29 DEF Join
  <1>30. ASSUME NEW p \in Procs, Drain(p) PROVE TypeOK'
    BY <1>30 DEF Drain
  <1>31. ASSUME NEW p \in Procs, RecordConsumed(p) PROVE TypeOK'
    BY <1>31 DEF RecordConsumed
  <1>32. ASSUME NEW p \in Procs, CloseSession(p) PROVE TypeOK'
    BY <1>32 DEF CloseSession
  <1>33. ASSUME NEW p \in Procs, ReleaseSlot(p) PROVE TypeOK'
    <2>1. closed' \in BOOLEAN /\ hasAudio' \in BOOLEAN /\ slot' \in BOOLEAN
      BY <1>33, Zenon DEF ReleaseSlot
    <2>2. QED
      BY <1>33, <2>1 DEF ReleaseSlot
  <1>34. ASSUME NEW p \in Procs, Seal(p) PROVE TypeOK'
    <2>1. closed' \in BOOLEAN /\ hasAudio' \in BOOLEAN /\ slot' \in BOOLEAN
      BY <1>34, Zenon DEF Seal
    <2>2. QED
      BY <1>34, <2>1, SMTT(30) DEF Seal, FinallyLabel
  <1>35. ASSUME NEW p \in Procs, CloseFails(p) PROVE TypeOK'
    BY <1>35 DEF CloseFails, Raised, FinallyLabel
  <1>36. CASE Tick
    BY <1>36 DEF Tick
  <1>37. CASE UNCHANGED vars
    BY <1>37 DEF vars
  <1>38. QED
    BY <1>1, <1>2, <1>2a, <1>3, <1>4, <1>5, <1>6, <1>7, <1>8, <1>9, <1>10, <1>11, <1>12, <1>13,
       <1>14, <1>15, <1>16, <1>17, <1>18, <1>19, <1>20, <1>21, <1>22, <1>23, <1>24, <1>25, <1>26,
       <1>27, <1>28, <1>29, <1>30, <1>31, <1>32, <1>33, <1>34, <1>35, <1>36, <1>37, SMTT(30)
    DEF Next, ClientStep, StartStep, LoopStep, PauseStep, TimerStep, FaultStep, CloseStep

(* Every variable keeps its type: in particular each kind of task is only   *)
(* ever suspended at an await of its own code.                              *)
THEOREM TypeCorrect == Spec => []TypeOK
  <1>1. QED
    BY TypeInit, TypeStep, PTL DEF Spec

-----------------------------------------------------------------------------
(* Sole ownership.                                                          *)

(* A step of _finalize_session or _close_with_error moves its own task      *)
(* along, may end a speech-to-text task, and leaves every other handler,    *)
(* every other timer and the registry alone.                                *)
CloseFrame(p) ==
    /\ record' = record
    /\ \A c \in Conns : conn'[c] = "idle" <=> conn[c] = "idle"
    /\ \A c \in Conns : p # Handler(c) => at'[Handler(c)] = at[Handler(c)]
    /\ \A c \in Conns : p # Timer(c) => at'[Timer(c)] = at[Timer(c)]
    /\ \A c \in Conns : p = Handler(c) =>
          at[p] \in Owning /\ at'[p] \in Owning \cup {"gone"}
    /\ \A c \in Conns : p = Timer(c) =>
          at[p] \in Closing /\ at'[p] \in Closing \cup {"gone"}

LEMMA CloseStepFrame ==
    ASSUME TypeOK, NEW p \in Procs, CloseStep(p) \/ CloseFails(p)
    PROVE  CloseFrame(p)
  <1> USE ProcFacts, LabelFacts DEF TypeOK, CloseFrame, Goto, locals, stateObject, ledger,
          HandlerLabels, TimerLabels, Owning, Closing
  <1>1. CASE Report(p)
    BY <1>1, SMTT(30) DEF Report, FinalizeLabel, Raised, FinallyLabel
  <1>2. CASE Bye(p)
    BY <1>2, SMTT(30) DEF Bye, Raised, FinallyLabel
  <1>3. CASE Teardown(p)
    BY <1>3 DEF Teardown, CancelAndGoto, Live
  <1>4. CASE Join(p)
    BY <1>4 DEF Join
  <1>5. CASE Drain(p)
    BY <1>5 DEF Drain
  <1>6. CASE RecordConsumed(p)
    BY <1>6 DEF RecordConsumed
  <1>7. CASE CloseSession(p)
    BY <1>7 DEF CloseSession
  <1>8. CASE ReleaseSlot(p)
    BY <1>8 DEF ReleaseSlot
  <1>9. CASE Seal(p)
    BY <1>9 DEF Seal, FinallyLabel
  <1>10. CASE CloseFails(p)
    BY <1>10 DEF CloseFails, Raised, FinallyLabel
  <1>11. QED
    BY <1>1, <1>2, <1>3, <1>4, <1>5, <1>6, <1>7, <1>8, <1>9, <1>10 DEF CloseStep

LEMMA OwnerInit == Init => OwnerInv
  BY ProcFacts, SMTT(30) DEF Init, OwnerInv, SoleOwner, TimerHasRecord, RecordHasTimer, IdleIsBlank,
                   Owning, Closing

LEMMA OwnerStep == TypeOK /\ OwnerInv /\ [Next]_vars => OwnerInv'
  <1> SUFFICES ASSUME TypeOK, OwnerInv, [Next]_vars PROVE OwnerInv'
    OBVIOUS
  <1> USE ProcFacts, LabelFacts DEF TypeOK, OwnerInv, SoleOwner, TimerHasRecord,
          RecordHasTimer, IdleIsBlank, Goto, locals, stateObject, ledger,
          HandlerLabels, TimerLabels, Owning, Closing
  <1>1. ASSUME NEW c \in Conns, Connect(c) PROVE OwnerInv'
    BY <1>1 DEF Connect
  <1>2. ASSUME NEW c \in Conns, ReserveSlot(c) PROVE OwnerInv'
    BY <1>2 DEF ReserveSlot
  <1>2a. ASSUME NEW c \in Conns, ReserveRefused(c) PROVE OwnerInv'
    BY <1>2a DEF ReserveRefused
  <1>3. ASSUME NEW c \in Conns, CreatePendingSession(c) PROVE OwnerInv'
    BY <1>3 DEF CreatePendingSession
  <1>4. ASSUME NEW c \in Conns, UndoReservation(c) PROVE OwnerInv'
    BY <1>4 DEF UndoReservation
  <1>5. ASSUME NEW c \in Conns, Greet(c) PROVE OwnerInv'
    BY <1>5 DEF Greet
  <1>6. ASSUME NEW c \in Conns, Resume(c) PROVE OwnerInv'
    BY <1>6 DEF Resume
  <1>7. ASSUME NEW c \in Conns, ResumeTooLate(c) PROVE OwnerInv'
    BY <1>7 DEF ResumeTooLate
  <1>8. ASSUME NEW c \in Conns, ResumeRefused(c) PROVE OwnerInv'
    BY <1>8 DEF ResumeRefused
  <1>9. ASSUME NEW c \in Conns, FirstAudio(c) PROVE OwnerInv'
    BY <1>9 DEF FirstAudio
  <1>10. ASSUME NEW c \in Conns, MarkActive(c) PROVE OwnerInv'
    BY <1>10 DEF MarkActive
  <1>11. ASSUME NEW c \in Conns, TellAudio(c) PROVE OwnerInv'
    BY <1>11 DEF TellAudio, FinallyLabel
  <1>12. ASSUME NEW c \in Conns, NextAudio(c) PROVE OwnerInv'
    BY <1>12 DEF NextAudio
  <1>13. ASSUME NEW c \in Conns, SessionStop(c) PROVE OwnerInv'
    BY <1>13 DEF SessionStop, FinalizeLabel
  <1>14. ASSUME NEW c \in Conns, BadMessage(c) PROVE OwnerInv'
    BY <1>14 DEF BadMessage
  <1>15. ASSUME NEW c \in Conns, Hangup(c) PROVE OwnerInv'
    BY <1>15 DEF Hangup, FinallyLabel
  <1>16. ASSUME NEW c \in Conns, SttEnds(c) PROVE OwnerInv'
    BY <1>16 DEF SttEnds
  <1>17. ASSUME NEW c \in Conns, SttRaises(c) PROVE OwnerInv'
    BY <1>17 DEF SttRaises
  <1>18. ASSUME NEW c \in Conns, Pause(c) PROVE OwnerInv'
    BY <1>18 DEF Pause
  <1>19. ASSUME NEW c \in Conns, Sweep(c) PROVE OwnerInv'
    BY <1>19 DEF Sweep, CancelAndGoto, Live
  <1>20. ASSUME NEW c \in Conns, Swept(c) PROVE OwnerInv'
    BY <1>20 DEF Swept
  <1>21. ASSUME NEW c \in Conns, GraceElapses(c) PROVE OwnerInv'
    BY <1>21 DEF GraceElapses
  <1>22. ASSUME NEW c \in Conns, Expire(c) PROVE OwnerInv'
    BY <1>22 DEF Expire
  <1>23. ASSUME NEW c \in Conns, Drop(c) PROVE OwnerInv'
    BY <1>23 DEF Drop
  <1>24. ASSUME NEW c \in Conns, StartFails(c) PROVE OwnerInv'
    BY <1>24 DEF StartFails
  <1>25. ASSUME NEW c \in Conns, PauseFails(c) PROVE OwnerInv'
    BY <1>25 DEF PauseFails
  <1>26. ASSUME NEW p \in Procs, CloseStep(p) \/ CloseFails(p) PROVE OwnerInv'
    <2>1. CloseFrame(p)
      BY <1>26, CloseStepFrame
    <2>2. QED
      BY <2>1 DEF CloseFrame
  <1>27. CASE Tick
    BY <1>27 DEF Tick
  <1>28. CASE UNCHANGED vars
    BY <1>28 DEF vars
  <1>29. QED
    BY <1>1, <1>2, <1>2a, <1>3, <1>4, <1>5, <1>6, <1>7, <1>8, <1>9, <1>10, <1>11, <1>12, <1>13,
       <1>14, <1>15, <1>16, <1>17, <1>18, <1>19, <1>20, <1>21, <1>22, <1>23, <1>24, <1>25, <1>26,
       <1>27, <1>28, SMTT(30)
    DEF Next, ClientStep, StartStep, LoopStep, PauseStep, TimerStep, FaultStep

(* Under every combination of faults, at most one handler, expiring timer   *)
(* or registry record is responsible for the session state.                 *)
THEOREM SoleOwnership == Spec => []SoleOwner
  <1>1. Spec => []OwnerInv
    BY TypeCorrect, OwnerInit, OwnerStep, PTL DEF Spec
  <1>2. OwnerInv => SoleOwner
    BY DEF OwnerInv
  <1>3. QED
    BY <1>1, <1>2, PTL

-----------------------------------------------------------------------------
(* The course of a session.                                                 *)

(* Before anybody connects nothing has happened; speech-to-text tasks exist *)
(* only once there was audio, which the first frame marks while its handler *)
(* is the only task of the session; until then the state is open as long as *)
(* somebody owns it.  A task past close_session finds the row closed, and   *)
(* past the release the session settled: no other task reopens either.      *)
Fresh == (\A d \in Conns : conn[d] = "idle") =>
    ~closed /\ ~hasAudio /\ row = "absent" /\ ~slot /\ used = 0
AudioOrder == \A c \in Conns :
    /\ at[Stt(c)] # "none" => hasAudio
    /\ at[Handler(c)] \in {"reserve", "create", "undo", "greet", "activate"} => ~hasAudio
    /\ at[Handler(c)] \in {"reserve", "create", "undo"} => row = "absent"
    /\ at[Handler(c)] = "reserve" => ~slot
    /\ at[Handler(c)] = "create" => slot
    /\ at[Handler(c)] = "tell" => hasAudio
RowIsClosed == \A p \in Procs :
    /\ at[p] = "release" => row \in {"ended", "error"}
    /\ at[p] = "seal" => Settled
SilentIsOpen == ~hasAudio => \A c \in Conns :
    /\ at[Handler(c)] \in Owning \ {"bye"} => ~closed
    /\ at[Timer(c)] \in Closing => ~closed

CourseInv == Fresh /\ AudioOrder /\ RowIsClosed /\ SilentIsOpen

LEMMA CourseInit == Init => CourseInv
  <1> SUFFICES ASSUME Init PROVE CourseInv
    OBVIOUS
  <1>1. Fresh
    BY DEF Init, Fresh
  <1>2. AudioOrder /\ RowIsClosed /\ SilentIsOpen
    BY ProcFacts, SMTT(30) DEF Init, AudioOrder, RowIsClosed, SilentIsOpen, Owning, Closing
  <1>3. QED
    BY <1>1, <1>2 DEF CourseInv

LEMMA CourseStep == TypeOK /\ OwnerInv /\ CourseInv /\ [Next]_vars => CourseInv'
  <1> SUFFICES ASSUME TypeOK, OwnerInv, CourseInv, [Next]_vars PROVE CourseInv'
    OBVIOUS
  <1> USE ProcFacts, LabelFacts DEF TypeOK, OwnerInv, SoleOwner, IdleIsBlank, CourseInv, Fresh,
          AudioOrder, RowIsClosed, SilentIsOpen, Settled, Goto, locals, stateObject, ledger,
          HandlerLabels, SttLabels, TimerLabels, Owning, Closing
  <1>1. ASSUME NEW c \in Conns, Connect(c) PROVE CourseInv'
    BY <1>1 DEF Connect
  <1>2. ASSUME NEW c \in Conns, ReserveSlot(c) PROVE CourseInv'
    BY <1>2 DEF ReserveSlot
  <1>3. ASSUME NEW c \in Conns, ReserveRefused(c) PROVE CourseInv'
    BY <1>3 DEF ReserveRefused
  <1>4. ASSUME NEW c \in Conns, CreatePendingSession(c) PROVE CourseInv'
    BY <1>4 DEF CreatePendingSession
  <1>5. ASSUME NEW c \in Conns, UndoReservation(c) PROVE CourseInv'
    BY <1>5 DEF UndoReservation
  <1>6. ASSUME NEW c \in Conns, StartFails(c) PROVE CourseInv'
    BY <1>6 DEF StartFails
  <1>7. ASSUME NEW c \in Conns, Greet(c) PROVE CourseInv'
    BY <1>7 DEF Greet
  <1>8. ASSUME NEW c \in Conns, Resume(c) PROVE CourseInv'
    BY <1>8 DEF Resume
  <1>9. ASSUME NEW c \in Conns, ResumeTooLate(c) \/ ResumeRefused(c) PROVE CourseInv'
    BY <1>9 DEF ResumeTooLate, ResumeRefused
  <1>10. ASSUME NEW c \in Conns, FirstAudio(c) \/ BadMessage(c) PROVE CourseInv'
    BY <1>10 DEF FirstAudio, BadMessage
  <1>11. ASSUME NEW c \in Conns, MarkActive(c) PROVE CourseInv'
    BY <1>11 DEF MarkActive
  <1>12. ASSUME NEW c \in Conns, TellAudio(c) PROVE CourseInv'
    BY <1>12 DEF TellAudio, FinallyLabel
  <1>13. ASSUME NEW c \in Conns, NextAudio(c) PROVE CourseInv'
    BY <1>13 DEF NextAudio
  <1>14. ASSUME NEW c \in Conns, SessionStop(c) \/ Hangup(c) PROVE CourseInv'
    BY <1>14 DEF SessionStop, Hangup, FinalizeLabel, FinallyLabel
  <1>15. ASSUME NEW c \in Conns, SttEnds(c) \/ SttRaises(c) PROVE CourseInv'
    BY <1>15 DEF SttEnds, SttRaises
  <1>16. ASSUME NEW c \in Conns, Pause(c) PROVE CourseInv'
    BY <1>16 DEF Pause
  <1>17. ASSUME NEW c \in Conns, Sweep(c) PROVE CourseInv'
    BY <1>17 DEF Sweep, CancelAndGoto, Live
  <1>18. ASSUME NEW c \in Conns, Swept(c) \/ GraceElapses(c) \/ PauseFails(c) PROVE CourseInv'
    BY <1>18 DEF Swept, GraceElapses, PauseFails, Live
  <1>19. ASSUME NEW c \in Conns, Expire(c) PROVE CourseInv'
    BY <1>19 DEF Expire
  <1>20. ASSUME NEW c \in Conns, Drop(c) PROVE CourseInv'
    BY <1>20 DEF Drop
  <1>21. ASSUME NEW p \in Procs, Report(p) PROVE CourseInv'
    BY <1>21 DEF Report, FinalizeLabel, Raised, FinallyLabel
  <1>22. ASSUME NEW p \in Procs, Teardown(p) PROVE CourseInv'
    BY <1>22 DEF Teardown, CancelAndGoto, Live
  <1>23. ASSUME NEW p \in Procs, Join(p) PROVE CourseInv'
    BY <1>23 DEF Join, Live
  <1>24. ASSUME NEW p \in Procs, Drain(p) PROVE CourseInv'
    BY <1>24 DEF Drain
  <1>25. ASSUME NEW p \in Procs, RecordConsumed(p) \/ CloseSession(p) PROVE CourseInv'
    BY <1>25 DEF RecordConsumed, CloseSession
  <1>26. ASSUME NEW p \in Procs, ReleaseSlot(p) PROVE CourseInv'
    BY <1>26 DEF ReleaseSlot
  <1>27. ASSUME NEW p \in Procs, Seal(p) PROVE CourseInv'
    BY <1>27 DEF Seal, FinallyLabel
  <1>28. ASSUME NEW p \in Procs, Bye(p) PROVE CourseInv'
    <2>1. CASE conn[p[2]] = "open"
      BY <1>28, <2>1 DEF Bye
    <2>2. CASE conn[p[2]] # "open"
      BY <1>28, <2>2 DEF Bye, Raised, FinallyLabel
    <2>3. QED
      BY <2>1, <2>2
  <1>29. ASSUME NEW p \in Procs, CloseFails(p) PROVE CourseInv'
    BY <1>29 DEF CloseFails, Raised, FinallyLabel
  <1>30. CASE Tick \/ UNCHANGED vars
    BY <1>30 DEF Tick, vars
  <1>31. QED
    BY <1>1, <1>2, <1>3, <1>4, <1>5, <1>6, <1>7, <1>8, <1>9, <1>10, <1>11, <1>12, <1>13, <1>14,
       <1>15, <1>16, <1>17, <1>18, <1>19, <1>20, <1>21, <1>22, <1>23, <1>24, <1>25, <1>26, <1>27,
       <1>28, <1>29, <1>30, SMTT(30)
    DEF Next, ClientStep, StartStep, LoopStep, PauseStep, TimerStep, FaultStep, CloseStep

-----------------------------------------------------------------------------
(* Speech-to-text tasks and their connections.                              *)

(* While a handler owns the session, the task its connection started is the *)
(* one in the state object, so its own teardown waits for it or cancels it: *)
(* an open connection with a live task has a handler that can still be told *)
(* of its end, and none that is already settling or gone.                   *)
Alive(c) == at[Stt(c)] \notin {"none", "gone"}
SttInHand == \A c \in Conns :
    /\ at[Handler(c)] \in Owning /\ at[Stt(c)] # "none" => sttConn = c
    /\ at[Handler(c)] \in {"none", "reserve", "create", "undo", "greet", "welcome"} =>
          at[Stt(c)] = "none"
    /\ at[Handler(c)] = "join" /\ Alive(c) => victim[Handler(c)] = c
    /\ Alive(c) /\ conn[c] = "open" =>
          at[Handler(c)] \in {"recv", "report", "teardown", "join", "bye"}

LEMMA SttInit == Init => SttInHand
  BY ProcFacts DEF Init, SttInHand, Alive, Owning, Closing

LEMMA SttStep == TypeOK /\ OwnerInv /\ CourseInv /\ SttInHand /\ [Next]_vars => SttInHand'
  <1> SUFFICES ASSUME TypeOK, OwnerInv, CourseInv, SttInHand, [Next]_vars PROVE SttInHand'
    OBVIOUS
  <1> USE ProcFacts, LabelFacts DEF TypeOK, OwnerInv, SoleOwner, IdleIsBlank, CourseInv,
          AudioOrder, SttInHand, Alive, Goto, locals, stateObject, ledger,
          HandlerLabels, SttLabels, TimerLabels, Owning, Closing
  <1>1. ASSUME NEW c \in Conns, Connect(c) PROVE SttInHand'
    BY <1>1 DEF Connect
  <1>2. ASSUME NEW c \in Conns, ReserveSlot(c) \/ ReserveRefused(c) PROVE SttInHand'
    BY <1>2 DEF ReserveSlot, ReserveRefused
  <1>3. ASSUME NEW c \in Conns, CreatePendingSession(c) PROVE SttInHand'
    BY <1>3 DEF CreatePendingSession
  <1>4. ASSUME NEW c \in Conns, UndoReservation(c) PROVE SttInHand'
    BY <1>4 DEF UndoReservation
  <1>5. ASSUME NEW c \in Conns, StartFails(c) PROVE SttInHand'
    BY <1>5 DEF StartFails
  <1>6. ASSUME NEW c \in Conns, Greet(c) PROVE SttInHand'
    BY <1>6 DEF Greet
  <1>7. ASSUME NEW c \in Conns, Resume(c) PROVE SttInHand'
    BY <1>7 DEF Resume
  <1>8. ASSUME NEW c \in Conns, ResumeTooLate(c) \/ ResumeRefused(c) PROVE SttInHand'
    BY <1>8 DEF ResumeTooLate, ResumeRefused
  <1>9. ASSUME NEW c \in Conns, FirstAudio(c) \/ BadMessage(c) PROVE SttInHand'
    BY <1>9 DEF FirstAudio, BadMessage
  <1>10. ASSUME NEW c \in Conns, MarkActive(c) PROVE SttInHand'
    BY <1>10 DEF MarkActive
  <1>11. ASSUME NEW c \in Conns, TellAudio(c) PROVE SttInHand'
    BY <1>11 DEF TellAudio, FinallyLabel
  <1>12. ASSUME NEW c \in Conns, NextAudio(c) PROVE SttInHand'
    BY <1>12 DEF NextAudio
  <1>13. ASSUME NEW c \in Conns, SessionStop(c) \/ Hangup(c) PROVE SttInHand'
    BY <1>13 DEF SessionStop, Hangup, FinalizeLabel, FinallyLabel
  <1>14. ASSUME NEW c \in Conns, SttEnds(c) \/ SttRaises(c) PROVE SttInHand'
    BY <1>14 DEF SttEnds, SttRaises
  <1>15. ASSUME NEW c \in Conns, Pause(c) PROVE SttInHand'
    BY <1>15 DEF Pause
  <1>16. ASSUME NEW c \in Conns, Sweep(c) PROVE SttInHand'
    BY <1>16 DEF Sweep, CancelAndGoto, Live
  <1>17. ASSUME NEW c \in Conns, Swept(c) \/ GraceElapses(c) \/ PauseFails(c) PROVE SttInHand'
    BY <1>17 DEF Swept, GraceElapses, PauseFails, Live
  <1>18. ASSUME NEW c \in Conns, Expire(c) PROVE SttInHand'
    BY <1>18 DEF Expire
  <1>19. ASSUME NEW c \in Conns, Drop(c) PROVE SttInHand'
    BY <1>19 DEF Drop
  <1>20. ASSUME NEW p \in Procs, Report(p) PROVE SttInHand'
    BY <1>20 DEF Report, FinalizeLabel, Raised, FinallyLabel
  <1>21. ASSUME NEW p \in Procs, Teardown(p) PROVE SttInHand'
    <2>1. PICK c \in Conns : p = Handler(c) \/ p = Stt(c) \/ p = Timer(c)
      OBVIOUS
    <2>2. CASE p = Handler(c)
      <3>1. at[p] = "teardown" /\ at'[p] \in {"join", "drain"} /\ victim'[p] = sttConn
            /\ UNCHANGED <<conn, sttConn>>
        BY <1>21, <2>2 DEF Teardown, CancelAndGoto, Live
      <3>2. \A d \in Conns : \/ at'[Stt(d)] = at[Stt(d)]
                             \/ at[Stt(d)] # "none" /\ at'[Stt(d)] = "gone"
        BY <1>21, <2>2 DEF Teardown, CancelAndGoto, Live
      <3>3. \A d \in Conns \ {c} : /\ at'[Handler(d)] = at[Handler(d)]
                                  /\ victim'[Handler(d)] = victim[Handler(d)]
        BY <1>21, <2>2 DEF Teardown, CancelAndGoto, Live
      <3>4. at'[Stt(c)] \notin {"none", "gone"} => at'[p] = "join" /\ sttConn = c
        BY <1>21, <2>2 DEF Teardown, CancelAndGoto, Live
      <3>5. QED
        BY <2>2, <3>1, <3>2, <3>3, <3>4
    <2>3. CASE p = Stt(c)
      BY <1>21, <2>3 DEF Teardown, CancelAndGoto, Live
    <2>4. CASE p = Timer(c)
      BY <1>21, <2>4 DEF Teardown, CancelAndGoto, Live
    <2>5. QED
      BY <2>1, <2>2, <2>3, <2>4
  <1>22. ASSUME NEW p \in Procs, Join(p) PROVE SttInHand'
    <2>1. \A c \in Conns : p = Handler(c) => at[Stt(c)] \in {"none", "gone"}
      BY <1>22 DEF Join, Live
    <2>2. QED
      BY <1>22, <2>1 DEF Join
  <1>23. ASSUME NEW p \in Procs, Drain(p) PROVE SttInHand'
    BY <1>23 DEF Drain
  <1>24. ASSUME NEW p \in Procs, RecordConsumed(p) \/ CloseSession(p) PROVE SttInHand'
    BY <1>24 DEF RecordConsumed, CloseSession
  <1>25. ASSUME NEW p \in Procs, ReleaseSlot(p) PROVE SttInHand'
    BY <1>25 DEF ReleaseSlot
  <1>26. ASSUME NEW p \in Procs, Seal(p) PROVE SttInHand'
    BY <1>26 DEF Seal, FinallyLabel
  <1>27. ASSUME NEW p \in Procs, Bye(p) PROVE SttInHand'
    BY <1>27 DEF Bye, Raised, FinallyLabel
  <1>28. ASSUME NEW p \in Procs, CloseFails(p) PROVE SttInHand'
    BY <1>28 DEF CloseFails, Raised, FinallyLabel
  <1>29. CASE Tick \/ UNCHANGED vars
    BY <1>29 DEF Tick, vars
  <1>30. QED
    BY <1>1, <1>2, <1>3, <1>4, <1>5, <1>6, <1>7, <1>8, <1>9, <1>10, <1>11, <1>12, <1>13, <1>14,
       <1>15, <1>16, <1>17, <1>18, <1>19, <1>20, <1>21, <1>22, <1>23, <1>24, <1>25, <1>26, <1>27,
       <1>28, <1>29, SMTT(30)
    DEF Next, ClientStep, StartStep, LoopStep, PauseStep, TimerStep, FaultStep, CloseStep

-----------------------------------------------------------------------------
(* The closed flag.                                                         *)

(* Who is about to mark a state closed has seen the session settled.        *)
ByeIsSettled == \A p \in Procs : at[p] = "bye" /\ conn[p[2]] = "open" => Settled
ClosedInv == ClosedMeansSettled /\ ByeIsSettled

LEMMA ClosedInit == Init => ClosedInv
  <1> SUFFICES ASSUME Init PROVE ClosedInv
    OBVIOUS
  <1>1. ~closed
    BY DEF Init
  <1>2. QED
    BY <1>1 DEF Init, ClosedInv, ClosedMeansSettled, ByeIsSettled

LEMMA ClosedStep ==
    ASSUME "late" \notin Faults
    PROVE  TypeOK /\ OwnerInv /\ CourseInv /\ SttInHand /\ ClosedInv /\ [Next]_vars => ClosedInv'
  <1> SUFFICES ASSUME TypeOK, OwnerInv, CourseInv, SttInHand, ClosedInv, [Next]_vars
               PROVE  ClosedInv'
    OBVIOUS
  <1> USE ProcFacts, LabelFacts DEF TypeOK, OwnerInv, SoleOwner, IdleIsBlank, CourseInv, Fresh,
          AudioOrder, RowIsClosed, SilentIsOpen, SttInHand, Alive, ClosedInv, ClosedMeansSettled,
          ByeIsSettled, Settled, Goto, locals, stateObject, ledger,
          HandlerLabels, SttLabels, TimerLabels, Owning, Closing
  <1>1. ASSUME NEW c \in Conns, Connect(c) PROVE ClosedInv'
    BY <1>1 DEF Connect
  <1>2. ASSUME NEW c \in Conns, ReserveSlot(c) \/ ReserveRefused(c) PROVE ClosedInv'
    BY <1>2 DEF ReserveSlot, ReserveRefused
  <1>3. ASSUME NEW c \in Conns, CreatePendingSession(c) PROVE ClosedInv'
    BY <1>3 DEF CreatePendingSession
  <1>4. ASSUME NEW c \in Conns, UndoReservation(c) PROVE ClosedInv'
    BY <1>4 DEF UndoReservation
  <1>5. ASSUME NEW c \in Conns, StartFails(c) PROVE ClosedInv'
    BY <1>5 DEF StartFails
  <1>6. ASSUME NEW c \in Conns, Greet(c) PROVE ClosedInv'
    BY <1>6 DEF Greet
  <1>7. ASSUME NEW c \in Conns, Resume(c) PROVE ClosedInv'
    BY <1>7 DEF Resume
  <1>8. ASSUME NEW c \in Conns, ResumeTooLate(c) \/ ResumeRefused(c) PROVE ClosedInv'
    BY <1>8 DEF ResumeTooLate, ResumeRefused
  <1>9. ASSUME NEW c \in Conns, FirstAudio(c) \/ BadMessage(c) PROVE ClosedInv'
    BY <1>9 DEF FirstAudio, BadMessage
  <1>10. ASSUME NEW c \in Conns, MarkActive(c) PROVE ClosedInv'
    <2>1. ~closed /\ ~hasAudio
      BY <1>10 DEF MarkActive
    <2>2. \A q \in Procs : at'[q] # "bye"
      <3>1. \A d \in Conns : at'[Stt(d)] = "none" /\ at'[Timer(d)] # "bye"
        BY <1>10, <2>1 DEF MarkActive
      <3>2. \A d \in Conns : at'[Handler(d)] # "bye"
        BY <1>10 DEF MarkActive
      <3>3. QED
        BY <3>1, <3>2
    <2>3. QED
      BY <1>10, <2>1, <2>2 DEF MarkActive
  <1>11. ASSUME NEW c \in Conns, TellAudio(c) PROVE ClosedInv'
    BY <1>11 DEF TellAudio, FinallyLabel
  <1>12. ASSUME NEW c \in Conns, NextAudio(c) PROVE ClosedInv'
    BY <1>12 DEF NextAudio
  <1>13. ASSUME NEW c \in Conns, SessionStop(c) \/ Hangup(c) PROVE ClosedInv'
    BY <1>13 DEF SessionStop, Hangup, FinalizeLabel, FinallyLabel
  <1>14. ASSUME NEW c \in Conns, SttEnds(c) \/ SttRaises(c) PROVE ClosedInv'
    BY <1>14 DEF SttEnds, SttRaises
  <1>15. ASSUME NEW c \in Conns, Pause(c) PROVE ClosedInv'
    BY <1>15 DEF Pause
  <1>16. ASSUME NEW c \in Conns, Sweep(c) PROVE ClosedInv'
    BY <1>16 DEF Sweep, CancelAndGoto, Live
  <1>17. ASSUME NEW c \in Conns, Swept(c) \/ GraceElapses(c) \/ PauseFails(c) PROVE ClosedInv'
    BY <1>17 DEF Swept, GraceElapses, PauseFails, Live
  <1>18. ASSUME NEW c \in Conns, Expire(c) PROVE ClosedInv'
    BY <1>18 DEF Expire
  <1>19. ASSUME NEW c \in Conns, Drop(c) PROVE ClosedInv'
    BY <1>19 DEF Drop
  <1>20. ASSUME NEW p \in Procs, Report(p) PROVE ClosedInv'
    <2>1. conn[p[2]] = "open" => record = NoConn
      BY <1>20, SMTT(30) DEF Report
    <2>2. conn[p[2]] = "open" /\ closed => Settled
      BY <2>1
    <2>3. at'[p] = "bye" => conn[p[2]] = "open" /\ closed
      BY <1>20 DEF Report, FinalizeLabel, Raised, FinallyLabel
    <2>4. QED
      BY <1>20, <2>2, <2>3 DEF Report
  <1>21. ASSUME NEW p \in Procs, Teardown(p) PROVE ClosedInv'
    BY <1>21 DEF Teardown, CancelAndGoto, Live
  <1>22. ASSUME NEW p \in Procs, Join(p) PROVE ClosedInv'
    BY <1>22 DEF Join, Live
  <1>23. ASSUME NEW p \in Procs, Drain(p) PROVE ClosedInv'
    BY <1>23 DEF Drain
  <1>24. ASSUME NEW p \in Procs, RecordConsumed(p) \/ CloseSession(p) PROVE ClosedInv'
    BY <1>24 DEF RecordConsumed, CloseSession
  <1>25. ASSUME NEW p \in Procs, ReleaseSlot(p) PROVE ClosedInv'
    BY <1>25 DEF ReleaseSlot
  <1>26. ASSUME NEW p \in Procs, Seal(p) PROVE ClosedInv'
    BY <1>26 DEF Seal, FinallyLabel
  <1>27. ASSUME NEW p \in Procs, Bye(p) PROVE ClosedInv'
    BY <1>27 DEF Bye, Raised, FinallyLabel
  <1>28. ASSUME NEW p \in Procs, CloseFails(p) PROVE ClosedInv'
    BY <1>28 DEF CloseFails, Raised, FinallyLabel
  <1>29. CASE Tick \/ UNCHANGED vars
    BY <1>29 DEF Tick, vars
  <1>30. QED
    BY <1>1, <1>2, <1>3, <1>4, <1>5, <1>6, <1>7, <1>8, <1>9, <1>10, <1>11, <1>12, <1>13, <1>14,
       <1>15, <1>16, <1>17, <1>18, <1>19, <1>20, <1>21, <1>22, <1>23, <1>24, <1>25, <1>26, <1>27,
       <1>28, <1>29, SMTT(30)
    DEF Next, ClientStep, StartStep, LoopStep, PauseStep, TimerStep, FaultStep, CloseStep

-----------------------------------------------------------------------------
(* The slot.                                                                *)

(* As long as there was no audio, and no peer vanishes at a bad moment, the *)
(* slot is held by every task that may still mark the session active.       *)
SilentHolds == ~hasAudio =>
    /\ \A c \in Conns :
          /\ at[Handler(c)] \in Owning \ {"reserve", "undo", "seal", "bye"} => slot
          /\ at[Handler(c)] \in Owning \ {"recv", "pause"} => conn[c] = "open"
          /\ at[Timer(c)] \in Closing \ {"seal"} => slot
    /\ record # NoConn => slot
SlotInv == SilentHolds /\ SlotCoversRow

LEMMA SlotInit == Init => SlotInv
  BY ProcFacts DEF Init, SlotInv, SilentHolds, SlotCoversRow, Running, Owning, Closing

LEMMA SlotStep ==
    ASSUME "drop" \notin Faults
    PROVE  TypeOK /\ OwnerInv /\ CourseInv /\ SlotInv /\ [Next]_vars => SlotInv'
  <1> SUFFICES ASSUME TypeOK, OwnerInv, CourseInv, SlotInv, [Next]_vars PROVE SlotInv'
    OBVIOUS
  <1> USE ProcFacts, LabelFacts DEF TypeOK, OwnerInv, SoleOwner, RecordHasTimer, IdleIsBlank,
          CourseInv, AudioOrder, RowIsClosed, SilentIsOpen, SlotInv, SilentHolds, SlotCoversRow,
          Running, Settled, Goto, locals, stateObject, ledger,
          HandlerLabels, SttLabels, TimerLabels, Owning, Closing
  <1>1. ASSUME NEW c \in Conns, Connect(c) PROVE SlotInv'
    BY <1>1 DEF Connect
  <1>2. ASSUME NEW c \in Conns, ReserveSlot(c) \/ ReserveRefused(c) PROVE SlotInv'
    BY <1>2 DEF ReserveSlot, ReserveRefused
  <1>3. ASSUME NEW c \in Conns, CreatePendingSession(c) PROVE SlotInv'
    BY <1>3 DEF CreatePendingSession
  <1>4. ASSUME NEW c \in Conns, UndoReservation(c) PROVE SlotInv'
    BY <1>4 DEF UndoReservation
  <1>5. ASSUME NEW c \in Conns, StartFails(c) PROVE SlotInv'
    BY <1>5 DEF StartFails
  <1>6. ASSUME NEW c \in Conns, Greet(c) PROVE SlotInv'
    BY <1>6 DEF Greet
  <1>7. ASSUME NEW c \in Conns, Resume(c) PROVE SlotInv'
    BY <1>7 DEF Resume
  <1>8. ASSUME NEW c \in Conns, ResumeTooLate(c) \/ ResumeRefused(c) PROVE SlotInv'
    BY <1>8 DEF ResumeTooLate, ResumeRefused
  <1>9. ASSUME NEW c \in Conns, FirstAudio(c) \/ BadMessage(c) PROVE SlotInv'
    BY <1>9 DEF FirstAudio, BadMessage
  <1>10. ASSUME NEW c \in Conns, MarkActive(c) PROVE SlotInv'
    BY <1>10 DEF MarkActive
  <1>11. ASSUME NEW c \in Conns, TellAudio(c) PROVE SlotInv'
    BY <1>11 DEF TellAudio, FinallyLabel
  <1>12. ASSUME NEW c \in Conns, NextAudio(c) PROVE SlotInv'
    BY <1>12 DEF NextAudio
  <1>13. ASSUME NEW c \in Conns, SessionStop(c) \/ Hangup(c) PROVE SlotInv'
    BY <1>13 DEF SessionStop, Hangup, FinalizeLabel, FinallyLabel
  <1>14. ASSUME NEW c \in Conns, SttEnds(c) \/ SttRaises(c) PROVE SlotInv'
    BY <1>14 DEF SttEnds, SttRaises
  <1>15. ASSUME NEW c \in Conns, Pause(c) PROVE SlotInv'
    BY <1>15 DEF Pause
  <1>16. ASSUME NEW c \in Conns, Sweep(c) PROVE SlotInv'
    BY <1>16 DEF Sweep, CancelAndGoto, Live
  <1>17. ASSUME NEW c \in Conns, Swept(c) \/ GraceElapses(c) \/ PauseFails(c) PROVE SlotInv'
    BY <1>17 DEF Swept, GraceElapses, PauseFails, Live
  <1>18. ASSUME NEW c \in Conns, Expire(c) PROVE SlotInv'
    BY <1>18 DEF Expire
  <1>19. ASSUME NEW c \in Conns, Drop(c) PROVE SlotInv'
    BY <1>19 DEF Drop
  <1>20. ASSUME NEW p \in Procs, Report(p) PROVE SlotInv'
    BY <1>20 DEF Report, FinalizeLabel, Raised, FinallyLabel
  <1>21. ASSUME NEW p \in Procs, Teardown(p) PROVE SlotInv'
    BY <1>21 DEF Teardown, CancelAndGoto, Live
  <1>22. ASSUME NEW p \in Procs, Join(p) PROVE SlotInv'
    BY <1>22 DEF Join, Live
  <1>23. ASSUME NEW p \in Procs, Drain(p) PROVE SlotInv'
    BY <1>23 DEF Drain
  <1>24. ASSUME NEW p \in Procs, RecordConsumed(p) \/ CloseSession(p) PROVE SlotInv'
    BY <1>24 DEF RecordConsumed, CloseSession
  <1>25. ASSUME NEW p \in Procs, ReleaseSlot(p) PROVE SlotInv'
    BY <1>25 DEF ReleaseSlot
  <1>26. ASSUME NEW p \in Procs, Seal(p) PROVE SlotInv'
    BY <1>26 DEF Seal, FinallyLabel
  <1>27. ASSUME NEW p \in Procs, Bye(p) PROVE SlotInv'
    BY <1>27 DEF Bye, Raised, FinallyLabel
  <1>28. ASSUME NEW p \in Procs, CloseFails(p) PROVE SlotInv'
    BY <1>28 DEF CloseFails, Raised, FinallyLabel
  <1>29. CASE Tick \/ UNCHANGED vars
    BY <1>29 DEF Tick, vars
  <1>30. QED
    BY <1>1, <1>2, <1>3, <1>4, <1>5, <1>6, <1>7, <1>8, <1>9, <1>10, <1>11, <1>12, <1>13, <1>14,
       <1>15, <1>16, <1>17, <1>18, <1>19, <1>20, <1>21, <1>22, <1>23, <1>24, <1>25, <1>26, <1>27,
       <1>28, <1>29, SMTT(30)
    DEF Next, ClientStep, StartStep, LoopStep, PauseStep, TimerStep, FaultStep, CloseStep

-----------------------------------------------------------------------------
(* Nobody drops an open session.                                            *)

GreetIsOpen == \A c \in Conns :
    at[Handler(c)] \in {"reserve", "create", "greet", "welcome"} => conn[c] = "open"
KeptInv == NoOrphan /\ GreetIsOpen

LEMMA KeptInit == Init => KeptInv
  BY ProcFacts DEF Init, KeptInv, NoOrphan, GreetIsOpen, Running

LEMMA KeptStep ==
    ASSUME Faults \subseteq {"stt"}
    PROVE  TypeOK /\ OwnerInv /\ CourseInv /\ SttInHand /\ ClosedInv /\ KeptInv /\ [Next]_vars
               => KeptInv'
  <1> SUFFICES ASSUME TypeOK, OwnerInv, CourseInv, SttInHand, ClosedInv, KeptInv, [Next]_vars
               PROVE  KeptInv'
    OBVIOUS
  <1> USE ProcFacts, LabelFacts DEF TypeOK, OwnerInv, SoleOwner, IdleIsBlank, CourseInv,
          AudioOrder, RowIsClosed, SttInHand, Alive, ClosedInv, ClosedMeansSettled, ByeIsSettled,
          KeptInv, NoOrphan, GreetIsOpen, Running, Settled, Goto, locals, stateObject, ledger,
          HandlerLabels, SttLabels, TimerLabels, Owning, Closing
  <1>1. ASSUME NEW c \in Conns, Connect(c) PROVE KeptInv'
    BY <1>1 DEF Connect
  <1>2. ASSUME NEW c \in Conns, ReserveSlot(c) PROVE KeptInv'
    <2>1. at'[Handler(c)] = "create"
      BY <1>2 DEF ReserveSlot
    <2>2. QED
      BY <1>2, <2>1 DEF ReserveSlot
  <1>3. ASSUME NEW c \in Conns, ReserveRefused(c) PROVE KeptInv'
    BY <1>3 DEF ReserveRefused
  <1>4. ASSUME NEW c \in Conns, CreatePendingSession(c) PROVE KeptInv'
    <2>1. at'[Handler(c)] = "greet" /\ conn'[c] = "open"
      BY <1>4 DEF CreatePendingSession
    <2>2. QED
      BY <1>4, <2>1 DEF CreatePendingSession
  <1>5. ASSUME NEW c \in Conns, UndoReservation(c) PROVE KeptInv'
    BY <1>5 DEF UndoReservation
  <1>6. ASSUME NEW c \in Conns, StartFails(c) PROVE KeptInv'
    BY <1>6 DEF StartFails
  <1>7. ASSUME NEW c \in Conns, Greet(c) PROVE KeptInv'
    BY <1>7 DEF Greet
  <1>8. ASSUME NEW c \in Conns, Resume(c) PROVE KeptInv'
    BY <1>8 DEF Resume
  <1>9. ASSUME NEW c \in Conns, ResumeTooLate(c) \/ ResumeRefused(c) PROVE KeptInv'
    BY <1>9 DEF ResumeTooLate, ResumeRefused
  <1>10. ASSUME NEW c \in Conns, FirstAudio(c) \/ BadMessage(c) PROVE KeptInv'
    BY <1>10 DEF FirstAudio, BadMessage
  <1>11. ASSUME NEW c \in Conns, MarkActive(c) PROVE KeptInv'
    BY <1>11 DEF MarkActive
  <1>12. ASSUME NEW c \in Conns, TellAudio(c) PROVE KeptInv'
    BY <1>12 DEF TellAudio, FinallyLabel
  <1>13. ASSUME NEW c \in Conns, NextAudio(c) PROVE KeptInv'
    BY <1>13 DEF NextAudio
  <1>14. ASSUME NEW c \in Conns, SessionStop(c) \/ Hangup(c) PROVE KeptInv'
    BY <1>14 DEF SessionStop, Hangup, FinalizeLabel, FinallyLabel
  <1>15. ASSUME NEW c \in Conns, SttEnds(c) \/ SttRaises(c) PROVE KeptInv'
    BY <1>15 DEF SttEnds, SttRaises
  <1>16. ASSUME NEW c \in Conns, Pause(c) PROVE KeptInv'
    BY <1>16 DEF Pause
  <1>17. ASSUME NEW c \in Conns, Sweep(c) PROVE KeptInv'
    BY <1>17 DEF Sweep, CancelAndGoto, Live
  <1>18. ASSUME NEW c \in Conns, Swept(c) \/ GraceElapses(c) \/ PauseFails(c) PROVE KeptInv'
    BY <1>18 DEF Swept, GraceElapses, PauseFails, Live
  <1>19. ASSUME NEW c \in Conns, Expire(c) PROVE KeptInv'
    BY <1>19 DEF Expire
  <1>20. ASSUME NEW c \in Conns, Drop(c) PROVE KeptInv'
    BY <1>20 DEF Drop
  <1>21. ASSUME NEW p \in Procs, Report(p) PROVE KeptInv'
    BY <1>21 DEF Report, FinalizeLabel, Raised, FinallyLabel
  <1>22. ASSUME NEW p \in Procs, Teardown(p) PROVE KeptInv'
    BY <1>22 DEF Teardown, CancelAndGoto, Live
  <1>23. ASSUME NEW p \in Procs, Join(p) PROVE KeptInv'
    BY <1>23 DEF Join, Live
  <1>24. ASSUME NEW p \in Procs, Drain(p) PROVE KeptInv'
    BY <1>24 DEF Drain
  <1>25. ASSUME NEW p \in Procs, RecordConsumed(p) \/ CloseSession(p) PROVE KeptInv'
    BY <1>25 DEF RecordConsumed, CloseSession
  <1>26. ASSUME NEW p \in Procs, ReleaseSlot(p) PROVE KeptInv'
    BY <1>26 DEF ReleaseSlot
  <1>27. ASSUME NEW p \in Procs, Seal(p) PROVE KeptInv'
    BY <1>27 DEF Seal, FinallyLabel
  <1>28. ASSUME NEW p \in Procs, Bye(p) PROVE KeptInv'
    BY <1>28 DEF Bye, Raised, FinallyLabel
  <1>29. ASSUME NEW p \in Procs, CloseFails(p) PROVE KeptInv'
    BY <1>29 DEF CloseFails, Raised, FinallyLabel
  <1>30. CASE Tick \/ UNCHANGED vars
    BY <1>30 DEF Tick, vars
  <1>31. QED
    BY <1>1, <1>2, <1>3, <1>4, <1>5, <1>6, <1>7, <1>8, <1>9, <1>10, <1>11, <1>12, <1>13, <1>14,
       <1>15, <1>16, <1>17, <1>18, <1>19, <1>20, <1>21, <1>22, <1>23, <1>24, <1>25, <1>26, <1>27,
       <1>28, <1>29, <1>30, SMTT(30)
    DEF Next, ClientStep, StartStep, LoopStep, PauseStep, TimerStep, FaultStep, CloseStep

-----------------------------------------------------------------------------
(* One settlement.                                                          *)

(* Without a failing stream or call and without a peer that vanishes, one   *)
(* task at a time moves the ledger, and how far it has got is what the      *)
(* quota, the row and the slot say.                                         *)
Untouched == slot /\ Running /\ used = 0
Before == {"greet", "welcome", "recv", "activate", "tell", "report", "pause", "teardown", "join",
           "drain", "charge"}
SttNeverCloses == \A c \in Conns : at[Stt(c)] \in {"none", "run", "gone"}
OwnerIsOpen == \A c \in Conns :
    /\ at[Handler(c)] \in Owning \ {"recv", "pause"} => conn[c] = "open"
    /\ at[Handler(c)] # "undo"
LedgerFollows == \A p \in Procs :
    /\ at[p] = "reserve" => ~slot /\ row = "absent" /\ used = 0
    /\ at[p] = "create" => slot /\ row = "absent" /\ used = 0
    /\ at[p] \in Before => Untouched /\ ~closed
    /\ at[p] = "close" => slot /\ Running /\ used = seconds[p] /\ ~closed
    /\ at[p] = "release" => slot /\ row \in {"ended", "error"} /\ used = rowSeconds /\ ~closed
    /\ at[p] = "seal" => Settled /\ ~closed
    /\ at[p] = "bye" => Settled /\ closed
RecordUntouched == record # NoConn => Untouched
SettledIsBilled == Settled => used = rowSeconds

SettleInv == /\ SttNeverCloses /\ OwnerIsOpen /\ LedgerFollows /\ RecordUntouched
             /\ SettledIsBilled /\ SlotCoversRow

LEMMA SoleMover ==
    ASSUME TypeOK, OwnerInv, SttNeverCloses, NEW p \in Procs, at[p] \in Owning
    PROVE  record = NoConn /\ \A q \in Procs \ {p} : at[q] \notin Owning
  <1> USE ProcFacts, LabelFacts DEF TypeOK, OwnerInv, SoleOwner, SttNeverCloses, HandlerLabels,
          TimerLabels, SttLabels, Owning, Closing
  <1>1. PICK c \in Conns : p = Handler(c) \/ p = Timer(c)
    BY SMTT(30)
  <1>2. record = NoConn
    BY <1>1
  <1>3. ASSUME NEW d \in Conns PROVE /\ Handler(d) # p => at[Handler(d)] \notin Owning
                                     /\ Timer(d) # p => at[Timer(d)] \notin Owning
                                     /\ at[Stt(d)] \notin Owning
    BY <1>1
  <1>4. QED
    BY <1>2, <1>3

LEMMA SettleInit == Init => SettleInv
  <1> SUFFICES ASSUME Init PROVE SettleInv
    OBVIOUS
  <1>1. \A p \in Procs : at[p] = "none"
    BY DEF Init
  <1>2. ~slot /\ row = "absent" /\ record = NoConn
    BY DEF Init
  <1>3. QED
    BY <1>1, <1>2, ProcFacts DEF SettleInv, SttNeverCloses, OwnerIsOpen, LedgerFollows, Before,
       RecordUntouched, SettledIsBilled, Settled, SlotCoversRow, Running, Owning, Closing

LEMMA SettleStep ==
    ASSUME Faults \subseteq {"late"}
    PROVE  TypeOK /\ OwnerInv /\ CourseInv /\ SettleInv /\ [Next]_vars => SettleInv'
  <1> SUFFICES ASSUME TypeOK, OwnerInv, CourseInv, SettleInv, [Next]_vars PROVE SettleInv'
    OBVIOUS
  <1> USE ProcFacts, LabelFacts DEF TypeOK, OwnerInv, SoleOwner, RecordHasTimer, IdleIsBlank,
          CourseInv, Fresh, SettleInv, SttNeverCloses, OwnerIsOpen, LedgerFollows, Untouched,
          Before, RecordUntouched, SettledIsBilled, SlotCoversRow, Running, Settled, Goto, locals,
          stateObject, ledger, HandlerLabels, SttLabels, TimerLabels, Owning, Closing
  <1>1. ASSUME NEW c \in Conns, Connect(c) PROVE SettleInv'
    BY <1>1 DEF Connect
  <1>2. ASSUME NEW c \in Conns, ReserveSlot(c) PROVE SettleInv'
    BY <1>2, SMTT(30) DEF ReserveSlot
  <1>3. ASSUME NEW c \in Conns, ReserveRefused(c) PROVE SettleInv'
    BY <1>3 DEF ReserveRefused
  <1>4. ASSUME NEW c \in Conns, CreatePendingSession(c) PROVE SettleInv'
    <2>1. ~closed
      BY <1>4 DEF CreatePendingSession, AudioOrder, SilentIsOpen
    <2>2. record = NoConn /\ \A q \in Procs \ {Handler(c)} : at[q] \notin Owning
      BY <1>4, SoleMover DEF CreatePendingSession
    <2>3. /\ at' = [at EXCEPT ![Handler(c)] = "greet"]
          /\ \A q \in Procs \ {Handler(c)} : at'[q] \notin Owning
      BY <1>4, <2>2 DEF CreatePendingSession
    <2>4. SttNeverCloses' /\ OwnerIsOpen'
      BY <1>4 DEF CreatePendingSession
    <2>5. Untouched' /\ ~closed' /\ record' = NoConn
      BY <1>4, <2>1, <2>2 DEF CreatePendingSession
    <2>6. QED
      BY <2>3, <2>4, <2>5
  <1>5. ASSUME NEW c \in Conns, UndoReservation(c) PROVE SettleInv'
    BY <1>5 DEF UndoReservation
  <1>6. ASSUME NEW c \in Conns, StartFails(c) PROVE SettleInv'
    BY <1>6 DEF StartFails
  <1>7. ASSUME NEW c \in Conns, Greet(c) PROVE SettleInv'
    BY <1>7 DEF Greet
  <1>8. ASSUME NEW c \in Conns, Resume(c) PROVE SettleInv'
    BY <1>8 DEF Resume
  <1>9. ASSUME NEW c \in Conns, ResumeTooLate(c) \/ ResumeRefused(c) PROVE SettleInv'
    BY <1>9 DEF ResumeTooLate, ResumeRefused
  <1>10. ASSUME NEW c \in Conns, FirstAudio(c) \/ BadMessage(c) PROVE SettleInv'
    BY <1>10 DEF FirstAudio, BadMessage
  <1>11. ASSUME NEW c \in Conns, MarkActive(c) PROVE SettleInv'
    BY <1>11 DEF MarkActive
  <1>12. ASSUME NEW c \in Conns, TellAudio(c) PROVE SettleInv'
    BY <1>12 DEF TellAudio, FinallyLabel
  <1>13. ASSUME NEW c \in Conns, NextAudio(c) PROVE SettleInv'
    BY <1>13 DEF NextAudio
  <1>14. ASSUME NEW c \in Conns, SessionStop(c) \/ Hangup(c) PROVE SettleInv'
    BY <1>14 DEF SessionStop, Hangup, FinalizeLabel, FinallyLabel
  <1>15. ASSUME NEW c \in Conns, SttEnds(c) \/ SttRaises(c) PROVE SettleInv'
    BY <1>15 DEF SttEnds, SttRaises
  <1>16. ASSUME NEW c \in Conns, Pause(c) PROVE SettleInv'
    <2>1. Untouched /\ Handler(c) \in Procs /\ UNCHANGED ledger
      BY <1>16 DEF Pause
    <2>2. \A q \in Procs \ {Handler(c)} : at[q] \notin Owning
      BY <1>16, SoleMover DEF Pause
    <2>3. \A q \in Procs : at'[q] \notin Owning
      BY <1>16, <2>2 DEF Pause
    <2>4. SttNeverCloses'
      BY <1>16 DEF Pause
    <2>5. QED
      BY <2>1, <2>3, <2>4
  <1>17. ASSUME NEW c \in Conns, Sweep(c) PROVE SettleInv'
    BY <1>17 DEF Sweep, CancelAndGoto, Live
  <1>18. ASSUME NEW c \in Conns, Swept(c) \/ GraceElapses(c) \/ PauseFails(c) PROVE SettleInv'
    BY <1>18 DEF Swept, GraceElapses, PauseFails, Live
  <1>19. ASSUME NEW c \in Conns, Expire(c) PROVE SettleInv'
    BY <1>19 DEF Expire
  <1>20. ASSUME NEW c \in Conns, Drop(c) PROVE SettleInv'
    BY <1>20 DEF Drop
  <1>21. ASSUME NEW p \in Procs, Report(p) PROVE SettleInv'
    BY <1>21 DEF Report, FinalizeLabel, Raised, FinallyLabel
  <1>22. ASSUME NEW p \in Procs, Teardown(p) PROVE SettleInv'
    BY <1>22 DEF Teardown, CancelAndGoto, Live
  <1>23. ASSUME NEW p \in Procs, Join(p) PROVE SettleInv'
    BY <1>23 DEF Join, Live
  <1>24. ASSUME NEW p \in Procs, Drain(p) PROVE SettleInv'
    BY <1>24 DEF Drain
  <1>25. ASSUME NEW p \in Procs, RecordConsumed(p) PROVE SettleInv'
    <2>1. /\ record = NoConn /\ \A q \in Procs \ {p} : at[q] \notin Owning
          /\ at' = [at EXCEPT ![p] = "close"]
      BY <1>25, SoleMover DEF RecordConsumed
    <2>2. \A q \in Procs \ {p} : at'[q] \notin Owning
      BY <2>1
    <2>3. SttNeverCloses'
      BY <1>25 DEF RecordConsumed
    <2>4. QED
      BY <1>25, <2>1, <2>2, <2>3 DEF RecordConsumed
  <1>26. ASSUME NEW p \in Procs, CloseSession(p) PROVE SettleInv'
    <2>1. /\ record = NoConn /\ \A q \in Procs \ {p} : at[q] \notin Owning
          /\ at' = [at EXCEPT ![p] = "release"]
      BY <1>26, SoleMover DEF CloseSession
    <2>2. \A q \in Procs \ {p} : at'[q] \notin Owning
      BY <2>1
    <2>3. SttNeverCloses'
      BY <1>26 DEF CloseSession
    <2>4. QED
      BY <1>26, <2>1, <2>2, <2>3 DEF CloseSession
  <1>27. ASSUME NEW p \in Procs, ReleaseSlot(p) PROVE SettleInv'
    <2>1. /\ record = NoConn /\ \A q \in Procs \ {p} : at[q] \notin Owning
          /\ at' = [at EXCEPT ![p] = "seal"]
      BY <1>27, SoleMover DEF ReleaseSlot
    <2>2. \A q \in Procs \ {p} : at'[q] \notin Owning
      BY <2>1
    <2>3. SttNeverCloses'
      BY <1>27 DEF ReleaseSlot
    <2>4. QED
      BY <1>27, <2>1, <2>2, <2>3 DEF ReleaseSlot
  <1>28. ASSUME NEW p \in Procs, Seal(p) PROVE SettleInv'
    BY <1>28, SMTT(30) DEF Seal, FinallyLabel
  <1>29. ASSUME NEW p \in Procs, Bye(p) PROVE SettleInv'
    BY <1>29, SMTT(30) DEF Bye, Raised, FinallyLabel
  <1>30. ASSUME NEW p \in Procs, CloseFails(p) PROVE SettleInv'
    BY <1>30 DEF CloseFails, Raised, FinallyLabel
  <1>31. CASE Tick \/ UNCHANGED vars
    BY <1>31 DEF Tick, vars
  <1>32. QED
    BY <1>1, <1>2, <1>3, <1>4, <1>5, <1>6, <1>7, <1>8, <1>9, <1>10, <1>11, <1>12, <1>13, <1>14,
       <1>15, <1>16, <1>17, <1>18, <1>19, <1>20, <1>21, <1>22, <1>23, <1>24, <1>25, <1>26, <1>27,
       <1>28, <1>29, <1>30, <1>31, SMTT(30)
    DEF Next, ClientStep, StartStep, LoopStep, PauseStep, TimerStep, FaultStep, CloseStep

-----------------------------------------------------------------------------
(* What holds of the invariants.                                            *)

LEMMA Ownership == Spec => []OwnerInv
  BY TypeCorrect, OwnerInit, OwnerStep, PTL DEF Spec

LEMMA Course == Spec => []CourseInv
  BY TypeCorrect, Ownership, CourseInit, CourseStep, PTL DEF Spec

LEMMA SttInHandHolds == Spec => []SttInHand
  BY TypeCorrect, Ownership, Course, SttInit, SttStep, PTL DEF Spec

LEMMA ClosedInvHolds == ASSUME "late" \notin Faults PROVE Spec => []ClosedInv
  <1>1. TypeOK /\ OwnerInv /\ CourseInv /\ SttInHand /\ ClosedInv /\ [Next]_vars => ClosedInv'
    BY ClosedStep
  <1>2. QED
    BY <1>1, TypeCorrect, Ownership, Course, SttInHandHolds, ClosedInit, PTL DEF Spec

(* Unless a resume comes too late, a state marked closed with no record in  *)
(* the registry is settled, whatever else fails.                            *)
THEOREM ClosedMeansSettledHolds == ASSUME "late" \notin Faults PROVE Spec => []ClosedMeansSettled
  <1>1. ClosedInv => ClosedMeansSettled
    BY DEF ClosedInv
  <1>2. Spec => []ClosedInv
    BY ClosedInvHolds
  <1>3. QED
    BY <1>1, <1>2, PTL

(* Unless the peer vanishes while the server is not receiving, a session    *)
(* that can still receive audio holds the slot of its client.               *)
THEOREM SlotCoversRowHolds == ASSUME "drop" \notin Faults PROVE Spec => []SlotCoversRow
  <1>1. TypeOK /\ OwnerInv /\ CourseInv /\ SlotInv /\ [Next]_vars => SlotInv'
    BY SlotStep
  <1>2. SlotInv => SlotCoversRow
    BY DEF SlotInv
  <1>3. QED
    BY <1>1, <1>2, TypeCorrect, Ownership, Course, SlotInit, PTL DEF Spec

(* With a speech-to-text stream that may fail at any await, a session that  *)
(* is not settled always has somebody who will settle it.                   *)
THEOREM NoOrphanHolds == ASSUME Faults \subseteq {"stt"} PROVE Spec => []NoOrphan
  <1>1. TypeOK /\ OwnerInv /\ CourseInv /\ SttInHand /\ ClosedInv /\ KeptInv /\ [Next]_vars
            => KeptInv'
    BY KeptStep
  <1>2. Spec => []ClosedInv
    BY ClosedInvHolds
  <1>3. KeptInv => NoOrphan
    BY DEF KeptInv
  <1>4. QED
    BY <1>1, <1>2, <1>3, TypeCorrect, Ownership, Course, SttInHandHolds, KeptInit, PTL DEF Spec

LEMMA SettleInvHolds == ASSUME Faults \subseteq {"late"} PROVE Spec => []SettleInv
  <1>1. TypeOK /\ OwnerInv /\ CourseInv /\ SettleInv /\ [Next]_vars => SettleInv'
    BY SettleStep
  <1>2. QED
    BY <1>1, TypeCorrect, Ownership, Course, SettleInit, PTL DEF Spec

(* Over every number of connections, stops, hang-ups, resumes and expiries, *)
(* the quota is charged the seconds the row was closed with.                *)
THEOREM ChargedOnceHolds == ASSUME Faults \subseteq {"late"} PROVE Spec => []ChargedOnce
  <1>1. SettleInv => ChargedOnce
    BY DEF SettleInv, SettledIsBilled, ChargedOnce
  <1>2. Spec => []SettleInv
    BY SettleInvHolds
  <1>3. QED
    BY <1>1, <1>2, PTL

(* What a step may do to the ledger: nothing, take the slot of a session    *)
(* that has no row, work on it while the slot is held, or give the slot     *)
(* back when the row is closed with the seconds that were charged.          *)
LedgerMove ==
    \/ UNCHANGED ledger
    \/ ~slot /\ row = "absent" /\ used = 0 /\ slot' /\ UNCHANGED <<row, rowSeconds, used>>
    \/ slot /\ slot'
    \/ /\ slot /\ ~slot' /\ row \in {"ended", "error"} /\ used = rowSeconds
       /\ UNCHANGED <<row, rowSeconds, used>>

LEMMA LedgerStep ==
    ASSUME Faults \subseteq {"late"}, TypeOK, SettleInv, [Next]_vars PROVE LedgerMove
  <1> USE ProcFacts DEF TypeOK, SettleInv, OwnerIsOpen, LedgerFollows, Untouched, Before,
          LedgerMove, ledger
  <1>1. ASSUME NEW c \in Conns, ReserveSlot(c) PROVE LedgerMove
    BY <1>1 DEF ReserveSlot
  <1>2. ASSUME NEW c \in Conns, CreatePendingSession(c) \/ MarkActive(c) PROVE LedgerMove
    BY <1>2 DEF CreatePendingSession, MarkActive
  <1>3. ASSUME NEW p \in Procs, RecordConsumed(p) \/ CloseSession(p) PROVE LedgerMove
    BY <1>3 DEF RecordConsumed, CloseSession
  <1>4. ASSUME NEW p \in Procs, ReleaseSlot(p) PROVE LedgerMove
    BY <1>4 DEF ReleaseSlot
  <1>5. ASSUME NEW c \in Conns, UndoReservation(c) \/ StartFails(c) PROVE LedgerMove
    BY <1>5 DEF UndoReservation, StartFails
  <1>6. CASE UNCHANGED ledger
    BY <1>6
  <1>7. QED
    <2>1. ASSUME NEW c \in Conns,
                 ClientStep(c) \/ LoopStep(c) \/ StartStep(c),
                 ~ReserveSlot(c), ~CreatePendingSession(c), ~MarkActive(c), ~UndoReservation(c)
          PROVE  UNCHANGED ledger
      BY <2>1 DEF ClientStep, LoopStep, StartStep, Connect, Resume, ResumeTooLate, ResumeRefused,
         FirstAudio, NextAudio, SessionStop, BadMessage, Drop, ReserveRefused, Greet,
         TellAudio, Hangup
    <2>2. ASSUME NEW c \in Conns,
                 PauseStep(c) \/ TimerStep(c) \/ SttEnds(c) \/ SttRaises(c) \/ PauseFails(c)
          PROVE  UNCHANGED ledger
      BY <2>2 DEF PauseStep, TimerStep, Pause, Sweep, Swept, GraceElapses, Expire, SttEnds,
         SttRaises, PauseFails
    <2>3. ASSUME NEW p \in Procs, CloseStep(p) \/ CloseFails(p),
                 ~RecordConsumed(p), ~CloseSession(p), ~ReleaseSlot(p)
          PROVE  UNCHANGED ledger
      BY <2>3 DEF CloseStep, Report, Teardown, Join, Drain, Seal, Bye, CloseFails
    <2>4. CASE Tick \/ UNCHANGED vars
      BY <1>6, <2>4 DEF Tick, vars
    <2>5. QED
    BY <1>1, <1>2, <1>3, <1>4, <1>5, <1>6, <2>1, <2>2, <2>3, <2>4 DEF Next, FaultStep, LoopStep,
       StartStep, CloseStep

FinalLedger == Settled => UNCHANGED ledger

(* Once a session is settled, no later step of any task touches the quota,  *)
(* the row or the slot.                                                     *)
THEOREM SettledIsFinalHolds == ASSUME Faults \subseteq {"late"} PROVE Spec => SettledIsFinal
  <1>1. TypeOK /\ SettleInv /\ [Next]_vars => LedgerMove
    BY LedgerStep
  <1>2. LedgerMove => FinalLedger
    BY DEF LedgerMove, FinalLedger, Settled
  <1>3. TypeOK /\ SettleInv /\ [Next]_vars => [FinalLedger]_vars
    BY <1>1, <1>2
  <1>4. SettledIsFinal <=> [][FinalLedger]_vars
    BY PTL DEF SettledIsFinal, FinalLedger
  <1>5. Spec => []SettleInv
    BY SettleInvHolds
  <1>6. QED
    BY <1>3, <1>4, <1>5, TypeCorrect, PTL DEF Spec

(* The session implements the settlement in one step: every step of it maps *)
(* to taking the slot, to settling with equal seconds, or to nothing.       *)
THEOREM SettlesOnceHolds == ASSUME Faults \subseteq {"late"} PROVE Spec => SettlesOnce
  <1>1. Init => Settlement!SettlementInit
    BY DEF Init, Settlement!SettlementInit, Phase
  <1>2. TypeOK /\ SettleInv /\ SettleInv' /\ LedgerMove
           => [Settlement!SettlementNext]_(Settlement!settlementVars)
    <2> SUFFICES ASSUME TypeOK, SettleInv, SettleInv', LedgerMove
                 PROVE  [Settlement!SettlementNext]_(Settlement!settlementVars)
      OBVIOUS
    <2> USE DEF Phase, LedgerMove, TypeOK, ledger, Settlement!SettlementNext,
            Settlement!settlementVars
    <2>1. CASE UNCHANGED ledger
      BY <2>1
    <2>2. CASE ~slot /\ row = "absent" /\ used = 0 /\ slot' /\ UNCHANGED <<row, rowSeconds, used>>
      BY <2>2 DEF Settlement!Take
    <2>3. CASE slot /\ slot'
      BY <2>3
    <2>4. CASE /\ slot /\ ~slot' /\ row \in {"ended", "error"} /\ used = rowSeconds
               /\ UNCHANGED <<row, rowSeconds, used>>
      BY <2>4 DEF Settlement!Settle
    <2>5. QED
      BY <2>1, <2>2, <2>3, <2>4
  <1>3. TypeOK /\ SettleInv /\ [Next]_vars => LedgerMove
    BY LedgerStep
  <1>4. Spec => []SettleInv
    BY SettleInvHolds
  <1>5. QED
    BY <1>1, <1>2, <1>3, <1>4, TypeCorrect, PTL DEF Spec, SettlesOnce, Settlement!SettlementSpec
=============================================================================
