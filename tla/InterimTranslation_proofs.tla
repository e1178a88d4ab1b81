---------------------- MODULE InterimTranslation_proofs ----------------------
(***************************************************************************)
(* Proofs about InterimTranslation: what its loop may never ask for, for   *)
(* any set of texts and any interval.                                      *)
(***************************************************************************)
EXTENDS InterimTranslation, TLAPS

(* Inductive: a loop that sleeps wakes no earlier than the slot is free,     *)
(* and what it has taken is not the text translated last.                    *)
SleepInv ==
    /\ loop = "sleep" => since + delay >= MinInterval
    /\ loop \in {"sleep", "record"} => asked # lastText

(* A request is made after its slot was stamped and before the next one is:  *)
(* the request before the last one is older than the last stamp, and while   *)
(* the event is being written both requests are.                             *)
CallInv ==
    /\ callBefore >= since
    /\ loop = "record" => lastCall >= since /\ callBefore = MinInterval

InterimInv == InterimTypeOK /\ SleepInv /\ CallInv

LEMMA InterimInitInv == InterimInit => InterimInv
BY IntervalAssumption DEF InterimInit, InterimInv, InterimTypeOK, SleepInv, CallInv, Phases

(* Scheduling and the loop.                                                  *)
LEMMA LoopKeepsInv ==
    ASSUME InterimInv, LoopStep \/ \E t \in Texts : HearInterim(t) PROVE InterimInv'
<1> USE IntervalAssumption DEF InterimInv, InterimTypeOK, SleepInv, CallInv, Phases, sessionState, captions, clock, calls
<1>1. ASSUME NEW t \in Texts, HearInterim(t) PROVE InterimInv'
    BY <1>1 DEF HearInterim, Schedule
<1>2. CASE TakePending
    <2>1. CASE pending = lastText
        BY <1>2, <2>1 DEF TakePending, Take
    <2>2. CASE pending # lastText /\ since < MinInterval
        BY <1>2, <2>2 DEF TakePending, Take
    <2>3. CASE pending # lastText /\ ~(since < MinInterval)
        BY <1>2, <2>3 DEF TakePending, Take, TakeSlot
    <2> QED
        BY <2>1, <2>2, <2>3
<1>3. CASE LoopEnds
    BY <1>3 DEF LoopEnds
<1>4. CASE SlotIsFree
    BY <1>4 DEF SlotIsFree, TakeSlot
<1>5. ASSUME NEW reply \in Replies, Answer(reply) PROVE InterimInv'
    BY <1>5 DEF Answer
<1>6. CASE Request
    BY <1>6 DEF Request
<1> QED
    BY <1>1, <1>2, <1>3, <1>4, <1>5, <1>6 DEF LoopStep

(* The clock: the slot comes as much nearer as the sleep gets shorter.       *)
LEMMA TickKeepsInv == ASSUME InterimInv, Tick PROVE InterimInv'
BY IntervalAssumption DEF InterimInv, InterimTypeOK, SleepInv, CallInv, Phases, sessionState, captions, Tick, Later

(* The session.                                                              *)
LEMMA SessionKeepsInv ==
    ASSUME InterimInv,
           \/ BeginClosing \/ CancelInterimLoop \/ CloseClient \/ FinishClosing
           \/ LoseSocket \/ PauseInterim \/ ResumeInterim \/ ExpireInterim
    PROVE InterimInv'
<1> USE IntervalAssumption DEF InterimInv, InterimTypeOK, SleepInv, CallInv, Phases, captions, clock, calls
<1>1. CASE BeginClosing
    BY <1>1 DEF BeginClosing
<1>2. CASE CancelInterimLoop
    BY <1>2 DEF CancelInterimLoop
<1>3. CASE CloseClient
    BY <1>3 DEF CloseClient
<1>4. CASE FinishClosing
    BY <1>4 DEF FinishClosing
<1>5. CASE LoseSocket
    BY <1>5 DEF LoseSocket
<1>6. CASE PauseInterim
    BY <1>6 DEF PauseInterim
<1>7. CASE ResumeInterim
    BY <1>7 DEF ResumeInterim
<1>8. CASE ExpireInterim
    BY <1>8 DEF ExpireInterim
<1> QED
    BY <1>1, <1>2, <1>3, <1>4, <1>5, <1>6, <1>7, <1>8

LEMMA InterimInvInductive == InterimInv /\ [InterimNext]_interimVars => InterimInv'
<1> SUFFICES ASSUME InterimInv, [InterimNext]_interimVars PROVE InterimInv'
    OBVIOUS
<1>1. CASE UNCHANGED interimVars
    BY <1>1 DEF interimVars, sessionState, captions, clock, calls, InterimInv, InterimTypeOK, SleepInv, CallInv
<1> QED
    BY <1>1, LoopKeepsInv, TickKeepsInv, SessionKeepsInv DEF InterimNext

(* Type correctness of the interim captions.                                 *)
THEOREM InterimTypesHold == InterimSpec => []InterimTypeOK
<1>1. InterimInv => InterimTypeOK
    BY DEF InterimInv
<1> QED
    BY <1>1, InterimInitInv, InterimInvInductive, PTL DEF InterimSpec

(* A slot is taken in one of two steps: pending text is taken while it is    *)
(* free, or the loop wakes up in a session that is still open.  The request  *)
(* is a step of its own.                                                     *)
LEMMA SlotTaken ==
    ASSUME [InterimNext]_interimVars, Slots PROVE ~IsClosed
<1> USE DEF Slots
<1>1. CASE TakePending
    BY <1>1 DEF TakePending, Take
<1>2. CASE SlotIsFree
    BY <1>2 DEF SlotIsFree, TakeSlot
<1>3. TakePending \/ SlotIsFree
    BY DEF InterimNext, interimVars, HearInterim, Schedule, LoopStep, LoopEnds, Request, Answer,
           Tick, BeginClosing, CancelInterimLoop, CloseClient, FinishClosing, LoseSocket,
           PauseInterim, ResumeInterim, ExpireInterim
<1> QED
    BY <1>1, <1>2, <1>3

LEMMA RequestMade ==
    ASSUME InterimInv, [InterimNext]_interimVars, Requests
    PROVE  callBefore = MinInterval /\ asked' # lastText
<1>1. Request
    BY DEF Requests, InterimNext, interimVars, HearInterim, Schedule, LoopStep, TakePending, Take,
           TakeSlot, LoopEnds, SlotIsFree, Answer, Tick, BeginClosing, CancelInterimLoop,
           CloseClient, FinishClosing, LoseSocket, PauseInterim, ResumeInterim, ExpireInterim
<1> QED
    BY <1>1 DEF Request, InterimInv, SleepInv, CallInv

(* Of three requests the last is MinInterval after the first, whatever       *)
(* fails, ends or is resumed, and however long the usage events take.        *)
THEOREM RequestRateHolds == InterimSpec => RequestRate
<1>1. InterimInv /\ [InterimNext]_interimVars => [Requests => callBefore = MinInterval]_interimVars
    BY RequestMade
<1> QED
    BY <1>1, InterimInitInv, InterimInvInductive, PTL DEF InterimSpec, RequestRate

(* The text translated last is not asked for again.                          *)
THEOREM NoRepeatHolds == InterimSpec => NoRepeat
<1>1. InterimInv /\ [InterimNext]_interimVars => [Requests => asked' # lastText]_interimVars
    BY RequestMade
<1> QED
    BY <1>1, InterimInitInv, InterimInvInductive, PTL DEF InterimSpec, NoRepeat

(* No slot is taken for a paused or settled session.                         *)
THEOREM NothingAskedAfterEndHolds == InterimSpec => NothingAskedAfterEnd
<1>1. [InterimNext]_interimVars => [Slots => ~IsClosed]_interimVars
    BY SlotTaken
<1> QED
    BY <1>1, PTL DEF InterimSpec, NothingAskedAfterEnd
=============================================================================
