------------------------ MODULE SpeechStream_proofs ------------------------
(***************************************************************************)
(* Proofs about SpeechStream, for any number of connections of a session,  *)
(* any length of the audio queue and every set of faults: its types, and   *)
(* the safe half of ClosingEnds, that a task only ever waits for something *)
(* that is under way, and that the tasks do not wait in a circle.          *)
(***************************************************************************)
EXTENDS SpeechStream, WellFoundedInduction, TLAPS

-----------------------------------------------------------------------------
(* Types.                                                                   *)

\* A task is the handler, the timer or a pipeline task, and no two of them are one.
LEMMA TaskFacts ==
    /\ Handler \in Tasks /\ Timer \in Tasks
    /\ \A k \in Streams : k \in Tasks /\ k \in Nat /\ k # 0 /\ k # Handler /\ k # Timer
    /\ \A k \in Nat : k # 0 /\ k <= MaxStreams => k \in Streams
    /\ \A k \in Streams : k <= MaxStreams
    /\ 1 \in Streams
    /\ MaxStreams \in Nat /\ MaxAudio \in Nat /\ MaxAudio >= 1
  BY StreamBounds DEF Tasks, Streams, Handler, Timer

\* Room for the silence of a gap: it is queued once after each frame.
QueueRoom == \A k \in Streams : flush[k] => queue[k] <= MaxAudio

ProviderInv == ProviderTypeOK /\ QueueRoom

SessionTypes ==
    /\ qwen \in BOOLEAN /\ closed \in BOOLEAN /\ parked \in BOOLEAN /\ online \in BOOLEAN
    /\ conn \in Streams
    /\ handler \in {"loop", "leaving", "gone"}
    /\ closing \in [Tasks -> Steps]
    /\ target \in [Tasks -> 0..MaxStreams]
    /\ sweeper \in [Streams -> {"none", "task", "join", "close", "provider"}]
    /\ stream \in 0..conn
    /\ mock \in 0..MockSteps

TypeInv == ProviderInv /\ SessionTypes

LEMMA TypeInit == Init => TypeInv
  <1> SUFFICES ASSUME Init PROVE TypeInv
    OBVIOUS
  <1>1. ProviderTypeOK
    BY TaskFacts DEF Init, ProviderInit, ProviderTypeOK, Readers, Closers
  <1>2. QueueRoom
    BY TaskFacts DEF Init, ProviderInit, QueueRoom
  <1>3. SessionTypes
    <2>1. stream \in 0..conn /\ mock \in 0..MockSteps /\ conn \in Streams
      BY TaskFacts DEF Init, MockSteps
    <2>2. target \in [Tasks -> 0..MaxStreams]
      BY TaskFacts DEF Init
    <2>3. QED
      BY <2>1, <2>2, TaskFacts DEF Init, SessionTypes, Steps
  <1>4. QED
    BY <1>1, <1>2, <1>3 DEF TypeInv, ProviderInv

LEMMA AnyStream == TypeInv /\ stream # 0 => stream \in Streams
  BY TaskFacts DEF TypeInv, SessionTypes

ProviderStep(k) ==
    ReaderStep(k) \/ CloseStep(k) \/ UpstreamStep(k) \/ StartFails(k) \/ FlushSilence(k) \/ SendFrame(k)

\* One frame more or less in the queue.
LEMMA OneFrame ==
  ASSUME NEW k \in Streams, ProviderInv
  PROVE  LET more == [queue EXCEPT ![k] = queue[k] + 1]
             less == [queue EXCEPT ![k] = queue[k] - 1] IN
         /\ queue[k] < MaxAudio => more[k] <= MaxAudio
         /\ queue[k] < MaxAudio \/ flush[k] => more \in [Streams -> 0..(MaxAudio + 1)]
         /\ queue[k] > 0 => /\ less \in [Streams -> 0..(MaxAudio + 1)]
                            /\ \A j \in Streams : less[j] <= queue[j]
  <1>1. /\ queue \in [Streams -> 0..(MaxAudio + 1)]
        /\ flush[k] => queue[k] <= MaxAudio
        /\ MaxAudio \in Nat
    BY TaskFacts DEF ProviderInv, ProviderTypeOK, QueueRoom
  <1>2. flush[k] \in BOOLEAN
    BY DEF ProviderInv, ProviderTypeOK
  <1>3. QED
    BY <1>1, <1>2

LEMMA FlushKeeps ==
  ASSUME NEW k \in Streams, ProviderInv, FlushSilence(k)
  PROVE  ProviderInv'
  <1>1. /\ flush[k] /\ flush' = [flush EXCEPT ![k] = FALSE]
        /\ queue' = queue \/ queue' = [queue EXCEPT ![k] = queue[k] + 1]
    BY Zenon DEF FlushSilence
  <1>2. queue \in [Streams -> 0..(MaxAudio + 1)] /\ flush \in [Streams -> BOOLEAN]
    BY DEF ProviderInv, ProviderTypeOK
  <1>3. queue' \in [Streams -> 0..(MaxAudio + 1)]
    BY <1>1, <1>2, OneFrame
  <1>4. flush' \in [Streams -> BOOLEAN]
    BY <1>1, <1>2
  <1>5. QueueRoom'
    BY <1>1, <1>2 DEF ProviderInv, QueueRoom
  <1>6. QED
    BY <1>3, <1>4, <1>5 DEF FlushSilence, ProviderInv, ProviderTypeOK

LEMMA FrameKeeps ==
  ASSUME NEW k \in Streams, ProviderInv, SendFrame(k)
  PROVE  ProviderInv'
  <1>1. queue[k] > 0 /\ queue' = [queue EXCEPT ![k] = queue[k] - 1] /\ flush' = flush
    BY Zenon DEF SendFrame
  <1>2. /\ queue' \in [Streams -> 0..(MaxAudio + 1)]
        /\ \A j \in Streams : queue'[j] <= queue[j]
    BY <1>1, OneFrame
  <1>3. queue \in [Streams -> 0..(MaxAudio + 1)] /\ sender \in [Streams -> BOOLEAN]
    BY DEF ProviderInv, ProviderTypeOK
  <1>4. QueueRoom'
    <2>1. ASSUME NEW j \in Streams, flush[j] PROVE queue'[j] <= MaxAudio
      <3>1. queue[j] <= MaxAudio
        BY <2>1 DEF ProviderInv, QueueRoom
      <3>2. QED
        BY <1>2, <1>3, <3>1, TaskFacts
    <2>2. QED
      BY <1>1, <2>1 DEF QueueRoom
  <1>5. sender' \in [Streams -> BOOLEAN]
    BY <1>3, Zenon DEF SendFrame
  <1>6. QED
    BY <1>2, <1>4, <1>5, Zenon DEF SendFrame, ProviderInv, ProviderTypeOK

\* A provider keeps its types by its own steps.
LEMMA ProviderKeeps ==
  ASSUME NEW k \in Streams, ProviderInv, ProviderStep(k)
  PROVE  ProviderInv'
  <1> USE TaskFacts DEF ProviderInv, ProviderTypeOK, QueueRoom, Readers, Cleanup, Closers, queueVars, Read
  <1>1. CASE Connected(k)
    BY <1>1 DEF Connected
  <1>2. CASE SessionUpdated(k)
    BY <1>2 DEF SessionUpdated
  <1>3. CASE ReadEnds(k)
    BY <1>3 DEF ReadEnds
  <1>4. CASE Leave(k)
    BY <1>4 DEF Leave
  <1>5. CASE SendFinish(k)
    BY <1>5 DEF SendFinish
  <1>6. CASE WaitFinished(k)
    BY <1>6 DEF WaitFinished
  <1>7. CASE CloseSocket(k)
    BY <1>7 DEF CloseSocket
  <1>8. CASE ReadEvent(k)
    BY <1>8 DEF ReadEvent
  <1>9. CASE ReadFinished(k)
    BY <1>9 DEF ReadFinished
  <1>10. CASE ReadError(k)
    BY <1>10 DEF ReadError
  <1>11. CASE HangUp(k)
    BY <1>11 DEF HangUp
  <1>12. CASE StartFails(k)
    BY <1>12 DEF StartFails
  <1>13. CASE FlushSilence(k)
    BY <1>13, FlushKeeps
  <1>14. CASE SendFrame(k)
    BY <1>14, FrameKeeps
  <1>15. QED
    BY <1>1, <1>2, <1>3, <1>4, <1>5, <1>6, <1>7, <1>8, <1>9, <1>10, <1>11, <1>12, <1>13, <1>14
       DEF ProviderStep, ReaderStep, CloseStep, UpstreamStep

\* So it does when its task is cancelled, when audio is sent and when it is closed.
LEMMA CancelKeeps ==
  ASSUME NEW k \in Streams, ProviderInv, CancelReader(k)
  PROVE  reader' \in [Streams -> Readers]
  BY DEF CancelReader, ProviderInv, ProviderTypeOK, Readers, Read

LEMMA SendKeeps ==
  ASSUME NEW k \in Streams, ProviderInv, SendAudio(k), queue[k] < MaxAudio
  PROVE  ProviderInv'
  <1> USE TaskFacts DEF ProviderInv, ProviderTypeOK, QueueRoom
  <1>1. CASE shut[k]
    BY <1>1 DEF SendAudio
  <1>2. CASE ~shut[k]
    <2>1. /\ queue' = [queue EXCEPT ![k] = queue[k] + 1]
          /\ flush' = [flush EXCEPT ![k] = TRUE]
      BY <1>2, Zenon DEF SendAudio
    <2>2. queue' \in [Streams -> 0..(MaxAudio + 1)] /\ queue'[k] <= MaxAudio
      BY <2>1, OneFrame
    <2>3. QueueRoom' /\ flush' \in [Streams -> BOOLEAN]
      BY <2>1, <2>2
    <2>4. QED
      BY <1>2, <2>2, <2>3 DEF SendAudio
  <1>3. QED
    BY <1>1, <1>2

LEMMA CloseKeeps ==
  ASSUME NEW k \in Streams, ProviderInv, Close(k), reader' \in [Streams -> Readers]
  PROVE  ProviderInv'
  <1> USE DEF ProviderInv, ProviderTypeOK, QueueRoom, Closers
  <1>1. closer' \in [Streams -> Closers]
    BY DEF Close
  <1>2. QED
    BY <1>1 DEF Close

LEMMA CancelPipelineKeeps ==
  ASSUME NEW k \in Streams, ProviderInv, CancelPipeline(k)
  PROVE  ProviderInv'
  <1>1. reader' \in [Streams -> Readers]
    BY CancelKeeps DEF CancelPipeline
  <1>2. closer' \in [Streams -> Closers]
    BY DEF CancelPipeline, ProviderInv, ProviderTypeOK, Closers
  <1>3. QED
    BY <1>1, <1>2 DEF CancelPipeline, ProviderInv, ProviderTypeOK, QueueRoom, queueVars

LEMMA TypeStep == TypeInv /\ [Next]_vars => TypeInv'
  <1> SUFFICES ASSUME TypeInv, [Next]_vars PROVE TypeInv'
    OBVIOUS
  <1>0. UNCHANGED providerVars => ProviderInv'
    BY DEF TypeInv, ProviderInv, ProviderTypeOK, QueueRoom, providerVars
  <1> USE TaskFacts, AnyStream DEF TypeInv, SessionTypes, Steps, MockSteps, sessionVars, connVars,
          Goto, At, SweepTo
  <1>1. ASSUME NEW k \in Streams, Provider(k) PROVE TypeInv'
    BY <1>1, ProviderKeeps DEF Provider, ProviderStep, ProviderInv
  <1>2. ASSUME NEW k \in Streams, ShowEvent(k) PROVE TypeInv'
    <2>1. reader' \in [Streams -> Readers]
      BY <1>2, CancelKeeps DEF ShowEvent, Read, Readers, ProviderInv, ProviderTypeOK
    <2>2. ProviderInv'
      BY <1>2, <2>1 DEF ShowEvent, ProviderInv, ProviderTypeOK, QueueRoom, queueVars
    <2>3. QED
      BY <1>2, <2>2 DEF ShowEvent
  <1>3. ASSUME NEW k \in Streams, StreamFails(k) PROVE TypeInv'
    <2>1. ProviderInv'
      BY <1>3 DEF StreamFails, Read, Readers, ProviderInv, ProviderTypeOK, QueueRoom, queueVars
    <2>2. SessionTypes'
      BY <1>3 DEF StreamFails, RaiseIn
    <2>3. QED
      BY <2>1, <2>2
  <1>4. ASSUME NEW k \in Streams, SweepTask(k) PROVE TypeInv'
    <2>1. ProviderInv'
      BY <1>4, <1>0, CancelPipelineKeeps DEF SweepTask
    <2>2. SessionTypes'
      BY <1>4 DEF SweepTask
    <2>3. QED
      BY <2>1, <2>2
  <1>5. ASSUME NEW k \in Streams, SweepJoin(k) PROVE TypeInv'
    BY <1>5, <1>0 DEF SweepJoin
  <1>6. ASSUME NEW k \in Streams, SweepClose(k) PROVE TypeInv'
    <2>1. ProviderInv'
      BY <1>6, <1>0, CloseKeeps DEF SweepClose, ProviderInv, ProviderTypeOK
    <2>2. SessionTypes'
      BY <1>6 DEF SweepClose
    <2>3. QED
      BY <2>1, <2>2
  <1>7. ASSUME NEW p \in Tasks, NothingToClose(p) PROVE TypeInv'
    BY <1>7, <1>0 DEF NothingToClose
  <1>8. ASSUME NEW p \in Tasks, CloseUnopened(p) PROVE TypeInv'
    <2>1. ProviderInv'
      BY <1>8, CloseKeeps, CancelKeeps DEF CloseUnopened, ProviderInv, ProviderTypeOK
    <2>2. SessionTypes'
      BY <1>8 DEF CloseUnopened
    <2>3. QED
      BY <2>1, <2>2
  <1>9. ASSUME NEW p \in Tasks, CloseStream(p) PROVE TypeInv'
    <2>1. ProviderInv'
      BY <1>9, CloseKeeps DEF CloseStream, ProviderInv, ProviderTypeOK
    <2>2. SessionTypes'
      BY <1>9 DEF CloseStream
    <2>3. QED
      BY <2>1, <2>2
  <1>10. ASSUME NEW p \in Tasks, StreamClosed(p) PROVE TypeInv'
    BY <1>10, <1>0 DEF StreamClosed
  <1>11. ASSUME NEW p \in Tasks, CancelTask(p) PROVE TypeInv'
    <2>1. ProviderInv'
      BY <1>11, <1>0, CancelPipelineKeeps DEF CancelTask
    <2>2. SessionTypes'
      BY <1>11 DEF CancelTask
    <2>3. QED
      BY <2>1, <2>2
  <1>12. ASSUME NEW p \in Tasks, Join(p) PROVE TypeInv'
    BY <1>12, <1>0 DEF Join
  <1>13. ASSUME NEW p \in Tasks, Settle(p) PROVE TypeInv'
    <2>1. ProviderInv'
      BY <1>13 DEF Settle, ProviderInv, ProviderTypeOK, QueueRoom, Readers, queueVars
    <2>2. closed' \in BOOLEAN /\ online' \in BOOLEAN
      BY <1>13, Zenon DEF Settle
    <2>3. SessionTypes'
      BY <1>13, <2>2 DEF Settle
    <2>4. QED
      BY <2>1, <2>3
  <1>14. CASE StartStream
    <2>1. ProviderInv'
      BY <1>14 DEF StartStream, ProviderInv, ProviderTypeOK, QueueRoom, Readers
    <2>2. SessionTypes'
      BY <1>14 DEF StartStream
    <2>3. QED
      BY <2>1, <2>2
  <1>15. CASE ForwardAudio
    <2>1. ProviderInv'
      BY <1>15, SendKeeps DEF ForwardAudio
    <2>2. QED
      BY <1>15, <2>1 DEF ForwardAudio
  <1>16. CASE StartMock
    BY <1>16, <1>0 DEF StartMock
  <1>17. CASE MockStep
    BY <1>17, <1>0 DEF MockStep
  <1>18. CASE SessionStop
    BY <1>18, <1>0 DEF SessionStop
  <1>19. CASE BrowserLeaves
    BY <1>19, <1>0 DEF BrowserLeaves
  <1>20. CASE Disconnect
    BY <1>20, <1>0 DEF Disconnect
  <1>21. CASE Park
    BY <1>21, <1>0 DEF Park
  <1>22. CASE Resume
    <2>1. conn' \in Streams /\ stream' \in 0..conn'
      BY <1>22 DEF Resume
    <2>2. QED
      BY <1>22, <1>0, <2>1 DEF Resume
  <1>23. CASE Expire
    BY <1>23, <1>0 DEF Expire
  <1>24. CASE UNCHANGED vars
    BY <1>24, <1>0 DEF vars
  <1>25. QED
    BY <1>1, <1>2, <1>3, <1>4, <1>5, <1>6, <1>7, <1>8, <1>9, <1>10, <1>11, <1>12, <1>13, <1>14, <1>15, <1>16, <1>17, <1>18, <1>19, <1>20, <1>21, <1>22, <1>23, <1>24
       DEF Next, ShowStep, SweepStep, FinalizeStep

(* SpeechStream.TypeOK: for any number of connections and any bound on the  *)
(* queue, the provider and the tasks of a session are only ever suspended   *)
(* at awaits of their own, and the audio that waits stays within its bound. *)
THEOREM TypeCorrect == Spec => []TypeOK
  <1>1. TypeInv => TypeOK
    BY DEF TypeInv, SessionTypes, ProviderInv, TypeOK
  <1>2. QED
    BY <1>1, TypeInit, TypeStep, PTL DEF Spec

-----------------------------------------------------------------------------
(* What a task waits for.                                                   *)

\* Where a pipeline task is once it is cancelled or has failed: it reads no more.
Ending == {"leaving", "breaking", "abandoned", "failed", "over"}

\* Connection k uses stream k, from its first audio on.
Course ==
    /\ \A k \in Streams : k > conn => reader[k] = "new"
    /\ stream # 0 => stream = conn /\ reader[stream] # "new"
    /\ handler = "loop" /\ stream = 0 => reader[conn] = "new"

\* A pipeline task finalizes the session from its exception handler.
FinalizesFailed == \A k \in Streams : closing[k] # "none" => reader[k] = "failed"

\* A pipeline task that outlives its connection joins that of the next one, never its own
\* or an earlier one.
JoinsLater == \A k \in Streams : closing[k] = "join" => k < target[k]

\* The first call of close() sets _closed, and is the one under way.
ShutIsClosing == \A k \in Streams : shut[k] <=> closer[k] # "open"

WaitsAreAnswered ==
    /\ \A p \in Tasks :
         /\ closing[p] = "provider" => target[p] # 0 /\ closer[target[p]] # "open"
         /\ closing[p] = "join" => target[p] # 0 /\ reader[target[p]] \in Ending
    /\ \A k \in Streams :
         /\ sweeper[k] # "none" => reader[k] # "new"
         /\ sweeper[k] = "provider" => closer[k] # "open"
         /\ sweeper[k] = "join" => reader[k] \in Ending

WaitInv == Course /\ FinalizesFailed /\ JoinsLater /\ ShutIsClosing /\ WaitsAreAnswered

LEMMA WaitInit == Init => WaitInv
  <1> SUFFICES ASSUME Init PROVE WaitInv
    OBVIOUS
  <1>1. Course /\ FinalizesFailed /\ JoinsLater
    BY TaskFacts DEF Init, ProviderInit, Course, FinalizesFailed, JoinsLater
  <1>2. ShutIsClosing
    BY DEF Init, ProviderInit, ShutIsClosing
  <1>3. WaitsAreAnswered
    BY TaskFacts DEF Init, WaitsAreAnswered
  <1>4. QED
    BY <1>1, <1>2, <1>3 DEF WaitInv

\* No stream starts or comes back from its end, and no call of close() is undone.
Onward ==
    \A k \in Streams :
        /\ reader[k] = "new" <=> reader'[k] = "new"
        /\ reader[k] \in Ending => reader'[k] \in Ending
        /\ closer[k] # "open" => closer'[k] # "open"

LEMMA ProviderOnward ==
  ASSUME NEW k \in Streams, TypeInv, ProviderStep(k)
  PROVE  /\ Onward /\ shut' = shut
         /\ \A j \in Streams : /\ reader[j] = "failed" => reader'[j] = "failed"
                               /\ closer[j] = "open" => closer'[j] = "open"
  <1>0. reader \in [Streams -> Readers] /\ closer \in [Streams -> Closers]
    BY DEF TypeInv, ProviderInv, ProviderTypeOK
  <1> USE <1>0 DEF Onward, Ending, queueVars, Read
  <1>1. CASE ReaderStep(k)
    BY <1>1 DEF ReaderStep, Connected, SessionUpdated, ReadEnds, Leave, Cleanup
  <1>2. CASE CloseStep(k)
    BY <1>2 DEF CloseStep, SendFinish, WaitFinished, CloseSocket
  <1>3. CASE UpstreamStep(k)
    BY <1>3 DEF UpstreamStep, ReadEvent, ReadFinished, ReadError, HangUp
  <1>4. CASE StartFails(k)
    BY <1>4 DEF StartFails
  <1>5. CASE FlushSilence(k)
    BY <1>5 DEF FlushSilence
  <1>6. CASE SendFrame(k)
    BY <1>6 DEF SendFrame
  <1>7. QED
    BY <1>1, <1>2, <1>3, <1>4, <1>5, <1>6 DEF ProviderStep

\* A cancelled task ends; the other ones are left alone.
LEMMA CancelEnds ==
  ASSUME NEW k \in Streams, TypeInv, CancelReader(k)
  PROVE  /\ reader'[k] \in Ending
         /\ \A j \in Streams : j # k => reader'[j] = reader[j]
  BY DEF CancelReader, Read, Ending, TypeInv, ProviderInv, ProviderTypeOK

LEMMA CloseCalled ==
  ASSUME NEW k \in Streams, TypeInv, ShutIsClosing, Close(k)
  PROVE  /\ closer'[k] # "open" /\ ShutIsClosing'
         /\ \A j \in Streams : j # k => closer'[j] = closer[j]
  BY DEF Close, ShutIsClosing, TypeInv, ProviderInv, ProviderTypeOK

LEMMA CancelPipelineEnds ==
  ASSUME NEW k \in Streams, TypeInv, WaitInv, CancelPipeline(k)
  PROVE  /\ reader'[k] \in Ending
         /\ \A j \in Streams : j # k => reader'[j] = reader[j]
         /\ \A j \in Streams : closer'[j] = "open" <=> closer[j] = "open"
         /\ shut' = shut
  <1>1. k \in Tasks
    BY TaskFacts
  <1>2. closing[k] = "provider" => target[k] # 0 /\ closer[target[k]] # "open"
    BY <1>1 DEF WaitInv, WaitsAreAnswered
  <1>3. \A j \in Streams : closer'[j] = "open" <=> closer[j] = "open"
    BY <1>2 DEF CancelPipeline, At, TypeInv, ProviderInv, ProviderTypeOK
  <1>4. QED
    BY <1>3, CancelEnds DEF CancelPipeline

LEMMA WaitStep == TypeInv /\ WaitInv /\ [Next]_vars => WaitInv'
  <1> SUFFICES ASSUME TypeInv, WaitInv, [Next]_vars PROVE WaitInv'
    OBVIOUS
  <1>0. ShutIsClosing
    BY DEF WaitInv
  <1> USE TaskFacts, AnyStream DEF TypeInv, ProviderInv, ProviderTypeOK, SessionTypes, WaitInv, Course,
          FinalizesFailed, JoinsLater, ShutIsClosing, WaitsAreAnswered, Ending, providerVars, queueVars, sessionVars,
          connVars, Read, Goto, At, SweepTo, TaskDone
  <1>1. ASSUME NEW k \in Streams, Provider(k) PROVE WaitInv'
    BY <1>1, ProviderOnward DEF Provider, ProviderStep, Onward
  <1>2. ASSUME NEW k \in Streams, ShowEvent(k) PROVE WaitInv'
    BY <1>2 DEF ShowEvent, CancelReader
  <1>3. ASSUME NEW k \in Streams, StreamFails(k) PROVE WaitInv'
    BY <1>3 DEF StreamFails, RaiseIn
  <1>4. ASSUME NEW k \in Streams, SweepTask(k) PROVE WaitInv'
    <2>1. CASE CancelPipeline(k) /\ closing' = [closing EXCEPT ![k] = "none"]
      <3>1. Course' /\ FinalizesFailed' /\ JoinsLater'
        BY <1>4, <2>1, CancelPipelineEnds DEF SweepTask
      <3>2. ShutIsClosing' /\ WaitsAreAnswered'
        BY <1>4, <2>1, CancelPipelineEnds DEF SweepTask
      <3>3. QED
        BY <3>1, <3>2
    <2>2. CASE MaySwallow(k) /\ UNCHANGED <<providerVars, closing>>
      BY <1>4, <2>2 DEF SweepTask, MaySwallow
    <2>3. QED
      BY <1>4, <2>1, <2>2 DEF SweepTask
  <1>5. ASSUME NEW k \in Streams, SweepJoin(k) PROVE WaitInv'
    BY <1>5 DEF SweepJoin
  <1>6. ASSUME NEW k \in Streams, SweepClose(k) PROVE WaitInv'
    BY <1>6, <1>0, CloseCalled DEF SweepClose
  <1>7. ASSUME NEW p \in Tasks, NothingToClose(p) PROVE WaitInv'
    BY <1>7 DEF NothingToClose
  <1>8. ASSUME NEW p \in Tasks, CloseUnopened(p) PROVE WaitInv'
    <2>0. /\ stream \in Streams /\ stream = conn /\ closing[p] = "close" /\ ShutIsClosing'
          /\ shut' = [shut EXCEPT ![stream] = TRUE] /\ closer'[stream] # "open"
          /\ \A j \in Streams : j # stream => closer'[j] = closer[j]
          /\ target' = [target EXCEPT ![p] = stream]
          /\ UNCHANGED <<conn, handler, sweeper, stream>>
      BY <1>8, <1>0, CloseCalled DEF CloseUnopened, Close
    <2>1. p \in Streams => p <= conn
      BY <2>0
    <2>2. CASE p = stream /\ closing' = [closing EXCEPT ![p] = "settle"] /\ UNCHANGED reader
      BY <2>0, <2>2
    <2>3. CASE /\ p # stream
               /\ CancelReader(stream)
               /\ closing' = [closing EXCEPT ![stream] = "none", ![p] = "join"]
      <3>1. /\ reader'[stream] \in Ending
            /\ \A j \in Streams : j # stream => reader'[j] = reader[j]
        BY <2>0, <2>3, CancelEnds
      <3>2. p \in Streams => p < stream
        BY <2>0, <2>1, <2>3
      <3>3. Course' /\ FinalizesFailed' /\ JoinsLater'
        BY <2>0, <2>3, <3>1, <3>2
      <3>4. WaitsAreAnswered'
        BY <2>0, <2>3, <3>1
      <3>5. QED
        BY <2>0, <3>3, <3>4
    <2>4. CASE /\ p # stream /\ MaySwallow(stream)
               /\ closing' = [closing EXCEPT ![p] = "join"] /\ UNCHANGED reader
      <3>1. closing[stream] = "settle" /\ reader[stream] = "failed"
        BY <2>0, <2>4 DEF MaySwallow
      <3>2. p \in Streams => p < stream
        BY <2>0, <2>1, <2>4
      <3>3. QED
        BY <2>0, <2>4, <3>1, <3>2
    <2>5. QED
      BY <1>8, <2>2, <2>3, <2>4 DEF CloseUnopened
  <1>9. ASSUME NEW p \in Tasks, CloseStream(p) PROVE WaitInv'
    BY <1>9, <1>0, CloseCalled DEF CloseStream
  <1>10. ASSUME NEW p \in Tasks, StreamClosed(p) PROVE WaitInv'
    BY <1>10 DEF StreamClosed
  <1>11. ASSUME NEW p \in Tasks, CancelTask(p) PROVE WaitInv'
    BY <1>11, CancelPipelineEnds DEF CancelTask, MaySwallow
  <1>12. ASSUME NEW p \in Tasks, Join(p) PROVE WaitInv'
    BY <1>12 DEF Join
  <1>13. ASSUME NEW p \in Tasks, Settle(p) PROVE WaitInv'
    BY <1>13 DEF Settle
  <1>14. CASE StartStream
    <2>1. reader[conn] = "new" /\ stream' = conn /\ reader' = [reader EXCEPT ![conn] = "connect"]
      BY <1>14 DEF StartStream, Serving
    <2>2. Course' /\ FinalizesFailed' /\ JoinsLater' /\ ShutIsClosing'
      BY <1>14, <2>1 DEF StartStream
    <2>3. WaitsAreAnswered'
      BY <1>14, <2>1 DEF StartStream
    <2>4. QED
      BY <2>2, <2>3
  <1>15. CASE ForwardAudio
    BY <1>15 DEF ForwardAudio, SendAudio
  <1>16. CASE StartMock
    BY <1>16 DEF StartMock
  <1>17. CASE MockStep
    BY <1>17 DEF MockStep
  <1>18. CASE SessionStop
    BY <1>18 DEF SessionStop
  <1>19. CASE BrowserLeaves
    BY <1>19 DEF BrowserLeaves
  <1>20. CASE Disconnect
    BY <1>20 DEF Disconnect
  <1>21. CASE Park
    BY <1>21 DEF Park
  <1>22. CASE Resume
    BY <1>22 DEF Resume
  <1>23. CASE Expire
    BY <1>23 DEF Expire
  <1>24. CASE UNCHANGED vars
    BY <1>24 DEF vars
  <1>25. QED
    BY <1>1, <1>2, <1>3, <1>4, <1>5, <1>6, <1>7, <1>8, <1>9, <1>10, <1>11, <1>12, <1>13, <1>14, <1>15, <1>16, <1>17, <1>18, <1>19, <1>20, <1>21, <1>22, <1>23, <1>24
       DEF Next, ShowStep, SweepStep, FinalizeStep

(* For any number of connections and every fault, a finalization that waits *)
(* for close() waits for a call that has been made, and one that waits for  *)
(* a pipeline task, like the sweep after a pause, waits for one that has    *)
(* been cancelled or has failed: never for a stream that may go on reading. *)
(* That what is under way ends is the part of ClosingEnds left to TLC.      *)
THEOREM WaitsAreAnsweredHolds == Spec => []WaitsAreAnswered
  <1>1. WaitInv => WaitsAreAnswered
    BY DEF WaitInv
  <1>2. QED
    BY <1>1, TypeInit, TypeStep, WaitInit, WaitStep, PTL DEF Spec

-----------------------------------------------------------------------------
(* Who waits for whom.                                                      *)

\* Task p waits for pipeline task k, which is still there.
Awaits(p, k) == k \in Streams /\ At(p, "join") /\ target[p] = k /\ ~TaskDone(k)

(* Among any tasks there is one that waits for none of them.                *)
NoCircularWait ==
    \A W \in SUBSET Tasks : W # {} => \E p \in W : \A q \in W : ~Awaits(p, q)

\* Any connections have a last one.
LEMMA LastStream ==
  ASSUME NEW K \in SUBSET Streams, K # {}
  PROVE  \E k \in K : \A j \in K : j <= k
  <1> DEFINE Left == {MaxStreams - k : k \in K}
           Less == {ss \in Nat \X Nat : ss[1] < ss[2]}
  <1>1. IsWellFoundedOn(Less, Nat)
    BY NatLessThanWellFounded, Zenon DEF OpToRel
  <1>2. Left \subseteq Nat /\ Left # {}
    BY TaskFacts
  <1>3. PICK n \in Left : \A m \in Left : <<m, n>> \notin Less
    <2> HIDE DEF Left, Less
    <2>1. QED
      BY <1>1, <1>2, WFMin
  <1>4. \A m \in Left : ~(m < n)
    <2>1. \A m \in Left : m \in Nat /\ n \in Nat
      BY <1>2
    <2>2. QED
      BY <1>3, <2>1
  <1>5. PICK k \in K : n = MaxStreams - k
    OBVIOUS
  <1>6. ASSUME NEW j \in K PROVE j <= k
    <2>1. MaxStreams - j \in Left /\ j \in Nat /\ k \in Nat /\ MaxStreams \in Nat
      BY TaskFacts
    <2>2. ~(MaxStreams - j < MaxStreams - k)
      BY <1>4, <1>5, <2>1
    <2>3. QED
      BY <2>1, <2>2
  <1>7. QED
    BY <1>6

LEMMA LaterJoinsMakeNoCircle == TypeInv /\ JoinsLater => NoCircularWait
  <1> SUFFICES ASSUME JoinsLater, NEW W \in SUBSET Tasks, W # {}
               PROVE  \E p \in W : \A q \in W : ~Awaits(p, q)
    BY DEF NoCircularWait
  <1>1. CASE W \cap Streams = {}
    BY <1>1 DEF Awaits
  <1>2. CASE W \cap Streams # {}
    <2>1. PICK k \in W \cap Streams : \A j \in W \cap Streams : j <= k
      BY <1>2, LastStream
    <2>2. ASSUME NEW q \in W, Awaits(k, q) PROVE FALSE
      <3>1. q \in Streams /\ k < q
        BY <2>2 DEF Awaits, At, JoinsLater
      <3>2. q <= k /\ q \in Nat /\ k \in Nat
        BY <2>1, <3>1, TaskFacts
      <3>3. QED
        BY <3>1, <3>2
    <2>3. QED
      BY <2>2
  <1>3. QED
    BY <1>1, <1>2

(* Handler, timer and the pipeline tasks of all connections, each of which  *)
(* may finalize the session and cancel and await another: they never wait   *)
(* for each other in a circle, even when a task outlives its connection and *)
(* closes the stream of the one that resumed.                               *)
THEOREM NoCircularWaitHolds == Spec => []NoCircularWait
  <1>1. WaitInv => JoinsLater
    BY DEF WaitInv
  <1>2. QED
    BY <1>1, LaterJoinsMakeNoCircle, TypeInit, TypeStep, WaitInit, WaitStep, PTL DEF Spec
=============================================================================
