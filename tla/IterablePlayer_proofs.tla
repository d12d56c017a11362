----------------------- MODULE IterablePlayer_proofs -----------------------
(***************************************************************************)
(* What holds of IterablePlayer for every log, every set of topics and any *)
(* number of calls, in three parts.                                        *)
(*                                                                         *)
(* 1. The places of the run loop: variables keep their types, no message   *)
(*    leaves a tick or #messages before its time, and the states find what *)
(*    they rely on, so that none of the invariants the code throws on is   *)
(*    ever broken.                                                         *)
(* 2. The frames: the debounced emission catches up with the player, and   *)
(*    the ticks of playback leave no gap, following a message from the     *)
(*    iterator through #lastMessageEvent, the tick and #messages to the    *)
(*    frame.                                                               *)
(* 3. The contract: between two seeks the frames carry messages in order   *)
(*    and once, and none before its time, until playUntil() makes a tick   *)
(*    go back in time.  So the player implements FrameContract.            *)
(***************************************************************************)
EXTENDS IterablePlayer, TLAPS

\* Which state each wait of the run loop belongs to.
AtState ==
  /\ pc \in {"initWait", "initDelay"} => state = "initialize"
  /\ pc \in {"startRead", "startDone"} => state = "start-play"
  /\ pc \in {"play", "tickRead", "awaitFrame", "frameReady", "tickDone", "playDelay"}
       => state = "play"
  /\ AwaitingBackfill => state = "seek-backfill"
  /\ pc = "reset" => state \in {"seek-backfill", "reset-playback-iterator"}
  /\ nextState # "preinit"
  /\ nextState = "initialize" => state = "preinit"

\* Only a read and what follows it up to the frame hold messages.
BatchIsLocal ==
  batch # {} => pc \in {"startRead", "startDone", "tickRead", "awaitFrame", "frameReady"}

\* Nothing is emitted before the current time is known.
SilentUntilInitialized ==
  state \in {"preinit", "initialize"} => messages = {}

\* The inductive invariant: a tick's end moves only while nothing is read, and
\* the current time is set without a frame of its own only in initialize.
IInv == TypeOK /\ AtState /\ BatchIsLocal /\ SilentUntilInitialized /\ NeverAhead

-----------------------------------------------------------------------------
(* Lemmas about the operators of the model.                                *)

\* A clamped time lies in the source.
LEMMA ClampInTimes ==
  ASSUME NEW t \in Nat
  PROVE  Clamp(t) \in Times
BY LogAssumption DEF Clamp, Times

\* Clamping leaves an undefined time undefined.
LEMMA ClampNoTime == Clamp(NoTime) = NoTime
BY LogAssumption DEF Clamp, NoTime

\* A tick ends at a time of the source.
LEMMA TickEndInTimes ==
  ASSUME RequestTypeOK, NEW range \in 1..MaxTick
  PROVE  TickEnd(range) \in Times
BY LogAssumption, BoundsAssumption DEF RequestTypeOK, TickEnd, Times, NoTime

\* Reading goes through entries of the log, which have a time of the source.
LEMMA LogEntry ==
  ASSUME NEW i \in 1..Len(Log)
  PROVE  i \in Nat /\ Log[i].time \in Times
<1>1. Log[i] \in Entries
  BY LogAssumption
<1> QED
  BY <1>1, LogAssumption DEF Entries

\* The backfill of a time holds no message later than it.
LEMMA BackfillInTime ==
  ASSUME NEW topics, NEW t
  PROVE  /\ Backfill(topics, t) \in SUBSET Messages
         /\ \A i \in Backfill(topics, t) : Log[i].time <= t
BY DEF Backfill

\* #queueEmitState leaves either the messages it was given or none.
LEMMA QueueEmitMessages ==
  ASSUME NEW ms, NEW seek, QueueEmit(ms, seek)
  PROVE  messages' \in {ms, {}}
BY DEF QueueEmit, EmitFrame

\* It keeps the types of what it touches.
LEMMA QueueEmitTypes ==
  ASSUME EmissionTypeOK, RequestTypeOK',
         NEW ms \in SUBSET Messages, NEW seek \in BOOLEAN, QueueEmit(ms, seek)
  PROVE  EmissionTypeOK'
<1>1. CurrentFrame(ms, seek) \in [time : Times \union {NoTime}, playing : BOOLEAN,
                                   messages : SUBSET Messages, seek : BOOLEAN]
  BY DEF CurrentFrame, NoFrame, RequestTypeOK
<1>2. CASE EmitFrame(ms, seek) /\ emitting' = TRUE /\ pending' = FALSE
  BY <1>1, <1>2 DEF EmitFrame, EmissionTypeOK
<1>3. CASE /\ messages' = ms /\ seekEmit' = seek /\ pending' = TRUE
           /\ UNCHANGED <<emitting, frame, heard>>
  BY <1>3 DEF EmissionTypeOK
<1> QED
  BY <1>2, <1>3 DEF QueueEmit

\* Variables that do not change keep their types.
LEMMA UnchangedTypes ==
  ASSUME TypeOK
  PROVE  /\ UNCHANGED <<request, currentTime>> => RequestTypeOK'
         /\ UNCHANGED reading => ReadingTypeOK'
         /\ UNCHANGED emission => EmissionTypeOK'
         /\ UNCHANGED outside => OutsideTypeOK'
BY DEF TypeOK, RequestTypeOK, ReadingTypeOK, EmissionTypeOK, OutsideTypeOK,
       request, reading, emission, outside

-----------------------------------------------------------------------------
(* Types.                                                                  *)

\* A request keeps the types of the control variables.
LEMMA RequestedType ==
  ASSUME ControlTypeOK, NEW s \in States
  PROVE  Requested(s) \in States \union {"none"}
BY DEF ControlTypeOK, Requested, States

\* A request from outside moves the run loop at most to its start.
LEMMA OutsideRequestTypes ==
  ASSUME ControlTypeOK, NEW s \in States, UNCHANGED state,
         SetStateFromOutside(s) \/ UNCHANGED <<nextState, pc>>
  PROVE  ControlTypeOK'
BY RequestedType DEF ControlTypeOK, SetStateFromOutside, SetState, Synchronous

\* The last call the player gets is counted and nothing else.
LEMMA LastCallTypes ==
  ASSUME OutsideTypeOK, LastCall, orphaned' \in BOOLEAN, topicsReplaced' \in BOOLEAN
  PROVE  OutsideTypeOK'
BY DEF OutsideTypeOK, LastCall

\* So is every other call.
LEMMA CallTypes ==
  ASSUME OutsideTypeOK, Call
  PROVE  OutsideTypeOK'
BY LastCallTypes DEF OutsideTypeOK, Call

\* Reading an entry moves the iterator and nothing else of what is read.
LEMMA NextEntryTypes ==
  ASSUME ReadingTypeOK, NEW i \in 1..Len(Log), NextEntry(i)
  PROVE  /\ iterator' \in [topics : SUBSET Topics, from : Nat, pos : Nat]
         /\ readEnd' = readEnd /\ readTopics' = readTopics /\ rewound' = rewound
BY DEF ReadingTypeOK, NextEntry

\* Every call from the pipeline keeps the types.
LEMMA CallsKeepTypes ==
  ASSUME TypeOK, Calls
  PROVE  TypeOK'
<1>0. /\ ControlTypeOK /\ RequestTypeOK /\ ReadingTypeOK /\ EmissionTypeOK
      /\ OutsideTypeOK /\ messages \in SUBSET Messages /\ seekEmit \in BOOLEAN
  BY DEF TypeOK, EmissionTypeOK
<1>1. {"initialize", "idle", "play", "seek-backfill", "close"} \subseteq States
  BY DEF States
<1>2. CASE SetListener
  <2>1. ControlTypeOK'
    BY <1>0, <1>1, <1>2, OutsideRequestTypes DEF SetListener
  <2> QED
    BY <1>0, <1>2, <2>1, UnchangedTypes DEF TypeOK, SetListener
<1>3. ASSUME NEW until \in Nat \union {NoTime}, StartPlay(until)
      PROVE  TypeOK'
  <2>1. Clamp(until) \in Times \union {NoTime}
    BY ClampInTimes, ClampNoTime
  <2>2. ControlTypeOK'
    BY <1>0, <1>1, <1>3, OutsideRequestTypes DEF StartPlay
  <2>3. RequestTypeOK'
    BY <1>0, <1>3, <2>1 DEF RequestTypeOK, StartPlay
  <2>4. EmissionTypeOK'
    BY <1>0, <1>3, <2>3, QueueEmitTypes, UnchangedTypes DEF StartPlay
  <2> QED
    BY <1>0, <1>3, <2>2, <2>3, <2>4, CallTypes, UnchangedTypes DEF TypeOK, StartPlay
<1>4. CASE PausePlayback
  <2>1. ControlTypeOK'
    BY <1>0, <1>1, <1>4, OutsideRequestTypes DEF PausePlayback
  <2>2. RequestTypeOK'
    BY <1>0, <1>4 DEF RequestTypeOK, PausePlayback
  <2>3. EmissionTypeOK'
    BY <1>0, <1>4, <2>2, QueueEmitTypes, UnchangedTypes DEF PausePlayback
  <2> QED
    BY <1>0, <1>4, <2>1, <2>2, <2>3, CallTypes, UnchangedTypes DEF TypeOK, PausePlayback
<1>5. ASSUME NEW t \in Nat, SeekPlayback(t)
      PROVE  TypeOK'
  <2>1. ControlTypeOK'
    BY <1>0, <1>1, <1>5, OutsideRequestTypes DEF SeekPlayback
  <2>2. RequestTypeOK'
    BY <1>0, <1>5, ClampInTimes DEF RequestTypeOK, SeekPlayback, Times
  <2> QED
    BY <1>0, <1>5, <2>1, <2>2, CallTypes, UnchangedTypes DEF TypeOK, SeekPlayback
<1>6. ASSUME NEW topics \in SUBSET Topics, SetSubscriptions(topics)
      PROVE  TypeOK'
  <2>1. ControlTypeOK'
    BY <1>0, <1>1, <1>6, OutsideRequestTypes DEF SetSubscriptions
  <2>2. RequestTypeOK'
    BY <1>0, <1>6 DEF RequestTypeOK, SetSubscriptions, Times
  <2>3. OutsideTypeOK'
    BY <1>0, <1>6, LastCallTypes DEF OutsideTypeOK, SetSubscriptions
  <2> QED
    BY <1>0, <1>6, <2>1, <2>2, <2>3, UnchangedTypes DEF TypeOK, SetSubscriptions
<1>7. CASE Close
  <2>1. ControlTypeOK'
    BY <1>0, <1>1, <1>7, OutsideRequestTypes DEF Close
  <2>2. OutsideTypeOK'
    BY <1>0, <1>7, LastCallTypes DEF EmissionTypeOK, OutsideTypeOK, Close
  <2> QED
    BY <1>0, <1>7, <2>1, <2>2, UnchangedTypes DEF TypeOK, Close
<1>8. CASE QueueEmitFromOutside
  <2>1. RequestTypeOK' /\ ControlTypeOK'
    BY <1>0, <1>8, UnchangedTypes DEF ControlTypeOK, QueueEmitFromOutside, control
  <2>2. EmissionTypeOK'
    BY <1>0, <1>8, <2>1, QueueEmitTypes DEF QueueEmitFromOutside
  <2> QED
    BY <1>0, <1>8, <2>1, <2>2, CallTypes, UnchangedTypes DEF TypeOK, QueueEmitFromOutside
<1> QED
  BY <1>2, <1>3, <1>4, <1>5, <1>6, <1>7, <1>8, BoundsAssumption DEF Calls


\* What the run loop does keeps the types.
LEMMA RunKeepsTypes ==
  ASSUME TypeOK, Run
  PROVE  TypeOK'
<1>0. /\ ControlTypeOK /\ RequestTypeOK /\ ReadingTypeOK /\ EmissionTypeOK
      /\ OutsideTypeOK /\ messages \in SUBSET Messages /\ seekEmit \in BOOLEAN
      /\ batch \in SUBSET Messages
  BY DEF TypeOK, EmissionTypeOK, ReadingTypeOK
<1>1. {"play", "idle", "start-play", "seek-backfill", "reset-playback-iterator"}
        \subseteq States
  BY DEF States
<1>2. CASE RunNextState
  <2>1. ControlTypeOK'
    BY <1>0, <1>1, <1>2, RequestedType
    DEF ControlTypeOK, SetState, Synchronous, Waits, RunNextState
  <2> QED
    BY <1>0, <1>2, <2>1, UnchangedTypes DEF TypeOK, RunNextState
<1>3. CASE IteratorEnded
  <2>1. ControlTypeOK'
    BY <1>0, <1>1, <1>3, RequestedType
    DEF ControlTypeOK, SetState, Synchronous, Waits, IteratorEnded
  <2>2. ReadingTypeOK'
    BY <1>0, <1>3 DEF ReadingTypeOK, IteratorEnded, NoIterator
  <2> QED
    BY <1>0, <1>3, <2>1, <2>2, UnchangedTypes DEF TypeOK, IteratorEnded
<1>4. CASE EnterInitialize
  <2>1. ControlTypeOK'
    BY <1>0, <1>1, <1>4, RequestedType
    DEF ControlTypeOK, SetState, Synchronous, Waits, EnterInitialize
  <2>2. EmissionTypeOK'
    BY <1>0, <1>4, UnchangedTypes, QueueEmitTypes DEF EnterInitialize
  <2> QED
    BY <1>0, <1>4, <2>1, <2>2, UnchangedTypes DEF TypeOK, EnterInitialize
<1>5. CASE Initialized
  <2>1. ControlTypeOK'
    BY <1>0, <1>1, <1>5, RequestedType
    DEF ControlTypeOK, SetState, Synchronous, Waits, Initialized
  <2>2. RequestTypeOK'
    BY <1>0, <1>5, ClampInTimes, LogAssumption DEF RequestTypeOK, Initialized, Times
  <2>3. EmissionTypeOK'
    BY <1>0, <1>5, <2>2, QueueEmitTypes DEF Initialized
  <2> QED
    BY <1>0, <1>5, <2>1, <2>2, <2>3, UnchangedTypes DEF TypeOK, Initialized
<1>6. CASE StartDelayEnds
  <2>1. ControlTypeOK'
    BY <1>0, <1>1, <1>6, RequestedType
    DEF ControlTypeOK, SetState, Synchronous, Waits, StartDelayEnds
  <2> QED
    BY <1>0, <1>6, <2>1, UnchangedTypes DEF TypeOK, StartDelayEnds
<1>7. CASE EnterStartPlay
  <2>1. ControlTypeOK'
    BY <1>0, <1>1, <1>7, RequestedType
    DEF ControlTypeOK, SetState, Synchronous, Waits, EnterStartPlay
  <2>2. ReadingTypeOK'
    <3>1. CASE seekTarget # NoTime
      BY <1>0, <1>7, <3>1 DEF ReadingTypeOK, EnterStartPlay
    <3>2. CASE seekTarget = NoTime
      <4>1. iterator' \in [topics : SUBSET Topics, from : Nat, pos : Nat]
        BY <1>0, <1>7, <3>2 DEF RequestTypeOK, EnterStartPlay, Open
      <4>2. readEnd' \in Times
        BY <1>7, <3>2, ClampInTimes, BoundsAssumption DEF EnterStartPlay
      <4> QED
        BY <1>0, <1>7, <3>2, <4>1, <4>2 DEF ReadingTypeOK, EnterStartPlay
    <3> QED
      BY <3>1, <3>2
  <2>3. EmissionTypeOK'
    BY <1>0, <1>7 DEF EnterStartPlay, EmissionTypeOK, emission
  <2> QED
    BY <1>0, <1>7, <2>1, <2>2, <2>3, UnchangedTypes DEF TypeOK, EnterStartPlay
<1>8. CASE StartPlayReads
  <2>1. ControlTypeOK'
    BY <1>0, <1>1, <1>8, RequestedType
    DEF ControlTypeOK, SetState, Synchronous, Waits, StartPlayReads
  <2>2. RequestTypeOK'
    BY <1>0, <1>8 DEF RequestTypeOK, StartPlayReads, ReadingTypeOK, request
  <2>3. ReadingTypeOK'
    BY <1>0, <1>8 DEF ReadingTypeOK, StartPlayReads
  <2>4. EmissionTypeOK'
    BY <1>0, <1>8, <2>2, QueueEmitTypes DEF StartPlayReads
  <2> QED
    BY <1>0, <1>8, <2>1, <2>2, <2>3, <2>4, UnchangedTypes DEF TypeOK, StartPlayReads
<1>9. CASE ReadAbandoned
  <2>1. ControlTypeOK'
    BY <1>0, <1>1, <1>9, RequestedType
    DEF ControlTypeOK, SetState, Synchronous, Waits, ReadAbandoned, NextEntry
  <2>2. UNCHANGED <<request, currentTime, emission, outside>>
    BY <1>9 DEF ReadAbandoned, NextEntry
  <2>3. ReadingTypeOK'
    BY <1>0, <1>9, LogEntry, NextEntryTypes DEF ReadingTypeOK, ReadAbandoned, Messages
  <2> QED
    BY <1>0, <1>9, <2>1, <2>2, <2>3, UnchangedTypes DEF TypeOK, ReadAbandoned
<1>10. CASE ReadMessage
  <2>1. ControlTypeOK'
    BY <1>0, <1>1, <1>10, RequestedType
    DEF ControlTypeOK, SetState, Synchronous, Waits, ReadMessage, NextEntry
  <2>2. UNCHANGED <<request, currentTime, emission, outside>>
    BY <1>10 DEF ReadMessage, NextEntry
  <2>3. ReadingTypeOK'
    BY <1>0, <1>10, LogEntry, NextEntryTypes DEF ReadingTypeOK, ReadMessage, Messages
  <2> QED
    BY <1>0, <1>10, <2>1, <2>2, <2>3, UnchangedTypes DEF TypeOK, ReadMessage
<1>11. CASE ReadMessageBeyondEnd
  <2>1. ControlTypeOK'
    BY <1>0, <1>1, <1>11, RequestedType
    DEF ControlTypeOK, SetState, Synchronous, Waits, ReadMessageBeyondEnd, NextEntry, AfterRead
  <2>2. UNCHANGED <<request, currentTime, emission, outside>>
    BY <1>11 DEF ReadMessageBeyondEnd, NextEntry
  <2>3. ReadingTypeOK'
    BY <1>0, <1>11, LogEntry, NextEntryTypes
    DEF ReadingTypeOK, ReadMessageBeyondEnd, Messages
  <2> QED
    BY <1>0, <1>11, <2>1, <2>2, <2>3, UnchangedTypes DEF TypeOK, ReadMessageBeyondEnd
<1>12. CASE ReadStamp
  <2>1. ControlTypeOK'
    BY <1>0, <1>1, <1>12, RequestedType
    DEF ControlTypeOK, SetState, Synchronous, Waits, ReadStamp, NextEntry, AfterRead
  <2>2. UNCHANGED <<request, currentTime, emission, outside>>
    BY <1>12 DEF ReadStamp, NextEntry
  <2>3. ReadingTypeOK'
    BY <1>0, <1>12, LogEntry, NextEntryTypes DEF ReadingTypeOK, ReadStamp, Messages
  <2> QED
    BY <1>0, <1>12, <2>1, <2>2, <2>3, UnchangedTypes DEF TypeOK, ReadStamp
<1>13. CASE ReadDone
  <2>1. ControlTypeOK'
    BY <1>0, <1>1, <1>13, RequestedType
    DEF ControlTypeOK, SetState, Synchronous, Waits, ReadDone, AfterRead
  <2>2. ReadingTypeOK'
    BY <1>0, <1>13 DEF ReadingTypeOK, ReadDone
  <2> QED
    BY <1>0, <1>13, <2>1, <2>2, UnchangedTypes DEF TypeOK, ReadDone
<1>14. CASE EnterPlay
  <2>1. ControlTypeOK'
    BY <1>0, <1>1, <1>14, RequestedType
    DEF ControlTypeOK, SetState, Synchronous, Waits, EnterPlay
  <2>2. OutsideTypeOK'
    BY <1>0, <1>14 DEF OutsideTypeOK, EnterPlay
  <2> QED
    BY <1>0, <1>14, <2>1, <2>2, UnchangedTypes DEF TypeOK, EnterPlay
<1>15. CASE PlayStops
  <2>1. ControlTypeOK'
    BY <1>0, <1>1, <1>15, RequestedType
    DEF ControlTypeOK, SetState, Synchronous, Waits, PlayStops
  <2> QED
    BY <1>0, <1>15, <2>1, UnchangedTypes DEF TypeOK, PlayStops
<1>16. CASE PlayReachesEnd
  <2>1. ControlTypeOK'
    BY <1>0, <1>1, <1>16, RequestedType
    DEF ControlTypeOK, SetState, Synchronous, Waits, PlayReachesEnd
  <2>2. ReadingTypeOK'
    BY <1>0, <1>16 DEF ReadingTypeOK, PlayReachesEnd
  <2> QED
    BY <1>0, <1>16, <2>1, <2>2, UnchangedTypes DEF TypeOK, PlayReachesEnd
<1>17. CASE Tick
  <2>1. ControlTypeOK'
    BY <1>0, <1>1, <1>17, RequestedType
    DEF ControlTypeOK, SetState, Synchronous, Waits, Tick, TickTo
  <2>2. ReadingTypeOK'
    BY <1>0, <1>17, TickEndInTimes DEF ReadingTypeOK, Tick, TickTo
  <2> QED
    BY <1>0, <1>17, <2>1, <2>2, UnchangedTypes DEF TypeOK, Tick
<1>18. CASE TickEmits
  <2>1. ControlTypeOK'
    BY <1>0, <1>1, <1>18, RequestedType
    DEF ControlTypeOK, SetState, Synchronous, Waits, TickEmits
  <2>2. RequestTypeOK'
    BY <1>0, <1>18 DEF RequestTypeOK, ReadingTypeOK, TickEmits, request
  <2>3. ReadingTypeOK'
    BY <1>0, <1>18 DEF ReadingTypeOK, TickEmits
  <2>4. EmissionTypeOK'
    BY <1>0, <1>18, <2>2, QueueEmitTypes DEF TickEmits
  <2> QED
    BY <1>0, <1>18, <2>1, <2>2, <2>3, <2>4, UnchangedTypes DEF TypeOK, TickEmits
<1>18a. CASE TickEnds
  <2>1. ControlTypeOK'
    BY <1>0, <1>1, <1>18a, RequestedType
    DEF ControlTypeOK, SetState, Synchronous, Waits, TickEnds
  <2>2. RequestTypeOK'
    BY <1>0, <1>18a DEF RequestTypeOK, TickEnds
  <2>3. ReadingTypeOK'
    BY <1>0, <1>18a DEF ReadingTypeOK, TickEnds
  <2> QED
    BY <1>0, <1>18a, <2>1, <2>2, <2>3, UnchangedTypes DEF TypeOK, TickEnds
<1>19. CASE FrameDelayEnds
  <2>1. ControlTypeOK'
    BY <1>0, <1>1, <1>19, RequestedType
    DEF ControlTypeOK, SetState, Synchronous, Waits, FrameDelayEnds
  <2> QED
    BY <1>0, <1>19, <2>1, UnchangedTypes DEF TypeOK, FrameDelayEnds
<1>20. CASE EnterIdle
  <2>1. ControlTypeOK'
    BY <1>0, <1>1, <1>20, RequestedType
    DEF ControlTypeOK, SetState, Synchronous, Waits, EnterIdle
  <2>2. RequestTypeOK'
    BY <1>0, <1>20 DEF RequestTypeOK, EnterIdle
  <2>3. EmissionTypeOK'
    BY <1>0, <1>20, <2>2, QueueEmitTypes DEF EnterIdle
  <2> QED
    BY <1>0, <1>20, <2>1, <2>2, <2>3, UnchangedTypes DEF TypeOK, EnterIdle
<1>21. CASE IdleEnds
  <2>1. ControlTypeOK'
    BY <1>0, <1>1, <1>21, RequestedType
    DEF ControlTypeOK, SetState, Synchronous, Waits, IdleEnds
  <2> QED
    BY <1>0, <1>21, <2>1, UnchangedTypes DEF TypeOK, IdleEnds
<1>22. CASE EnterSeekBackfill
  <2>1. ControlTypeOK'
    BY <1>0, <1>1, <1>22, RequestedType
    DEF ControlTypeOK, SetState, Synchronous, Waits, EnterSeekBackfill
  <2>2. ReadingTypeOK'
    BY <1>0, <1>22, ClampInTimes DEF ReadingTypeOK, EnterSeekBackfill, RequestTypeOK
  <2> QED
    BY <1>0, <1>22, <2>1, <2>2, UnchangedTypes DEF TypeOK, EnterSeekBackfill
<1>23. CASE BackfillLoaded
  <2>1. ControlTypeOK'
    BY <1>0, <1>1, <1>23, RequestedType
    DEF ControlTypeOK, SetState, Synchronous, Waits, BackfillLoaded, AwaitingBackfill
  <2>2. RequestTypeOK'
    BY <1>0, <1>23 DEF RequestTypeOK, BackfillLoaded, ReadingTypeOK, request
  <2>3. EmissionTypeOK'
    BY <1>0, <1>23, <2>2, QueueEmitTypes, BackfillInTime DEF BackfillLoaded
  <2>4. ReadingTypeOK'
    BY <1>0, <1>23 DEF ReadingTypeOK, BackfillLoaded
  <2> QED
    BY <1>0, <1>23, <2>1, <2>2, <2>3, <2>4, UnchangedTypes DEF TypeOK, BackfillLoaded
<1>24. CASE BackfillSuperseded
  <2>1. ControlTypeOK'
    BY <1>0, <1>1, <1>24, RequestedType
    DEF ControlTypeOK, SetState, Synchronous, Waits, BackfillSuperseded, AwaitingBackfill
  <2>2. RequestTypeOK'
    BY <1>0, <1>24 DEF RequestTypeOK, BackfillSuperseded, FinishSeek
  <2> QED
    BY <1>0, <1>24, <2>1, <2>2, UnchangedTypes DEF TypeOK, BackfillSuperseded
<1>25. CASE EnterResetPlaybackIterator
  <2>1. ControlTypeOK'
    BY <1>0, <1>1, <1>25, RequestedType
    DEF ControlTypeOK, SetState, Synchronous, Waits, EnterResetPlaybackIterator
  <2> QED
    BY <1>0, <1>25, <2>1, UnchangedTypes DEF TypeOK, EnterResetPlaybackIterator
<1>26. CASE IteratorReset
  <2>1. ControlTypeOK'
    BY <1>0, <1>1, <1>26, RequestedType
    DEF ControlTypeOK, SetState, Synchronous, Waits, IteratorReset
  <2>2. RequestTypeOK'
    BY <1>0, <1>26 DEF RequestTypeOK, IteratorReset, FinishSeek
  <2>3. ReadingTypeOK'
    BY <1>0, <1>26 DEF ReadingTypeOK, IteratorReset, Open, RequestTypeOK, Times, NoTime
  <2> QED
    BY <1>0, <1>26, <2>1, <2>2, <2>3, UnchangedTypes DEF TypeOK, IteratorReset
<1>27. CASE EnterClose
  <2>1. ControlTypeOK'
    BY <1>0, <1>1, <1>27, RequestedType
    DEF ControlTypeOK, SetState, Synchronous, Waits, EnterClose
  <2>2. RequestTypeOK'
    BY <1>0, <1>27 DEF RequestTypeOK, EnterClose
  <2> QED
    BY <1>0, <1>27, <2>1, <2>2, UnchangedTypes DEF TypeOK, EnterClose
<1>28. CASE Closed
  <2>1. ControlTypeOK'
    BY <1>0, <1>1, <1>28, RequestedType
    DEF ControlTypeOK, SetState, Synchronous, Waits, Closed
  <2> QED
    BY <1>0, <1>28, <2>1, UnchangedTypes DEF TypeOK, Closed
<1> QED
  BY <1>2, <1>3, <1>4, <1>5, <1>6, <1>7, <1>8, <1>9, <1>10, <1>11, <1>12, <1>13, <1>14, <1>15, <1>16, <1>17, <1>18, <1>18a, <1>19, <1>20, <1>21, <1>22, <1>23, <1>24, <1>25, <1>26, <1>27, <1>28 DEF Run

\* An error keeps the types.
LEMMA FailTypes ==
  ASSUME TypeOK, NEW at \in {"loop", "off"}, Fail(at),
         seekTarget' \in Nat \union {NoTime}
  PROVE  TypeOK'
<1>0. /\ ControlTypeOK /\ RequestTypeOK /\ ReadingTypeOK /\ EmissionTypeOK
      /\ OutsideTypeOK /\ messages \in SUBSET Messages /\ seekEmit \in BOOLEAN
  BY DEF TypeOK, EmissionTypeOK
<1>1. ControlTypeOK'
  BY <1>0 DEF ControlTypeOK, Fail
<1>2. RequestTypeOK'
  BY <1>0 DEF RequestTypeOK, Fail
<1>3. ReadingTypeOK'
  BY <1>0 DEF ReadingTypeOK, Fail
<1>4. EmissionTypeOK'
  BY <1>0, <1>2, QueueEmitTypes DEF Fail
<1> QED
  BY <1>0, <1>1, <1>2, <1>3, <1>4, UnchangedTypes DEF TypeOK, Fail

\* A seek that is over leaves a target of the right type.
LEMMA FinishSeekType ==
  ASSUME RequestTypeOK, NEW next, FinishSeek(next) \/ UNCHANGED seekTarget
  PROVE  seekTarget' \in Nat \union {NoTime}
BY DEF RequestTypeOK, FinishSeek

\* Every step keeps the types.
LEMMA TypeStep ==
  ASSUME TypeOK, [Next]_vars
  PROVE  TypeOK'
<1>0. /\ ControlTypeOK /\ RequestTypeOK /\ ReadingTypeOK /\ EmissionTypeOK
      /\ OutsideTypeOK /\ messages \in SUBSET Messages /\ seekEmit \in BOOLEAN
  BY DEF TypeOK, EmissionTypeOK
<1>1. CASE Calls
  BY <1>1, CallsKeepTypes
<1>2. CASE Run
  BY <1>2, RunKeepsTypes
<1>3. CASE SeekAckTimeout
  <2>1. ControlTypeOK'
    BY <1>0, <1>3 DEF ControlTypeOK, SeekAckTimeout, Waits
  <2>2. RequestTypeOK'
    BY <1>0, <1>3 DEF RequestTypeOK, ReadingTypeOK, SeekAckTimeout, request
  <2>3. EmissionTypeOK'
    BY <1>0, <1>3, <2>2, QueueEmitTypes DEF SeekAckTimeout
  <2> QED
    BY <1>0, <1>3, <2>1, <2>2, <2>3, UnchangedTypes DEF TypeOK, SeekAckTimeout
<1>4. CASE Failures
  <2>1. \E at \in {"loop", "off"} : Fail(at)
    BY <1>4
    DEF Failures, EndIteratorFails, InitializeFails, ReadFails, BackfillFails, ResetFails,
        CloseFails
  <2>2. seekTarget' \in Nat \union {NoTime}
    BY <1>0, <1>4, FinishSeekType
    DEF Failures, EndIteratorFails, InitializeFails, ReadFails, BackfillFails, ResetFails,
      CloseFails
  <2> QED
    BY <2>1, <2>2, FailTypes
<1>5. CASE ListenerResolves
  <2>1. ControlTypeOK'
    BY <1>0, <1>5 DEF ControlTypeOK, ListenerResolves, Waits
  <2>2. RequestTypeOK'
    BY <1>5, UnchangedTypes DEF ListenerResolves
  <2>3. CurrentFrame(messages, seekEmit)
          \in [time : Times \union {NoTime}, playing : BOOLEAN,
               messages : SUBSET Messages, seek : BOOLEAN]
    BY <1>0, <2>2 DEF CurrentFrame, NoFrame, RequestTypeOK
  <2>4. EmissionTypeOK'
    BY <1>0, <1>5, <2>3 DEF EmissionTypeOK, ListenerResolves, EmitFrame
  <2> QED
    BY <1>0, <1>5, <2>1, <2>2, <2>4, UnchangedTypes DEF TypeOK, ListenerResolves
<1>6. CASE UNCHANGED vars
  <2>1. ControlTypeOK'
    BY <1>0, <1>6 DEF ControlTypeOK, vars, control
  <2> QED
    BY <1>0, <1>6, <2>1, UnchangedTypes DEF TypeOK, vars
<1> QED
  BY <1>1, <1>2, <1>3, <1>4, <1>5, <1>6 DEF Next

\* The types hold at first.
LEMMA InitTypes ==
  ASSUME Init
  PROVE  TypeOK
<1>1. ControlTypeOK /\ RequestTypeOK /\ OutsideTypeOK
  BY DEF Init, ControlTypeOK, RequestTypeOK, OutsideTypeOK, States
<1>2. 0 \in Times
  BY LogAssumption DEF Times
<1>3. ReadingTypeOK
  BY <1>2 DEF Init, ReadingTypeOK, NoIterator
<1>4. EmissionTypeOK
  BY DEF Init, EmissionTypeOK, NoFrame
<1> QED
  BY <1>1, <1>3, <1>4 DEF TypeOK

\* Every variable keeps its type: whatever time a caller asks for, the player
\* works with times of its source (clampTime in seekPlayback and initialize).
THEOREM TypeCorrect == Spec => []TypeOK
<1>1. TypeOK /\ [Next]_vars => TypeOK'
  BY TypeStep
<1> QED
  BY InitTypes, <1>1, PTL DEF Spec

-----------------------------------------------------------------------------
(* Messages and the times they are emitted at.                             *)

\* Every step keeps the waits with their states and a batch where it belongs.
LEMMA PlaceStep ==
  ASSUME TypeOK, AtState, BatchIsLocal, [Next]_vars
  PROVE  AtState' /\ BatchIsLocal'
<1> USE DEF AtState, BatchIsLocal, AwaitingBackfill
<1>1. CASE SetListener
  BY <1>1
  DEF SetListener, SetStateFromOutside, SetState, Requested, Synchronous, control, reading
<1>2. ASSUME NEW until, StartPlay(until)
      PROVE  AtState' /\ BatchIsLocal'
  BY <1>2
  DEF StartPlay, SetStateFromOutside, SetState, Requested, Synchronous, control, reading
<1>3. CASE PausePlayback
  BY <1>3
  DEF PausePlayback, SetStateFromOutside, SetState, Requested, Synchronous, control, reading
<1>4. ASSUME NEW t, SeekPlayback(t)
      PROVE  AtState' /\ BatchIsLocal'
  BY <1>4
  DEF SeekPlayback, SetStateFromOutside, SetState, Requested, Synchronous, control, reading
<1>5. ASSUME NEW topics, SetSubscriptions(topics)
      PROVE  AtState' /\ BatchIsLocal'
  BY <1>5
  DEF SetSubscriptions, SetStateFromOutside, SetState, Requested, Synchronous, control, reading
<1>6. CASE Close
  BY <1>6
  DEF Close, SetStateFromOutside, SetState, Requested, Synchronous, control, reading
<1>7. CASE QueueEmitFromOutside
  BY <1>7 DEF QueueEmitFromOutside, control, reading
<1>8. CASE RunNextState
  BY <1>8 DEF RunNextState, reading
<1>9. CASE IteratorEnded
  BY <1>9 DEF IteratorEnded
<1>10. CASE EnterInitialize
  BY <1>10 DEF EnterInitialize, reading
<1>11. CASE Initialized
  BY <1>11 DEF Initialized, reading
<1>12. CASE StartDelayEnds
  BY <1>12 DEF StartDelayEnds, SetState, Requested, reading
<1>13. CASE EnterStartPlay
  BY <1>13 DEF EnterStartPlay, SetState, Requested
<1>14. CASE StartPlayReads
  BY <1>14 DEF StartPlayReads, SetState, Requested
<1>15. CASE ReadAbandoned
  BY <1>15 DEF ReadAbandoned, NextEntry
<1>16. CASE ReadMessage
  BY <1>16 DEF ReadMessage, NextEntry
<1>17. CASE ReadMessageBeyondEnd
  BY <1>17 DEF ReadMessageBeyondEnd, NextEntry, AfterRead
<1>18. CASE ReadStamp
  BY <1>18 DEF ReadStamp, NextEntry, AfterRead
<1>19. CASE ReadDone
  BY <1>19 DEF ReadDone, AfterRead
<1>20. CASE EnterPlay
  BY <1>20 DEF EnterPlay, reading
<1>21. CASE PlayStops
  BY <1>21 DEF PlayStops, reading
<1>22. CASE PlayReachesEnd
  BY <1>22 DEF PlayReachesEnd, SetState, Requested
<1>23. CASE Tick
  BY <1>23 DEF Tick, TickTo
<1>24. CASE TickEmits
  BY <1>24 DEF TickEmits
<1>24a. CASE TickEnds
  BY <1>24a DEF TickEnds, Requested
<1>25. CASE FrameDelayEnds
  BY <1>25 DEF FrameDelayEnds, reading
<1>26. CASE EnterIdle
  BY <1>26 DEF EnterIdle, reading
<1>27. CASE IdleEnds
  BY <1>27 DEF IdleEnds, reading
<1>28. CASE EnterSeekBackfill
  BY <1>28 DEF EnterSeekBackfill
<1>29. CASE BackfillLoaded
  BY <1>29 DEF BackfillLoaded, reading
<1>30. CASE BackfillSuperseded
  BY <1>30 DEF BackfillSuperseded, reading
<1>31. CASE EnterResetPlaybackIterator
  BY <1>31 DEF EnterResetPlaybackIterator, reading
<1>32. CASE IteratorReset
  BY <1>32 DEF IteratorReset, SetState, Requested
<1>33. CASE EnterClose
  BY <1>33 DEF EnterClose, reading
<1>34. CASE Closed
  BY <1>34 DEF Closed, reading
<1>35. CASE SeekAckTimeout
  BY <1>35 DEF SeekAckTimeout, reading
<1>36. ASSUME NEW at \in {"loop", "off"}, Fail(at)
      PROVE  AtState' /\ BatchIsLocal'
  BY <1>36 DEF Fail
<1>37. CASE ListenerResolves
  BY <1>37 DEF ListenerResolves, reading
<1>38. CASE UNCHANGED vars
  BY <1>38 DEF vars, control, reading
<1>39. CASE Failures
  BY <1>39, <1>36
  DEF Failures, EndIteratorFails, InitializeFails, ReadFails, BackfillFails, ResetFails,
      CloseFails
<1> QED
  BY <1>1, <1>2, <1>3, <1>4, <1>5, <1>6, <1>7, <1>8, <1>9, <1>10, <1>11, <1>12, <1>13, <1>14, <1>15, <1>16, <1>17, <1>18, <1>19, <1>20, <1>21, <1>22, <1>23, <1>24, <1>24a, <1>25, <1>26, <1>27, <1>28, <1>29, <1>30, <1>31, <1>32, <1>33, <1>34, <1>35, <1>36, <1>37, <1>38, <1>39 DEF Next, Calls, Run

\* A step that reads nothing, moves no time and emits no new messages.
Quiet ==
  /\ messages' \in {messages, {}}
  /\ UNCHANGED <<currentTime, readEnd, batch>>
  /\ state' = state

\* A step that emits nothing, holds no new messages and keeps the time keeps NeverAhead.
LEMMA QuietStep ==
  ASSUME SilentUntilInitialized, NeverAhead, Quiet
  PROVE  SilentUntilInitialized' /\ NeverAhead'
BY DEF Quiet, SilentUntilInitialized, NeverAhead

\* Calls only request states and repeat the last emission.
LEMMA CallsAreQuiet ==
  ASSUME Calls
  PROVE  Quiet
<1> USE DEF Quiet, control, reading, emission
<1>1. CASE SetListener
  BY <1>1 DEF SetListener
<1>2. ASSUME NEW until, StartPlay(until)
      PROVE  Quiet
  BY <1>2, QueueEmitMessages DEF StartPlay
<1>3. CASE PausePlayback
  BY <1>3, QueueEmitMessages DEF PausePlayback
<1>4. ASSUME NEW t, SeekPlayback(t)
      PROVE  Quiet
  BY <1>4 DEF SeekPlayback
<1>5. ASSUME NEW topics, SetSubscriptions(topics)
      PROVE  Quiet
  BY <1>5 DEF SetSubscriptions
<1>6. CASE Close
  BY <1>6 DEF Close
<1>7. CASE QueueEmitFromOutside
  BY <1>7, QueueEmitMessages DEF QueueEmitFromOutside
<1> QED
  BY <1>1, <1>2, <1>3, <1>4, <1>5, <1>6, <1>7 DEF Calls

\* The steps of the run loop that neither read nor move the current time.
LEMMA ControlIsQuiet ==
  ASSUME \/ IteratorEnded \/ EnterInitialize \/ StartDelayEnds \/ EnterPlay
         \/ PlayStops \/ PlayReachesEnd \/ TickEnds \/ FrameDelayEnds \/ EnterIdle
         \/ IdleEnds \/ BackfillSuperseded \/ EnterResetPlaybackIterator
         \/ IteratorReset \/ EnterClose \/ Closed \/ ListenerResolves
         \/ ReadMessageBeyondEnd \/ ReadStamp
  PROVE  Quiet
<1> USE DEF Quiet, control, reading, emission
<1>1. CASE EnterInitialize \/ EnterIdle
  BY <1>1, QueueEmitMessages DEF EnterInitialize, EnterIdle
<1>2. CASE ListenerResolves
  BY <1>2 DEF ListenerResolves, EmitFrame
<1>3. CASE ReadMessageBeyondEnd \/ ReadStamp
  BY <1>3 DEF ReadMessageBeyondEnd, ReadStamp, NextEntry
<1>4. CASE \/ IteratorEnded \/ StartDelayEnds \/ EnterPlay \/ PlayStops
           \/ PlayReachesEnd \/ TickEnds \/ FrameDelayEnds \/ IdleEnds
  BY <1>4 DEF IteratorEnded, StartDelayEnds, EnterPlay, PlayStops,
              PlayReachesEnd, TickEnds, FrameDelayEnds, IdleEnds
<1>5. CASE \/ BackfillSuperseded \/ EnterResetPlaybackIterator
           \/ IteratorReset \/ EnterClose \/ Closed
  BY <1>5 DEF BackfillSuperseded, EnterResetPlaybackIterator, IteratorReset,
              EnterClose, Closed
<1> QED
  BY <1>1, <1>2, <1>3, <1>4, <1>5

\* Messages stay behind the time they will be emitted with.  Where the current
\* time moves, the messages emitted are those of the tick, of start-play or of
\* the backfill of that very time, or there are none yet.
LEMMA MessagesStep ==
  ASSUME IInv, [Next]_vars
  PROVE  SilentUntilInitialized' /\ NeverAhead'
<1>0. /\ TypeOK /\ AtState /\ BatchIsLocal /\ SilentUntilInitialized /\ NeverAhead
      /\ messages \in SUBSET Messages /\ batch \in SUBSET Messages
  BY DEF IInv, TypeOK, EmissionTypeOK, ReadingTypeOK
<1> USE DEF SilentUntilInitialized, NeverAhead
<1>1. CASE Calls
  BY <1>0, <1>1, CallsAreQuiet, QuietStep
<1>2. CASE RunNextState
  BY <1>0, <1>2 DEF RunNextState, AtState, reading, emission
<1>3. CASE Initialized
  <2>1. messages = {} /\ messages' = {}
    BY <1>0, <1>3, QueueEmitMessages DEF Initialized, AtState
  <2> QED
    BY <1>0, <1>3, <2>1 DEF Initialized, reading
<1>4. CASE EnterStartPlay
  BY <1>0, <1>4 DEF EnterStartPlay, BatchIsLocal, emission
<1>5. CASE StartPlayReads
  BY <1>0, <1>5, QueueEmitMessages DEF StartPlayReads, AtState
<1>6. CASE ReadMessage
  BY <1>0, <1>6 DEF ReadMessage, NextEntry, emission
<1>7. CASE ReadAbandoned \/ ReadDone
  BY <1>0, <1>7 DEF ReadAbandoned, ReadDone, NextEntry, emission
<1>8. CASE Tick
  <2>1. batch = {}
    BY <1>0, <1>8 DEF Tick, BatchIsLocal
  <2>2. ASSUME NEW range \in 1..MaxTick, TickTo(TickEnd(range))
        PROVE  \A i \in batch' : Log[i].time <= readEnd'
    <3>1. lastMessage \in Messages \union {NoMessage}
      BY <1>0 DEF TypeOK, ReadingTypeOK
    <3>2. TickEnd(range) \in Int /\ (lastMessage \in Messages => Log[lastMessage].time \in Int)
      BY <1>0, TickEndInTimes, LogEntry DEF TypeOK, Messages, Times
    <3> QED
      BY <2>1, <2>2, <3>1, <3>2 DEF TickTo
  <2> QED
    BY <1>0, <1>8, <2>2 DEF Tick, emission
<1>9. CASE TickEmits
  BY <1>0, <1>9, QueueEmitMessages DEF TickEmits, AtState
<1>10. CASE EnterSeekBackfill
  BY <1>0, <1>10 DEF EnterSeekBackfill, BatchIsLocal, emission
<1>11. CASE SeekAckTimeout
  BY <1>0, <1>11, QueueEmitMessages DEF SeekAckTimeout, AtState, AwaitingBackfill, reading
<1>12. CASE BackfillLoaded
  <2>1. messages' \in {Backfill(readTopics, readEnd), {}}
    BY <1>12, QueueEmitMessages DEF BackfillLoaded
  <2> QED
    BY <1>0, <1>12, <2>1, BackfillInTime DEF BackfillLoaded, AtState, reading
<1>13. CASE Failures
  BY <1>0, <1>13, QueueEmitMessages
  DEF Failures, EndIteratorFails, InitializeFails, ReadFails, BackfillFails, ResetFails,
      CloseFails, Fail
<1>14. CASE UNCHANGED vars
  BY <1>0, <1>14 DEF vars, control, reading, emission
<1> QED
  BY <1>0, <1>1, <1>2, <1>3, <1>4, <1>5, <1>6, <1>7, <1>8, <1>9, <1>10, <1>11,
     <1>12, <1>13, <1>14, ControlIsQuiet, QuietStep DEF Next, Run

\* The inductive invariant holds initially and is kept by every step.
LEMMA InitEstablishesIInv ==
  ASSUME Init
  PROVE  IInv
<1>1. AtState /\ BatchIsLocal /\ SilentUntilInitialized /\ NeverAhead
  BY DEF Init, AtState, AwaitingBackfill, BatchIsLocal, SilentUntilInitialized,
         NeverAhead
<1> QED
  BY <1>1, InitTypes DEF IInv

\* Every step keeps the inductive invariant.
LEMMA IInvStep ==
  ASSUME IInv, [Next]_vars
  PROVE  IInv'
<1>1. TypeOK /\ AtState /\ BatchIsLocal
  BY DEF IInv
<1> QED
  BY <1>1, TypeStep, PlaceStep, MessagesStep DEF IInv

\* No message leaves a tick, start-play or a backfill before its time: what
\* waits in #messages is never later than the current time of its frame.
THEOREM MessagesNeverAhead == Spec => []NeverAhead
<1>1. Init => IInv
  BY InitEstablishesIInv
<1>2. IInv /\ [Next]_vars => IInv'
  BY IInvStep
<1>3. IInv => NeverAhead
  BY DEF IInv
<1> QED
  BY <1>1, <1>2, <1>3, PTL DEF Spec

-----------------------------------------------------------------------------
(* The invariants the code throws on.                                      *)

\* Where the playback iterator is and where it is not, and from when on there is
\* a current time.
WhatStatesFind ==
  /\ state \in {"idle", "play"} => iterator # NoIterator
  /\ nextState \in {"idle", "play"} => iterator # NoIterator
  /\ pc \in {"startRead", "startDone"} => iterator # NoIterator
  /\ pc = "endIterator" => state \notin {"idle", "play"} /\ nextState \notin {"idle", "play"}
  /\ pc = "enter" /\ state \notin {"idle", "play"} => iterator = NoIterator
  /\ state \notin {"preinit", "initialize", "close"} => currentTime # NoTime
  /\ nextState \notin {"none", "initialize", "close"} => currentTime # NoTime
  /\ pc = "initDelay" => currentTime # NoTime

\* An opened iterator is one, and stays one when it is read.
LEMMA OpenedIterator ==
  ASSUME NEW topics, NEW from
  PROVE  Open(topics, from) # NoIterator
<1>1. Open(topics, from).pos # NoIterator.pos
  BY DEF Open, NoIterator
<1> QED
  BY <1>1

\* Reading an entry leaves the iterator an iterator.
LEMMA ReadIterator ==
  ASSUME TypeOK, NEW i \in 1..Len(Log), NextEntry(i)
  PROVE  iterator' # NoIterator
<1>1. iterator'.pos = i + 1
  BY DEF TypeOK, ReadingTypeOK, NextEntry
<1>2. NoIterator.pos = 0 /\ i + 1 # 0
  BY LogEntry DEF NoIterator
<1> QED
  BY <1>1, <1>2

\* A time of the source is defined.
LEMMA TimesAreDefined == NoTime \notin Times
BY LogAssumption DEF Times, NoTime

\* Calls request a state of the run loop and leave the rest to it: idle is
\* requested of a playing player, play of an idle one, and neither they nor a
\* seek before there is a current time.
LEMMA CallsOnlyRequest ==
  ASSUME Calls
  PROVE  /\ UNCHANGED <<state, iterator, currentTime>>
         /\ pc' = pc \/ pc' = "start"
         /\ nextState' = "play" => nextState = "play" \/ state = "idle"
         /\ nextState' = "idle" => nextState = "idle" \/ state = "play"
         /\ \/ nextState' \in {nextState, "initialize", "close"}
            \/ currentTime # NoTime
            \/ state = "play"
<1> USE DEF SetStateFromOutside, SetState, Requested, control, reading
<1>1. CASE SetListener
  BY <1>1 DEF SetListener
<1>2. ASSUME NEW until, StartPlay(until)
      PROVE  /\ UNCHANGED <<state, iterator, currentTime>>
             /\ pc' = pc \/ pc' = "start"
             /\ nextState' = nextState \/ (nextState' = "play" /\ state = "idle")
             /\ currentTime # NoTime
  BY <1>2 DEF StartPlay
<1>3. CASE PausePlayback
  BY <1>3 DEF PausePlayback
<1>4. ASSUME NEW t, SeekPlayback(t)
      PROVE  /\ UNCHANGED <<state, iterator, currentTime>>
             /\ pc' = pc \/ pc' = "start"
             /\ \/ nextState' = nextState
                \/ nextState' \in {"close", "seek-backfill"} /\ currentTime # NoTime
  BY <1>4 DEF SeekPlayback
<1>5. ASSUME NEW topics, SetSubscriptions(topics)
      PROVE  /\ UNCHANGED <<state, iterator, currentTime>>
             /\ pc' = pc \/ pc' = "start"
             /\ \/ nextState' = nextState
                \/ nextState' \in {"close", "seek-backfill"} /\ currentTime # NoTime
  BY <1>5 DEF SetSubscriptions
<1>6. CASE Close
  BY <1>6 DEF Close
<1>7. CASE QueueEmitFromOutside
  BY <1>7 DEF QueueEmitFromOutside
<1> QED
  BY <1>1, <1>2, <1>3, <1>4, <1>5, <1>6, <1>7 DEF Calls

\* Every step leaves the states what they rely on.
LEMMA FindStep ==
  ASSUME TypeOK, AtState, WhatStatesFind, [Next]_vars
  PROVE  WhatStatesFind'
<1> USE DEF AtState, WhatStatesFind, AwaitingBackfill
<1>0. readEnd \in Times /\ 0 \in Times /\ seekTarget \in Nat \union {NoTime}
  BY LogAssumption DEF TypeOK, ReadingTypeOK, RequestTypeOK, Times
<1>1. CASE Calls
  BY <1>1, CallsOnlyRequest
<1>2. CASE RunNextState
  BY <1>2 DEF RunNextState, reading
<1>3. CASE IteratorEnded
  BY <1>3 DEF IteratorEnded
<1>4. CASE EnterInitialize
  BY <1>4 DEF EnterInitialize, reading
<1>5. CASE Initialized
  BY <1>5, <1>0, TimesAreDefined, ClampInTimes DEF Initialized, reading
<1>6. CASE StartDelayEnds
  BY <1>6 DEF StartDelayEnds, SetState, Requested, reading
<1>7. CASE EnterStartPlay
  BY <1>7, OpenedIterator DEF EnterStartPlay, SetState, Requested
<1>8. CASE StartPlayReads
  BY <1>8, <1>0, TimesAreDefined DEF StartPlayReads, SetState, Requested
<1>9. CASE ReadAbandoned
  BY <1>9, ReadIterator DEF ReadAbandoned, NextEntry
<1>10. CASE ReadMessage
  BY <1>10, ReadIterator DEF ReadMessage, NextEntry, Messages
<1>11. CASE ReadMessageBeyondEnd
  BY <1>11, ReadIterator DEF ReadMessageBeyondEnd, NextEntry, AfterRead, Messages
<1>12. CASE ReadStamp
  BY <1>12, ReadIterator DEF ReadStamp, NextEntry, AfterRead
<1>13. CASE ReadDone
  BY <1>13 DEF ReadDone, AfterRead
<1>14. CASE EnterPlay
  BY <1>14 DEF EnterPlay, reading
<1>15. CASE PlayStops
  BY <1>15 DEF PlayStops, reading
<1>16. CASE PlayReachesEnd
  BY <1>16 DEF PlayReachesEnd, SetState, Requested
<1>17. CASE Tick
  BY <1>17 DEF Tick, TickTo
<1>18. CASE TickEmits
  BY <1>18, <1>0, TimesAreDefined DEF TickEmits
<1>18a. CASE TickEnds
  BY <1>18a DEF TickEnds, Requested
<1>19. CASE FrameDelayEnds
  BY <1>19 DEF FrameDelayEnds, reading
<1>20. CASE EnterIdle
  BY <1>20 DEF EnterIdle, reading
<1>21. CASE IdleEnds
  BY <1>21 DEF IdleEnds, reading
<1>22. CASE EnterSeekBackfill
  BY <1>22 DEF EnterSeekBackfill
<1>23. CASE BackfillLoaded
  BY <1>23, <1>0, TimesAreDefined DEF BackfillLoaded, reading
<1>24. CASE BackfillSuperseded
  BY <1>24 DEF BackfillSuperseded, reading
<1>25. CASE EnterResetPlaybackIterator
  BY <1>25 DEF EnterResetPlaybackIterator, reading
<1>26. CASE IteratorReset
  BY <1>26, OpenedIterator DEF IteratorReset, SetState, Requested
<1>27. CASE EnterClose
  BY <1>27 DEF EnterClose, reading
<1>28. CASE Closed
  BY <1>28 DEF Closed, reading
<1>29. CASE SeekAckTimeout
  BY <1>29, <1>0, TimesAreDefined DEF SeekAckTimeout, reading
<1>30. ASSUME NEW at \in {"loop", "off"}, Fail(at)
      PROVE  WhatStatesFind'
  BY <1>30 DEF Fail
<1>31. CASE ListenerResolves
  BY <1>31 DEF ListenerResolves, reading
<1>32. CASE UNCHANGED vars
  BY <1>32 DEF vars, control, reading
<1>33. CASE Failures
  BY <1>33, <1>30
  DEF Failures, EndIteratorFails, InitializeFails, ReadFails, BackfillFails, ResetFails,
      CloseFails
<1> QED
  BY <1>1, <1>2, <1>3, <1>4, <1>5, <1>6, <1>7, <1>8, <1>9, <1>10, <1>11, <1>12, <1>13, <1>14, <1>15, <1>16, <1>17, <1>18, <1>18a, <1>19, <1>20, <1>21, <1>22, <1>23, <1>24, <1>25, <1>26, <1>27, <1>28, <1>29, <1>30, <1>31, <1>32, <1>33 DEF Next, Run

\* The states find what they rely on: none of the invariants the code throws on
\* is ever broken, whatever is called in whatever order.
THEOREM NeverThrows == Spec => []InvariantsNeverThrow
<1> DEFINE Inv == IInv /\ WhatStatesFind
<1>1. Init => Inv
  <2> SUFFICES ASSUME Init
               PROVE  Inv
    OBVIOUS
  <2>1. WhatStatesFind
    BY DEF Init, WhatStatesFind
  <2> QED
    BY <2>1, InitEstablishesIInv
<1>2. Inv /\ [Next]_vars => Inv'
  <2> SUFFICES ASSUME Inv, [Next]_vars
               PROVE  Inv'
    OBVIOUS
  <2>1. IInv'
    BY IInvStep
  <2>2. WhatStatesFind'
    BY FindStep DEF IInv
  <2> QED
    BY <2>1, <2>2
<1>3. Inv => InvariantsNeverThrow
  <2> SUFFICES ASSUME Inv
               PROVE  InvariantsNeverThrow
    OBVIOUS
  <2>0. AtState /\ WhatStatesFind
    BY DEF IInv
  <2>1. pc = "tickRead" => iterator # NoIterator
    BY <2>0 DEF AtState, WhatStatesFind
  <2>2. pc = "enter" /\ state = "start-play" => iterator = NoIterator
    BY DEF WhatStatesFind
  <2>3. pc \in {"play", "reset"} => currentTime # NoTime
    BY <2>0 DEF AtState, WhatStatesFind
  <2> QED
    BY <2>1, <2>2, <2>3 DEF InvariantsNeverThrow
<1> QED
  BY <1>1, <1>2, <1>3, PTL DEF Spec

-----------------------------------------------------------------------------
(* Part 2: frames.                                                        *)

-----------------------------------------------------------------------------
(* The debounced emission.                                                 *)

\* What a frame since the last seek has or will have: #messages, and unless a
\* new seek time is still to be told, what the listener has heard.
Reached == messages \union (IF seekEmit THEN {} ELSE heard)

\* Messages and a new seek time wait only for a call that is remembered.
Debounced == ~hasError /\ (messages # {} \/ seekEmit) => emitting /\ pending

\* The last frame shows the player's state.
ShowsState == frame.time = currentTime /\ frame.playing = isPlaying

\* At rest a remembered call is due, or the last frame shows what there is.
Resting ==
  /\ pc = "idle" => state = "idle"
  /\ pc = "idle" /\ nextState = "none" /\ ~hasError =>
       \/ emitting /\ pending
       \/ messages = {} /\ ShowsState

\* #queueEmitState, whether it emits now or later, brings what it is given to
\* the listener, and without an error remembers a call or leaves nothing.
LEMMA QueueEmitReaches ==
  ASSUME NEW ms, NEW seek, QueueEmit(ms, seek)
  PROVE  /\ Reached' = ms \union (IF seek THEN {} ELSE heard)
         /\ messages' \in {ms, {}} /\ (seekEmit' => seek)
         /\ Debounced'
         /\ ~hasError' =>
              \/ emitting' /\ pending'
              \/ /\ messages' = {}
                 /\ ShowsState'
<1>1. CASE EmitFrame(ms, seek)
  BY <1>1 DEF EmitFrame, CurrentFrame, NoFrame, ShowsState, Reached, Debounced
<1>2. CASE /\ emitting /\ messages' = ms /\ seekEmit' = seek /\ pending' = TRUE
           /\ UNCHANGED <<emitting, frame, heard>>
  BY <1>2 DEF Reached, Debounced
<1> QED
  BY <1>1, <1>2 DEF QueueEmit

\* So does the listener's answer, for a call that is remembered.
LEMMA ListenerReaches ==
  ASSUME ListenerResolves
  PROVE  /\ Reached' = Reached
         /\ messages' \in {messages, {}} /\ (seekEmit' => seekEmit)
         /\ Debounced => Debounced'
         /\ Debounced /\ ~hasError => messages' = {} /\ ~seekEmit'
         /\ pending /\ ~hasError' =>
              /\ messages' = {}
              /\ ShowsState'
<1>1. CASE pending
  BY <1>1 DEF ListenerResolves, request, EmitFrame, CurrentFrame, NoFrame, ShowsState, Reached,
              Debounced
<1>2. CASE ~pending
  BY <1>2 DEF ListenerResolves, request, Reached, Debounced
<1> QED
  BY <1>1, <1>2

\* An error is never forgotten.
LEMMA ErrorsStay ==
  ASSUME [Next]_vars
  PROVE  hasError => hasError'
<1>1. CASE Calls
  BY <1>1 DEF Calls, SetListener, StartPlay, PausePlayback, SeekPlayback, SetSubscriptions,
              Close, QueueEmitFromOutside, request
<1>2. CASE Run
  BY <1>2
  DEF Run, RunNextState, IteratorEnded, EnterInitialize, Initialized, StartDelayEnds,
      EnterStartPlay, StartPlayReads, ReadAbandoned, ReadMessage, ReadMessageBeyondEnd,
      ReadStamp, ReadDone, NextEntry, EnterPlay, PlayStops, PlayReachesEnd, Tick, TickEmits,
      TickEnds, FrameDelayEnds, EnterIdle, IdleEnds, EnterSeekBackfill, BackfillLoaded,
      BackfillSuperseded, EnterResetPlaybackIterator, IteratorReset, EnterClose, Closed,
      request
<1>3. CASE SeekAckTimeout \/ ListenerResolves
  BY <1>3 DEF SeekAckTimeout, ListenerResolves, request
<1>4. CASE Failures
  BY <1>4
  DEF Failures, EndIteratorFails, InitializeFails, ReadFails, BackfillFails, ResetFails,
      CloseFails, Fail
<1>5. CASE UNCHANGED vars
  BY <1>5 DEF vars, request
<1> QED
  BY <1>1, <1>2, <1>3, <1>4, <1>5 DEF Next

\* A step emits nothing, or queues an emission, or is the listener's answer.
LEMMA StepsEmit ==
  ASSUME [Next]_vars
  PROVE  \/ UNCHANGED emission
         \/ pc # "idle" /\ messages' = {}
            /\ UNCHANGED <<seekEmit, emitting, pending, frame, heard>>
         \/ ListenerResolves
         \/ \E ms, seek : QueueEmit(ms, seek)
<1>1. CASE Calls
  BY <1>1 DEF Calls, SetListener, StartPlay, PausePlayback, SeekPlayback, SetSubscriptions,
              Close, QueueEmitFromOutside
<1>2. CASE Run
  <2>1. CASE EnterStartPlay
    BY <2>1 DEF EnterStartPlay, emission
  <2>2. CASE ReadAbandoned \/ ReadMessage \/ ReadMessageBeyondEnd \/ ReadStamp
    BY <2>2 DEF ReadAbandoned, ReadMessage, ReadMessageBeyondEnd, ReadStamp, NextEntry
  <2> QED
    BY <1>2, <2>1, <2>2
    DEF Run, RunNextState, IteratorEnded, EnterInitialize, Initialized, StartDelayEnds,
        StartPlayReads, ReadDone, EnterPlay, PlayStops, PlayReachesEnd, Tick, TickEmits,
        TickEnds, FrameDelayEnds, EnterIdle, IdleEnds, EnterSeekBackfill, BackfillLoaded,
        BackfillSuperseded, EnterResetPlaybackIterator, IteratorReset, EnterClose, Closed
<1>3. CASE SeekAckTimeout
  BY <1>3 DEF SeekAckTimeout
<1>4. CASE Failures
  BY <1>4
  DEF Failures, EndIteratorFails, InitializeFails, ReadFails, BackfillFails, ResetFails,
      CloseFails, Fail
<1>5. CASE UNCHANGED vars
  BY <1>5 DEF vars
<1> QED
  BY <1>1, <1>2, <1>3, <1>4, <1>5 DEF Next

\* Every step keeps the emission debounced.
LEMMA DebouncedStep ==
  ASSUME Debounced, [Next]_vars
  PROVE  Debounced'
<1>1. CASE UNCHANGED emission
  BY <1>1, ErrorsStay DEF emission, Debounced
<1>2. CASE messages' = {} /\ UNCHANGED <<seekEmit, emitting, pending, frame, heard>>
  BY <1>2, ErrorsStay DEF Debounced
<1>3. CASE ListenerResolves
  BY <1>3, ListenerReaches
<1>4. ASSUME NEW ms, NEW seek, QueueEmit(ms, seek)
      PROVE  Debounced'
  BY <1>4, QueueEmitReaches
<1> QED
  BY <1>1, <1>2, <1>3, <1>4, StepsEmit

\* A call that finds the player at rest starts something, changes nothing a
\* frame shows, or queues an emission.
LEMMA CallsAtRest ==
  ASSUME Calls, pc = "idle", state = "idle", nextState' = "none"
  PROVE  /\ UNCHANGED <<pc, state, nextState, hasError, currentTime>>
         /\ \/ UNCHANGED <<isPlaying, emission>>
            \/ QueueEmit(messages, seekEmit)
<1> USE DEF SetStateFromOutside, SetState, Requested, control, request, reading
<1>1. CASE SetListener
  BY <1>1 DEF SetListener
<1>2. ASSUME NEW until, StartPlay(until)
      PROVE  FALSE
  BY <1>2 DEF StartPlay
<1>3. CASE PausePlayback
  BY <1>3 DEF PausePlayback
<1>4. ASSUME NEW t, SeekPlayback(t)
      PROVE  FALSE
  BY <1>4 DEF SeekPlayback
<1>5. ASSUME NEW topics, SetSubscriptions(topics)
      PROVE  UNCHANGED <<pc, state, nextState, hasError, currentTime, isPlaying, emission>>
  BY <1>5 DEF SetSubscriptions
<1>6. CASE Close
  BY <1>6 DEF Close
<1>7. CASE QueueEmitFromOutside
  BY <1>7 DEF QueueEmitFromOutside
<1> QED
  BY <1>1, <1>2, <1>3, <1>4, <1>5, <1>6, <1>7 DEF Calls

\* The run loop comes to rest by entering idle, and leaves it for good.
LEMMA RunAtRest ==
  ASSUME [Next]_vars, ~Calls, pc' = "idle"
  PROVE  \/ EnterIdle
         \/ pc = "idle" /\ UNCHANGED <<state, nextState, hasError, currentTime, isPlaying>>
            /\ (UNCHANGED emission \/ ListenerResolves)
<1>1. CASE Run
  BY <1>1
  DEF Run, RunNextState, IteratorEnded, EnterInitialize, Initialized, StartDelayEnds,
      EnterStartPlay, StartPlayReads, ReadAbandoned, ReadMessage, ReadMessageBeyondEnd,
      ReadStamp, ReadDone, NextEntry, AfterRead, EnterPlay, PlayStops, PlayReachesEnd, Tick,
      TickTo, TickEmits, TickEnds, FrameDelayEnds, IdleEnds, EnterSeekBackfill, BackfillLoaded,
      BackfillSuperseded, EnterResetPlaybackIterator, IteratorReset, EnterClose, Closed
<1>2. CASE SeekAckTimeout
  BY <1>2 DEF SeekAckTimeout
<1>3. CASE ListenerResolves
  BY <1>3 DEF ListenerResolves, request
<1>4. CASE Failures
  BY <1>4
  DEF Failures, EndIteratorFails, InitializeFails, ReadFails, BackfillFails, ResetFails,
      CloseFails, Fail
<1>5. CASE UNCHANGED vars
  BY <1>5 DEF vars, control, request
<1> QED
  BY <1>1, <1>2, <1>3, <1>4, <1>5 DEF Next

\* Only entering idle and the run loop's next step change the state there.
LEMMA CallsKeepPlace ==
  ASSUME Calls, pc' = "idle"
  PROVE  pc = "idle" /\ state' = state
<1>1. state' = state /\ (pc' = pc \/ pc' = "start")
  BY CallsOnlyRequest
<1> QED
  BY <1>1

\* Every step keeps what is shown at rest current.
LEMMA RestingStep ==
  ASSUME Resting, [Next]_vars
  PROVE  Resting'
<1>1. CASE Calls
  <2>1. pc' = "idle" => state' = "idle"
    BY <1>1, CallsKeepPlace DEF Resting
  <2> SUFFICES ASSUME pc' = "idle", nextState' = "none", ~hasError'
               PROVE  \/ emitting' /\ pending'
                      \/ /\ messages' = {}
                         /\ ShowsState'
    BY <2>1 DEF Resting
  <2>2. pc = "idle" /\ state = "idle"
    BY <1>1, CallsKeepPlace DEF Resting
  <2>3. UNCHANGED <<pc, state, nextState, hasError, currentTime>>
    BY <1>1, <2>2, CallsAtRest
  <2>4. CASE QueueEmit(messages, seekEmit)
    BY <2>4, QueueEmitReaches
  <2>5. CASE UNCHANGED <<isPlaying, emission>>
    BY <2>2, <2>3, <2>5 DEF Resting, ShowsState, emission
  <2> QED
    BY <1>1, <2>2, <2>4, <2>5, CallsAtRest
<1>2. CASE ~Calls /\ pc' = "idle"
  <2>1. CASE EnterIdle
    BY <2>1, QueueEmitReaches DEF EnterIdle, Resting
  <2>2. CASE pc = "idle" /\ UNCHANGED <<state, nextState, hasError, currentTime, isPlaying>>
    <3>1. CASE UNCHANGED emission
      BY <2>2, <3>1 DEF Resting, ShowsState, emission
    <3>2. CASE ListenerResolves
      <4>1. CASE pending
        BY <2>2, <3>2, <4>1, ListenerReaches DEF Resting
      <4>2. CASE ~pending
        BY <2>2, <3>2, <4>2 DEF Resting, ShowsState, ListenerResolves
      <4> QED
        BY <4>1, <4>2
    <3>3. CASE EnterIdle
      BY <3>3, <2>2 DEF EnterIdle
    <3> QED
      BY <1>2, <3>1, <3>2, <3>3, RunAtRest
  <2> QED
    BY <1>2, <2>1, <2>2, RunAtRest
<1>3. CASE pc' # "idle"
  BY <1>3 DEF Resting
<1> QED
  BY <1>1, <1>2, <1>3

\* The debounced emission catches up: when the player rests in idle and the
\* listener is free, the last frame shows the state the player is in.
THEOREM RestShowsCurrentState == Spec => []RestingFrameIsCurrent
<1>1. Init => Resting
  BY DEF Init, Resting
<1>2. Resting /\ [Next]_vars => Resting'
  BY RestingStep
<1>3. Resting => RestingFrameIsCurrent
  BY DEF Resting, ShowsState, RestingFrameIsCurrent
<1> QED
  BY <1>1, <1>2, <1>3, PTL DEF Spec

-----------------------------------------------------------------------------
(* Where messages are: the invariant.                                      *)

Reading == pc \in {"startRead", "tickRead"}

\* The read is done and what it found is not yet in #messages.
ReadIsDone == pc \in {"startDone", "awaitFrame", "frameReady"}

\* What the states know of the iterator, of the message read ahead, and of
\* what waits to be emitted.
Places ==
  /\ state \in {"preinit", "initialize"} => iterator = NoIterator
  /\ AwaitingBackfill \/ pc \in {"initWait", "reset"} => iterator = NoIterator
  /\ pc \in {"tickRead", "awaitFrame", "frameReady"} => ~hasError
  /\ pc = "frameReady" => messages = {} /\ ~seekEmit
  /\ pc \in {"startRead", "startDone"} => messages = {}
  /\ nextState = "reset-playback-iterator" => pc = "loop" /\ lastMessage = NoMessage
  /\ state = "reset-playback-iterator" => lastMessage = NoMessage
  /\ AwaitingBackfill \/ Reading \/ pc = "reset" => lastMessage = NoMessage

\* A message of the iterator's topics, not before its start.
Wanted(i) ==
  i \in Messages /\ Log[i].topic \in iterator.topics /\ iterator.from <= Log[i].time

\* A message is unread, read ahead, read by the tick, or on its way to the listener.
Accounted ==
  \A i \in Messages : Wanted(i) =>
    i \in Reached \/ i \in batch \/ i = lastMessage \/ i >= iterator.pos

\* Nothing unread comes before what was read ahead: a message, a stamp, or the
\* entry that told that the read was done.
ReadAhead ==
  /\ lastStamp # NoTime => lastMessage = NoMessage /\ ~Reading
  /\ ReadIsDone /\ lastMessage # NoMessage => readEnd < Log[lastMessage].time
  /\ \A i \in Messages : Wanted(i) /\ i >= iterator.pos =>
       /\ lastMessage # NoMessage => lastMessage < i
       /\ lastStamp # NoTime => lastStamp < Log[i].time
       /\ ReadIsDone => readEnd < Log[i].time

\* Nothing up to the current time is missing.
Gapless ==
  pc \notin {"startRead", "startDone"} =>
    \A i \in Messages : Wanted(i) /\ Log[i].time <= currentTime => i \in Reached

Covered == contiguous => Accounted /\ ReadAhead /\ Gapless

-----------------------------------------------------------------------------
\* Every step leaves the places what they know.
LEMMA PlacesStep ==
  ASSUME AtState, WhatStatesFind, Debounced, Places, [Next]_vars
  PROVE  Places'
<1> USE DEF AtState, WhatStatesFind, Places, AwaitingBackfill, Reading
<1>1. CASE Calls
  <2>1. /\ UNCHANGED <<state, iterator>>
        /\ pc' = pc \/ (pc = "off" /\ pc' = "start")
        /\ UNCHANGED <<hasError, lastMessage>>
        /\ nextState' = "reset-playback-iterator" => nextState = nextState' /\ pc' = pc
        /\ UNCHANGED emission \/ QueueEmit(messages, seekEmit)
    BY <1>1
    DEF Calls, SetListener, StartPlay, PausePlayback, SeekPlayback, SetSubscriptions, Close,
        QueueEmitFromOutside, SetStateFromOutside, SetState, Requested, control, request,
        reading
  <2>2. messages' \in {messages, {}} /\ (seekEmit' => seekEmit)
    BY <2>1, QueueEmitReaches DEF emission
  <2> QED
    BY <2>1, <2>2
<1>2. CASE RunNextState
  BY <1>2 DEF RunNextState, reading, emission, request
<1>3. CASE IteratorEnded
  BY <1>3 DEF IteratorEnded, emission, request
<1>4. CASE EnterInitialize
  BY <1>4 DEF EnterInitialize, reading, request
<1>5. CASE Initialized
  BY <1>5 DEF Initialized, reading
<1>6. CASE StartDelayEnds
  BY <1>6 DEF StartDelayEnds, SetState, Requested, reading
<1>7. CASE EnterStartPlay
  BY <1>7 DEF EnterStartPlay, SetState, Requested, request
<1>8. CASE StartPlayReads
  BY <1>8 DEF StartPlayReads, SetState, Requested, request
<1>9. CASE ReadAbandoned
  BY <1>9 DEF ReadAbandoned, NextEntry, emission, request
<1>10. CASE ReadMessage
  BY <1>10 DEF ReadMessage, NextEntry, emission, request
<1>11. CASE ReadMessageBeyondEnd
  BY <1>11 DEF ReadMessageBeyondEnd, NextEntry, AfterRead, emission, request, Debounced
<1>12. CASE ReadStamp
  BY <1>12 DEF ReadStamp, NextEntry, AfterRead, emission, request, Debounced
<1>13. CASE ReadDone
  BY <1>13 DEF ReadDone, AfterRead, emission, request, Debounced
<1>14. CASE EnterPlay
  BY <1>14 DEF EnterPlay, request
<1>15. CASE PlayStops
  BY <1>15 DEF PlayStops, reading, request
<1>16. CASE PlayReachesEnd
  BY <1>16 DEF PlayReachesEnd, SetState, Requested, request
<1>17. CASE Tick
  BY <1>17 DEF Tick, TickTo, emission, request, Debounced
<1>18. CASE TickEmits
  BY <1>18 DEF TickEmits, request
<1>18a. CASE TickEnds
  BY <1>18a DEF TickEnds, Requested, emission
<1>19. CASE FrameDelayEnds
  BY <1>19 DEF FrameDelayEnds, reading, request
<1>20. CASE EnterIdle
  BY <1>20 DEF EnterIdle, reading
<1>21. CASE IdleEnds
  BY <1>21 DEF IdleEnds, reading, request
<1>22. CASE EnterSeekBackfill
  BY <1>22 DEF EnterSeekBackfill, request
<1>23. CASE BackfillLoaded
  BY <1>23 DEF BackfillLoaded, reading, request
<1>24. CASE BackfillSuperseded
  BY <1>24 DEF BackfillSuperseded, reading
<1>25. CASE EnterResetPlaybackIterator
  BY <1>25 DEF EnterResetPlaybackIterator, reading, request
<1>26. CASE IteratorReset
  BY <1>26 DEF IteratorReset, SetState, Requested
<1>27. CASE EnterClose
  BY <1>27 DEF EnterClose, reading
<1>28. CASE Closed
  BY <1>28 DEF Closed, reading, request
<1>29. CASE SeekAckTimeout
  BY <1>29 DEF SeekAckTimeout, reading, request
<1>30. ASSUME NEW at \in {"loop", "off"}, Fail(at), pc # "loop"
      PROVE  Places'
  BY <1>30 DEF Fail
<1>31. CASE ListenerResolves
  <2>1. /\ messages' \in {messages, {}} /\ (seekEmit' => seekEmit)
        /\ ~hasError => messages' = {} /\ ~seekEmit'
    BY <1>31, ListenerReaches
  <2> QED
    BY <1>31, <2>1 DEF ListenerResolves, reading, request
<1>32. CASE UNCHANGED vars
  BY <1>32 DEF vars, control, reading, request, emission
<1>33. CASE Failures
  BY <1>33, <1>30
  DEF Failures, EndIteratorFails, InitializeFails, ReadFails, BackfillFails, ResetFails,
      CloseFails
<1> QED
  BY <1>1, <1>2, <1>3, <1>4, <1>5, <1>6, <1>7, <1>8, <1>9, <1>10, <1>11, <1>12, <1>13, <1>14, <1>15, <1>16, <1>17, <1>18, <1>18a, <1>19, <1>20, <1>21, <1>22, <1>23, <1>24, <1>25, <1>26, <1>27, <1>28, <1>29, <1>30, <1>31, <1>32, <1>33 DEF Next, Run

-----------------------------------------------------------------------------
(* Where messages are: the steps.                                          *)

\* Entries have natural positions and integer times, which are in order.
LEMMA LogOrdered ==
  ASSUME NEW i \in 1..Len(Log), NEW j \in 1..Len(Log)
  PROVE  /\ i \in Int /\ Log[i].time \in Int
         /\ i <= j => Log[i].time <= Log[j].time
BY LogEntry, LogAssumption DEF Times

\* A message after a stamp is later than it.
LEMMA AfterStamp ==
  ASSUME NEW i \in 1..Len(Log), NEW j \in Messages, i < j, i \notin Messages
  PROVE  Log[i].time < Log[j].time
<1>1. Log[i] \in Entries
  BY LogAssumption
<1>2. Log[i].kind = "stamp"
  BY <1>1 DEF Messages, IsMessage, Entries
<1> QED
  BY <1>2, StampAssumption DEF Messages, IsMessage

\* The types the accounts rely on.
LEMMA AccountTypes ==
  ASSUME TypeOK
  PROVE  /\ iterator.pos \in Int /\ iterator.from \in Int /\ readEnd \in Int
         /\ currentTime \in Int
         /\ lastStamp \in Int /\ NoMessage \notin Messages
         /\ lastMessage \in Messages \union {NoMessage} /\ lastMessage \in Int
         /\ Messages \subseteq Int
BY LogAssumption
DEF TypeOK, ReadingTypeOK, RequestTypeOK, Times, NoTime, NoMessage, Messages

\* A step that does not touch what is read and loses nothing on its way to the
\* listener keeps the accounts.
LEMMA StillStep ==
  ASSUME Covered,
         UNCHANGED <<currentTime, iterator, lastMessage, batch, readEnd>>,
         lastStamp' \in {lastStamp, NoTime},
         contiguous' => contiguous,
         Reached \subseteq Reached',
         Reading' => Reading, ReadIsDone' => ReadIsDone,
         pc \in {"startRead", "startDone"} => pc' = pc
  PROVE  Covered'
<1>1. \A i : Wanted(i)' = Wanted(i)
  BY DEF Wanted
<1>2. Accounted => Accounted'
  BY <1>1 DEF Accounted
<1>3. ReadAhead => ReadAhead'
  BY <1>1 DEF ReadAhead
<1>4. Gapless => Gapless'
  BY <1>1 DEF Gapless
<1> QED
  BY <1>2, <1>3, <1>4 DEF Covered

\* Without an iterator there is nothing to account for.
LEMMA NoIteratorCovered ==
  ASSUME iterator' = NoIterator,
         contiguous' => (lastStamp' # NoTime => lastMessage' = NoMessage /\ ~Reading'),
         ~ReadIsDone'
  PROVE  Covered'
<1>1. \A i : ~Wanted(i)'
  BY DEF Wanted, NoIterator
<1> QED
  BY <1>1 DEF Covered, Accounted, ReadAhead, Gapless

\* Calls leave the accounts alone.
LEMMA CallsCovered ==
  ASSUME Covered, Calls
  PROVE  Covered'
<1>1. /\ UNCHANGED <<currentTime, iterator, lastMessage, batch, readEnd, lastStamp>>
      /\ contiguous' = contiguous
      /\ pc' = pc \/ (pc = "off" /\ pc' = "start")
      /\ UNCHANGED emission \/ QueueEmit(messages, seekEmit)
  BY DEF Calls, SetListener, StartPlay, PausePlayback, SeekPlayback, SetSubscriptions, Close,
         QueueEmitFromOutside, SetStateFromOutside, control, reading
<1>2. Reached' = Reached
  BY <1>1, QueueEmitReaches DEF emission, Reached
<1>3. /\ Reading' => Reading
      /\ ReadIsDone' => ReadIsDone
      /\ pc \in {"startRead", "startDone"} => pc' = pc
  BY <1>1 DEF Reading, ReadIsDone
<1> QED
  BY <1>1, <1>2, <1>3, StillStep

\* So do the steps of the run loop that only go on.
LEMMA ControlCovered ==
  ASSUME Covered,
         \/ RunNextState \/ EnterInitialize \/ StartDelayEnds \/ EnterPlay \/ PlayStops
         \/ PlayReachesEnd \/ (TickEnds /\ contiguous') \/ FrameDelayEnds \/ EnterIdle
         \/ IdleEnds \/ BackfillSuperseded \/ EnterResetPlaybackIterator \/ EnterClose
         \/ Closed \/ ListenerResolves \/ UNCHANGED vars
  PROVE  Covered'
<1>1. /\ UNCHANGED <<currentTime, iterator, lastMessage, batch, readEnd>>
      /\ lastStamp' \in {lastStamp, NoTime}
      /\ contiguous' => contiguous
      /\ UNCHANGED emission \/ QueueEmit(messages, seekEmit) \/ ListenerResolves
  <2>1. CASE TickEnds /\ contiguous'
    BY <2>1 DEF TickEnds
  <2>2. CASE \/ RunNextState \/ EnterInitialize \/ StartDelayEnds \/ EnterPlay \/ PlayStops
            \/ PlayReachesEnd \/ FrameDelayEnds \/ EnterIdle \/ IdleEnds
    BY <2>2
    DEF RunNextState, EnterInitialize, StartDelayEnds, EnterPlay, PlayStops, PlayReachesEnd,
        FrameDelayEnds, EnterIdle, IdleEnds, reading
  <2>3. CASE \/ BackfillSuperseded \/ EnterResetPlaybackIterator \/ EnterClose \/ Closed
            \/ ListenerResolves \/ UNCHANGED vars
    BY <2>3
    DEF BackfillSuperseded, EnterResetPlaybackIterator, EnterClose, Closed,
        ListenerResolves, vars, reading
  <2> QED
    BY <2>1, <2>2, <2>3
<1>2. /\ Reading' => Reading
      /\ ReadIsDone' => ReadIsDone
      /\ pc \in {"startRead", "startDone"} => pc' = pc
  BY DEF RunNextState, EnterInitialize, StartDelayEnds, EnterPlay, PlayStops, PlayReachesEnd,
         TickEnds, FrameDelayEnds, EnterIdle, IdleEnds, BackfillSuperseded,
         EnterResetPlaybackIterator, EnterClose, Closed, ListenerResolves, vars, control,
         Reading, ReadIsDone, AwaitingBackfill
<1>3. Reached' = Reached
  BY <1>1, QueueEmitReaches, ListenerReaches DEF emission, Reached
<1> QED
  BY <1>1, <1>2, <1>3, StillStep

\* A step that gives up what was read leaves nothing to account for.
LEMMA GivenUp ==
  ASSUME ~contiguous'
  PROVE  Covered'
BY DEF Covered

\* The iterator goes past the entry it yields, and past nothing that is wanted.
LEMMA ReadsNext ==
  ASSUME TypeOK, NEW i \in 1..Len(Log), NextEntry(i)
  PROVE  /\ \A j : Wanted(j)' = Wanted(j)
         /\ iterator'.pos = i + 1
         /\ iterator.pos <= i
         /\ \A j \in Messages : Wanted(j) /\ j >= iterator.pos => i <= j
<1>1. iterator' = [iterator EXCEPT !.pos = i + 1]
  BY DEF NextEntry
<1>2. iterator'.pos = i + 1 /\ iterator'.topics = iterator.topics /\ iterator'.from = iterator.from
  BY <1>1 DEF TypeOK, ReadingTypeOK
<1>3. \A j \in Messages : Wanted(j) /\ j >= iterator.pos => j \in Remaining(iterator)
  <2> SUFFICES ASSUME NEW j \in Messages, Wanted(j), j >= iterator.pos
               PROVE  j \in Remaining(iterator)
    OBVIOUS
  <2>1. j \in 1..Len(Log) /\ IsMessage(j)
    BY DEF Messages
  <2>2. Log[j].time \in Int /\ iterator.from \in Int
    BY <2>1, LogOrdered, AccountTypes
  <2> QED
    BY <2>1, <2>2 DEF Remaining, Wanted
<1>4. i >= iterator.pos /\ iterator.pos \in Int /\ i \in Int
  BY AccountTypes DEF NextEntry, Remaining
<1> QED
  BY <1>2, <1>3, <1>4 DEF NextEntry, Wanted

\* Reading an entry keeps the accounts: a message goes into the tick or is read
\* ahead, and what comes after a stamp is later than it.
LEMMA ReadCovered ==
  ASSUME TypeOK, Places, Covered,
         ReadMessage \/ ReadMessageBeyondEnd \/ ReadStamp \/ ReadDone
  PROVE  Covered'
<1> SUFFICES ASSUME contiguous'
             PROVE  Covered'
  BY GivenUp
<1>0. /\ contiguous /\ Reading
      /\ UNCHANGED <<messages, seekEmit, heard, currentTime, readEnd>>
  BY DEF ReadMessage, ReadMessageBeyondEnd, ReadStamp, ReadDone, NextEntry, Reading, emission
<1>1. Accounted /\ ReadAhead /\ Gapless /\ lastMessage = NoMessage /\ lastStamp = NoTime
  BY <1>0 DEF Covered, ReadAhead, Places, Reading
<1>2. Reached' = Reached
  BY <1>0 DEF Reached
<1>3. CASE ReadMessage
  <2>1. PICK i \in Messages :
          /\ NextEntry(i)
          /\ batch' = batch \union {i}
          /\ UNCHANGED <<pc, lastMessage, lastStamp, contiguous>>
    BY <1>3 DEF ReadMessage
  <2>2. i \in 1..Len(Log) /\ Messages \subseteq Int /\ iterator.pos \in Int
    BY AccountTypes DEF Messages
  <2>3. /\ \A j : Wanted(j)' = Wanted(j)
        /\ iterator'.pos = i + 1 /\ iterator.pos <= i
        /\ \A j \in Messages : Wanted(j) /\ j >= iterator.pos => i <= j
    BY <2>1, <2>2, ReadsNext
  <2>4. Accounted'
    BY <1>1, <1>2, <2>1, <2>2, <2>3 DEF Accounted
  <2>5. ReadAhead'
    BY <1>0, <1>1, <2>1, <2>2, <2>3 DEF ReadAhead, Reading, ReadIsDone
  <2>6. Gapless'
    BY <1>0, <1>1, <1>2, <2>1, <2>3 DEF Gapless
  <2> QED
    BY <2>4, <2>5, <2>6 DEF Covered
<1>4. CASE ReadMessageBeyondEnd
  <2>1. PICK i \in Messages :
          /\ NextEntry(i)
          /\ Log[i].time > readEnd
          /\ lastMessage' = i
          /\ pc' = AfterRead
          /\ UNCHANGED <<batch, lastStamp, contiguous>>
    BY <1>4 DEF ReadMessageBeyondEnd
  <2>2. i \in 1..Len(Log) /\ Messages \subseteq Int /\ iterator.pos \in Int /\ readEnd \in Int
    BY AccountTypes DEF Messages
  <2>3. /\ \A j : Wanted(j)' = Wanted(j)
        /\ iterator'.pos = i + 1 /\ iterator.pos <= i
        /\ \A j \in Messages : Wanted(j) /\ j >= iterator.pos => i <= j
    BY <2>1, <2>2, ReadsNext
  <2>4. Accounted'
    BY <1>1, <1>2, <2>1, <2>2, <2>3, AccountTypes DEF Accounted
  <2>5. \A j \in Messages : j >= i + 1 => i < j /\ readEnd < Log[j].time
    BY <2>1, <2>2, LogOrdered DEF Messages
  <2>6. ReadAhead'
    <3>1. readEnd < Log[i].time
      BY <2>1, <2>2, LogOrdered
    <3> QED
      BY <1>0, <1>1, <2>1, <2>3, <2>5, <3>1 DEF ReadAhead
  <2>7. Gapless'
    BY <1>0, <1>1, <1>2, <2>1, <2>3 DEF Gapless, AfterRead, Reading
  <2> QED
    BY <2>4, <2>6, <2>7 DEF Covered
<1>5. CASE ReadStamp
  <2>1. PICK i \in (1..Len(Log)) \ Messages :
          /\ NextEntry(i)
          /\ \/ Log[i].time >= readEnd /\ lastStamp' = Log[i].time /\ pc' = AfterRead
             \/ UNCHANGED <<lastStamp, pc>>
          /\ UNCHANGED <<batch, lastMessage, contiguous>>
    BY <1>5 DEF ReadStamp
  <2>2. /\ i \in 1..Len(Log) /\ Messages \subseteq Int /\ iterator.pos \in Int
        /\ readEnd \in Int /\ i \in Int /\ Log[i].time \in Int
    BY AccountTypes, LogOrdered
  <2>3. /\ \A j : Wanted(j)' = Wanted(j)
        /\ iterator'.pos = i + 1 /\ iterator.pos <= i
        /\ \A j \in Messages : Wanted(j) /\ j >= iterator.pos => i <= j
    BY <2>1, <2>2, ReadsNext
  <2>4. Accounted'
    BY <1>1, <1>2, <2>1, <2>2, <2>3 DEF Accounted
  <2>5. \A j \in Messages : j >= i + 1 => Log[i].time < Log[j].time /\ Log[j].time \in Int
    <3> SUFFICES ASSUME NEW j \in Messages, j >= i + 1
                 PROVE  Log[i].time < Log[j].time /\ Log[j].time \in Int
      OBVIOUS
    <3>1. j \in 1..Len(Log) /\ i < j
      BY <2>2 DEF Messages
    <3> QED
      BY <2>1, <3>1, AfterStamp, LogOrdered
  <2>6. ReadAhead'
    <3>1. CASE Log[i].time >= readEnd /\ lastStamp' = Log[i].time /\ pc' = AfterRead
      <4>1. ~Reading' /\ lastMessage' = NoMessage
        BY <1>1, <2>1, <3>1 DEF AfterRead, Reading
      <4>2. \A j \in Messages : j >= i + 1 => lastStamp' < Log[j].time /\ readEnd' < Log[j].time
        BY <1>0, <2>2, <2>5, <3>1
      <4> QED
        BY <2>3, <4>1, <4>2 DEF ReadAhead
    <3>2. CASE UNCHANGED <<lastStamp, pc>>
      BY <1>0, <1>1, <2>1, <2>2, <2>3, <3>2 DEF ReadAhead, Reading, ReadIsDone
    <3> QED
      BY <2>1, <3>1, <3>2
  <2>7. Gapless'
    BY <1>0, <1>1, <1>2, <2>1, <2>3 DEF Gapless, AfterRead, Reading
  <2> QED
    BY <2>4, <2>6, <2>7 DEF Covered
<1>6. CASE ReadDone
  <2>1. /\ Remaining(iterator) = {} /\ pc' = AfterRead
        /\ UNCHANGED <<iterator, batch, lastMessage, lastStamp, contiguous>>
    BY <1>6 DEF ReadDone
  <2>2. \A j : Wanted(j)' = Wanted(j)
    BY <2>1 DEF Wanted
  <2>3. \A j \in Messages : Wanted(j) => ~(j >= iterator.pos)
    BY <2>1, LogOrdered, AccountTypes DEF Wanted, Remaining, Messages, IsMessage
  <2>4. Accounted'
    BY <1>1, <1>2, <2>1, <2>2 DEF Accounted
  <2>5. ReadAhead'
    BY <1>0, <1>1, <2>1, <2>2, <2>3 DEF ReadAhead
  <2>6. Gapless'
    BY <1>0, <1>1, <1>2, <2>1, <2>2 DEF Gapless, AfterRead, Reading
  <2> QED
    BY <2>4, <2>5, <2>6 DEF Covered
<1> QED
  BY <1>3, <1>4, <1>5, <1>6

\* A new iterator has everything still to read.
LEMMA OpenedCovered ==
  ASSUME TypeOK, Places, WhatStatesFind, Covered, EnterStartPlay \/ IteratorReset
  PROVE  Covered'
<1>1. CASE EnterStartPlay /\ seekTarget # NoTime
  <2>1. /\ UNCHANGED <<currentTime, iterator, lastMessage, batch, readEnd, lastStamp>>
        /\ contiguous' = contiguous /\ Reached' = Reached
        /\ pc = "enter" /\ pc' = "loop"
    BY <1>1 DEF EnterStartPlay, emission, Reached
  <2> QED
    BY <2>1, StillStep DEF Reading, ReadIsDone
<1>2. ASSUME NEW from, iterator' = Open(allTopics, from), lastMessage' = NoMessage,
             contiguous' => lastStamp' = NoTime, ~ReadIsDone',
             \/ pc' = "startRead"
             \/ \A i \in Messages : from <= Log[i].time => ~(Log[i].time <= currentTime')
      PROVE  Covered'
  <2>1. iterator'.pos = 1 /\ iterator'.from = from
    BY <1>2 DEF Open
  <2>2. Accounted'
    BY <2>1 DEF Accounted, Messages
  <2>3. contiguous' => ReadAhead'
    BY <1>2 DEF ReadAhead
  <2>4. Gapless'
    BY <1>2, <2>1 DEF Gapless, Wanted
  <2> QED
    BY <2>2, <2>3, <2>4 DEF Covered
<1>3. CASE EnterStartPlay /\ seekTarget = NoTime
  BY <1>2, <1>3 DEF EnterStartPlay, ReadIsDone
<1>4. CASE IteratorReset
  <2>1. /\ iterator' = Open(allTopics, currentTime + 1) /\ lastMessage' = NoMessage
        /\ contiguous' => lastStamp' = NoTime
        /\ pc' = "loop" /\ currentTime' = currentTime
    BY <1>4 DEF IteratorReset, Places
  <2>2. \A i \in Messages : currentTime + 1 <= Log[i].time => ~(Log[i].time <= currentTime')
    BY <2>1, AccountTypes, LogOrdered DEF Messages
  <2> QED
    BY <1>2, <2>1, <2>2 DEF ReadIsDone
<1> QED
  BY <1>1, <1>3, <1>4

\* While there is no iterator, the current time and the frames may change.
LEMMA SeekCovered ==
  ASSUME WhatStatesFind, Places, Covered,
         \/ IteratorEnded \/ Initialized \/ EnterSeekBackfill \/ SeekAckTimeout \/ BackfillLoaded
  PROVE  Covered'
<1>1. CASE EnterSeekBackfill /\ seekTarget = NoTime
  <2>1. /\ UNCHANGED <<currentTime, iterator, lastMessage, batch, readEnd, lastStamp>>
        /\ contiguous' = contiguous /\ Reached' = Reached
        /\ pc = "enter" /\ pc' = "loop"
    BY <1>1 DEF EnterSeekBackfill, emission, Reached
  <2> QED
    BY <2>1, StillStep DEF Reading, ReadIsDone
<1>2. CASE EnterSeekBackfill /\ seekTarget # NoTime
  <2>1. iterator' = NoIterator /\ lastMessage' = NoMessage /\ pc' = "backfill"
    BY <1>2 DEF EnterSeekBackfill, WhatStatesFind
  <2> QED
    BY <2>1, NoIteratorCovered DEF Reading, ReadIsDone
<1>3. CASE IteratorEnded \/ Initialized \/ SeekAckTimeout \/ BackfillLoaded
  <2>1. /\ iterator' = NoIterator
        /\ UNCHANGED <<lastStamp, lastMessage, contiguous>>
        /\ ~Reading' /\ ~ReadIsDone'
    BY <1>3
    DEF IteratorEnded, Initialized, SeekAckTimeout, BackfillLoaded, Places, AwaitingBackfill,
        Reading, ReadIsDone, reading
  <2>2. contiguous => (lastStamp # NoTime => lastMessage = NoMessage)
    BY DEF Covered, ReadAhead
  <2> QED
    BY <2>1, <2>2, NoIteratorCovered
<1> QED
  BY <1>1, <1>2, <1>3

\* A tick either knows that nothing is to be read up to its end, or starts with
\* the message read ahead.
LEMMA TickCovered ==
  ASSUME TypeOK, BatchIsLocal, Places, Covered, Tick
  PROVE  Covered'
<1> SUFFICES ASSUME contiguous'
             PROVE  Covered'
  BY GivenUp
<1>1. PICK range \in 1..MaxTick : TickTo(TickEnd(range))
  BY DEF Tick
<1> DEFINE end == TickEnd(range)
<1>2. /\ UNCHANGED <<iterator, currentTime, messages, seekEmit, heard>>
      /\ readEnd' = end /\ pc = "play" /\ contiguous /\ batch = {}
  BY <1>1 DEF Tick, TickTo, emission, BatchIsLocal
<1>3. Accounted /\ ReadAhead /\ Gapless
  BY <1>2 DEF Covered
<1>4. /\ \A i : Wanted(i)' = Wanted(i)
      /\ Reached' = Reached
  BY <1>2 DEF Wanted, Reached
<1>5. end \in Int /\ lastStamp \in Int /\ \A i \in Messages : Log[i].time \in Int /\ i \in Int
  BY AccountTypes, TickEndInTimes, LogOrdered DEF TypeOK, Messages, Times
<1>6. Gapless'
  BY <1>2, <1>3, <1>4 DEF Gapless
<1>7. CASE lastStamp # NoTime /\ lastStamp >= end
  <2>1. UNCHANGED <<batch, lastMessage, lastStamp>> /\ pc' \in {"awaitFrame", "frameReady"}
    BY <1>1, <1>7 DEF TickTo
  <2>2. Accounted'
    BY <1>2, <1>3, <1>4, <2>1 DEF Accounted
  <2>3. ReadAhead'
    BY <1>2, <1>3, <1>4, <1>5, <1>7, <2>1 DEF ReadAhead, Reading
  <2> QED
    BY <1>6, <2>2, <2>3 DEF Covered
<1>8. CASE /\ ~(lastStamp # NoTime /\ lastStamp >= end)
           /\ lastMessage # NoMessage /\ Log[lastMessage].time > end
  <2>1. /\ UNCHANGED <<batch, lastMessage>> /\ lastStamp' = NoTime
        /\ pc' \in {"awaitFrame", "frameReady"}
    BY <1>1, <1>8 DEF TickTo
  <2>2. Accounted'
    BY <1>2, <1>3, <1>4, <2>1 DEF Accounted
  <2>3. \A i \in Messages : lastMessage < i => end < Log[i].time
    BY <1>5, <1>8, AccountTypes, LogOrdered DEF Messages
  <2>4. end < Log[lastMessage].time
    BY <1>5, <1>8, AccountTypes
  <2>5. ReadAhead'
    BY <1>2, <1>3, <1>4, <1>8, <2>1, <2>3, <2>4 DEF ReadAhead
  <2> QED
    BY <1>6, <2>2, <2>5 DEF Covered
<1>9. CASE /\ ~(lastStamp # NoTime /\ lastStamp >= end)
           /\ ~(lastMessage # NoMessage /\ Log[lastMessage].time > end)
  <2>1. /\ batch' = {lastMessage} \ {NoMessage} /\ lastMessage' = NoMessage
        /\ lastStamp' = NoTime /\ pc' = "tickRead"
    BY <1>1, <1>9 DEF TickTo
  <2>2. Accounted'
    BY <1>2, <1>3, <1>4, <2>1, AccountTypes DEF Accounted
  <2>3. ReadAhead'
    BY <2>1 DEF ReadAhead, ReadIsDone
  <2> QED
    BY <1>6, <2>2, <2>3 DEF Covered
<1> QED
  BY <1>7, <1>8, <1>9

\* What start-play or a tick has read becomes the frame of the time it read to:
\* nothing waits in #messages then, and what is not read is later.
LEMMA EmitsCovered ==
  ASSUME TypeOK, Places, Covered, StartPlayReads \/ TickEmits
  PROVE  Covered'
<1> SUFFICES ASSUME contiguous'
             PROVE  Covered'
  BY GivenUp
<1>1. /\ UNCHANGED <<iterator, lastStamp, readEnd>> /\ currentTime' = readEnd /\ batch' = {}
      /\ ReadIsDone /\ contiguous /\ messages = {}
      /\ pc' \in {"loop", "tickDone"}
      /\ QueueEmit(batch, seekEmit)
  BY DEF StartPlayReads, TickEmits, ReadIsDone, Places
<1>2. lastMessage' = lastMessage
  BY DEF StartPlayReads, TickEmits
<1>3. Accounted /\ ReadAhead
  BY <1>1 DEF Covered
<1>4. Reached' = Reached \union batch
  BY <1>1, QueueEmitReaches DEF Reached
<1>5. \A i : Wanted(i)' = Wanted(i)
  BY <1>1 DEF Wanted
<1>6. Accounted'
  BY <1>1, <1>2, <1>3, <1>4, <1>5 DEF Accounted
<1>7. ReadAhead'
  BY <1>1, <1>2, <1>3, <1>5 DEF ReadAhead, Reading, ReadIsDone
<1>8. Gapless'
  <2> SUFFICES ASSUME NEW i \in Messages, Wanted(i), Log[i].time <= readEnd
               PROVE  i \in Reached \/ i \in batch
    BY <1>1, <1>4, <1>5 DEF Gapless
  <2>1. Log[i].time \in Int /\ readEnd \in Int /\ i # NoMessage
    BY LogOrdered, AccountTypes DEF Messages
  <2>2. ~(readEnd < Log[i].time)
    BY <2>1
  <2> QED
    BY <1>1, <1>3, <2>1, <2>2 DEF Accounted, ReadAhead
<1> QED
  BY <1>6, <1>7, <1>8 DEF Covered

\* Every step keeps the accounts.
LEMMA CoveredStep ==
  ASSUME TypeOK, BatchIsLocal, WhatStatesFind, Places, Covered, [Next]_vars
  PROVE  Covered'
<1>1. CASE ReadAbandoned
  BY <1>1, GivenUp DEF ReadAbandoned
<1>2. CASE Failures
  BY <1>2, GivenUp
  DEF Failures, EndIteratorFails, InitializeFails, ReadFails, BackfillFails, ResetFails,
      CloseFails, Fail
<1>3. CASE \/ Calls \/ SeekAckTimeout \/ ListenerResolves \/ UNCHANGED vars
  BY <1>3, CallsCovered, SeekCovered, ControlCovered
<1>4. CASE Run /\ ~ReadAbandoned
  BY <1>4, GivenUp, ControlCovered, ReadCovered, OpenedCovered, SeekCovered, TickCovered,
     EmitsCovered DEF Run
<1> QED
  BY <1>1, <1>2, <1>3, <1>4 DEF Next

\* Ticks leave no gap: while no read was abandoned, everything the playback
\* iterator's topics have up to the current time is in a frame or about to be.
THEOREM TicksLeaveNoGap == Spec => []NothingSkipped
<1> DEFINE Inv == IInv /\ WhatStatesFind /\ Debounced /\ Places /\ Covered
<1>1. Init => Inv
  <2> SUFFICES ASSUME Init
               PROVE  Inv
    OBVIOUS
  <2>1. WhatStatesFind
    BY DEF Init, WhatStatesFind
  <2>2. Debounced /\ Places /\ Covered
    BY DEF Init, Debounced, Places, Covered, AwaitingBackfill, Reading
  <2> QED
    BY <2>1, <2>2, InitEstablishesIInv
<1>2. Inv /\ [Next]_vars => Inv'
  <2> SUFFICES ASSUME Inv, [Next]_vars
               PROVE  Inv'
    OBVIOUS
  <2>1. TypeOK /\ AtState /\ BatchIsLocal
    BY DEF IInv
  <2> QED
    BY <2>1, IInvStep, FindStep, DebouncedStep, PlacesStep, CoveredStep
<1>3. Inv => NothingSkipped
  <2> SUFFICES ASSUME Inv, contiguous, pc \notin {"startRead", "startDone"}
               PROVE  Due \subseteq heard \union messages
    BY DEF NothingSkipped
  <2>1. Reached \subseteq heard \union messages
    BY DEF Reached
  <2>2. \A i \in Due : i \in Messages /\ Wanted(i) /\ Log[i].time <= currentTime
    BY DEF Due, Wanted
  <2> QED
    BY <2>1, <2>2 DEF Covered, Gapless
<1> QED
  BY <1>1, <1>2, <1>3, PTL DEF Spec

-----------------------------------------------------------------------------
(* Part 3: the contract.                                                  *)

-----------------------------------------------------------------------------
(* The invariant.                                                          *)

\* What the playback iterator has still to yield.
Unread == {i \in Messages : Wanted(i) /\ i >= iterator.pos}

\* Messages that may be told now: after a seek one of each topic, and otherwise
\* only what follows everything heard.
Deliverable(ms, seek) ==
  IF seek
  THEN \A i, j \in ms : Log[i].topic = Log[j].topic => i = j
  ELSE \A i \in ms, j \in heard : j < i

\* What has reached the listener or waits for it, what the tick has read, what
\* was read ahead and what is unread follow each other in the log.
InOrder ==
  /\ \A j \in Reached : /\ \A i \in batch \union Unread : j < i
                        /\ lastMessage # NoMessage => j < lastMessage
  /\ \A j \in batch : /\ \A i \in Unread : j < i
                      /\ lastMessage # NoMessage => j < lastMessage
  /\ lastMessage # NoMessage => \A i \in Unread : lastMessage < i

\* There is an iterator, or one will be opened at the current time.
Playable ==
  \/ iterator # NoIterator \/ pc = "reset"
  \/ state = "reset-playback-iterator" \/ nextState = "reset-playback-iterator"

\* While that is so, the current time is not before what was heard; nor is a
\* message emitted in a frame whose time is before that of the frame before it.
InTime ==
  /\ Playable => \A i \in Reached : Log[i].time <= currentTime
  /\ (Playable \/ messages # {}) /\ ~seekEmit => frame.time <= currentTime

\* All this is so until a tick goes back in time.
Ordered ==
  ~hasError /\ ~rewound => Deliverable(messages, seekEmit) /\ InOrder /\ InTime

\* The player has not yet read the beginning of the data.
Beginning ==
  \/ state \in {"preinit", "initialize"}
  \/ state = "start-play" /\ pc \in {"endIterator", "enter", "startRead", "startDone"}

\* Until then the listener has heard nothing, and time has not begun unless a
\* seek was requested.
Fresh ==
  /\ nextState = "start-play" => state = "initialize"
  /\ state = "start-play" => ~seekEmit
  /\ Beginning =>
       /\ heard = {} /\ messages = {} /\ ~seekEmit
       /\ seekTarget = NoTime \/ pc \in {"startRead", "startDone"} =>
            frame.time <= currentTime /\ currentTime <= 0

-----------------------------------------------------------------------------
(* What a step emits.                                                      *)

\* The step emits a frame with these messages, or leaves them to be emitted.
Offers(ms, seek) ==
  \/ EmitFrame(ms, seek)
  \/ /\ messages' = ms /\ seekEmit' = seek
     /\ UNCHANGED <<frame, heard>>

\* #queueEmitState offers what it is given, the listener's answer what waits.
LEMMA QueueEmitOffers ==
  ASSUME NEW ms, NEW seek, QueueEmit(ms, seek)
  PROVE  Offers(ms, seek)
BY DEF QueueEmit, Offers

LEMMA ListenerOffers ==
  ASSUME ListenerResolves
  PROVE  Offers(messages, seekEmit)
BY DEF ListenerResolves, Offers

LEMMA NothingOffered ==
  ASSUME UNCHANGED <<messages, seekEmit, frame, heard>>
  PROVE  Offers(messages, seekEmit)
BY DEF Offers

\* Without an error, what is offered has reached the listener or waits.
LEMMA OffersReach ==
  ASSUME NEW ms, NEW seek, Offers(ms, seek), ~hasError'
  PROVE  /\ Reached' = ms \union (IF seek THEN {} ELSE heard)
         /\ \/ /\ frame'.time = currentTime' /\ messages' = {} /\ ~seekEmit'
            \/ /\ UNCHANGED <<frame, heard>> /\ messages' = ms /\ seekEmit' = seek
BY DEF Offers, EmitFrame, CurrentFrame, Reached

\* What is deliverable stays so while it waits.
LEMMA StaysDeliverable ==
  ASSUME NEW ms, NEW seek, Offers(ms, seek), ~hasError', Deliverable(ms, seek)
  PROVE  Deliverable(messages, seekEmit)'
<1>1. CASE messages' = {}
  BY <1>1 DEF Deliverable
<1>2. CASE messages' = ms /\ seekEmit' = seek /\ heard' = heard
  BY <1>2 DEF Deliverable
<1> QED
  BY <1>1, <1>2, OffersReach

\* What the contract asks of what is offered.
Honest(ms, seek) ==
  /\ Deliverable(ms, seek)
  /\ \A i \in ms : Log[i].time <= currentTime'
  /\ ms # {} /\ ~seek => frame.time <= currentTime'

\* To offer what may be delivered is a step of the contract.
LEMMA HonestStep ==
  ASSUME NEW ms \in SUBSET Messages, NEW seek \in BOOLEAN, Offers(ms, seek),
         ~hasError' => Honest(ms, seek)
  PROVE  [Contract!Next]_<<frame, heard>>
<1> SUFFICES ASSUME EmitFrame(ms, seek)
             PROVE  Contract!Next
  BY DEF Offers
<1>1. CASE hasError'
  <2>1. frame' = NoFrame /\ heard' = heard
    BY <1>1 DEF EmitFrame, CurrentFrame
  <2> QED
    BY <2>1 DEF NoFrame, Contract!Next, Contract!Play, Contract!Fit
<1>2. CASE ~hasError'
  <2>1. /\ frame'.time = currentTime' /\ frame'.messages = ms /\ frame'.seek = seek
        /\ heard' = IF seek THEN ms ELSE heard \union ms
    BY <1>2 DEF EmitFrame, CurrentFrame
  <2>2. \A i \in ms : Log[i].time <= currentTime'
    BY <1>2 DEF Honest
  <2>3. CASE seek
    BY <1>2, <2>1, <2>2, <2>3
    DEF Honest, Deliverable, Contract!Next, Contract!Seek, Contract!Fit
  <2>4. CASE ~seek
    <3>1. ms # {} => frame.time <= frame'.time
      BY <1>2, <2>1, <2>4 DEF Honest
    <3>2. ms # {} => frame'.time >= frame.time
      BY <3>1
    <3> QED
      BY <1>2, <2>1, <2>2, <2>4, <3>2
      DEF Honest, Deliverable, Contract!Next, Contract!Play, Contract!Fit
  <2> QED
    BY <2>3, <2>4
<1> QED
  BY <1>1, <1>2

-----------------------------------------------------------------------------
(* The steps that repeat what waits, and move no time.                     *)

Repeats == Offers(messages, seekEmit) /\ UNCHANGED <<currentTime, rewound>>

\* The steps of the run loop that emit at most what waits.
RunRepeats ==
  \/ RunNextState \/ IteratorEnded \/ EnterInitialize \/ StartDelayEnds
  \/ EnterStartPlay /\ seekTarget # NoTime
  \/ ReadAbandoned \/ ReadMessage \/ ReadMessageBeyondEnd \/ ReadStamp \/ ReadDone
  \/ EnterPlay \/ PlayStops \/ PlayReachesEnd \/ Tick \/ TickEnds \/ FrameDelayEnds
  \/ EnterIdle \/ IdleEnds \/ EnterSeekBackfill \/ BackfillSuperseded
  \/ EnterResetPlaybackIterator \/ IteratorReset \/ EnterClose \/ Closed

LEMMA CallsRepeat ==
  ASSUME Calls
  PROVE  Repeats
<1>1. UNCHANGED <<currentTime, rewound>>
  BY DEF Calls, SetListener, StartPlay, PausePlayback, SeekPlayback, SetSubscriptions, Close,
         QueueEmitFromOutside, reading
<1>2. UNCHANGED emission \/ QueueEmit(messages, seekEmit)
  BY DEF Calls, SetListener, StartPlay, PausePlayback, SeekPlayback, SetSubscriptions, Close,
         QueueEmitFromOutside
<1> QED
  BY <1>1, <1>2, QueueEmitOffers, NothingOffered DEF emission, Repeats

LEMMA RunStepsRepeat ==
  ASSUME RunRepeats
  PROVE  Repeats
<1>1. UNCHANGED <<currentTime, rewound>>
  BY DEF RunRepeats, RunNextState, IteratorEnded, EnterInitialize, StartDelayEnds,
         EnterStartPlay, ReadAbandoned, ReadMessage, ReadMessageBeyondEnd, ReadStamp, NextEntry,
         ReadDone, EnterPlay, PlayStops, PlayReachesEnd, Tick, TickEnds, FrameDelayEnds,
         EnterIdle, IdleEnds, EnterSeekBackfill, BackfillSuperseded, EnterResetPlaybackIterator,
         IteratorReset, EnterClose, Closed, reading
<1>2. UNCHANGED emission \/ QueueEmit(messages, seekEmit)
  BY DEF RunRepeats, RunNextState, IteratorEnded, EnterInitialize, StartDelayEnds,
         EnterStartPlay, ReadAbandoned, ReadMessage, ReadMessageBeyondEnd, ReadStamp, NextEntry,
         ReadDone, EnterPlay, PlayStops, PlayReachesEnd, Tick, TickEnds, FrameDelayEnds,
         EnterIdle, IdleEnds, EnterSeekBackfill, BackfillSuperseded, EnterResetPlaybackIterator,
         IteratorReset, EnterClose, Closed
<1> QED
  BY <1>1, <1>2, QueueEmitOffers, NothingOffered DEF emission, Repeats

LEMMA OthersRepeat ==
  ASSUME Failures \/ ListenerResolves \/ UNCHANGED vars
  PROVE  Repeats
<1>1. CASE Failures
  BY <1>1, QueueEmitOffers
  DEF Failures, EndIteratorFails, InitializeFails, ReadFails, BackfillFails, ResetFails,
      CloseFails, Fail, Repeats
<1>2. CASE ListenerResolves
  BY <1>2, ListenerOffers DEF ListenerResolves, reading, Repeats
<1>3. CASE UNCHANGED vars
  BY <1>3, NothingOffered DEF vars, reading, emission, Repeats
<1> QED
  BY <1>1, <1>2, <1>3

\* What waits may be delivered.
LEMMA RepeatIsHonest ==
  ASSUME TypeOK, NeverAhead, Ordered, ~hasError, ~rewound, UNCHANGED currentTime
  PROVE  Honest(messages, seekEmit)
BY DEF Ordered, InTime, NeverAhead, Honest

\* A step that repeats what waits, reads nothing new and opens no iterator keeps
\* the order.
LEMMA StillOrdered ==
  ASSUME TypeOK, NeverAhead, Ordered, ~hasError, ~rewound, ~hasError', Repeats,
         Unread' \subseteq Unread, batch' \subseteq batch,
         lastMessage' \in {lastMessage, NoMessage}, Playable' => Playable
  PROVE  InOrder' /\ InTime'
<1>1. Reached' = Reached /\ messages' \in {messages, {}} /\ currentTime' = currentTime
  BY OffersReach DEF Repeats, Reached
<1>2. InOrder /\ InTime
  BY DEF Ordered
<1>3. InOrder'
  <2>1. \A j \in Reached' : /\ \A i \in batch' \union Unread' : j < i
                            /\ lastMessage' # NoMessage => j < lastMessage'
    BY <1>1, <1>2 DEF InOrder
  <2>2. \A j \in batch' : /\ \A i \in Unread' : j < i
                          /\ lastMessage' # NoMessage => j < lastMessage'
    BY <1>2 DEF InOrder
  <2>3. lastMessage' # NoMessage => \A i \in Unread' : lastMessage' < i
    BY <1>2 DEF InOrder
  <2> QED
    BY <2>1, <2>2, <2>3 DEF InOrder
<1>4. currentTime \in Int
  BY AccountTypes
<1>5. InTime'
  BY <1>1, <1>2, <1>4, OffersReach DEF InTime, Repeats
<1> QED
  BY <1>3, <1>5

\* So it is with calls, and with the steps of the run loop that only go on.
RunStill ==
  \/ RunNextState \/ IteratorEnded \/ EnterInitialize \/ StartDelayEnds
  \/ EnterStartPlay /\ seekTarget # NoTime
  \/ EnterPlay \/ PlayStops \/ PlayReachesEnd \/ TickEnds \/ FrameDelayEnds
  \/ EnterIdle \/ IdleEnds \/ EnterSeekBackfill \/ BackfillSuperseded
  \/ EnterResetPlaybackIterator \/ EnterClose \/ Closed

LEMMA StillSteps ==
  ASSUME AtState, BatchIsLocal, WhatStatesFind,
         Calls \/ RunStill \/ ListenerResolves \/ UNCHANGED vars
  PROVE  /\ Unread' \subseteq Unread
         /\ batch' \subseteq batch
         /\ lastMessage' \in {lastMessage, NoMessage}
         /\ Playable' => Playable
<1>1. CASE Calls
  <2>1. /\ UNCHANGED <<state, iterator, batch, lastMessage>>
        /\ pc' = pc \/ pc' = "start"
        /\ nextState' = "reset-playback-iterator" => nextState = nextState'
    BY <1>1
    DEF Calls, SetListener, StartPlay, PausePlayback, SeekPlayback, SetSubscriptions, Close,
        QueueEmitFromOutside, SetStateFromOutside, SetState, Requested, control, reading
  <2> QED
    BY <2>1 DEF Unread, Wanted, Playable
<1>2. CASE IteratorEnded
  <2>1. Unread' = {}
    BY <1>2 DEF IteratorEnded, NoIterator, Unread, Wanted
  <2> QED
    BY <1>2, <2>1 DEF IteratorEnded, Playable
<1>2a. CASE TickEnds
  <2>1. state = "play" /\ iterator # NoIterator
    BY <1>2a DEF TickEnds, AtState, WhatStatesFind
  <2> QED
    BY <1>2a, <2>1 DEF TickEnds, Playable, Unread, Wanted
<1>3. CASE RunStill /\ ~IteratorEnded /\ ~TickEnds
  <2>1. UNCHANGED <<iterator, batch>> /\ lastMessage' \in {lastMessage, NoMessage}
    BY <1>3
    DEF RunStill, RunNextState, EnterInitialize, StartDelayEnds, EnterStartPlay, EnterPlay,
        PlayStops, PlayReachesEnd, FrameDelayEnds, EnterIdle, IdleEnds, EnterSeekBackfill,
        BackfillSuperseded, EnterResetPlaybackIterator, EnterClose, Closed, reading
  <2>2. Playable' => Playable
    BY <1>3, <2>1
    DEF RunStill, RunNextState, EnterInitialize, StartDelayEnds, EnterStartPlay, EnterPlay,
        PlayStops, PlayReachesEnd, FrameDelayEnds, EnterIdle, IdleEnds, EnterSeekBackfill,
        BackfillSuperseded, EnterResetPlaybackIterator, EnterClose, Closed, SetState, Requested,
        Playable
  <2> QED
    BY <2>1, <2>2 DEF Unread, Wanted
<1>4. CASE ListenerResolves \/ UNCHANGED vars
  BY <1>4 DEF ListenerResolves, vars, control, reading, Unread, Wanted, Playable
<1> QED
  BY <1>1, <1>2, <1>2a, <1>3, <1>4

-----------------------------------------------------------------------------
(* Reading, ticks and seeks.                                               *)

\* The state the steps start from.
Sound == TypeOK /\ AtState /\ BatchIsLocal /\ NeverAhead /\ WhatStatesFind /\ Places /\ Fresh

\* An entry read goes behind everything read before it.
LEMMA ReadOrdered ==
  ASSUME Sound, Ordered, ~hasError, ~rewound, ~hasError', RunRepeats,
         ReadAbandoned \/ ReadMessage \/ ReadMessageBeyondEnd \/ ReadStamp \/ ReadDone
  PROVE  InOrder' /\ InTime'
<1>0. Repeats /\ TypeOK /\ NeverAhead
  BY RunStepsRepeat DEF Sound
<1>1. Reading /\ Playable /\ lastMessage = NoMessage
  BY DEF ReadAbandoned, ReadMessage, ReadMessageBeyondEnd, ReadStamp, ReadDone, NextEntry,
         Reading, Sound, WhatStatesFind, AtState, Places, Playable
<1>2. InOrder /\ InTime
  BY DEF Ordered
<1>3. /\ Reached' = Reached /\ Reached \in SUBSET Messages /\ batch \in SUBSET Messages
      /\ Unread \subseteq Messages /\ Messages \subseteq Int /\ iterator.pos \in Int
  BY <1>0, OffersReach, AccountTypes
  DEF Repeats, Reached, TypeOK, EmissionTypeOK, ReadingTypeOK, Unread
<1>4. ASSUME NEW i \in 1..Len(Log), NextEntry(i)
      PROVE  /\ Unread' = Unread \ {i}
             /\ \A j \in Unread : i <= j
             /\ i \in Messages => i \in Unread
             /\ UNCHANGED <<messages, seekEmit, heard, frame, currentTime>>
  <2>1. /\ \A j : Wanted(j)' = Wanted(j)
        /\ iterator'.pos = i + 1 /\ iterator.pos <= i
        /\ \A j \in Messages : Wanted(j) /\ j >= iterator.pos => i <= j
    BY <1>0, <1>4, ReadsNext
  <2>2. i \in Messages => Wanted(i)
    BY <1>4 DEF NextEntry, Remaining, Wanted, Messages
  <2>3. i \in Int
    OBVIOUS
  <2>4. \A j \in Messages : j >= i + 1 <=> (j >= iterator.pos /\ j # i /\ i <= j)
    BY <1>3, <2>1, <2>3
  <2>5. Unread' = Unread \ {i}
    BY <2>1, <2>4 DEF Unread
  <2>6. UNCHANGED <<messages, seekEmit, heard, frame, currentTime>>
    BY <1>4 DEF NextEntry, emission
  <2>7. \A j \in Unread : i <= j
    BY <2>1 DEF Unread
  <2>8. i \in Messages => i \in Unread
    BY <1>3, <2>1, <2>2, <2>3 DEF Unread
  <2> QED
    BY <2>5, <2>6, <2>7, <2>8
<1>5. CASE ReadAbandoned \/ ReadStamp \/ ReadDone
  <2>1. batch' \subseteq batch /\ lastMessage' = lastMessage /\ Unread' \subseteq Unread
    <3>1. CASE ReadDone
      BY <3>1 DEF ReadDone, Unread, Wanted
    <3>2. CASE ReadAbandoned \/ ReadStamp
      BY <1>4, <3>2 DEF ReadAbandoned, ReadStamp
    <3> QED
      BY <1>5, <3>1, <3>2
  <2> QED
    BY <1>0, <1>1, <2>1, StillOrdered
<1>6. CASE ReadMessage
  <2>1. PICK i \in Messages :
          /\ NextEntry(i)
          /\ batch' = batch \union {i} /\ lastMessage' = lastMessage
    BY <1>6 DEF ReadMessage
  <2>2. i \in 1..Len(Log)
    BY DEF Messages
  <2>3. Unread' = Unread \ {i} /\ (\A j \in Unread : i <= j) /\ i \in Unread
    BY <1>4, <2>1, <2>2
  <2>4. \A j \in Unread' : i < j
    BY <1>3, <2>3
  <2>5. InOrder'
    BY <1>1, <1>2, <1>3, <2>1, <2>3, <2>4 DEF InOrder
  <2>6. InTime'
    BY <1>1, <1>2, <1>3, <1>4, <2>1, <2>2 DEF InTime
  <2> QED
    BY <2>5, <2>6
<1>7. CASE ReadMessageBeyondEnd
  <2>1. PICK i \in Messages :
          /\ NextEntry(i)
          /\ lastMessage' = i /\ batch' = batch
    BY <1>7 DEF ReadMessageBeyondEnd
  <2>2. i \in 1..Len(Log)
    BY DEF Messages
  <2>3. Unread' = Unread \ {i} /\ (\A j \in Unread : i <= j) /\ i \in Unread
    BY <1>4, <2>1, <2>2
  <2>4. \A j \in Unread' : i < j
    BY <1>3, <2>3
  <2>5. InOrder'
    BY <1>1, <1>2, <1>3, <2>1, <2>3, <2>4 DEF InOrder
  <2>6. InTime'
    BY <1>1, <1>2, <1>3, <1>4, <2>1, <2>2 DEF InTime
  <2> QED
    BY <2>5, <2>6
<1> QED
  BY <1>5, <1>6, <1>7

\* A tick may begin with the message read ahead.
LEMMA TickOrdered ==
  ASSUME Sound, Ordered, ~hasError, ~rewound, ~hasError', Tick
  PROVE  InOrder' /\ InTime'
<1>1. PICK range \in 1..MaxTick : TickTo(TickEnd(range))
  BY DEF Tick
<1>2. /\ UNCHANGED <<iterator, currentTime, messages, seekEmit, heard, frame, state, nextState>>
      /\ batch = {} /\ pc = "play" /\ pc' # "reset"
  BY <1>1 DEF Tick, TickTo, emission, Sound, BatchIsLocal
<1>3. Reached' = Reached /\ Unread' = Unread /\ (Playable' => Playable)
  BY <1>2 DEF Reached, Unread, Wanted, Playable
<1>4. InOrder /\ InTime /\ Playable
  BY <1>2 DEF Ordered, Sound, AtState, WhatStatesFind, Playable
<1>5. \/ batch' = batch /\ lastMessage' = lastMessage
      \/ batch' = {lastMessage} \ {NoMessage} /\ lastMessage' = NoMessage
  BY <1>1 DEF TickTo
<1>6. InOrder'
  BY <1>2, <1>3, <1>4, <1>5 DEF InOrder
<1>7. InTime'
  BY <1>2, <1>3, <1>4 DEF InTime
<1> QED
  BY <1>6, <1>7

\* A new iterator yields nothing up to the current time.
LEMMA OpenedOrdered ==
  ASSUME Sound, Ordered, ~hasError, ~rewound, ~hasError',
         IteratorReset \/ (EnterStartPlay /\ seekTarget = NoTime)
  PROVE  InOrder' /\ InTime'
<1>1. CASE IteratorReset
  <2>1. /\ iterator' = Open(allTopics, currentTime + 1)
        /\ UNCHANGED <<currentTime, messages, seekEmit, heard, frame>>
        /\ batch' = {} /\ lastMessage' = NoMessage /\ Playable
    BY <1>1 DEF IteratorReset, Sound, BatchIsLocal, Places, Playable, emission
  <2>2. Reached' = Reached /\ InTime
    BY <2>1 DEF Reached, Ordered
  <2>3. ASSUME NEW j \in Reached, NEW i \in Unread'
        PROVE  j < i
    <3>1. i \in Messages /\ j \in Messages
      BY DEF Unread, Reached, Sound, TypeOK, EmissionTypeOK
    <3>2. currentTime + 1 <= Log[i].time /\ Log[j].time <= currentTime
      BY <2>1, <2>2, <2>3 DEF Unread, Wanted, Open, InTime
    <3>3. /\ i \in 1..Len(Log) /\ j \in 1..Len(Log) /\ i \in Int /\ j \in Int
          /\ Log[i].time \in Int /\ Log[j].time \in Int /\ currentTime \in Int
      BY <3>1, LogOrdered, AccountTypes DEF Messages, Sound
    <3>4. i <= j => Log[i].time <= Log[j].time
      BY <3>3, LogOrdered
    <3> QED
      BY <3>2, <3>3, <3>4
  <2>4. InOrder'
    BY <2>1, <2>2, <2>3 DEF InOrder
  <2>5. InTime'
    BY <2>1, <2>2 DEF InTime
  <2> QED
    BY <2>4, <2>5
<1>2. CASE EnterStartPlay /\ seekTarget = NoTime
  <2>1. /\ messages' = {} /\ UNCHANGED <<seekEmit, heard, frame, currentTime>>
        /\ batch' = {} /\ lastMessage' = NoMessage
        /\ heard = {} /\ frame.time <= currentTime
    BY <1>2 DEF EnterStartPlay, Sound, Fresh, Beginning
  <2>2. Reached' = {}
    BY <2>1 DEF Reached
  <2> QED
    BY <2>1, <2>2 DEF InOrder, InTime
<1> QED
  BY <1>1, <1>2

\* While there is no iterator the current time may go anywhere; the backfill
\* of a seek is one message of each topic and not later than it.
LEMMA SeekOrdered ==
  ASSUME Sound, Ordered, ~hasError', Initialized \/ SeekAckTimeout \/ BackfillLoaded,
         BackfillLoaded \/ ~rewound, ~hasError
  PROVE  \E ms \in SUBSET Messages, seek \in BOOLEAN :
           Offers(ms, seek) /\ Honest(ms, seek) /\ InOrder' /\ InTime'
<1>1. CASE Initialized \/ SeekAckTimeout
  <2>1. messages = {} \/ SeekAckTimeout
    BY <1>1 DEF Initialized, Sound, AtState, Fresh, Beginning
  <2>2. Offers({}, seekEmit)
    BY <1>1, <2>1, QueueEmitOffers DEF Initialized, SeekAckTimeout
  <2>3. Honest({}, seekEmit)
    BY DEF Honest, Deliverable
  <2>4. messages' = {} /\ Reached' \subseteq Reached
    BY <2>2, OffersReach DEF Reached
  <2>5. ~Playable' /\ UNCHANGED <<iterator, batch, lastMessage>>
    BY <1>1
    DEF Initialized, SeekAckTimeout, Sound, AtState, AwaitingBackfill, Places, Playable, reading
  <2>6. Unread' = Unread
    BY <2>5 DEF Unread, Wanted
  <2>7. InOrder
    BY <1>1 DEF Ordered, Initialized, SeekAckTimeout, BackfillLoaded, AwaitingBackfill
  <2>8. InOrder'
    BY <2>4, <2>5, <2>6, <2>7 DEF InOrder
  <2>9. InTime'
    BY <2>4, <2>5 DEF InTime
  <2>10. seekEmit \in BOOLEAN
    BY DEF Sound, TypeOK, EmissionTypeOK
  <2> QED
    BY <2>2, <2>3, <2>8, <2>9, <2>10
<1>2. CASE BackfillLoaded
  <2> DEFINE ms == Backfill(readTopics, readEnd)
  <2>1. Offers(ms, TRUE) /\ currentTime' = readEnd
    BY <1>2, QueueEmitOffers DEF BackfillLoaded
  <2>2. ms \in SUBSET Messages /\ \A i \in ms : Log[i].time <= readEnd
    BY BackfillInTime
  <2>3. \A i, j \in ms : Log[i].topic = Log[j].topic => i <= j /\ j <= i
    BY DEF Backfill
  <2>4. Messages \subseteq Int /\ readEnd \in Int
    BY AccountTypes DEF Sound
  <2>5. Deliverable(ms, TRUE)
    BY <2>2, <2>3, <2>4 DEF Deliverable
  <2>6. Honest(ms, TRUE)
    BY <2>1, <2>2, <2>5 DEF Honest
  <2>7. Reached' = ms /\ (frame'.time = currentTime' \/ seekEmit')
    BY <2>1, OffersReach
  <2>8. batch' = {} /\ lastMessage' = NoMessage /\ iterator' = NoIterator
    BY <1>2 DEF BackfillLoaded, AwaitingBackfill, Sound, BatchIsLocal, Places
  <2>9. InOrder'
    BY <2>8 DEF InOrder, Unread, Wanted, NoIterator
  <2>10. InTime'
    BY <2>1, <2>2, <2>4, <2>7 DEF InTime
  <2> HIDE DEF ms
  <2> QED
    BY <2>1, <2>2, <2>6, <2>9, <2>10
<1> QED
  BY <1>1, <1>2

\* What start-play or a tick has read follows what was heard, and becomes the
\* frame of the time it read to.
LEMMA EmitsOrdered ==
  ASSUME Sound, Ordered, ~hasError, ~rewound, ~hasError', ~rewound',
         StartPlayReads \/ TickEmits
  PROVE  \E ms \in SUBSET Messages, seek \in BOOLEAN :
           Offers(ms, seek) /\ Honest(ms, seek) /\ InOrder' /\ InTime'
<1>1. /\ Offers(batch, FALSE) /\ Reached = heard /\ ~seekEmit
      /\ currentTime' = readEnd /\ batch' = {} /\ iterator' = iterator
      /\ lastMessage' \in {lastMessage, NoMessage}
  <2>1. Offers(batch, seekEmit)
    BY QueueEmitOffers DEF StartPlayReads, TickEmits
  <2>2. messages = {} /\ seekEmit = FALSE
    <3>1. seekEmit \in BOOLEAN
      BY DEF Sound, TypeOK, EmissionTypeOK
    <3>2. CASE StartPlayReads
      BY <3>1, <3>2 DEF StartPlayReads, Sound, AtState, Fresh, Places
    <3>3. CASE TickEmits
      BY <3>1, <3>3 DEF TickEmits, Sound, Places
    <3> QED
      BY <3>2, <3>3
  <2> QED
    BY <2>1, <2>2 DEF StartPlayReads, TickEmits, Reached
<1>2. InOrder /\ InTime
  BY DEF Ordered
<1>3. \A i \in batch : Log[i].time <= readEnd
  BY DEF Sound, NeverAhead
<1>4. /\ batch \in SUBSET Messages /\ heard \in SUBSET Messages
      /\ readEnd \in Int /\ 0 <= readEnd /\ currentTime \in Int
      /\ frame.time \in Int
  BY AccountTypes, LogAssumption
  DEF Sound, TypeOK, ReadingTypeOK, EmissionTypeOK, Times, NoTime
<1>5. frame.time <= readEnd /\ \A i \in Reached : Log[i].time <= readEnd
  <2>1. CASE StartPlayReads
    <3>1. heard = {} /\ frame.time <= currentTime /\ currentTime <= 0
      BY <2>1 DEF StartPlayReads, Sound, AtState, Fresh, Beginning
    <3> QED
      BY <1>1, <1>4, <3>1
  <2>2. CASE TickEmits
    <3>1. Playable
      BY <2>2 DEF TickEmits, Sound, AtState, WhatStatesFind, Playable
    <3>2. currentTime <= readEnd
      <4>1. ~(readEnd < currentTime)
        BY <2>2 DEF TickEmits
      <4> QED
        BY <1>4, <4>1
    <3>3. \A i \in Reached : Log[i].time \in Int
      BY <1>1, <1>4, LogOrdered DEF Messages
    <3> QED
      BY <1>1, <1>2, <1>4, <3>1, <3>2, <3>3 DEF InTime
  <2> QED
    BY <2>1, <2>2
<1>6. Honest(batch, FALSE)
  BY <1>1, <1>2, <1>3, <1>5 DEF Honest, Deliverable, InOrder
<1>7. Reached' = batch \union Reached
  BY <1>1, OffersReach
<1>8. Unread' = Unread
  BY <1>1 DEF Unread, Wanted
<1>9. InOrder'
  BY <1>1, <1>2, <1>7, <1>8 DEF InOrder
<1>10. InTime'
  <2>1. frame'.time = currentTime' \/ frame' = frame
    BY <1>1, OffersReach
  <2> QED
    BY <1>1, <1>3, <1>4, <1>5, <1>7, <2>1 DEF InTime
<1> QED
  BY <1>1, <1>4, <1>6, <1>9, <1>10

\* Whatever the step, what it offers honours the contract, and the order is kept.
LEMMA StepIsOrdered ==
  ASSUME Sound, Ordered, [Next]_vars, ~hasError', ~rewound'
  PROVE  /\ \/ \E ms \in SUBSET Messages, seek \in BOOLEAN : Offers(ms, seek) /\ Honest(ms, seek)
            \/ EnterStartPlay /\ seekTarget = NoTime
         /\ InOrder' /\ InTime'
<1>0. /\ ~hasError /\ TypeOK /\ NeverAhead /\ AtState /\ BatchIsLocal
      /\ WhatStatesFind /\ messages \in SUBSET Messages /\ seekEmit \in BOOLEAN
  BY ErrorsStay DEF Sound, TypeOK, EmissionTypeOK
<1>1. ASSUME Repeats
      PROVE  /\ ~rewound
             /\ \E ms \in SUBSET Messages, seek \in BOOLEAN : Offers(ms, seek) /\ Honest(ms, seek)
  <2>1. ~rewound /\ Offers(messages, seekEmit)
    BY <1>1 DEF Repeats
  <2>2. Honest(messages, seekEmit)
    BY <1>0, <1>1, <2>1, RepeatIsHonest DEF Repeats
  <2> QED
    BY <1>0, <2>1, <2>2
<1>2. CASE Calls \/ RunStill \/ ListenerResolves \/ UNCHANGED vars
  <2>1. Repeats
    BY <1>2, CallsRepeat, RunStepsRepeat, OthersRepeat DEF RunStill, RunRepeats
  <2> QED
    BY <1>0, <1>1, <1>2, <2>1, StillSteps, StillOrdered
<1>3. CASE ReadAbandoned \/ ReadMessage \/ ReadMessageBeyondEnd \/ ReadStamp \/ ReadDone
  <2>1. Repeats /\ RunRepeats
    BY <1>3, RunStepsRepeat DEF RunRepeats
  <2> QED
    BY <1>0, <1>1, <1>3, <2>1, ReadOrdered
<1>4. CASE Tick
  <2>1. Repeats
    BY <1>4, RunStepsRepeat DEF RunRepeats
  <2> QED
    BY <1>0, <1>1, <1>4, <2>1, TickOrdered
<1>5. CASE IteratorReset
  <2>1. Repeats
    BY <1>5, RunStepsRepeat DEF RunRepeats
  <2> QED
    BY <1>0, <1>1, <1>5, <2>1, OpenedOrdered
<1>6. CASE EnterStartPlay /\ seekTarget = NoTime
  <2>1. ~rewound
    BY <1>6 DEF EnterStartPlay
  <2> QED
    BY <1>0, <1>6, <2>1, OpenedOrdered
<1>7. CASE Initialized \/ SeekAckTimeout \/ BackfillLoaded
  <2>1. BackfillLoaded \/ ~rewound
    BY <1>7 DEF Initialized, SeekAckTimeout, reading
  <2> QED
    BY <1>0, <1>7, <2>1, SeekOrdered
<1>8. CASE StartPlayReads \/ TickEmits
  <2>1. ~rewound
    BY <1>8 DEF StartPlayReads, TickEmits
  <2> QED
    BY <1>0, <1>8, <2>1, EmitsOrdered
<1>9. CASE Failures
  BY <1>9
  DEF Failures, EndIteratorFails, InitializeFails, ReadFails, BackfillFails, ResetFails,
      CloseFails, Fail
<1> QED
  BY <1>2, <1>3, <1>4, <1>5, <1>6, <1>7, <1>8, <1>9 DEF Next, Run, RunStill

\* Every step keeps the order.
LEMMA OrderedStep ==
  ASSUME Sound, Ordered, [Next]_vars
  PROVE  Ordered'
<1> SUFFICES ASSUME ~hasError', ~rewound'
             PROVE  Deliverable(messages, seekEmit)' /\ InOrder' /\ InTime'
  BY DEF Ordered
<1>1. InOrder' /\ InTime'
  BY StepIsOrdered
<1>2. CASE \E ms \in SUBSET Messages, seek \in BOOLEAN : Offers(ms, seek) /\ Honest(ms, seek)
  BY <1>1, <1>2, StaysDeliverable DEF Honest
<1>3. CASE EnterStartPlay /\ seekTarget = NoTime
  <2>1. messages' = {}
    BY <1>3 DEF EnterStartPlay
  <2> QED
    BY <1>1, <2>1 DEF Deliverable
<1> QED
  BY <1>2, <1>3, StepIsOrdered

-----------------------------------------------------------------------------
(* The beginning.                                                          *)

\* A step that repeats what waits, stays where it is and begins no time.
LEMMA StillFresh ==
  ASSUME TypeOK, Fresh, Repeats, state' = state,
         nextState' = "start-play" => nextState = "start-play",
         Beginning' => Beginning,
         seekTarget' = NoTime => seekTarget = NoTime,
         pc' \in {"startRead", "startDone"} => pc \in {"startRead", "startDone"}
  PROVE  Fresh'
<1>1. /\ currentTime' = currentTime
      /\ (seekEmit' => seekEmit) /\ messages' \in {messages, {}}
      /\ messages = {} /\ ~seekEmit /\ heard = {} => heard' = {}
      /\ frame'.time \in {frame.time, currentTime, NoTime}
  <2>1. Offers(messages, seekEmit) /\ currentTime' = currentTime
    BY DEF Repeats
  <2>2. CASE EmitFrame(messages, seekEmit) /\ hasError'
    BY <2>1, <2>2 DEF EmitFrame, CurrentFrame, NoFrame
  <2>3. CASE EmitFrame(messages, seekEmit) /\ ~hasError'
    BY <2>1, <2>3 DEF EmitFrame, CurrentFrame
  <2>4. CASE UNCHANGED <<messages, seekEmit, frame, heard>>
    BY <2>1, <2>4
  <2> QED
    BY <2>1, <2>2, <2>3, <2>4 DEF Offers
<1>2. NoTime <= currentTime /\ currentTime <= currentTime
  BY DEF TypeOK, RequestTypeOK, Times, NoTime
<1>3. nextState' = "start-play" => state' = "initialize"
  BY DEF Fresh
<1>4. state' = "start-play" => ~seekEmit'
  BY <1>1 DEF Fresh
<1>5. ASSUME Beginning'
      PROVE  /\ heard' = {} /\ messages' = {} /\ ~seekEmit'
             /\ seekTarget' = NoTime \/ pc' \in {"startRead", "startDone"} =>
                  frame'.time <= currentTime' /\ currentTime' <= 0
  <2>1. heard = {} /\ messages = {} /\ ~seekEmit
    BY <1>5 DEF Fresh
  <2>2. seekTarget' = NoTime \/ pc' \in {"startRead", "startDone"} =>
          frame.time <= currentTime /\ currentTime <= 0
    BY <1>5 DEF Fresh
  <2>3. heard' = {} /\ messages' = {} /\ ~seekEmit'
    BY <1>1, <2>1
  <2>4. frame.time <= currentTime => frame'.time <= currentTime
    BY <1>1, <1>2
  <2> QED
    BY <1>1, <2>2, <2>3, <2>4
<1> QED
  BY <1>3, <1>4, <1>5 DEF Fresh

\* Every step keeps what is known of the beginning.
LEMMA FreshStep ==
  ASSUME TypeOK, AtState, WhatStatesFind, Places, Fresh, [Next]_vars
  PROVE  Fresh'
<1>1. CASE Calls
  <2>1. /\ state' = state /\ pc' \in {pc, "start"}
        /\ nextState' = "start-play" => nextState = "start-play"
    BY <1>1, CallsOnlyRequest
    DEF Calls, SetListener, StartPlay, PausePlayback, SeekPlayback, SetSubscriptions, Close,
        QueueEmitFromOutside, SetStateFromOutside, SetState, Requested, control
  <2>2. seekTarget' = NoTime => seekTarget = NoTime
    <3>1. ASSUME NEW t \in SeekTimes, SeekPlayback(t)
          PROVE  seekTarget' # NoTime
      BY <3>1, ClampInTimes, TimesAreDefined, BoundsAssumption DEF SeekPlayback, NoTime
    <3>2. ASSUME NEW topics, SetSubscriptions(topics)
          PROVE  seekTarget' = NoTime => seekTarget = NoTime
      BY <3>2 DEF SetSubscriptions
    <3>3. CASE \/ SetListener \/ PausePlayback \/ Close \/ QueueEmitFromOutside
               \/ \E t : StartPlay(t)
      BY <3>3 DEF SetListener, StartPlay, PausePlayback, Close, QueueEmitFromOutside, request
    <3> QED
      BY <1>1, <3>1, <3>2, <3>3 DEF Calls
  <2> QED
    BY <1>1, <2>1, <2>2, CallsRepeat, StillFresh DEF Beginning
<1>2. CASE RunNextState
  <2>1. UNCHANGED <<heard, messages, seekEmit, seekTarget, frame, currentTime>>
    BY <1>2 DEF RunNextState, request, emission
  <2>2. /\ state' = state \/ state' = nextState
        /\ nextState' = "none" /\ pc' \in {"off", "enter", "endIterator"}
    BY <1>2 DEF RunNextState
  <2>3. Beginning' => Beginning
    <3>1. CASE state' = state /\ nextState = "none"
      BY <1>2, <3>1 DEF RunNextState, Beginning
    <3>2. CASE state' = nextState
      BY <3>2 DEF Beginning, Fresh, AtState
    <3> QED
      BY <1>2, <3>1, <3>2 DEF RunNextState
  <2>4. state' = "start-play" => state \in {"start-play", "initialize"}
    BY <2>2 DEF Fresh
  <2> QED
    BY <2>1, <2>2, <2>3, <2>4 DEF Fresh, Beginning
<1>3. CASE Initialized
  <2>1. /\ state = "initialize" /\ state' = state /\ nextState' = nextState
        /\ pc' = "initDelay" /\ Offers(messages, seekEmit)
    BY <1>3, QueueEmitOffers DEF Initialized, AtState
  <2>2. heard = {} /\ messages = {} /\ ~seekEmit
    BY <2>1 DEF Fresh, Beginning
  <2>3. /\ heard' = {} /\ messages' = {} /\ ~seekEmit'
        /\ frame'.time \in {frame.time, currentTime', NoTime}
    BY <2>1, <2>2 DEF Offers, EmitFrame, CurrentFrame, NoFrame
  <2>4. seekTarget' = NoTime => /\ seekTarget = NoTime /\ currentTime' = 0
                                /\ frame.time <= currentTime /\ currentTime <= 0
    <3>1. seekTarget # NoTime => seekTarget' # NoTime
      <4> SUFFICES ASSUME seekTarget # NoTime
                   PROVE  seekTarget' # NoTime
        OBVIOUS
      <4>1. seekTarget \in Nat
        BY DEF TypeOK, RequestTypeOK
      <4>2. seekTarget' = Clamp(seekTarget)
        BY <1>3 DEF Initialized
      <4> QED
        BY <4>1, <4>2, ClampInTimes, TimesAreDefined
    <3> QED
      BY <1>3, <2>1, <3>1 DEF Initialized, Fresh, Beginning
  <2>5. frame.time \in Int /\ currentTime \in Int /\ NoTime <= 0
    BY AccountTypes DEF TypeOK, EmissionTypeOK, Times, NoTime
  <2>6. seekTarget' = NoTime => frame'.time <= currentTime' /\ currentTime' <= 0
    BY <2>3, <2>4, <2>5
  <2> QED
    BY <2>1, <2>3, <2>6 DEF Fresh, Beginning
<1>4. CASE StartDelayEnds
  BY <1>4
  DEF StartDelayEnds, SetState, Requested, AtState, Fresh, Beginning, request, emission
<1>5. CASE EnterStartPlay /\ seekTarget = NoTime
  <2>1. Beginning /\ state' = state /\ state = "start-play"
    BY <1>5 DEF EnterStartPlay, Beginning
  <2> QED
    BY <1>5, <2>1 DEF EnterStartPlay, Fresh, request
<1>6. CASE StartPlayReads
  <2>1. /\ state = "start-play" /\ state' = state /\ pc' = "loop"
        /\ nextState' # "start-play" /\ Offers(batch, seekEmit) /\ ~seekEmit
    BY <1>6, QueueEmitOffers DEF StartPlayReads, SetState, Requested, AtState, Fresh
  <2>2. ~seekEmit'
    BY <2>1 DEF Offers, EmitFrame
  <2> QED
    BY <2>1, <2>2 DEF Fresh, Beginning
<1>7. CASE TickEmits
  <2>1. state = "play" /\ state' = state /\ nextState' = nextState
    BY <1>7 DEF TickEmits, AtState
  <2> QED
    BY <2>1 DEF Fresh, Beginning
<1>8. CASE SeekAckTimeout \/ BackfillLoaded
  BY <1>8 DEF SeekAckTimeout, BackfillLoaded, AwaitingBackfill, AtState, Fresh, Beginning
<1>9. CASE RunRepeats /\ ~RunNextState /\ ~StartDelayEnds
  <2>1. state' = state
    BY <1>9
    DEF RunRepeats, IteratorEnded, EnterInitialize, EnterStartPlay, ReadAbandoned,
        ReadMessage, ReadMessageBeyondEnd, ReadStamp, NextEntry, ReadDone, EnterPlay,
        PlayStops, PlayReachesEnd, Tick, TickEnds, FrameDelayEnds, EnterIdle, IdleEnds,
        EnterSeekBackfill, BackfillSuperseded, EnterResetPlaybackIterator, IteratorReset,
        EnterClose, Closed
  <2>2. nextState' = "start-play" => nextState = "start-play"
    BY <1>9
    DEF RunRepeats, IteratorEnded, EnterInitialize, EnterStartPlay, ReadAbandoned,
        ReadMessage, ReadMessageBeyondEnd, ReadStamp, NextEntry, ReadDone, EnterPlay,
        PlayStops, PlayReachesEnd, Tick, TickEnds, FrameDelayEnds, EnterIdle, IdleEnds,
        EnterSeekBackfill, BackfillSuperseded, EnterResetPlaybackIterator, IteratorReset,
        EnterClose, Closed, SetState, Requested
  <2>3. /\ Beginning' => Beginning
        /\ pc' \in {"startRead", "startDone"} => pc \in {"startRead", "startDone"}
    BY <1>9, <2>1
    DEF RunRepeats, IteratorEnded, EnterInitialize, EnterStartPlay, ReadAbandoned,
        ReadMessage, ReadMessageBeyondEnd, ReadStamp, NextEntry, ReadDone, EnterPlay,
        PlayStops, PlayReachesEnd, Tick, TickTo, TickEnds, FrameDelayEnds, EnterIdle, IdleEnds,
        EnterSeekBackfill, BackfillSuperseded, EnterResetPlaybackIterator, IteratorReset,
        EnterClose, Closed, AfterRead, Beginning
  <2>4. CASE ~BackfillSuperseded /\ ~IteratorReset
    <3>1. seekTarget' = seekTarget
      BY <1>9, <2>4
      DEF RunRepeats, IteratorEnded, EnterInitialize, EnterStartPlay, ReadAbandoned,
          ReadMessage, ReadMessageBeyondEnd, ReadStamp, NextEntry, ReadDone, EnterPlay,
          PlayStops, PlayReachesEnd, Tick, TickEnds, FrameDelayEnds, EnterIdle, IdleEnds,
          EnterSeekBackfill, EnterResetPlaybackIterator, EnterClose, Closed, request
    <3> QED
      BY <1>9, <2>1, <2>2, <2>3, <3>1, RunStepsRepeat, StillFresh
  <2>5. CASE BackfillSuperseded \/ IteratorReset
    <3>1. state \in {"seek-backfill", "reset-playback-iterator"}
      BY <2>5 DEF BackfillSuperseded, IteratorReset, AtState, AwaitingBackfill
    <3> QED
      BY <2>1, <2>2, <3>1 DEF Fresh, Beginning
  <2> QED
    BY <2>4, <2>5
<1>10. CASE Failures
  <2>1. /\ state' = state /\ nextState' = nextState /\ pc' \in {"loop", "off"}
        /\ pc \in {"endIterator", "initWait", "startRead", "tickRead", "backfill",
                   "backfillAcked", "reset", "closing"}
    BY <1>10
    DEF Failures, EndIteratorFails, InitializeFails, ReadFails, BackfillFails, ResetFails,
        CloseFails, Fail, AwaitingBackfill
  <2>2. CASE state \in {"seek-backfill", "reset-playback-iterator"}
    BY <2>1, <2>2 DEF Fresh, Beginning
  <2>3. CASE state \notin {"seek-backfill", "reset-playback-iterator"}
    <3>1. seekTarget' = seekTarget
      BY <1>10, <2>3
      DEF Failures, EndIteratorFails, InitializeFails, ReadFails, BackfillFails, ResetFails,
          CloseFails, AtState
    <3> QED
      BY <1>10, <2>1, <3>1, OthersRepeat, StillFresh DEF Beginning
  <2> QED
    BY <2>2, <2>3
<1>11. CASE ListenerResolves \/ UNCHANGED vars
  <2>1. UNCHANGED <<state, nextState, seekTarget>> /\ pc' \in {pc, "frameReady"}
    BY <1>11 DEF ListenerResolves, vars, control, request
  <2> QED
    BY <1>11, <2>1, OthersRepeat, StillFresh DEF Beginning
<1> QED
  BY <1>1, <1>2, <1>3, <1>4, <1>5, <1>6, <1>7, <1>8, <1>9, <1>10, <1>11
  DEF Next, Run, RunRepeats

-----------------------------------------------------------------------------
\* The player implements the contract: of the frames between two seeks each
\* message is in at most one, in the order of the log, none is in a frame of an
\* earlier time, and time does not go back, until playUntil() makes it.
THEOREM PlayerHonoursContract == Spec => FramesHonourContract
<1> DEFINE Inv == IInv /\ WhatStatesFind /\ Debounced /\ Places /\ Fresh /\ Ordered
<1>1. Init => Inv /\ Contract!Init
  <2> SUFFICES ASSUME Init
               PROVE  Inv /\ Contract!Init
    OBVIOUS
  <2>1. WhatStatesFind /\ Debounced /\ Places
    BY DEF Init, WhatStatesFind, Debounced, Places, AwaitingBackfill, Reading
  <2>2. Contract!Init /\ Fresh
    BY DEF Init, NoFrame, NoTime, Contract!Init, Fresh
  <2>3. Ordered
    <3>1. Unread = {} /\ Reached = {}
      BY DEF Init, Unread, Wanted, NoIterator, Reached
    <3>2. frame.time <= currentTime
      BY DEF Init, NoFrame, NoTime
    <3> QED
      BY <3>1, <3>2 DEF Init, Ordered, Deliverable, InOrder, InTime
  <2> QED
    BY <2>1, <2>2, <2>3, InitEstablishesIInv
<1>2. Inv => Sound
  BY DEF IInv, Sound
<1>3. Inv /\ [Next]_vars => Inv'
  BY <1>2, IInvStep, FindStep, DebouncedStep, PlacesStep, FreshStep, OrderedStep DEF IInv
<1>4. Inv /\ [Next]_vars => [Contract!Next \/ rewound']_<<frame, heard>>
  <2> SUFFICES ASSUME Inv, [Next]_vars, ~rewound'
               PROVE  [Contract!Next]_<<frame, heard>>
    OBVIOUS
  <2>1. Sound /\ Ordered /\ messages \in SUBSET Messages /\ seekEmit \in BOOLEAN
    BY <1>2 DEF Sound, TypeOK, EmissionTypeOK
  <2>2. CASE ~hasError'
    <3>1. CASE EnterStartPlay /\ seekTarget = NoTime
      BY <3>1 DEF EnterStartPlay
    <3> QED
      BY <2>1, <2>2, <3>1, StepIsOrdered, HonestStep
  <2>3. CASE hasError'
    <3>1. ASSUME NEW ms, NEW seek, QueueEmit(ms, seek)
          PROVE  [Contract!Next]_<<frame, heard>>
      <4>1. UNCHANGED <<frame, heard>> \/ (frame' = NoFrame /\ heard' = heard)
        BY <2>3, <3>1 DEF QueueEmit, EmitFrame, CurrentFrame
      <4> QED
        BY <4>1 DEF NoFrame, Contract!Next, Contract!Play, Contract!Fit
    <3>2. CASE ListenerResolves
      BY <2>1, <2>3, <3>2, ListenerOffers, HonestStep
    <3> QED
      BY <3>1, <3>2, StepsEmit DEF emission
  <2> QED
    BY <2>2, <2>3
<1> HIDE DEF Inv
<1> QED
  BY <1>1, <1>3, <1>4, PTL DEF Spec, FramesHonourContract

=============================================================================
