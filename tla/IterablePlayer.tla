--------------------------- MODULE IterablePlayer ---------------------------
(***************************************************************************)
(* The playback state machine of IterablePlayer: the calls the pipeline    *)
(* makes (play, pause, seek, subscribe, close), the states that run one at *)
(* a time between `await`s, the ticks that read messages from the playback *)
(* iterator, and the debounced emission of frames to the listener.         *)
(*                                                                         *)
(* A step is the code that runs between two awaits.  `pc` names the await  *)
(* the run loop is suspended at; at the points in Synchronous the code has *)
(* not returned to the event loop, so no caller, timer or promise can run. *)
(*                                                                         *)
(* Times are naturals (one unit is one nanosecond of log time as far as    *)
(* comparisons go), messages are positions of Log.                         *)
(***************************************************************************)
EXTENDS Integers, Sequences, FiniteSets

CONSTANTS
  Topics,        \* topics a panel can subscribe to
  Log,           \* the data source: messages and stamps in log time order
  EndTime,       \* last time of the source; the first is 0
  SeekOnStart,   \* how much start-play reads (SEEK_ON_START_NS)
  MaxTick,       \* longest range one tick asks for
  SeekTimes,     \* times the user seeks to
  PlayUntilTimes, \* times playUntil is called with
  Selections,    \* sets of topics the pipeline subscribes to
  MaxCalls,      \* bound: calls and timer events from outside
  SourceFails    \* whether reads of the source may fail

NoTime == -1     \* an undefined Time
NoMessage == 0   \* an undefined MessageEvent

Times == 0..EndTime
Entries == [kind : {"message", "stamp"}, time : Times, topic : Topics]

ASSUME LogAssumption ==
  /\ EndTime \in Nat
  /\ Log \in Seq(Entries)
  /\ \A i, j \in 1..Len(Log) : i <= j => Log[i].time <= Log[j].time

\* A stamp says that the source has read through its time.
ASSUME StampAssumption ==
  \A i, j \in 1..Len(Log) :
    i < j /\ Log[i].kind = "stamp" /\ Log[j].kind = "message"
      => Log[i].time < Log[j].time

ASSUME BoundsAssumption ==
  /\ SeekOnStart \in Nat
  /\ MaxTick \in Nat \ {0}
  /\ SeekTimes \subseteq Nat
  /\ PlayUntilTimes \subseteq Nat
  /\ Selections \subseteq SUBSET Topics
  /\ MaxCalls \in Nat
  /\ SourceFails \in BOOLEAN

VARIABLES
  state, nextState,      \* #state and #nextState ("none": no state requested)
  pc,                    \* where #runState is suspended ("off": not running)
  isPlaying, untilTime, seekTarget, currentTime, allTopics, hasError,
  iterator,              \* #playbackIterator: position in the stream it reads
  lastMessage, lastStamp,
  readEnd, batch, readTopics,  \* locals of the running state
  messages, seekEmit,    \* #messages, and whether lastSeekEmitTime is new
  emitting, pending,     \* debouncePromise: calling and callPending
  orphaned,              \* the listener was removed with a frame in flight
  frame, heard,          \* what the listener has seen since the last seek
  contiguous,            \* history: this iterator's messages all reached a frame
  rewound,               \* history: a tick went back in time since the last seek
  topicsReplaced,        \* #allTopics is another Map than play was entered with
  calls                  \* calls made so far

control == <<state, nextState, pc>>
request == <<isPlaying, untilTime, seekTarget, allTopics, hasError>>
reading == <<iterator, lastMessage, lastStamp, readEnd, batch, readTopics,
             contiguous, rewound>>
emission == <<messages, seekEmit, emitting, pending, frame, heard>>
outside == <<orphaned, topicsReplaced, calls>>
vars == <<control, request, currentTime, reading, emission, outside>>

-----------------------------------------------------------------------------
(* The data source, as the player sees it through BufferedIterableSource.  *)

IsMessage(i) == Log[i].kind = "message"
Messages == {i \in 1..Len(Log) : IsMessage(i)}

Clamp(t) == IF t > EndTime THEN EndTime ELSE t

NoIterator == [topics |-> {}, from |-> 0, pos |-> 0]
Open(topics, from) == [topics |-> topics, from |-> from, pos |-> 1]

\* The entries the iterator has still to yield.  An iterator for no topics
\* yields nothing, not even stamps.
Remaining(it) ==
  {i \in 1..Len(Log) :
     /\ i >= it.pos
     /\ Log[i].time >= it.from
     /\ IF IsMessage(i) THEN Log[i].topic \in it.topics ELSE it.topics # {}}

\* getBackfillMessages: the last message of each topic at or before time t.
Backfill(topics, t) ==
  {i \in Messages :
     /\ Log[i].topic \in topics
     /\ Log[i].time <= t
     /\ \A j \in Messages :
          Log[j].topic = Log[i].topic /\ Log[j].time <= t => j <= i}

-----------------------------------------------------------------------------
(* Emission.  #queueEmitState is a debounced #emitStateImpl: a frame is    *)
(* built from the state of the moment the listener is called, and a call   *)
(* made while the listener is busy is remembered, not queued.              *)

\* Before the first frame, and in an error, there is no activeData.
NoFrame == [time |-> NoTime, playing |-> FALSE, messages |-> {}, seek |-> FALSE]

\* `seek` says that lastSeekTime is not that of the frame before.
CurrentFrame(ms, seek) ==
  IF hasError'
  THEN NoFrame
  ELSE [time |-> currentTime', playing |-> isPlaying', messages |-> ms, seek |-> seek]

\* #emitStateImpl with #messages = ms; `seek` says lastSeekTime changed.
EmitFrame(ms, seek) ==
  /\ frame' = CurrentFrame(ms, seek)
  /\ IF hasError'
     THEN /\ messages' = ms
          /\ seekEmit' = seek
          /\ UNCHANGED heard
     ELSE /\ messages' = {}
          /\ seekEmit' = FALSE
          /\ heard' = IF seek THEN ms ELSE heard \union ms

\* MUTANT of QueueEmit: a call made while the listener is busy is forgotten.
QueueEmitMutant(ms, seek) ==
  IF emitting
  THEN /\ messages' = ms
       /\ seekEmit' = seek
       /\ UNCHANGED <<emitting, pending, frame, heard>>
  ELSE /\ emitting' = TRUE
       /\ UNCHANGED pending
       /\ EmitFrame(ms, seek)

QueueEmit(ms, seek) ==
  \/ /\ emitting
     /\ messages' = ms
     /\ seekEmit' = seek
     /\ pending' = TRUE
     /\ UNCHANGED <<emitting, frame, heard>>
  \/ /\ ~emitting
     /\ emitting' = TRUE
     /\ pending' = FALSE
     /\ EmitFrame(ms, seek)

Synchronous == {"start", "enter", "play", "startDone", "tickDone"}

\* MUTANT of ListenerResolves: the pending call is not reset when it is made.
ListenerResolvesMutant ==
  /\ emitting /\ ~orphaned
  /\ pc \notin Synchronous
  /\ UNCHANGED <<request, currentTime>>
  /\ IF pending
     THEN EmitFrame(messages, seekEmit) /\ UNCHANGED emitting
     ELSE emitting' = FALSE /\ UNCHANGED <<messages, seekEmit, frame, heard>>
  /\ pc' = IF pc = "awaitFrame" THEN "frameReady" ELSE pc
  /\ UNCHANGED <<state, nextState, reading, pending, outside>>

\* The listener's promise resolves: a remembered call emits at once, then a
\* tick that awaited this frame goes on.  cleanupListener() forgets the promise
\* of the frame in flight, which never resolves then.
ListenerResolves ==
  /\ emitting /\ ~orphaned
  /\ pc \notin Synchronous
  /\ UNCHANGED <<request, currentTime>>
  /\ IF pending
     THEN /\ pending' = FALSE
          /\ EmitFrame(messages, seekEmit)
          /\ UNCHANGED emitting
     ELSE /\ emitting' = FALSE
          /\ UNCHANGED <<messages, seekEmit, pending, frame, heard>>
  /\ pc' = IF pc = "awaitFrame" THEN "frameReady" ELSE pc
  /\ UNCHANGED <<state, nextState, reading, outside>>

-----------------------------------------------------------------------------
(* #setState: a requested state replaces any other but "close".            *)

\* MUTANT of Requested: a later request replaces "close" too.
RequestedMutant(s) == s

Requested(s) == IF nextState = "close" THEN "close" ELSE s

SetState(s) == nextState' = Requested(s)

\* #setState called from outside the run loop starts the loop if it is not
\* running; a second request after "close" returns before that.
SetStateFromOutside(s) ==
  /\ SetState(s)
  /\ pc' = IF pc = "off" /\ nextState # "close" THEN "start" ELSE pc

Closing == nextState = "close" \/ state = "close"

\* A call from the pipeline; it makes none after close().
LastCall ==
  /\ calls < MaxCalls
  /\ calls' = calls + 1
  /\ pc \notin Synchronous
  /\ ~Closing

Call == LastCall /\ UNCHANGED <<orphaned, topicsReplaced>>

SetListener ==
  /\ state = "preinit"
  /\ pc = "off"
  /\ SetStateFromOutside("initialize")
  /\ UNCHANGED <<state, request, currentTime, reading, emission, outside>>

\* startPlayback (until = NoTime) and playUntil.
StartPlay(until) ==
  /\ Call
  /\ ~isPlaying
  /\ untilTime = NoTime
  /\ currentTime # NoTime
  /\ until # NoTime => until > currentTime
  /\ untilTime' = Clamp(until)
  /\ isPlaying' = TRUE
  /\ UNCHANGED <<state, seekTarget, allTopics, hasError, currentTime, reading>>
  /\ IF state = "idle" /\ nextState \in {"none", "idle"}
     THEN /\ SetStateFromOutside("play")
          /\ UNCHANGED emission
     ELSE /\ UNCHANGED <<nextState, pc>>
          /\ QueueEmit(messages, seekEmit)

PausePlayback ==
  /\ Call
  /\ isPlaying
  /\ isPlaying' = FALSE
  /\ untilTime' = NoTime
  /\ UNCHANGED <<state, seekTarget, allTopics, hasError, currentTime, reading>>
  /\ IF state = "play"
     THEN /\ SetStateFromOutside("idle")
          /\ UNCHANGED emission
     ELSE /\ UNCHANGED <<nextState, pc>>
          /\ QueueEmit(messages, seekEmit)

SeekPlayback(t) ==
  /\ Call
  /\ \/ /\ state \in {"preinit", "initialize"}
        /\ seekTarget' = t
        /\ UNCHANGED <<untilTime, nextState, pc>>
     \/ /\ state \notin {"preinit", "initialize"}
        /\ currentTime # NoTime
        /\ Clamp(t) \notin {seekTarget, currentTime}
        /\ seekTarget' = Clamp(t)
        /\ untilTime' = NoTime
        /\ SetStateFromOutside("seek-backfill")
  /\ UNCHANGED <<state, isPlaying, allTopics, hasError, currentTime, reading,
                 emission>>

SetSubscriptions(topics) ==
  /\ LastCall
  /\ UNCHANGED orphaned
  /\ topics # allTopics
  /\ allTopics' = topics
  /\ topicsReplaced' = TRUE
  /\ IF /\ state \in {"idle", "seek-backfill", "play", "start-play"}
        /\ ~isPlaying
        /\ currentTime # NoTime
     THEN /\ seekTarget' = IF seekTarget = NoTime THEN currentTime ELSE seekTarget
          /\ untilTime' = NoTime
          /\ SetStateFromOutside("seek-backfill")
     ELSE UNCHANGED <<seekTarget, untilTime, nextState, pc>>
  /\ UNCHANGED <<state, isPlaying, hasError, currentTime, reading, emission>>

\* The pipeline removes its listener and closes the player.
Close ==
  /\ LastCall
  /\ orphaned' = emitting
  /\ UNCHANGED topicsReplaced
  /\ SetStateFromOutside("close")
  /\ UNCHANGED <<state, request, currentTime, reading, emission>>

\* Emits queued by setPlaybackSpeed, by the buffering timers of a read, by a
\* change of the loaded ranges while idle and by block loading progress
\* outside of playback.
QueueEmitFromOutside ==
  /\ Call
  /\ state # "preinit"
  /\ UNCHANGED <<control, request, currentTime, reading>>
  /\ QueueEmit(messages, seekEmit)

-----------------------------------------------------------------------------
(* #runState.                                                              *)

\* MUTANT of RunNextState: idle throws the playback iterator away too.
RunNextStateMutant ==
  /\ pc \in {"loop", "start"}
  /\ IF nextState = "none"
     THEN pc' = "off" /\ UNCHANGED <<state, nextState>>
     ELSE /\ state' = nextState
          /\ nextState' = "none"
          /\ pc' = IF nextState # "play" /\ iterator # NoIterator
                   THEN "endIterator" ELSE "enter"
  /\ UNCHANGED <<request, currentTime, reading, emission, outside>>

\* Take the next state.  A state other than idle and play first ends the
\* playback iterator, which is awaited.
RunNextState ==
  /\ pc \in {"loop", "start"}
  /\ IF nextState = "none"
     THEN pc' = "off" /\ UNCHANGED <<state, nextState>>
     ELSE /\ state' = nextState
          /\ nextState' = "none"
          /\ pc' = IF nextState \notin {"idle", "play"} /\ iterator # NoIterator
                   THEN "endIterator" ELSE "enter"
  /\ UNCHANGED <<request, currentTime, reading, emission, outside>>

IteratorEnded ==
  /\ pc = "endIterator"
  /\ iterator' = NoIterator
  /\ pc' = "enter"
  /\ UNCHANGED <<state, nextState, request, currentTime, lastMessage, lastStamp,
                 readEnd, batch, readTopics, contiguous, rewound, emission, outside>>

\* An error leaves the state: #setError and an emit.  In the catch of
\* #runState (at = "off") the loop ends with whatever state is still
\* requested; in the catch of #statePlay (at = "loop") the loop goes on.
Fail(at) ==
  /\ SourceFails
  /\ hasError' = TRUE
  /\ isPlaying' = FALSE
  /\ pc' = at
  /\ batch' = {}
  /\ contiguous' = FALSE
  /\ UNCHANGED <<untilTime, allTopics, state, nextState, currentTime, iterator,
                 lastMessage, lastStamp, readEnd, readTopics, rewound, outside>>
  /\ QueueEmit(messages, seekEmit)

\* return() of the iterator waits for the producer and rejects as it did.
EndIteratorFails ==
  /\ pc = "endIterator"
  /\ Fail("off")
  /\ UNCHANGED seekTarget

-----------------------------------------------------------------------------
(* initialize                                                              *)

EnterInitialize ==
  /\ pc = "enter" /\ state = "initialize"
  /\ pc' = "initWait"
  /\ UNCHANGED <<state, nextState, request, currentTime, reading, outside>>
  /\ QueueEmit(messages, seekEmit)

Initialized ==
  /\ pc = "initWait"
  /\ seekTarget' = IF seekTarget = NoTime THEN NoTime ELSE Clamp(seekTarget)
  /\ currentTime' = IF seekTarget = NoTime THEN 0 ELSE Clamp(seekTarget)
  /\ pc' = "initDelay"
  /\ UNCHANGED <<state, nextState, isPlaying, untilTime, allTopics, hasError,
                 reading, outside>>
  /\ QueueEmit(messages, seekEmit)

InitializeFails ==
  /\ pc = "initWait"
  /\ Fail("loop")
  /\ UNCHANGED seekTarget

StartDelayEnds ==
  /\ pc = "initDelay"
  /\ SetState("start-play")
  /\ pc' = "loop"
  /\ UNCHANGED <<state, request, currentTime, reading, emission, outside>>

-----------------------------------------------------------------------------
(* start-play: read the beginning of the data, so that there is something  *)
(* to show.                                                                *)

EnterStartPlay ==
  /\ pc = "enter" /\ state = "start-play"
  /\ UNCHANGED <<state, request, currentTime, lastStamp, readTopics, rewound,
                 outside>>
  /\ IF seekTarget # NoTime
     THEN /\ SetState("seek-backfill")
          /\ pc' = "loop"
          /\ UNCHANGED <<iterator, lastMessage, readEnd, batch, contiguous, emission>>
     ELSE /\ iterator' = Open(allTopics, 0)
          /\ contiguous' = (lastStamp = NoTime)
          /\ lastMessage' = NoMessage
          /\ messages' = {}
          /\ batch' = {}
          /\ readEnd' = Clamp(SeekOnStart)
          /\ pc' = "startRead"
          /\ UNCHANGED <<nextState, seekEmit, emitting, pending, frame, heard>>

StartPlayReads ==
  /\ pc = "startDone"
  /\ currentTime' = readEnd
  /\ SetState("idle")
  /\ pc' = "loop"
  /\ batch' = {}
  /\ UNCHANGED <<state, request, iterator, lastMessage, lastStamp, readEnd,
                 readTopics, contiguous, rewound, outside>>
  /\ QueueEmit(batch, seekEmit)

-----------------------------------------------------------------------------
(* Reading from the playback iterator, in start-play and in a tick: next() *)
(* is awaited for each entry until one lies beyond readEnd.                *)

\* MUTANT of AfterRead: the tick counts as done when its read is.
AfterReadMutant == IF pc = "startRead" THEN "startDone" ELSE "playDelay"

\* The tick waits for the frame in flight; start-play does not.
AfterRead ==
  IF pc = "startRead" THEN "startDone"
  ELSE IF emitting THEN "awaitFrame" ELSE "frameReady"

NextEntry(i) ==
  /\ pc \in {"startRead", "tickRead"}
  /\ i \in Remaining(iterator)
  /\ \A j \in Remaining(iterator) : i <= j
  /\ iterator' = [iterator EXCEPT !.pos = i + 1]
  /\ UNCHANGED <<state, nextState, request, currentTime, readEnd, readTopics,
                 rewound, emission, outside>>

\* A state was requested while next() was pending: what was read is dropped.
ReadAbandoned ==
  \E i \in 1..Len(Log) :
    /\ NextEntry(i)
    /\ nextState # "none"
    /\ pc' = "loop"
    /\ batch' = {}
    /\ contiguous' = FALSE
    /\ UNCHANGED <<lastMessage, lastStamp>>

\* MUTANT of ReadMessage: the end of the tick is not looked at.
ReadMessageMutant ==
  \E i \in Messages :
    /\ NextEntry(i)
    /\ nextState = "none"
    /\ batch' = batch \union {i}
    /\ UNCHANGED <<pc, lastMessage, lastStamp, contiguous>>

ReadMessage ==
  \E i \in Messages :
    /\ NextEntry(i)
    /\ nextState = "none"
    /\ Log[i].time <= readEnd
    /\ batch' = batch \union {i}
    /\ UNCHANGED <<pc, lastMessage, lastStamp, contiguous>>

\* The message belongs to a later tick, which will find it in #lastMessageEvent.
ReadMessageBeyondEnd ==
  \E i \in Messages :
    /\ NextEntry(i)
    /\ nextState = "none"
    /\ Log[i].time > readEnd
    /\ lastMessage' = i
    /\ pc' = AfterRead
    /\ UNCHANGED <<batch, lastStamp, contiguous>>

ReadStamp ==
  \E i \in (1..Len(Log)) \ Messages :
    /\ NextEntry(i)
    /\ nextState = "none"
    /\ IF Log[i].time >= readEnd
       THEN lastStamp' = Log[i].time /\ pc' = AfterRead
       ELSE UNCHANGED <<lastStamp, pc>>
    /\ UNCHANGED <<batch, lastMessage, contiguous>>

\* The iterator is done.  Only the tick looks whether a state was requested.
ReadDone ==
  /\ pc \in {"startRead", "tickRead"}
  /\ Remaining(iterator) = {}
  /\ IF pc = "tickRead" /\ nextState # "none"
     THEN /\ pc' = "loop"
          /\ batch' = {}
          /\ contiguous' = FALSE
     ELSE /\ pc' = AfterRead
          /\ UNCHANGED <<batch, contiguous>>
  /\ UNCHANGED <<state, nextState, request, currentTime, iterator, lastMessage,
                 lastStamp, readEnd, readTopics, rewound, emission, outside>>

ReadFails ==
  /\ pc \in {"startRead", "tickRead"}
  /\ Fail(IF pc = "tickRead" THEN "loop" ELSE "off")
  /\ UNCHANGED seekTarget

-----------------------------------------------------------------------------
(* play                                                                    *)

EnterPlay ==
  /\ pc = "enter" /\ state = "play"
  /\ topicsReplaced' = FALSE
  /\ pc' = "play"
  /\ UNCHANGED <<state, nextState, request, currentTime, reading, emission,
                 orphaned, calls>>

PlayStops ==
  /\ pc = "play"
  /\ ~isPlaying \/ hasError \/ nextState # "none"
  /\ pc' = "loop"
  /\ UNCHANGED <<state, nextState, request, currentTime, reading, emission, outside>>

PlayReachesEnd ==
  /\ pc = "play"
  /\ isPlaying /\ ~hasError /\ nextState = "none"
  /\ currentTime >= EndTime
  /\ lastStamp' = NoTime
  /\ SetState("idle")
  /\ pc' = "loop"
  /\ UNCHANGED <<state, request, currentTime, iterator, lastMessage, readEnd,
                 batch, readTopics, contiguous, rewound, emission, outside>>

TickEnd(range) ==
  LET last == IF untilTime = NoTime THEN EndTime ELSE untilTime
  IN  IF currentTime + range > last THEN last ELSE currentTime + range

\* A tick up to `end`.  A stamp or a message already read beyond the end of
\* the tick means there is nothing to read for it.
TickTo(end) ==
  /\ readEnd' = end
  /\ IF lastStamp # NoTime /\ lastStamp >= end
     THEN /\ pc' = IF emitting THEN "awaitFrame" ELSE "frameReady"
          /\ UNCHANGED <<batch, lastMessage, lastStamp>>
     ELSE /\ lastStamp' = NoTime
          /\ IF lastMessage # NoMessage /\ Log[lastMessage].time > end
             THEN /\ pc' = IF emitting THEN "awaitFrame" ELSE "frameReady"
                  /\ UNCHANGED <<batch, lastMessage>>
             ELSE /\ pc' = "tickRead"
                  /\ batch' = {lastMessage} \ {NoMessage}
                  /\ lastMessage' = NoMessage

Tick ==
  /\ pc = "play"
  /\ isPlaying /\ ~hasError /\ nextState = "none"
  /\ currentTime < EndTime
  /\ \E range \in 1..MaxTick : TickTo(TickEnd(range))
  /\ UNCHANGED <<state, nextState, request, currentTime, iterator, readTopics,
                 contiguous, rewound, emission, outside>>

UntilReached == untilTime # NoTime /\ readEnd >= untilTime

\* The tick's messages become the next frame, which says that the player plays.
TickEmits ==
  /\ pc = "frameReady"
  /\ currentTime' = readEnd
  /\ batch' = {}
  /\ rewound' = (rewound \/ readEnd < currentTime)
  /\ pc' = "tickDone"
  /\ UNCHANGED <<state, nextState, request, iterator, lastMessage, lastStamp,
                 readEnd, readTopics, contiguous, outside>>
  /\ QueueEmit(batch, seekEmit)

\* The tick's own pausePlayback requests idle; then #statePlay looks at what
\* happened meanwhile.  A reset of the iterator drops the message read ahead,
\* which the new iterator repeats.
TickEnds ==
  /\ pc = "tickDone"
  /\ LET pauses == UntilReached /\ isPlaying
         next == IF pauses THEN Requested("idle") ELSE nextState
         resets == next = "none" /\ topicsReplaced
     IN  /\ isPlaying' = (isPlaying /\ ~pauses)
         /\ untilTime' = IF pauses THEN NoTime ELSE untilTime
         /\ nextState' = IF resets THEN "reset-playback-iterator" ELSE next
         /\ lastMessage' = IF resets THEN NoMessage ELSE lastMessage
         /\ contiguous' = (contiguous /\ ~resets)
         /\ pc' = IF nextState' = "none" THEN "playDelay" ELSE "loop"
  /\ UNCHANGED <<state, seekTarget, allTopics, hasError, currentTime, iterator,
                 lastStamp, readEnd, batch, readTopics, rewound, emission, outside>>

FrameDelayEnds ==
  /\ pc = "playDelay"
  /\ pc' = "play"
  /\ UNCHANGED <<state, nextState, request, currentTime, reading, emission, outside>>

-----------------------------------------------------------------------------
(* idle                                                                    *)

EnterIdle ==
  /\ pc = "enter" /\ state = "idle"
  /\ isPlaying' = FALSE
  /\ pc' = "idle"
  /\ UNCHANGED <<state, nextState, untilTime, seekTarget, allTopics, hasError,
                 currentTime, reading, outside>>
  /\ QueueEmit(messages, seekEmit)

\* #setState aborts the controller idle waits for.
IdleEnds ==
  /\ pc = "idle"
  /\ nextState # "none"
  /\ pc' = "loop"
  /\ UNCHANGED <<state, nextState, request, currentTime, reading, emission, outside>>

-----------------------------------------------------------------------------
(* seek-backfill and reset-playback-iterator                               *)

AwaitingBackfill == pc \in {"backfill", "backfillAcked"}

EnterSeekBackfill ==
  /\ pc = "enter" /\ state = "seek-backfill"
  /\ IF seekTarget = NoTime
     THEN /\ pc' = "loop"
          /\ UNCHANGED <<lastMessage, readEnd, readTopics>>
     ELSE /\ pc' = "backfill"
          /\ lastMessage' = NoMessage
          /\ readEnd' = Clamp(seekTarget)
          /\ readTopics' = allTopics
  /\ UNCHANGED <<state, nextState, request, currentTime, iterator, lastStamp,
                 batch, contiguous, rewound, emission, outside>>

\* The backfill takes more than 100 ms: acknowledge the seek without messages.
SeekAckTimeout ==
  /\ pc = "backfill"
  /\ pc' = "backfillAcked"
  /\ currentTime' = readEnd
  /\ UNCHANGED <<state, nextState, request, reading, outside>>
  /\ QueueEmit({}, seekEmit)

\* MUTANT of BackfillLoaded: lastSeekTime is not set for the backfill's frame.
BackfillLoadedMutant ==
  /\ AwaitingBackfill
  /\ nextState = "none"
  /\ currentTime' = readEnd
  /\ pc' = "reset"
  /\ rewound' = FALSE
  /\ UNCHANGED <<state, nextState, request, iterator, lastMessage, lastStamp,
                 readEnd, batch, readTopics, contiguous, outside>>
  /\ QueueEmit(Backfill(readTopics, readEnd), seekEmit)

BackfillLoaded ==
  /\ AwaitingBackfill
  /\ nextState = "none"
  /\ currentTime' = readEnd
  /\ pc' = "reset"
  /\ rewound' = FALSE
  /\ UNCHANGED <<state, nextState, request, iterator, lastMessage, lastStamp,
                 readEnd, batch, readTopics, contiguous, outside>>
  /\ QueueEmit(Backfill(readTopics, readEnd), TRUE)

\* The finally block: only a further seek keeps the target.
FinishSeek(next) ==
  seekTarget' = IF next = "seek-backfill" THEN seekTarget ELSE NoTime

\* Loaded or aborted, the backfill of a superseded seek is ignored.
BackfillSuperseded ==
  /\ AwaitingBackfill
  /\ nextState # "none"
  /\ FinishSeek(nextState)
  /\ pc' = "loop"
  /\ UNCHANGED <<state, nextState, isPlaying, untilTime, allTopics, hasError,
                 currentTime, reading, emission, outside>>

BackfillFails ==
  /\ AwaitingBackfill
  /\ Fail("off")
  /\ FinishSeek(nextState)

EnterResetPlaybackIterator ==
  /\ pc = "enter" /\ state = "reset-playback-iterator"
  /\ pc' = "reset"
  /\ UNCHANGED <<state, nextState, request, currentTime, reading, emission, outside>>

\* #resetPlaybackIterator has ended the old iterator and stopped its producer.
IteratorReset ==
  /\ pc = "reset"
  /\ iterator' = Open(allTopics, currentTime + 1)
  /\ contiguous' = (lastStamp = NoTime)
  /\ SetState(IF isPlaying THEN "play" ELSE "idle")
  /\ IF state = "seek-backfill"
     THEN FinishSeek(nextState')
     ELSE UNCHANGED seekTarget
  /\ pc' = "loop"
  /\ UNCHANGED <<state, isPlaying, untilTime, allTopics, hasError, currentTime,
                 lastMessage, lastStamp, readEnd, batch, readTopics, rewound,
                 emission, outside>>

\* stopProducer() rejects as the producer did: the new iterator is not made.
ResetFails ==
  /\ pc = "reset"
  /\ Fail("off")
  /\ IF state = "seek-backfill" THEN FinishSeek(nextState) ELSE UNCHANGED seekTarget

-----------------------------------------------------------------------------
(* close                                                                   *)

EnterClose ==
  /\ pc = "enter" /\ state = "close"
  /\ isPlaying' = FALSE
  /\ pc' = "closing"
  /\ UNCHANGED <<state, nextState, untilTime, seekTarget, allTopics, hasError,
                 currentTime, reading, emission, outside>>

\* Block loading, the producer and the source have stopped.
Closed ==
  /\ pc = "closing"
  /\ pc' = "loop"
  /\ UNCHANGED <<state, nextState, request, currentTime, reading, emission, outside>>

\* Stopping fails, and what follows it is skipped: the source is not terminated.
CloseFails ==
  /\ pc = "closing"
  /\ Fail("off")
  /\ UNCHANGED seekTarget

-----------------------------------------------------------------------------
Init ==
  /\ state = "preinit" /\ nextState = "none" /\ pc = "off"
  /\ isPlaying = FALSE /\ untilTime = NoTime /\ seekTarget = NoTime
  /\ currentTime = NoTime /\ allTopics = {} /\ hasError = FALSE
  /\ iterator = NoIterator /\ lastMessage = NoMessage /\ lastStamp = NoTime
  /\ readEnd = 0 /\ batch = {} /\ readTopics = {} /\ contiguous = FALSE
  /\ rewound = FALSE
  /\ messages = {} /\ seekEmit = FALSE /\ emitting = FALSE /\ pending = FALSE
  /\ orphaned = FALSE /\ topicsReplaced = FALSE
  /\ frame = NoFrame /\ heard = {}
  /\ calls = 0

Calls ==
  \/ SetListener
  \/ StartPlay(NoTime)
  \/ \E t \in PlayUntilTimes : StartPlay(t)
  \/ PausePlayback
  \/ \E t \in SeekTimes : SeekPlayback(t)
  \/ \E topics \in Selections : SetSubscriptions(topics)
  \/ Close
  \/ QueueEmitFromOutside

Run ==
  \/ RunNextState \/ IteratorEnded
  \/ EnterInitialize \/ Initialized \/ StartDelayEnds
  \/ EnterStartPlay \/ StartPlayReads
  \/ ReadAbandoned \/ ReadMessage \/ ReadMessageBeyondEnd \/ ReadStamp \/ ReadDone
  \/ EnterPlay \/ PlayStops \/ PlayReachesEnd \/ Tick \/ TickEmits \/ TickEnds
  \/ FrameDelayEnds
  \/ EnterIdle \/ IdleEnds
  \/ EnterSeekBackfill \/ BackfillLoaded \/ BackfillSuperseded
  \/ EnterResetPlaybackIterator \/ IteratorReset
  \/ EnterClose \/ Closed

Failures ==
  \/ EndIteratorFails \/ InitializeFails \/ ReadFails \/ BackfillFails
  \/ ResetFails \/ CloseFails

Next == Calls \/ Run \/ SeekAckTimeout \/ Failures \/ ListenerResolves

Spec == Init /\ [][Next]_vars

\* What is awaited settles: reads of the source, timers, the listener's
\* promise.  Nothing obliges a caller to call or a read to fail.
FairSpec == Spec /\ WF_vars(Run) /\ WF_vars(ListenerResolves) /\ WF_vars(SetListener)

-----------------------------------------------------------------------------
(* Properties.                                                             *)

States == {"preinit", "initialize", "start-play", "idle", "seek-backfill",
           "play", "close", "reset-playback-iterator"}

Waits == {"initWait", "initDelay", "startRead", "tickRead", "awaitFrame",
          "frameReady", "playDelay", "idle", "backfill", "backfillAcked",
          "reset", "endIterator", "closing"}

\* The types of what an emission changes.
EmissionTypeOK ==
  /\ messages \in SUBSET Messages /\ heard \in SUBSET Messages
  /\ seekEmit \in BOOLEAN /\ emitting \in BOOLEAN /\ pending \in BOOLEAN
  /\ frame \in [time : Times \union {NoTime}, playing : BOOLEAN,
                messages : SUBSET Messages, seek : BOOLEAN]

\* The types of the run loop's variables, of what it is asked for, and of what
\* it has read.
ControlTypeOK ==
  /\ state \in States
  /\ nextState \in States \union {"none"}
  /\ pc \in Waits \union Synchronous \union {"loop", "off"}

RequestTypeOK ==
  /\ isPlaying \in BOOLEAN /\ hasError \in BOOLEAN
  /\ untilTime \in Times \union {NoTime}
  /\ seekTarget \in Nat \union {NoTime}
  /\ currentTime \in Times \union {NoTime}
  /\ allTopics \in SUBSET Topics

ReadingTypeOK ==
  /\ iterator \in [topics : SUBSET Topics, from : Nat, pos : Nat]
  /\ lastMessage \in Messages \union {NoMessage}
  /\ lastStamp \in Times \union {NoTime}
  /\ readEnd \in Times
  /\ batch \in SUBSET Messages
  /\ readTopics \in SUBSET Topics
  /\ contiguous \in BOOLEAN /\ rewound \in BOOLEAN

OutsideTypeOK == orphaned \in BOOLEAN /\ topicsReplaced \in BOOLEAN /\ calls \in Nat

\* Every variable has its type: in particular the times the player works with
\* lie in the source, whatever time a caller asks for.
TypeOK ==
  ControlTypeOK /\ RequestTypeOK /\ ReadingTypeOK /\ EmissionTypeOK /\ OutsideTypeOK

\* The frames the listener sees honour the contract of players/types.ts, until
\* playUntil(), called while a seek is pending with a time before its target,
\* makes a tick go back in time without a seek.
Contract == INSTANCE FrameContract WITH Positions <- Messages
FramesHonourContract ==
  Contract!Init /\ [][Contract!Next \/ rewound']_<<frame, heard>>

\* No message leaves #messages or a tick before its time: what is about to be
\* emitted is never later than the current time it will be emitted with.
NeverAhead ==
  /\ \A i \in messages : Log[i].time <= currentTime
  /\ \A i \in batch : Log[i].time <= readEnd

\* The states find what they rely on: none of the invariants the code throws on
\* is ever broken (a tick needs an iterator, start-play must find none, play and
\* the reset of the iterator need a current time), whatever was called before.
InvariantsNeverThrow ==
  /\ pc = "tickRead" => iterator # NoIterator
  /\ pc = "enter" /\ state = "start-play" /\ seekTarget = NoTime => iterator = NoIterator
  /\ pc \in {"play", "reset"} => currentTime # NoTime

\* The messages an iterator's topics have between its start and the current
\* time: what playback owes the listener.
Due ==
  {i \in Messages :
     /\ Log[i].topic \in iterator.topics
     /\ iterator.from <= Log[i].time
     /\ Log[i].time <= currentTime}

\* Ticks leave no gap: everything due is in a frame or about to be, unless a
\* read was abandoned, the message read ahead was dropped for a reset of the
\* iterator that a pause then replaced, or the iterator started behind a stale
\* stamp.
NothingSkipped ==
  contiguous /\ pc \notin {"startRead", "startDone"} => Due \subseteq heard \union messages

\* The debounced emission catches up: once the player rests in idle and the
\* listener is free, the last frame shows the state the player is in.
RestingFrameIsCurrent ==
  pc = "idle" /\ nextState = "none" /\ ~emitting /\ ~hasError =>
    /\ messages = {}
    /\ frame.time = currentTime /\ frame.playing = isPlaying

\* A requested seek is taken up or replaced by close(), never by the state the
\* running state happens to go to next.
SeekRequestKept ==
  [][nextState = "seek-backfill" /\ nextState' # nextState
       => nextState' = "close" \/ state' = "seek-backfill"]_vars

\* #stateClose has run to its end and resolved isClosed.
IsClosed == state = "close" /\ pc = "loop"

\* So it is unless the player waits for a frame nobody will finish, or a state
\* ends in an error.
CloseCompletesUnlessOrphaned ==
  nextState = "close" ~> IsClosed \/ orphaned \/ hasError

\* Playback ends and every request is worked off: once the calls stop the
\* player comes to rest and the listener has been told.
ComesToRest == <>[]((pc \in {"idle", "off"} /\ ~emitting) \/ orphaned)
=============================================================================
