----------------------- MODULE BufferedIterableSource -----------------------
(***************************************************************************)
(* BufferedIterableSource: a producer that reads ahead in the source and   *)
(* fills a queue, and the message iterator that empties it.  The two run   *)
(* on one thread and hand over at their awaits: the next() of the source,  *)
(* the condition variables readSignal and writeSignal, and the producer's  *)
(* promise, which whoever stops the producer awaits.                       *)
(*                                                                         *)
(* The caller is IterablePlayer: one call at a time, return() before       *)
(* stopProducer() before the next messageIterator(), and stopProducer(),   *)
(* terminate(), return() to close.                                         *)
(***************************************************************************)
EXTENDS Integers, Sequences

CONSTANTS
  Log,           \* the results of the source in log time order
  Starts,        \* times iterators start at
  ReadAhead,     \* #readAheadDuration
  MinReadAhead,  \* #minReadAheadDuration
  MaxIterators,  \* bound: iterators opened
  SourceFails    \* whether reads of the source may fail

Kinds == {"message", "stamp", "problem"}

ASSUME LogAssumption ==
  /\ Log \in Seq([kind : Kinds, time : Nat])
  /\ \A i, j \in 1..Len(Log) : i <= j => Log[i].time <= Log[j].time

ASSUME BoundsAssumption ==
  /\ Starts \subseteq Nat
  /\ ReadAhead \in Nat /\ MinReadAhead \in Nat
  /\ MinReadAhead <= ReadAhead
  /\ MaxIterators \in Nat
  /\ SourceFails \in BOOLEAN

VARIABLES
  cache,                \* #cache: positions of Log, oldest first
  readHead,             \* #readHead
  aborted, readDone,    \* #aborted, #readDone
  producer,             \* #producer: "none", or the state of its promise
  reading,              \* where the producer is suspended
  readWait, writeWait,  \* someone waits in readSignal, in writeSignal
  position,             \* the next result of the producer's source iterator
  iterator,             \* where the message iterator is suspended
  args,                 \* what it was asked for
  item,                 \* the last result it yielded, 0 before the first
  outcome,              \* how it ended, "no" before
  caller,               \* the call the player awaits
  closing,              \* the player is closing
  opened                \* iterators opened so far

queue == <<cache, readHead>>
flags == <<aborted, readDone>>
producing == <<producer, reading, writeWait, position>>
consuming == <<iterator, readWait, args, item, outcome>>
calling == <<caller, closing, opened>>
vars == <<queue, flags, producing, consuming, calling>>

IsMessage(i) == Log[i].kind = "message"
IsStamp(i) == Log[i].kind = "stamp"

\* What the source yields to an iterator.
Stream(a) ==
  IF a.anyTopics THEN {i \in 1..Len(Log) : Log[i].time >= a.start} ELSE {}

-----------------------------------------------------------------------------
(* The producer.                                                           *)

\* MUTANT of Finish: a waiting reader is not told that the producer is gone.
FinishMutant(how) ==
  /\ readDone' = TRUE
  /\ producer' = how
  /\ reading' = "off"
  /\ UNCHANGED <<cache, readHead, aborted, writeWait, position, consuming, calling>>

\* The finally block and the settling of the producer's promise.
Finish(how) ==
  /\ readWait' = FALSE
  /\ readDone' = TRUE
  /\ producer' = how
  /\ reading' = "off"
  /\ UNCHANGED <<cache, readHead, aborted, writeWait, position, iterator, args,
                 item, outcome, calling>>

\* The producer waits for the consumer to take something.
AwaitWrite(at) == reading' = at /\ writeWait' = TRUE

FarAhead(i) == Log[i].time >= readHead + ReadAhead

\* MUTANT of OfferStamp: the producer does not wait before it looks again.
OfferStampMutant(i) ==
  /\ cache' = Append(cache, i)
  /\ readWait' = FALSE
  /\ reading' = "stamp"
  /\ UNCHANGED writeWait

\* A stamp beyond the read-ahead: offer it to the reader and wait.
OfferStamp(i) ==
  /\ cache' = Append(cache, i)
  /\ readWait' = FALSE
  /\ AwaitWrite("stamp")

\* A result to consume.  The reader is told once there is enough ahead of it;
\* canReadMore() of the cache below is either.
Enqueue(i) ==
  /\ cache' = Append(cache, i)
  /\ IF IsMessage(i) /\ Log[i].time < readHead + MinReadAhead
     THEN UNCHANGED <<readWait, writeWait, reading>>
     ELSE /\ readWait' = FALSE
          /\ \/ /\ IsMessage(i)
                /\ Log[i].time <= readHead + ReadAhead
                /\ UNCHANGED <<writeWait, reading>>
             \/ AwaitWrite("write")

SourceYields ==
  /\ reading = "next"
  /\ position <= Len(Log)
  /\ position' = position + 1
  /\ IF aborted
     THEN reading' = "return" /\ UNCHANGED <<cache, readWait, writeWait>>
     ELSE IF IsStamp(position) /\ FarAhead(position)
     THEN OfferStamp(position)
     ELSE Enqueue(position)
  /\ UNCHANGED <<readHead, flags, producer, iterator, args, item, outcome, calling>>

SourceDone ==
  /\ reading = "next"
  /\ position > Len(Log)
  /\ Finish("resolved")

\* The producer gave up and has ended the source's iterator.
SourceReturned ==
  /\ reading = "return"
  /\ Finish("resolved")

SourceRejects ==
  /\ SourceFails
  /\ reading \in {"next", "return"}
  /\ Finish("rejected")

ProducerWakes ==
  /\ reading \in {"write", "stamp"}
  /\ ~writeWait
  /\ IF reading = "stamp" /\ FarAhead(position - 1)
     THEN IF aborted
          THEN reading' = "return" /\ UNCHANGED <<cache, readWait, writeWait>>
          ELSE OfferStamp(position - 1)
     ELSE reading' = "next" /\ UNCHANGED <<cache, readWait, writeWait>>
  /\ UNCHANGED <<readHead, flags, producer, position, iterator, args, item,
                 outcome, calling>>

-----------------------------------------------------------------------------
(* stopProducer, called by the player and by the iterator's finally block. *)

\* MUTANT of Abort: a waiting producer is not told.
AbortMutant ==
  /\ aborted' = TRUE
  /\ UNCHANGED <<queue, readDone, producing>>

Abort ==
  /\ aborted' = TRUE
  /\ writeWait' = FALSE
  /\ UNCHANGED <<queue, readDone, producer, reading, position>>

\* `await this.#producer`: a rejected promise is thrown on, and kept.
Stopped ==
  /\ producer # "running"
  /\ producer' = IF producer = "resolved" THEN "none" ELSE producer
  /\ UNCHANGED <<queue, flags, reading, writeWait, position>>

-----------------------------------------------------------------------------
(* The message iterator.                                                   *)

Answer == caller' = "idle" /\ UNCHANGED <<closing, opened>>

\* A problem has no time.
HeadAfter(i) == IF Log[i].kind = "problem" THEN readHead ELSE Log[i].time

YieldItem ==
  /\ cache # <<>>
  /\ item' = Head(cache)
  /\ readHead' = HeadAfter(Head(cache))
  /\ cache' = Tail(cache)
  /\ writeWait' = FALSE
  /\ iterator' = "yielded"
  /\ Answer
  /\ UNCHANGED <<flags, producer, reading, position, readWait, args, outcome>>

\* The finally block: stop the producer and await it.
EndIterator(how) ==
  /\ Abort
  /\ iterator' = "stopping"
  /\ outcome' = how
  /\ UNCHANGED <<readWait, args, item>>

\* MUTANT of Consume: the end of the producer is looked at before the queue.
ConsumeMutant ==
  \/ ~readDone /\ YieldItem
  \/ /\ readDone
     /\ EndIterator("done")
     /\ caller' = "next"
     /\ UNCHANGED <<closing, opened>>
  \/ /\ cache = <<>> /\ ~readDone
     /\ iterator' = "waiting"
     /\ readWait' = TRUE
     /\ caller' = "next"
     /\ UNCHANGED <<queue, flags, producing, args, item, outcome, closing, opened>>

\* One turn of the iterator's loop, up to its next await or yield.
Consume ==
  \/ YieldItem
  \/ /\ cache = <<>> /\ readDone
     /\ EndIterator("done")
     /\ caller' = "next"
     /\ UNCHANGED <<closing, opened>>
  \/ /\ cache = <<>> /\ ~readDone
     /\ iterator' = "waiting"
     /\ readWait' = TRUE
     /\ caller' = "next"
     /\ UNCHANGED <<queue, flags, producing, args, item, outcome, closing, opened>>

ReaderWakes ==
  /\ iterator = "waiting"
  /\ ~readWait
  /\ Consume

IteratorStopped ==
  /\ iterator = "stopping"
  /\ Stopped
  /\ iterator' = "ended"
  /\ outcome' = IF producer = "rejected" THEN "failed" ELSE outcome
  /\ Answer
  /\ UNCHANGED <<readWait, args, item>>

-----------------------------------------------------------------------------
(* The player's calls.                                                     *)

Idle == caller = "idle" /\ ~closing

\* The producer clears the queue; an iterator for no topics starts none.
FreshCache(a) == IF a.anyTopics THEN <<>> ELSE cache

\* Where the source's iterator starts: at the first result at time t or later.
FirstFrom(t) ==
  {i \in 1..(Len(Log) + 1) : \A j \in 1..Len(Log) : j < i <=> Log[j].time < t}

MessageIterator(a) ==
  /\ Idle
  /\ iterator = "ended"
  /\ producer = "none"
  /\ opened < MaxIterators
  /\ opened' = opened + 1
  /\ readHead' = a.start
  /\ aborted' = FALSE
  /\ readDone' = ~a.anyTopics
  /\ cache' = FreshCache(a)
  /\ position' \in IF a.anyTopics THEN FirstFrom(a.start) ELSE {position}
  /\ producer' = IF a.anyTopics THEN "running" ELSE "resolved"
  /\ reading' = IF a.anyTopics THEN "next" ELSE "off"
  /\ iterator' = "fresh"
  /\ args' = a
  /\ item' = 0
  /\ outcome' = "no"
  /\ UNCHANGED <<readWait, writeWait, caller, closing>>

\* next(): the first call enters the iterator, the others go on after a yield.
CallNext ==
  /\ Idle
  /\ iterator \in {"fresh", "yielded"}
  /\ IF args.anyTopics
     THEN Consume
     ELSE /\ EndIterator("done")
          /\ caller' = "next"
          /\ UNCHANGED <<closing, opened>>

\* return() of an iterator that was never read from does not run its finally
\* block: the producer goes on.
CallReturn ==
  /\ caller = "idle"
  /\ closing => producer = "none"
  /\ \/ /\ iterator = "fresh"
        /\ iterator' = "ended"
        /\ outcome' = "returned"
        /\ UNCHANGED <<queue, flags, producing, readWait, args, item, calling>>
     \/ /\ iterator = "yielded"
        /\ EndIterator("returned")
        /\ caller' = "return"
        /\ UNCHANGED <<closing, opened>>

CallStopProducer ==
  /\ Idle
  /\ iterator = "ended"
  /\ Abort
  /\ caller' = "stop"
  /\ UNCHANGED <<consuming, closing, opened>>

\* The player closes while its iterator is still there.
CallClose ==
  /\ Idle
  /\ closing' = TRUE
  /\ Abort
  /\ caller' = "stop"
  /\ UNCHANGED <<consuming, opened>>

\* stopProducer() settles.  The player closing goes on to terminate(), unless
\* it was rejected.
CallStopped ==
  /\ caller = "stop"
  /\ producer # "running"
  /\ producer' = IF producer = "resolved" THEN "none" ELSE producer
  /\ cache' = IF closing /\ producer # "rejected" THEN <<>> ELSE cache
  /\ Answer
  /\ UNCHANGED <<readHead, flags, reading, writeWait, position, consuming>>

-----------------------------------------------------------------------------
Init ==
  /\ cache = <<>> /\ readHead = 0
  /\ aborted = FALSE /\ readDone = FALSE
  /\ producer = "none" /\ reading = "off"
  /\ readWait = FALSE /\ writeWait = FALSE /\ position = 1
  /\ iterator = "ended" /\ args = [anyTopics |-> FALSE, start |-> 0]
  /\ item = 0 /\ outcome = "returned"
  /\ caller = "idle" /\ closing = FALSE /\ opened = 0

Producer ==
  SourceYields \/ SourceDone \/ SourceReturned \/ SourceRejects \/ ProducerWakes

Reader == ReaderWakes \/ IteratorStopped \/ CallStopped

Calls ==
  \/ \E t \in Starts, any \in BOOLEAN : MessageIterator([anyTopics |-> any, start |-> t])
  \/ CallNext \/ CallReturn \/ CallStopProducer \/ CallClose

Next == Producer \/ Reader \/ Calls

Spec == Init /\ [][Next]_vars

\* Reads of the source settle and wakened code runs; nothing obliges the
\* player to call.
FairSpec == Spec /\ WF_vars(Producer) /\ WF_vars(Reader)

-----------------------------------------------------------------------------
(* Properties.                                                             *)

\* Every variable has its type; in particular the queue holds nothing that the
\* current producer has not read.
TypeOK ==
  /\ cache \in Seq(1..(position - 1)) /\ readHead \in Nat
  /\ aborted \in BOOLEAN /\ readDone \in BOOLEAN
  /\ producer \in {"none", "running", "resolved", "rejected"}
  /\ reading \in {"off", "next", "write", "stamp", "return"}
  /\ readWait \in BOOLEAN /\ writeWait \in BOOLEAN
  /\ position \in 1..(Len(Log) + 1)
  /\ iterator \in {"fresh", "waiting", "yielded", "stopping", "ended"}
  /\ args \in [anyTopics : BOOLEAN, start : Nat]
  /\ item \in 0..Len(Log)
  /\ outcome \in {"no", "done", "failed", "returned"}
  /\ caller \in {"idle", "next", "return", "stop"}
  /\ closing \in BOOLEAN
  /\ opened \in 0..MaxIterators

\* What the player sees of its iterator is the stream it asked for: nothing is
\* lost, repeated (but stamps) or left over from an earlier iterator.  An
\* iterator counts as over when it has answered that it is.
Promised ==
  INSTANCE MessageStream WITH
    Streams <- {Stream(a) : a \in [anyTopics : BOOLEAN, start : Starts]},
    stream <- Stream(args), last <- item,
    over <- IF iterator = "ended" THEN outcome ELSE "no"
IteratorKeepsPromise == Promised!Spec

\* Whoever sleeps will be woken: the reader sleeps only while the producer is
\* running and does not itself wait for the reader, and the producer waits only
\* while there is something for the reader to take.
SleepersAreWoken ==
  /\ readWait => ~readDone /\ ~writeWait /\ reading # "off"
  /\ writeWait => cache # <<>>

\* Somebody goes on by itself: the producer is at the source or was woken, the
\* reader was woken, or the promise that is awaited has settled.
SomebodyGoesOn ==
  \/ reading \in {"next", "return"}
  \/ reading \in {"write", "stamp"} /\ ~writeWait
  \/ iterator = "waiting" /\ ~readWait
  \/ (iterator = "stopping" \/ caller = "stop") /\ producer # "running"

\* No wakeup is lost, and no call of next(), return() or stopProducer() is ever
\* pending with nobody at work for it.
NobodyWaitsInVain == SleepersAreWoken /\ (caller # "idle" => SomebodyGoesOn)

\* A bound on the steps a pending call can still take.
StepsLeft ==
  2 * (Len(Log) + 1 - position)
  + (CASE reading = "off" -> 0
       [] reading = "return" -> 1
       [] reading = "next" -> 2
       [] reading \in {"write", "stamp"} -> IF writeWait THEN 3 ELSE 4)
  + (IF iterator = "waiting" THEN 1 ELSE 0)

\* A call is not busy without end: every step that does not answer it leaves
\* fewer steps to take.  So the reader is never woken for nothing, and a stamp
\* beyond the read-ahead is not offered over and over while a call waits.
CallsWearDown == [][caller # "idle" /\ caller' # "idle" => StepsLeft' < StepsLeft]_vars

\* next(), return() and stopProducer() all return, however the producer is
\* suspended when they are called.
CallsReturn == caller # "idle" ~> caller = "idle"
=============================================================================
