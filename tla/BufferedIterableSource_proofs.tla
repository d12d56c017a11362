------------------- MODULE BufferedIterableSource_proofs -------------------
(***************************************************************************)
(* What holds of BufferedIterableSource for every log and every read-ahead: *)
(* its variables keep their types, no wakeup of the producer or of the     *)
(* reader is lost, a pending call always wears down, and its iterators are *)
(* streams as MessageStream has them.                                      *)
(***************************************************************************)
EXTENDS BufferedIterableSource, SequenceTheorems, TLAPS

\* Who may be waiting: a sleeping reader is in its loop, a sleeping producer in
\* one of its two waits, the producer's promise is pending while it runs, and a
\* reader that goes on reading finds either a producer or readDone.
WaitsAgree ==
  /\ readWait => iterator = "waiting"
  /\ writeWait => reading \in {"write", "stamp"}
  /\ reading # "off" <=> producer = "running"
  /\ reading = "off" => readDone \/ iterator = "ended"
  /\ reading \in {"write", "stamp"} => position > 1

\* The inductive invariant.
IInv == TypeOK /\ WaitsAgree /\ SleepersAreWoken

-----------------------------------------------------------------------------
(* Types.                                                                  *)

\* The queue grows by results the producer has read and shrinks from its head.
LEMMA AppendType ==
  ASSUME NEW S, NEW q \in Seq(S), NEW i \in S
  PROVE  Append(q, i) \in Seq(S) /\ Append(q, i) # <<>>
BY AppendProperties

\* What is taken from the head of a queue was in it.
LEMMA TailType ==
  ASSUME NEW S, NEW q \in Seq(S), q # <<>>
  PROVE  Head(q) \in S /\ Tail(q) \in Seq(S)
BY HeadTailProperties

\* A queue of what was read so far stays one when more is read.
LEMMA WidenQueue ==
  ASSUME NEW n \in Nat, NEW q \in Seq(1..n)
  PROVE  q \in Seq(1..(n + 1))
<1>1. 1..n \subseteq 1..(n + 1)
  OBVIOUS
<1> QED
  BY <1>1, SeqMonotonic

\* Every step of the producer keeps the types.
LEMMA ProducerTypes ==
  ASSUME TypeOK, WaitsAgree, Producer
  PROVE  TypeOK'
<1> USE DEF TypeOK, queue, flags, producing, consuming, calling
<1>1. Len(Log) \in Nat
  BY LogAssumption
<1>2. ASSUME NEW how \in {"resolved", "rejected"}, Finish(how)
      PROVE  TypeOK'
  BY <1>2 DEF Finish
<1>3. CASE SourceYields
  <2>1. position' = position + 1 /\ position' \in 1..(Len(Log) + 1)
    BY <1>1, <1>3 DEF SourceYields
  <2>2. cache' \in Seq(1..(position' - 1))
    <3>1. cache' = cache \/ cache' = Append(cache, position)
      BY <1>3 DEF SourceYields, OfferStamp, Enqueue
    <3>2. cache \in Seq(1..(position' - 1)) /\ position \in 1..(position' - 1)
      BY <2>1, WidenQueue
    <3>3. Append(cache, position) \in Seq(1..(position' - 1))
      BY <3>2, AppendType
    <3> QED
      BY <3>1, <3>2, <3>3
  <2>3. /\ reading' \in {"off", "next", "write", "stamp", "return"}
        /\ readWait' \in BOOLEAN /\ writeWait' \in BOOLEAN
    BY <1>3 DEF SourceYields, OfferStamp, Enqueue, AwaitWrite
  <2> QED
    BY <1>3, <2>1, <2>2, <2>3 DEF SourceYields
<1>4. CASE SourceDone \/ SourceReturned \/ SourceRejects
  BY <1>2, <1>4 DEF SourceDone, SourceReturned, SourceRejects
<1>5. CASE ProducerWakes
  <2>1. cache' \in Seq(1..(position - 1))
    <3>1. cache' = cache \/ cache' = Append(cache, position - 1)
      BY <1>5 DEF ProducerWakes, OfferStamp
    <3>2. position - 1 \in 1..(position - 1)
      BY <1>1, <1>5 DEF WaitsAgree, ProducerWakes
    <3>3. Append(cache, position - 1) \in Seq(1..(position - 1))
      BY <3>2, AppendType
    <3> QED
      BY <3>1, <3>3
  <2>2. /\ reading' \in {"off", "next", "write", "stamp", "return"}
        /\ readWait' \in BOOLEAN /\ writeWait' \in BOOLEAN
    BY <1>5 DEF ProducerWakes, OfferStamp, AwaitWrite
  <2> QED
    BY <1>5, <2>1, <2>2 DEF ProducerWakes
<1> QED
  BY <1>3, <1>4, <1>5 DEF Producer

\* Ending an iterator keeps the types.
LEMMA EndIteratorTypes ==
  ASSUME TypeOK, NEW how \in {"done", "returned"}, EndIterator(how),
         caller' \in {"idle", "next", "return", "stop"}, UNCHANGED <<closing, opened>>
  PROVE  TypeOK'
BY DEF TypeOK, EndIterator, Abort, queue

\* So does a turn of the reader's loop.
LEMMA ConsumeTypes ==
  ASSUME TypeOK, Consume
  PROVE  TypeOK'
<1>1. CASE YieldItem
  <2>1. /\ Head(cache) \in 1..(position - 1) /\ Tail(cache) \in Seq(1..(position - 1))
        /\ position \in 1..(Len(Log) + 1) /\ Len(Log) \in Nat
    BY <1>1, TailType, LogAssumption DEF TypeOK, YieldItem
  <2>2. Head(cache) \in 1..Len(Log)
    BY <2>1
  <2>3. Log[Head(cache)] \in [kind : Kinds, time : Nat]
    BY <2>2, LogAssumption, ElementOfSeq
  <2>4. HeadAfter(Head(cache)) \in Nat
    BY <2>3 DEF TypeOK, HeadAfter
  <2>5. item' \in 0..Len(Log)
    BY <1>1, <2>2 DEF YieldItem
  <2> QED
    BY <1>1, <2>1, <2>4, <2>5 DEF TypeOK, YieldItem, Answer, flags
<1>2. CASE EndIterator("done") /\ caller' = "next" /\ UNCHANGED <<closing, opened>>
  BY <1>2, EndIteratorTypes
<1>3. CASE /\ iterator' = "waiting" /\ readWait' = TRUE /\ caller' = "next"
           /\ UNCHANGED <<queue, flags, producing, args, item, outcome, closing, opened>>
  BY <1>3 DEF TypeOK, queue, flags, producing
<1> QED
  BY <1>1, <1>2, <1>3 DEF Consume

\* And every wakeup of the reader, and the end of stopProducer().
LEMMA ReaderTypes ==
  ASSUME TypeOK, Reader
  PROVE  TypeOK'
<1>1. CASE ReaderWakes
  BY <1>1, ConsumeTypes DEF ReaderWakes
<1>2. CASE IteratorStopped
  BY <1>2 DEF TypeOK, IteratorStopped, Stopped, Answer, queue, flags
<1>3. CASE CallStopped
  <2>1. cache' \in Seq(1..(position - 1))
    BY <1>3, EmptySeq DEF TypeOK, CallStopped
  <2> QED
    BY <1>3, <2>1 DEF TypeOK, CallStopped, Answer, flags, consuming
<1> QED
  BY <1>1, <1>2, <1>3 DEF Reader

\* And every call of the player.
LEMMA CallTypes ==
  ASSUME TypeOK, Calls
  PROVE  TypeOK'
<1>1. ASSUME NEW a \in [anyTopics : BOOLEAN, start : Nat], MessageIterator(a)
      PROVE  TypeOK'
  <2>1. a.anyTopics \in BOOLEAN /\ a.start \in Nat
    OBVIOUS
  <2>2. position' \in 1..(Len(Log) + 1)
    BY <1>1 DEF TypeOK, MessageIterator, FirstFrom
  <2>3. cache' \in Seq(1..(position' - 1))
    BY <1>1, EmptySeq DEF TypeOK, MessageIterator, FreshCache
  <2>4. opened' \in 0..MaxIterators
    BY <1>1, BoundsAssumption DEF TypeOK, MessageIterator
  <2>5. readHead' \in Nat /\ aborted' \in BOOLEAN /\ readDone' \in BOOLEAN
    BY <1>1, <2>1 DEF MessageIterator
  <2> HIDE DEF TypeOK
  <2> QED
    BY <1>1, <2>2, <2>3, <2>4, <2>5 DEF TypeOK, MessageIterator
<1>2. CASE CallNext
  BY <1>2, ConsumeTypes, EndIteratorTypes DEF CallNext
<1>3. CASE CallReturn
  <2>1. CASE EndIterator("returned") /\ caller' = "return" /\ UNCHANGED <<closing, opened>>
    BY <2>1, EndIteratorTypes
  <2>2. CASE /\ iterator' = "ended" /\ outcome' = "returned"
             /\ UNCHANGED <<queue, flags, producing, readWait, args, item, calling>>
    BY <2>2 DEF TypeOK, queue, flags, producing, calling
  <2> QED
    BY <1>3, <2>1, <2>2 DEF CallReturn
<1>4. CASE CallStopProducer \/ CallClose
  BY <1>4 DEF TypeOK, CallStopProducer, CallClose, Abort, queue, consuming
<1>5. \A t \in Starts, any \in BOOLEAN :
        [anyTopics |-> any, start |-> t] \in [anyTopics : BOOLEAN, start : Nat]
  BY BoundsAssumption
<1> QED
  BY <1>1, <1>2, <1>3, <1>4, <1>5 DEF Calls

-----------------------------------------------------------------------------
(* The invariant is inductive.                                             *)

\* The producer's steps keep who waits for whom.
LEMMA ProducerKeepsPlaces ==
  ASSUME IInv, Producer
  PROVE  WaitsAgree' /\ SleepersAreWoken'
<1> USE DEF WaitsAgree, SleepersAreWoken
<1>1. /\ WaitsAgree /\ SleepersAreWoken
      /\ position \in 1..(Len(Log) + 1) /\ Len(Log) \in Nat
      /\ cache \in Seq(1..(position - 1)) /\ readWait \in BOOLEAN /\ writeWait \in BOOLEAN
      /\ aborted \in BOOLEAN /\ readDone \in BOOLEAN
  BY LogAssumption DEF IInv, TypeOK
<1>2. CASE SourceYields
  <2>1. /\ reading = "next" /\ producer = "running" /\ ~writeWait
        /\ position' > 1 /\ UNCHANGED <<readDone, producer, iterator>>
    BY <1>1, <1>2 DEF SourceYields, flags
  <2>2. Append(cache, position) # <<>>
    <3>1. cache \in Seq(1..position) /\ position \in 1..position
      BY <1>1, WidenQueue
    <3> QED
      BY <3>1, AppendType
  <2>3. CASE aborted
    BY <1>1, <1>2, <2>1, <2>3 DEF SourceYields
  <2>4. CASE ~aborted /\ OfferStamp(position)
    BY <1>1, <2>1, <2>2, <2>4 DEF OfferStamp, AwaitWrite
  <2>5. CASE ~aborted /\ Enqueue(position)
    BY <1>1, <2>1, <2>2, <2>5 DEF Enqueue, AwaitWrite
  <2> QED
    BY <1>2, <2>3, <2>4, <2>5 DEF SourceYields
<1>3. CASE SourceDone \/ SourceReturned \/ SourceRejects
  BY <1>1, <1>3 DEF SourceDone, SourceReturned, SourceRejects, Finish
<1>4. CASE ProducerWakes
  <2>1. /\ reading # "off" /\ producer = "running" /\ ~writeWait
        /\ position > 1 /\ UNCHANGED <<readDone, producer, iterator, position>>
    BY <1>1, <1>4 DEF ProducerWakes, flags
  <2>2. Append(cache, position - 1) # <<>>
    <3>1. position - 1 \in 1..(position - 1)
      BY <1>1, <2>1
    <3> QED
      BY <1>1, <3>1, AppendType
  <2>3. CASE OfferStamp(position - 1)
    BY <1>1, <2>1, <2>2, <2>3 DEF OfferStamp, AwaitWrite
  <2>4. CASE reading' \in {"return", "next"} /\ UNCHANGED <<cache, readWait, writeWait>>
    BY <1>1, <2>1, <2>4
  <2> QED
    BY <1>4, <2>3, <2>4 DEF ProducerWakes
<1> QED
  BY <1>2, <1>3, <1>4 DEF Producer

\* Ending an iterator, as next() and return() do, keeps them: nobody sleeps.
LEMMA EndKeepsPlaces ==
  ASSUME IInv, NEW how, EndIterator(how),
         readWait = FALSE, readDone \/ reading # "off"
  PROVE  WaitsAgree' /\ SleepersAreWoken'
BY DEF IInv, TypeOK, WaitsAgree, SleepersAreWoken, EndIterator, Abort, queue

\* A turn of the reader's loop keeps them: it sleeps only if the producer runs.
LEMMA ConsumeKeepsPlaces ==
  ASSUME IInv, Consume, readWait = FALSE, iterator # "ended"
  PROVE  WaitsAgree' /\ SleepersAreWoken'
<1>1. readDone \/ reading # "off"
  BY DEF IInv, WaitsAgree
<1>2. CASE YieldItem
  BY <1>1, <1>2 DEF IInv, TypeOK, WaitsAgree, SleepersAreWoken, YieldItem, flags
<1>3. CASE EndIterator("done")
  BY <1>1, <1>3, EndKeepsPlaces
<1>4. CASE /\ cache = <<>> /\ ~readDone /\ iterator' = "waiting" /\ readWait' = TRUE
           /\ UNCHANGED <<queue, flags, producing>>
  BY <1>1, <1>4 DEF IInv, TypeOK, WaitsAgree, SleepersAreWoken, queue, flags, producing
<1> QED
  BY <1>2, <1>3, <1>4 DEF Consume

\* So do the wakeups of the reader and the ends of stopProducer().
LEMMA ReaderKeepsPlaces ==
  ASSUME IInv, Reader
  PROVE  WaitsAgree' /\ SleepersAreWoken'
<1>1. CASE ReaderWakes
  BY <1>1, ConsumeKeepsPlaces DEF ReaderWakes, IInv, TypeOK
<1>2. CASE IteratorStopped
  BY <1>2 DEF IInv, TypeOK, WaitsAgree, SleepersAreWoken, IteratorStopped, Stopped,
              Answer, queue, flags
<1>3. CASE CallStopped
  <2>1. producer # "running" /\ producer' # "running"
    BY <1>3 DEF CallStopped
  <2>2. UNCHANGED <<readDone, reading, readWait, writeWait, position, iterator>>
    BY <1>3 DEF CallStopped, flags, consuming
  <2> QED
    BY <2>1, <2>2 DEF IInv, TypeOK, WaitsAgree, SleepersAreWoken
<1> QED
  BY <1>1, <1>2, <1>3 DEF Reader

\* And every call of the player.
LEMMA CallKeepsPlaces ==
  ASSUME IInv, Calls
  PROVE  WaitsAgree' /\ SleepersAreWoken'
<1>1. ASSUME NEW a \in [anyTopics : BOOLEAN, start : Nat], MessageIterator(a)
      PROVE  WaitsAgree' /\ SleepersAreWoken'
  <2>1. reading = "off" /\ ~readWait /\ ~writeWait
    BY <1>1 DEF IInv, TypeOK, WaitsAgree, MessageIterator
  <2>2. UNCHANGED <<readWait, writeWait>>
    BY <1>1 DEF MessageIterator
  <2>3. /\ reading' = (IF a.anyTopics THEN "next" ELSE "off")
        /\ producer' = (IF a.anyTopics THEN "running" ELSE "resolved")
        /\ readDone' = ~a.anyTopics
    BY <1>1 DEF MessageIterator
  <2> QED
    BY <1>1, <2>1, <2>2, <2>3 DEF WaitsAgree, SleepersAreWoken
<1>2. CASE CallNext
  <2>1. readWait = FALSE /\ iterator # "ended" /\ (readDone \/ reading # "off")
    BY <1>2 DEF CallNext, IInv, TypeOK, WaitsAgree
  <2> QED
    BY <1>2, <2>1, ConsumeKeepsPlaces, EndKeepsPlaces DEF CallNext
<1>3. CASE CallReturn
  <2>1. readWait = FALSE /\ (readDone \/ reading # "off")
    BY <1>3 DEF CallReturn, IInv, TypeOK, WaitsAgree
  <2>2. CASE EndIterator("returned")
    BY <2>1, <2>2, EndKeepsPlaces
  <2>3. CASE iterator' = "ended" /\ UNCHANGED <<queue, flags, producing, readWait>>
    BY <2>1, <2>3 DEF IInv, WaitsAgree, SleepersAreWoken, queue, flags, producing
  <2> QED
    BY <1>3, <2>2, <2>3 DEF CallReturn
<1>4. CASE CallStopProducer \/ CallClose
  BY <1>4 DEF IInv, TypeOK, WaitsAgree, SleepersAreWoken, CallStopProducer, CallClose,
              Abort, queue, consuming
<1>5. \A t \in Starts, any \in BOOLEAN :
        [anyTopics |-> any, start |-> t] \in [anyTopics : BOOLEAN, start : Nat]
  BY BoundsAssumption
<1> QED
  BY <1>1, <1>2, <1>3, <1>4, <1>5 DEF Calls

\* A stuttering step changes nothing.
LEMMA QuietStep ==
  ASSUME IInv, UNCHANGED vars
  PROVE  IInv'
BY DEF IInv, TypeOK, WaitsAgree, SleepersAreWoken, vars, queue, flags, producing,
       consuming, calling

-----------------------------------------------------------------------------
(* Results.                                                                *)

\* IInv holds at first.
LEMMA InitInv ==
  ASSUME Init
  PROVE  IInv
<1>1. cache \in Seq(1..(position - 1))
  BY EmptySeq DEF Init
<1>2. Len(Log) \in Nat /\ MaxIterators \in Nat
  BY LogAssumption, BoundsAssumption
<1>3. /\ position \in 1..(Len(Log) + 1) /\ item \in 0..Len(Log)
      /\ opened \in 0..MaxIterators /\ readHead \in Nat
  BY <1>2 DEF Init
<1>4. TypeOK
  BY <1>1, <1>3 DEF Init, TypeOK
<1>5. WaitsAgree /\ SleepersAreWoken
  BY DEF Init, WaitsAgree, SleepersAreWoken
<1> QED
  BY <1>4, <1>5 DEF IInv

\* Every step keeps IInv.
LEMMA IInvStep ==
  ASSUME IInv, [Next]_vars
  PROVE  IInv'
<1>1. CASE Producer
  BY <1>1, ProducerTypes, ProducerKeepsPlaces DEF IInv
<1>2. CASE Reader
  BY <1>2, ReaderTypes, ReaderKeepsPlaces DEF IInv
<1>3. CASE Calls
  BY <1>3, CallTypes, CallKeepsPlaces DEF IInv
<1> QED
  BY <1>1, <1>2, <1>3, QuietStep DEF Next

\* BufferedIterableSource keeps the types of its variables; in particular its
\* queue only ever holds what the current producer has read.
THEOREM TypeCorrect == Spec => []TypeOK
<1>1. Init => IInv
  BY InitInv
<1>2. IInv /\ [Next]_vars => IInv'
  BY IInvStep
<1>3. IInv => TypeOK
  BY DEF IInv
<1> QED
  BY <1>1, <1>2, <1>3, PTL DEF Spec

-----------------------------------------------------------------------------
(* Calls that are pending.                                                 *)

\* Where a pending call waits.  A reader that was woken finds a result or the
\* end, whoever awaits the producer has aborted it, and an aborted producer does
\* not wait for the reader.
CallsAgree ==
  /\ caller = "next" => iterator \in {"waiting", "stopping"}
  /\ caller = "return" => iterator = "stopping"
  /\ caller = "stop" => iterator \notin {"waiting", "stopping"}
  /\ iterator \in {"waiting", "stopping"} => caller # "idle"
  /\ iterator = "stopping" \/ caller = "stop" => aborted
  /\ aborted => ~writeWait
  /\ iterator = "waiting" /\ ~readWait => cache # <<>> \/ readDone
  /\ readDone => reading = "off"

CallInv == IInv /\ CallsAgree

\* The producer's steps keep it: what wakes the reader is a result or the end.
LEMMA ProducerKeepsCalls ==
  ASSUME CallInv, Producer
  PROVE  CallsAgree'
<1> USE DEF CallsAgree
<1>1. /\ CallsAgree /\ WaitsAgree /\ SleepersAreWoken
      /\ position \in 1..(Len(Log) + 1) /\ Len(Log) \in Nat
      /\ cache \in Seq(1..(position - 1)) /\ readWait \in BOOLEAN /\ writeWait \in BOOLEAN
      /\ aborted \in BOOLEAN /\ readDone \in BOOLEAN
  BY LogAssumption DEF CallInv, IInv, TypeOK
<1>2. CASE SourceYields
  <2>1. /\ reading = "next" /\ ~readDone /\ ~writeWait
        /\ UNCHANGED <<aborted, readDone, iterator, caller>>
    BY <1>1, <1>2 DEF SourceYields, flags, calling, WaitsAgree
  <2>2. Append(cache, position) # <<>>
    <3>1. cache \in Seq(1..position) /\ position \in 1..position
      BY <1>1, WidenQueue
    <3> QED
      BY <3>1, AppendType
  <2>3. CASE aborted
    BY <1>1, <1>2, <2>1, <2>3 DEF SourceYields
  <2>4. CASE ~aborted /\ OfferStamp(position)
    BY <1>1, <2>1, <2>2, <2>4 DEF OfferStamp, AwaitWrite
  <2>5. CASE ~aborted /\ Enqueue(position)
    BY <1>1, <2>1, <2>2, <2>5 DEF Enqueue, AwaitWrite
  <2> QED
    BY <1>2, <2>3, <2>4, <2>5 DEF SourceYields
<1>3. CASE SourceDone \/ SourceReturned \/ SourceRejects
  BY <1>1, <1>3 DEF SourceDone, SourceReturned, SourceRejects, Finish, calling
<1>4. CASE ProducerWakes
  <2>1. /\ reading \in {"write", "stamp"} /\ ~readDone /\ ~writeWait /\ position > 1
        /\ UNCHANGED <<aborted, readDone, iterator, caller>>
    BY <1>1, <1>4 DEF ProducerWakes, flags, calling, WaitsAgree
  <2>2. Append(cache, position - 1) # <<>>
    <3>1. position - 1 \in 1..(position - 1)
      BY <1>1, <2>1
    <3> QED
      BY <1>1, <3>1, AppendType
  <2>3. CASE ~aborted /\ OfferStamp(position - 1)
    BY <1>1, <2>1, <2>2, <2>3 DEF OfferStamp, AwaitWrite
  <2>4. CASE reading' \in {"return", "next"} /\ UNCHANGED <<cache, readWait, writeWait>>
    BY <1>1, <2>1, <2>4
  <2> QED
    BY <1>4, <2>3, <2>4 DEF ProducerWakes
<1> QED
  BY <1>2, <1>3, <1>4 DEF Producer

\* A turn of the reader's loop that does not answer leaves its call waiting.
LEMMA ConsumeKeepsCalls ==
  ASSUME CallInv, Consume, readWait = FALSE
  PROVE  CallsAgree'
<1>1. CASE YieldItem
  BY <1>1 DEF CallInv, CallsAgree, YieldItem, Answer, flags
<1>2. CASE EndIterator("done") /\ caller' = "next"
  BY <1>2 DEF CallInv, CallsAgree, EndIterator, Abort
<1>3. CASE /\ cache = <<>> /\ ~readDone /\ iterator' = "waiting" /\ readWait' = TRUE
           /\ caller' = "next" /\ UNCHANGED <<queue, flags, producing>>
  <2>1. ~aborted' => ~aborted
    BY <1>3 DEF flags
  <2> QED
    BY <1>3, <2>1 DEF CallInv, CallsAgree, queue, flags, producing
<1> QED
  BY <1>1, <1>2, <1>3 DEF Consume

\* So do the other steps that end a call.
LEMMA ReaderKeepsCalls ==
  ASSUME CallInv, Reader
  PROVE  CallsAgree'
<1>1. CASE ReaderWakes
  BY <1>1, ConsumeKeepsCalls DEF ReaderWakes, CallInv, IInv, TypeOK
<1>2. CASE IteratorStopped
  BY <1>2 DEF CallInv, CallsAgree, IteratorStopped, Stopped, Answer, queue, flags
<1>3. CASE CallStopped
  BY <1>3 DEF CallInv, CallsAgree, CallStopped, Answer, flags, consuming
<1> QED
  BY <1>1, <1>2, <1>3 DEF Reader

\* And the calls themselves, each made when no other is pending.
LEMMA CallKeepsCalls ==
  ASSUME CallInv, Calls
  PROVE  CallsAgree'
<1>0. CallsAgree /\ WaitsAgree
  BY DEF CallInv, IInv
<1>1. ASSUME NEW a \in [anyTopics : BOOLEAN, start : Nat], MessageIterator(a)
      PROVE  CallsAgree'
  <2>1. /\ caller' = "idle" /\ iterator' = "fresh" /\ aborted' = FALSE
        /\ readDone' = ~a.anyTopics
        /\ reading' = (IF a.anyTopics THEN "next" ELSE "off")
    BY <1>1 DEF MessageIterator, Idle
  <2> QED
    BY <1>1, <2>1 DEF CallsAgree
<1>2. CASE CallNext
  <2>1. readWait = FALSE
    BY <1>2 DEF CallNext, CallInv, IInv, TypeOK, WaitsAgree
  <2>2. CASE EndIterator("done") /\ caller' = "next"
    BY <1>0, <2>2 DEF CallsAgree, EndIterator, Abort
  <2> QED
    BY <1>2, <2>1, <2>2, ConsumeKeepsCalls DEF CallNext
<1>3. CASE CallReturn
  <2>1. CASE EndIterator("returned") /\ caller' = "return"
    BY <1>0, <2>1 DEF CallsAgree, EndIterator, Abort
  <2>2. CASE iterator' = "ended" /\ UNCHANGED <<queue, flags, producing, calling>>
    BY <1>0, <1>3, <2>2 DEF CallsAgree, CallReturn, queue, flags, producing, calling
  <2> QED
    BY <1>3, <2>1, <2>2 DEF CallReturn
<1>4. CASE CallStopProducer \/ CallClose
  BY <1>0, <1>4 DEF CallsAgree, CallStopProducer, CallClose, Idle, Abort, consuming
<1>5. \A t \in Starts, any \in BOOLEAN :
        [anyTopics |-> any, start |-> t] \in [anyTopics : BOOLEAN, start : Nat]
  BY BoundsAssumption
<1> QED
  BY <1>1, <1>2, <1>3, <1>4, <1>5 DEF Calls

\* No call is pending at first.
LEMMA CallInvInit ==
  ASSUME Init
  PROVE  CallInv
BY InitInv DEF Init, CallInv, CallsAgree

\* Every step keeps the invariant of the calls.
LEMMA CallInvStep ==
  ASSUME CallInv, [Next]_vars
  PROVE  CallInv'
<1>1. IInv'
  BY IInvStep DEF CallInv
<1>2. ASSUME UNCHANGED vars
      PROVE  CallsAgree'
  BY <1>2 DEF CallInv, CallsAgree, vars, queue, flags, producing, consuming, calling
<1>3. ASSUME Next
      PROVE  CallsAgree'
  BY <1>3, ProducerKeepsCalls, ReaderKeepsCalls, CallKeepsCalls DEF Next
<1> QED
  BY <1>1, <1>2, <1>3 DEF CallInv

\* The condition variables of BufferedIterableSource lose no wakeup, whatever
\* the log and the read-ahead are: the reader sleeps only while a producer that
\* does not sleep is there to wake it, the producer sleeps only over a queue
\* that is not empty, and while a call is pending somebody goes on.
THEOREM NoLostWakeup == Spec => []NobodyWaitsInVain
<1>1. Init => CallInv
  BY CallInvInit
<1>2. CallInv /\ [Next]_vars => CallInv'
  BY CallInvStep
<1>3. CallInv => NobodyWaitsInVain
  <2> SUFFICES ASSUME CallInv PROVE NobodyWaitsInVain
    OBVIOUS
  <2>1. SleepersAreWoken /\ WaitsAgree /\ CallsAgree
    BY DEF CallInv, IInv
  <2>2. /\ caller \in {"idle", "next", "return", "stop"} /\ readWait \in BOOLEAN
        /\ reading \in {"off", "next", "write", "stamp", "return"}
    BY DEF CallInv, IInv, TypeOK
  <2>3. caller # "idle" => SomebodyGoesOn
    BY <2>1, <2>2 DEF SleepersAreWoken, WaitsAgree, CallsAgree, SomebodyGoesOn
  <2> QED
    BY <2>1, <2>3 DEF NobodyWaitsInVain
<1> QED
  BY <1>1, <1>2, <1>3, PTL DEF Spec

-----------------------------------------------------------------------------
(* How long a call takes.                                                  *)

\* How far the producer is from its next result or its end.
Distance ==
  CASE reading = "off" -> 0
    [] reading = "return" -> 1
    [] reading = "next" -> 2
    [] reading \in {"write", "stamp"} -> IF writeWait THEN 3 ELSE 4

\* StepsLeft is a number, and less of it is left when the producer has read a
\* result and is at most one step further from the next, or has come nearer, and
\* the reader has not begun to wait.
LEMMA FewerStepsLeft ==
  ASSUME Len(Log) \in Nat, position \in 1..(Len(Log) + 1), position' \in 1..(Len(Log) + 1),
         Distance \in 0..4, Distance' \in 0..4,
         \/ position' = position + 1 /\ Distance' <= Distance + 1
         \/ position' = position /\ Distance' < Distance,
         iterator' = "waiting" => iterator = "waiting"
  PROVE  StepsLeft' < StepsLeft
<1>1. /\ StepsLeft = 2 * (Len(Log) + 1 - position) + Distance
                     + (IF iterator = "waiting" THEN 1 ELSE 0)
      /\ StepsLeft' = 2 * (Len(Log) + 1 - position') + Distance'
                      + (IF iterator' = "waiting" THEN 1 ELSE 0)
  BY DEF StepsLeft, Distance
<1> HIDE DEF Distance
<1> QED
  BY <1>1

\* Less is left, too, when a reader that was woken leaves its loop.
LEMMA LeavingIsAStep ==
  ASSUME Len(Log) \in Nat, position \in 1..(Len(Log) + 1), position' = position,
         Distance \in 0..4, Distance' = Distance,
         iterator = "waiting", iterator' # "waiting"
  PROVE  StepsLeft' < StepsLeft
<1>1. /\ StepsLeft = 2 * (Len(Log) + 1 - position) + Distance
                     + (IF iterator = "waiting" THEN 1 ELSE 0)
      /\ StepsLeft' = 2 * (Len(Log) + 1 - position') + Distance'
                      + (IF iterator' = "waiting" THEN 1 ELSE 0)
  BY DEF StepsLeft, Distance
<1> HIDE DEF Distance
<1> QED
  BY <1>1

\* The producer's steps use up what is left.
LEMMA ProducerWearsDown ==
  ASSUME CallInv, Producer
  PROVE  StepsLeft' < StepsLeft
<1>1. /\ Len(Log) \in Nat /\ position \in 1..(Len(Log) + 1)
      /\ reading \in {"off", "next", "write", "stamp", "return"}
      /\ writeWait \in BOOLEAN /\ (writeWait => reading \in {"write", "stamp"})
  BY LogAssumption DEF CallInv, IInv, TypeOK, WaitsAgree
<1>2. /\ position' \in 1..(Len(Log) + 1)
      /\ reading' \in {"off", "next", "write", "stamp", "return"} /\ writeWait' \in BOOLEAN
  BY IInvStep DEF CallInv, IInv, TypeOK, Next
<1>3. Distance \in 0..4 /\ Distance' \in 0..4
  BY <1>1, <1>2 DEF Distance
<1>4. iterator' = iterator
  BY DEF Producer, SourceYields, SourceDone, SourceReturned, SourceRejects, ProducerWakes,
         Finish
<1>5. CASE SourceYields
  <2>1. position' = position + 1 /\ reading = "next" /\ ~writeWait
    BY <1>1, <1>5 DEF SourceYields
  <2>2. \/ reading' = "return"
        \/ reading' = "next"
        \/ reading' \in {"write", "stamp"} /\ writeWait'
    BY <1>5, <2>1 DEF SourceYields, OfferStamp, Enqueue, AwaitWrite
  <2>3. Distance = 2 /\ Distance' <= 3
    BY <2>1, <2>2 DEF Distance
  <2> QED
    BY <1>1, <1>2, <1>3, <1>4, <2>1, <2>3, FewerStepsLeft
<1>6. CASE SourceDone \/ SourceReturned \/ SourceRejects
  <2>1. position' = position /\ reading \in {"next", "return"} /\ reading' = "off"
    BY <1>6 DEF SourceDone, SourceReturned, SourceRejects, Finish
  <2>2. Distance' < Distance
    BY <2>1 DEF Distance
  <2> QED
    BY <1>1, <1>2, <1>3, <1>4, <2>1, <2>2, FewerStepsLeft
<1>7. CASE ProducerWakes
  <2>1. position' = position /\ reading \in {"write", "stamp"} /\ ~writeWait
    BY <1>7 DEF ProducerWakes
  <2>2. \/ reading' \in {"return", "next"}
        \/ reading' = "stamp" /\ writeWait'
    BY <1>7 DEF ProducerWakes, OfferStamp, AwaitWrite
  <2>3. Distance' < Distance
    BY <2>1, <2>2 DEF Distance
  <2> QED
    BY <1>1, <1>2, <1>3, <1>4, <2>1, <2>3, FewerStepsLeft
<1> QED
  BY <1>5, <1>6, <1>7 DEF Producer

\* A reader that was woken answers or leaves its loop; it does not wait again.
LEMMA ReaderWearsDown ==
  ASSUME CallInv, ReaderWakes, caller' # "idle"
  PROVE  StepsLeft' < StepsLeft
<1>1. iterator = "waiting" /\ ~readWait /\ Consume
  BY DEF ReaderWakes
<1>2. cache # <<>> \/ readDone
  BY <1>1 DEF CallInv, CallsAgree
<1>3. EndIterator("done") /\ readDone
  BY <1>1, <1>2 DEF Consume, YieldItem, Answer
<1>4. reading = "off" /\ reading' = "off" /\ position' = position /\ iterator' = "stopping"
  BY <1>3 DEF CallInv, CallsAgree, EndIterator, Abort
<1>5. Distance = 0 /\ Distance' = 0
  BY <1>4 DEF Distance
<1>6. Len(Log) \in Nat /\ position \in 1..(Len(Log) + 1)
  BY LogAssumption DEF CallInv, IInv, TypeOK
<1> HIDE DEF Distance
<1> QED
  BY <1>1, <1>4, <1>5, <1>6, LeavingIsAStep

\* No call of BufferedIterableSource is busy without end, whatever the log and
\* the read-ahead are: of the steps taken while it is pending, by the producer
\* or by the reader, each leaves fewer to take or answers it.
THEOREM CallsTakeFewSteps == Spec => CallsWearDown
<1>1. Init => CallInv
  BY CallInvInit
<1>2. CallInv /\ [Next]_vars => CallInv'
  BY CallInvStep
<1>3. CallInv /\ [Next]_vars =>
        [caller # "idle" /\ caller' # "idle" => StepsLeft' < StepsLeft]_vars
  <2> SUFFICES ASSUME CallInv, Next, caller # "idle", caller' # "idle"
               PROVE  StepsLeft' < StepsLeft
    OBVIOUS
  <2>1. CASE Producer
    BY <2>1, ProducerWearsDown
  <2>2. CASE Reader
    <3>1. ReaderWakes
      BY <2>2 DEF Reader, IteratorStopped, CallStopped, Answer
    <3> QED
      BY <3>1, ReaderWearsDown
  <2>3. CASE Calls
    BY <2>3 DEF Calls, MessageIterator, CallNext, CallReturn, CallStopProducer, CallClose, Idle
  <2> QED
    BY <2>1, <2>2, <2>3 DEF Next
<1> QED
  BY <1>1, <1>2, <1>3, PTL DEF Spec, CallsWearDown

-----------------------------------------------------------------------------
(* The refinement of MessageStream.                                        *)

\* The queue joins what was yielded to what the source yields next: it goes
\* from `it` (or from the start, f, if nothing was yielded) up to the position
\* before `pos`, and repeats results but leaves none out.
Joins(q, it, pos, f) ==
  /\ q = <<>> => it = (IF pos = f THEN 0 ELSE pos - 1)
  /\ q # <<>> =>
       /\ IF it = 0 THEN q[1] = f ELSE q[1] \in {it, it + 1}
       /\ q[Len(q)] = pos - 1
       /\ \A k \in 1..(Len(q) - 1) : q[k + 1] \in {q[k], q[k] + 1}

\* The same of an iterator whose stream starts at f.
Segment(f) ==
  /\ f <= position
  /\ item # 0 => f <= item
  /\ reading \in {"write", "stamp"} => f < position
  /\ Joins(cache, item, position, f)

Segmented == args.anyTopics /\ ~aborted => \E f \in FirstFrom(args.start) : Segment(f)

\* Nobody aborts a producer while its iterator is read, and one that is not
\* aborted ends only with the source.
Orderly ==
  /\ iterator \in {"fresh", "waiting", "yielded"} /\ aborted =>
       closing /\ iterator # "waiting"
  /\ iterator = "waiting" => caller = "next" /\ args.anyTopics
  /\ closing \/ reading = "return" => aborted
  /\ args.anyTopics /\ ~aborted /\ readDone =>
       producer = "rejected" \/ position > Len(Log)

\* An iterator that is to say that it is done has yielded everything, or will
\* find the producer's promise rejected.
Endings ==
  /\ iterator = "ended" => outcome # "no"
  /\ iterator = "stopping" => outcome \in {"done", "returned"}
  /\ iterator = "stopping" /\ outcome = "done" =>
       producer = "rejected" \/ \A j \in Stream(args) : j <= item

Reads == Segmented /\ Orderly /\ Endings

PromiseInv == IInv /\ Reads

\* A result of the source at the end of the queue.
LEMMA JoinsNext ==
  ASSUME NEW q \in Seq(Nat), NEW it \in Nat, NEW pos \in Nat \ {0}, NEW f \in Nat \ {0},
         f <= pos, Joins(q, it, pos, f)
  PROVE  Joins(Append(q, pos), it, pos + 1, f)
<1> DEFINE r == Append(q, pos)
<1>1. /\ Len(q) \in Nat /\ Len(r) = Len(q) + 1 /\ r # <<>>
      /\ \A i \in 1..Len(q) : r[i] = q[i]
      /\ r[Len(q) + 1] = pos
  BY AppendProperties, LenProperties
<1>2. q # <<>> => Len(q) # 0
  BY EmptySeq
<1>3. q = <<>> => Len(q) = 0
  BY EmptySeq
<1> HIDE DEF r
<1>4. IF it = 0 THEN r[1] = f ELSE r[1] \in {it, it + 1}
  BY <1>1, <1>2, <1>3 DEF Joins
<1>5. r[Len(r)] = (pos + 1) - 1
  BY <1>1
<1>6. ASSUME NEW k \in 1..(Len(r) - 1)
      PROVE  r[k + 1] \in {r[k], r[k] + 1}
  <2>1. CASE k = Len(q)
    <3>1. q # <<>> /\ r[k] = q[Len(q)] /\ r[k + 1] = pos
      BY <1>1, <1>3, <2>1
    <3> QED
      BY <3>1 DEF Joins
  <2>2. CASE k # Len(q)
    <3>1. k \in 1..(Len(q) - 1) /\ r[k] = q[k] /\ r[k + 1] = q[k + 1]
      BY <1>1, <2>2
    <3> QED
      BY <1>3, <3>1 DEF Joins
  <2> QED
    BY <2>1, <2>2
<1>7. Joins(r, it, pos + 1, f)
  BY <1>1, <1>4, <1>5, <1>6 DEF Joins
<1> QED
  BY <1>7 DEF r

\* The last result of the source once more.
LEMMA JoinsAgain ==
  ASSUME NEW q \in Seq(Nat), NEW it \in Nat, NEW pos \in Nat \ {0}, NEW f \in Nat \ {0},
         f < pos, Joins(q, it, pos, f)
  PROVE  Joins(Append(q, pos - 1), it, pos, f)
<1> DEFINE r == Append(q, pos - 1)
<1>1. /\ Len(q) \in Nat /\ Len(r) = Len(q) + 1 /\ r # <<>>
      /\ \A i \in 1..Len(q) : r[i] = q[i]
      /\ r[Len(q) + 1] = pos - 1
  <2>1. pos - 1 \in Nat
    OBVIOUS
  <2> QED
    BY <2>1, AppendProperties, LenProperties
<1>2. q # <<>> => Len(q) # 0
  BY EmptySeq
<1>3. q = <<>> => Len(q) = 0
  BY EmptySeq
<1> HIDE DEF r
<1>4. IF it = 0 THEN r[1] = f ELSE r[1] \in {it, it + 1}
  BY <1>1, <1>2, <1>3 DEF Joins
<1>5. r[Len(r)] = pos - 1
  BY <1>1
<1>6. ASSUME NEW k \in 1..(Len(r) - 1)
      PROVE  r[k + 1] \in {r[k], r[k] + 1}
  <2>1. CASE k = Len(q)
    <3>1. q # <<>> /\ r[k] = q[Len(q)] /\ r[k + 1] = pos - 1
      BY <1>1, <1>3, <2>1
    <3> QED
      BY <3>1 DEF Joins
  <2>2. CASE k # Len(q)
    <3>1. k \in 1..(Len(q) - 1) /\ r[k] = q[k] /\ r[k + 1] = q[k + 1]
      BY <1>1, <2>2
    <3> QED
      BY <1>3, <3>1 DEF Joins
  <2> QED
    BY <2>1, <2>2
<1>7. Joins(r, it, pos, f)
  BY <1>1, <1>4, <1>5, <1>6 DEF Joins
<1> QED
  BY <1>7 DEF r

\* The reader takes the first.
LEMMA JoinsRest ==
  ASSUME NEW q \in Seq(Nat), NEW it \in Nat, NEW pos \in Nat \ {0}, NEW f \in Nat \ {0},
         f <= pos, it # 0 => f <= it, q # <<>>, Joins(q, it, pos, f)
  PROVE  /\ Head(q) \in IF it = 0 THEN {f} ELSE {it, it + 1}
         /\ f <= Head(q)
         /\ Joins(Tail(q), Head(q), pos, f)
<1> DEFINE r == Tail(q)
<1>1. /\ Len(q) \in Nat \ {0} /\ Len(r) = Len(q) - 1
      /\ \A i \in 1..Len(r) : r[i] = q[i + 1]
      /\ Head(q) \in Nat /\ r \in Seq(Nat)
  BY HeadTailProperties, EmptySeq
<1>2. Head(q) = q[1]
  OBVIOUS
<1>3. r = <<>> <=> Len(r) = 0
  BY <1>1, EmptySeq
<1> HIDE DEF r
<1>4. Head(q) \in (IF it = 0 THEN {f} ELSE {it, it + 1}) /\ f <= Head(q)
  BY <1>1, <1>2 DEF Joins
<1>5. CASE r = <<>>
  <2>1. Head(q) = pos - 1
    <3>1. Len(q) = 1
      BY <1>1, <1>3, <1>5
    <3>2. q[Len(q)] = pos - 1
      BY DEF Joins
    <3> QED
      BY <1>2, <3>1, <3>2
  <2>2. Joins(r, Head(q), pos, f)
    BY <1>1, <1>4, <1>5, <2>1 DEF Joins
  <2> QED
    BY <1>4, <2>2 DEF r
<1>6. CASE r # <<>>
  <2>1. r[1] \in {Head(q), Head(q) + 1} /\ Head(q) # 0
    <3>1. 1 \in 1..(Len(q) - 1) /\ r[1] = q[2]
      BY <1>1, <1>3, <1>6
    <3>2. q[1 + 1] \in {q[1], q[1] + 1}
      BY <3>1 DEF Joins
    <3> QED
      BY <1>2, <1>4, <3>1, <3>2
  <2>2. r[Len(r)] = pos - 1
    BY <1>1, <1>3, <1>6 DEF Joins
  <2>3. ASSUME NEW k \in 1..(Len(r) - 1)
        PROVE  r[k + 1] \in {r[k], r[k] + 1}
    <3>1. k \in 1..Len(r) /\ k + 1 \in 1..Len(r) /\ k + 1 \in 1..(Len(q) - 1)
      BY <1>1, <2>3
    <3>2. r[k] = q[k + 1] /\ r[k + 1] = q[(k + 1) + 1]
      BY <1>1, <3>1
    <3> QED
      BY <3>1, <3>2 DEF Joins
  <2>4. Joins(r, Head(q), pos, f)
    BY <1>6, <2>1, <2>2, <2>3 DEF Joins
  <2> QED
    BY <1>4, <2>4 DEF r
<1> QED
  BY <1>5, <1>6

\* What a queue of the types is for the lemmas above.
LEMMA ReadTypes ==
  ASSUME TypeOK
  PROVE  /\ cache \in Seq(Nat) /\ item \in Nat /\ position \in Nat \ {0}
         /\ Len(Log) \in Nat /\ position <= Len(Log) + 1
         /\ args.start \in Nat /\ args.anyTopics \in BOOLEAN
         /\ FirstFrom(args.start) \subseteq Nat \ {0}
<1>1. Len(Log) \in Nat
  BY LogAssumption
<1>2. position \in 1..(Len(Log) + 1) /\ item \in 0..Len(Log)
  BY DEF TypeOK
<1>3. cache \in Seq(1..(position - 1)) /\ 1..(position - 1) \subseteq Nat
  BY <1>1, <1>2 DEF TypeOK
<1>4. cache \in Seq(Nat)
  BY <1>3, SeqMonotonic
<1> QED
  BY <1>1, <1>2, <1>4 DEF TypeOK, FirstFrom

\* A step that leaves the queue, the stream and what was yielded alone keeps the
\* segment, unless the producer begins to wait.
LEMMA SegmentStays ==
  ASSUME Segmented, UNCHANGED <<cache, item, position, args>>,
         ~aborted' => ~aborted,
         reading' \in {"write", "stamp"} => reading \in {"write", "stamp"}
  PROVE  Segmented'
<1>1. ASSUME NEW f, Segment(f)
      PROVE  Segment(f)'
  BY <1>1 DEF Segment, Joins
<1> QED
  BY <1>1 DEF Segmented, FirstFrom

\* The producer keeps the queue a segment, and its flags what they say.
LEMMA ProducerReads ==
  ASSUME PromiseInv, Producer
  PROVE  Reads'
<1> USE DEF PromiseInv, Reads, IInv
<1>1. /\ cache \in Seq(Nat) /\ item \in Nat /\ position \in Nat \ {0}
      /\ FirstFrom(args.start) \subseteq Nat \ {0}
  BY ReadTypes
<1>2. reading # "off" => producer = "running"
  BY DEF WaitsAgree
<1>3. ASSUME NEW how \in {"resolved", "rejected"}, Finish(how), reading # "off",
             how = "rejected" \/ position > Len(Log) \/ reading = "return"
      PROVE  Reads'
  <2>1. Segmented'
    BY <1>3, SegmentStays DEF Finish, calling
  <2>2. Orderly'
    BY <1>3 DEF Finish, calling, Orderly
  <2>3. Endings'
    BY <1>2, <1>3 DEF Finish, calling, Endings, Stream
  <2> QED
    BY <2>1, <2>2, <2>3
<1>4. CASE SourceYields
  <2>1. /\ position' = position + 1 /\ reading = "next"
        /\ UNCHANGED <<aborted, readDone, producer, iterator, args, item, outcome, caller, closing>>
    BY <1>4 DEF SourceYields, flags, calling
  <2>2. aborted => reading' = "return"
    BY <1>4 DEF SourceYields
  <2>3. ~aborted => cache' = Append(cache, position) /\ reading' # "return"
    BY <1>4 DEF SourceYields, OfferStamp, Enqueue, AwaitWrite
  <2>4. Segmented'
    <3>1. SUFFICES ASSUME args.anyTopics, ~aborted
                   PROVE  \E f \in FirstFrom(args.start) : Segment(f)'
      BY <2>1 DEF Segmented, FirstFrom
    <3>2. PICK f \in FirstFrom(args.start) : Segment(f)
      BY <3>1 DEF Segmented
    <3>3. f \in Nat \ {0} /\ f <= position /\ f < position + 1
      BY <1>1, <3>2 DEF Segment
    <3>4. Joins(Append(cache, position), item, position + 1, f)
      BY <1>1, <3>2, <3>3, JoinsNext DEF Segment
    <3>5. /\ cache' = Append(cache, position) /\ item' = item /\ position' = position + 1
          /\ item # 0 => f <= item
      BY <2>1, <2>3, <3>1, <3>2 DEF Segment
    <3>6. Joins(cache', item', position', f)
      BY <3>4, <3>5
    <3>7. Segment(f)'
      BY <3>3, <3>5, <3>6 DEF Segment
    <3> QED
      BY <3>7
  <2>5. Orderly'
    BY <1>1, <2>1, <2>2, <2>3, LogAssumption DEF Orderly
  <2>6. Endings'
    BY <2>1 DEF Endings, Stream
  <2> QED
    BY <2>4, <2>5, <2>6
<1>5. CASE ProducerWakes
  <2>1. /\ reading \in {"write", "stamp"}
        /\ UNCHANGED <<position, aborted, readDone, producer, iterator, args, item, outcome, caller, closing>>
    BY <1>5 DEF ProducerWakes, flags, calling
  <2>2. \/ cache' = cache /\ ((reading' = "return" /\ aborted) \/ reading' = "next")
        \/ cache' = Append(cache, position - 1) /\ reading' = "stamp"
    BY <1>5 DEF ProducerWakes, OfferStamp, AwaitWrite
  <2>3. Segmented'
    <3>1. SUFFICES ASSUME args.anyTopics, ~aborted
                   PROVE  \E f \in FirstFrom(args.start) : Segment(f)'
      BY <2>1 DEF Segmented, FirstFrom
    <3>2. PICK f \in FirstFrom(args.start) : Segment(f)
      BY <3>1 DEF Segmented
    <3>3. f \in Nat \ {0} /\ f < position
      BY <1>1, <2>1, <3>2 DEF Segment
    <3>4. Joins(Append(cache, position - 1), item, position, f)
      BY <1>1, <3>2, <3>3, JoinsAgain DEF Segment
    <3> QED
      BY <2>1, <2>2, <3>1, <3>2, <3>3, <3>4 DEF Segment
  <2>4. Orderly'
    BY <2>1, <2>2 DEF Orderly
  <2>5. Endings'
    BY <2>1 DEF Endings, Stream
  <2> QED
    BY <2>3, <2>4, <2>5
<1> QED
  BY <1>3, <1>4, <1>5 DEF Producer, SourceDone, SourceReturned, SourceRejects

\* What an iterator owes when its queue is empty and its producer is gone.
LEMMA AllYielded ==
  ASSUME PromiseInv, cache = <<>>, readDone, ~aborted, args.anyTopics,
         producer # "rejected"
  PROVE  \A j \in Stream(args) : j <= item
<1> USE DEF PromiseInv, Reads, IInv
<1>1. /\ item \in Nat /\ position \in Nat /\ Len(Log) \in Nat /\ position <= Len(Log) + 1
      /\ FirstFrom(args.start) \subseteq Nat \ {0}
  BY ReadTypes
<1>2. position = Len(Log) + 1
  BY <1>1 DEF Orderly
<1>3. PICK f \in FirstFrom(args.start) : Segment(f)
  BY DEF Segmented
<1>4. item = IF position = f THEN 0 ELSE position - 1
  BY <1>3 DEF Segment, Joins
<1>5. SUFFICES ASSUME NEW j \in 1..Len(Log), Log[j].time >= args.start
               PROVE  j <= item
  BY DEF Stream
<1>6. args.start \in Nat /\ Log[j].time \in Nat
  <2>1. Log[j] \in [kind : Kinds, time : Nat]
    BY <1>5, LogAssumption, ElementOfSeq
  <2> QED
    BY <2>1, ReadTypes
<1>7. ~(j < f)
  BY <1>3, <1>5, <1>6 DEF FirstFrom
<1> QED
  BY <1>1, <1>2, <1>4, <1>7

\* A turn of the reader's loop.
LEMMA ConsumeReads ==
  ASSUME PromiseInv, Consume, args.anyTopics, ~aborted, ~closing,
         iterator \in {"fresh", "waiting", "yielded"}
  PROVE  Reads'
<1> USE DEF PromiseInv, Reads, IInv
<1>1. CASE YieldItem
  <2>1. /\ cache # <<>> /\ item' = Head(cache) /\ cache' = Tail(cache) /\ iterator' = "yielded"
        /\ caller' = "idle"
        /\ UNCHANGED <<position, aborted, readDone, producer, reading, args, outcome, closing>>
    BY <1>1 DEF YieldItem, Answer, flags
  <2>2. Segmented'
    <3>1. PICK f \in FirstFrom(args.start) : Segment(f)
      BY DEF Segmented
    <3>2. /\ cache \in Seq(Nat) /\ item \in Nat /\ position \in Nat \ {0}
          /\ f \in Nat \ {0}
      BY ReadTypes
    <3>3. f <= Head(cache) /\ Joins(Tail(cache), Head(cache), position, f)
      BY <2>1, <3>1, <3>2, JoinsRest DEF Segment
    <3>4. Segment(f)'
      BY <2>1, <3>1, <3>3 DEF Segment
    <3> QED
      BY <2>1, <3>1, <3>4 DEF Segmented, FirstFrom
  <2>3. Orderly'
    BY <2>1 DEF Orderly
  <2>4. Endings'
    BY <2>1 DEF Endings
  <2> QED
    BY <2>2, <2>3, <2>4
<1>2. CASE /\ cache = <<>> /\ readDone /\ EndIterator("done")
           /\ caller' = "next" /\ UNCHANGED <<closing, opened>>
  <2>1. /\ aborted' = TRUE /\ iterator' = "stopping" /\ outcome' = "done"
        /\ UNCHANGED <<readDone, producer, reading, args, item, closing>>
    BY <1>2 DEF EndIterator, Abort
  <2>2. producer = "rejected" \/ \A j \in Stream(args) : j <= item
    BY <1>2, AllYielded
  <2> QED
    BY <2>1, <2>2 DEF Segmented, Orderly, Endings, Stream
<1>3. CASE /\ iterator' = "waiting" /\ caller' = "next"
           /\ UNCHANGED <<queue, flags, producing, args, item, outcome, closing>>
  <2>1. UNCHANGED <<cache, item, position, args, aborted, reading, readDone, producer, outcome, closing>>
    BY <1>3 DEF queue, flags, producing
  <2>2. Segmented'
    BY <2>1, SegmentStays
  <2> QED
    BY <1>3, <2>1, <2>2 DEF Orderly, Endings
<1> QED
  BY <1>1, <1>2, <1>3 DEF Consume

\* The other ways the reader goes on.
LEMMA ReaderReads ==
  ASSUME PromiseInv, Reader
  PROVE  Reads'
<1> USE DEF PromiseInv, Reads
<1>1. CASE ReaderWakes
  <2>1. args.anyTopics /\ ~aborted /\ ~closing /\ iterator = "waiting"
    BY <1>1 DEF ReaderWakes, Orderly
  <2> QED
    BY <1>1, <2>1, ConsumeReads DEF ReaderWakes
<1>2. CASE IteratorStopped
  <2>1. /\ iterator = "stopping" /\ iterator' = "ended" /\ caller' = "idle"
        /\ outcome' = (IF producer = "rejected" THEN "failed" ELSE outcome)
        /\ producer = "rejected" => producer' = "rejected"
        /\ UNCHANGED <<cache, item, position, args, aborted, readDone, reading, closing>>
    BY <1>2 DEF IteratorStopped, Stopped, Answer, queue, flags
  <2>2. Segmented'
    BY <2>1, SegmentStays
  <2> QED
    BY <2>1, <2>2 DEF Orderly, Endings
<1>3. CASE CallStopped
  <2>1. /\ caller = "stop" /\ caller' = "idle"
        /\ producer = "rejected" => producer' = "rejected"
        /\ closing \/ cache' = cache
        /\ UNCHANGED <<item, position, args, aborted, readDone, reading, closing, iterator, outcome>>
    BY <1>3 DEF CallStopped, Answer, flags, consuming
  <2>2. Segmented'
    <3>1. CASE closing
      BY <2>1, <3>1 DEF Orderly, Segmented
    <3>2. CASE cache' = cache
      BY <2>1, <3>2, SegmentStays
    <3> QED
      BY <2>1, <3>1, <3>2
  <2> QED
    BY <2>1, <2>2 DEF Orderly, Endings, Stream
<1> QED
  BY <1>1, <1>2, <1>3 DEF Reader

\* The end of an iterator by a call of the player.
LEMMA EndReads ==
  ASSUME PromiseInv, NEW how \in {"done", "returned"}, EndIterator(how), UNCHANGED closing,
         how = "done" => ~args.anyTopics
  PROVE  Reads'
<1>1. /\ aborted' = TRUE /\ iterator' = "stopping" /\ outcome' = how
      /\ UNCHANGED <<producer, args, item>>
  BY DEF EndIterator, Abort
<1>2. args.anyTopics \in BOOLEAN
  BY ReadTypes DEF PromiseInv, IInv
<1> QED
  BY <1>1, <1>2 DEF Reads, Segmented, Orderly, Endings, Stream

\* The player's calls.
LEMMA CallReads ==
  ASSUME PromiseInv, Calls
  PROVE  Reads'
<1> USE DEF PromiseInv, Reads
<1>1. ASSUME NEW t \in Starts, NEW any \in BOOLEAN,
             MessageIterator([anyTopics |-> any, start |-> t])
      PROVE  Reads'
  <2>1. /\ ~closing /\ closing' = closing /\ aborted' = FALSE /\ readDone' = ~any
        /\ iterator' = "fresh" /\ item' = 0
        /\ args' = [anyTopics |-> any, start |-> t]
        /\ reading' = IF any THEN "next" ELSE "off"
        /\ any => cache' = <<>> /\ position' \in FirstFrom(t)
    BY <1>1 DEF MessageIterator, Idle, FreshCache
  <2>2. Segmented'
    <3>1. SUFFICES ASSUME any
                   PROVE  \E f \in FirstFrom(t) : Segment(f)'
      BY <2>1 DEF Segmented, FirstFrom
    <3>2. position' \in Nat
      BY <2>1, <3>1, LogAssumption DEF FirstFrom
    <3>3. PICK f \in FirstFrom(t) : f = position'
      BY <2>1, <3>1
    <3>4. Segment(f)'
      BY <2>1, <3>1, <3>2, <3>3 DEF Segment, Joins
    <3> QED
      BY <3>4
  <2> QED
    BY <2>1, <2>2 DEF Orderly, Endings
<1>2. CASE CallNext
  <2>1. caller = "idle" /\ ~closing /\ iterator \in {"fresh", "yielded"} /\ ~aborted
    BY <1>2 DEF CallNext, Idle, Orderly
  <2>2. CASE args.anyTopics
    BY <1>2, <2>1, <2>2, ConsumeReads DEF CallNext
  <2>3. CASE ~args.anyTopics
    BY <1>2, <2>3, EndReads DEF CallNext
  <2> QED
    BY <2>2, <2>3
<1>3. CASE CallReturn
  <2>1. CASE /\ iterator' = "ended" /\ outcome' = "returned"
             /\ UNCHANGED <<queue, flags, producing, args, item, calling>>
    <3>1. UNCHANGED <<cache, item, position, args, aborted, reading, readDone, producer, closing, caller>>
      BY <2>1 DEF queue, flags, producing, calling
    <3>2. Segmented'
      BY <3>1, SegmentStays
    <3> QED
      BY <2>1, <3>1, <3>2 DEF Orderly, Endings
  <2>2. CASE EndIterator("returned") /\ UNCHANGED closing
    BY <2>2, EndReads
  <2> QED
    BY <1>3, <2>1, <2>2 DEF CallReturn
<1>4. CASE CallStopProducer \/ CallClose
  <2>1. /\ caller = "idle" /\ aborted' = TRUE
        /\ UNCHANGED <<producer, iterator, args, item, outcome>>
        /\ (iterator = "ended" /\ UNCHANGED closing) \/ closing' = TRUE
    BY <1>4 DEF CallStopProducer, CallClose, Idle, Abort, consuming
  <2> QED
    BY <2>1 DEF Segmented, Orderly, Endings, Stream
<1> QED
  BY <1>1, <1>2, <1>3, <1>4 DEF Calls

\* The invariant of the refinement is inductive.
LEMMA PromiseInvStep ==
  ASSUME PromiseInv, [Next]_vars
  PROVE  PromiseInv'
<1>1. IInv'
  BY IInvStep DEF PromiseInv
<1>2. CASE UNCHANGED vars
  <2>1. UNCHANGED <<cache, item, position, args, aborted, reading, readDone, producer,
                    closing, caller, iterator, outcome>>
    BY <1>2 DEF vars, queue, flags, producing, consuming, calling
  <2>2. Segmented'
    BY <2>1, SegmentStays DEF PromiseInv, Reads
  <2> QED
    BY <1>1, <2>1, <2>2 DEF PromiseInv, Reads, Orderly, Endings, Stream
<1> QED
  BY <1>1, <1>2, ProducerReads, ReaderReads, CallReads DEF Next, PromiseInv

\* It holds at first.
LEMMA PromiseInvInit ==
  ASSUME Init
  PROVE  PromiseInv
BY InitInv DEF Init, PromiseInv, Reads, Segmented, Orderly, Endings

\* Before it ends an iterator tells its reader nothing but its results.
LEMMA NothingToldStep ==
  ASSUME UNCHANGED <<args, item>>,
         \/ UNCHANGED <<iterator, outcome>>
         \/ iterator # "ended" /\ iterator' # "ended"
  PROVE  UNCHANGED Promised!vars
BY DEF Promised!vars, Stream

\* A yield is the next result of the stream, or the last one again.
LEMMA ConsumePromised ==
  ASSUME PromiseInv, Consume, args.anyTopics, ~aborted, iterator # "ended"
  PROVE  [Promised!Next]_(Promised!vars)
<1>1. CASE YieldItem
  <2>1. /\ cache # <<>> /\ item' = Head(cache) /\ iterator' = "yielded"
        /\ UNCHANGED <<args, outcome>>
    BY <1>1 DEF YieldItem
  <2>2. CASE item' = item
    BY <2>1, <2>2, NothingToldStep
  <2>3. CASE item' # item
    <3>1. /\ cache \in Seq(Nat) /\ item \in Nat /\ position \in Nat \ {0}
          /\ Len(Log) \in Nat /\ position <= Len(Log) + 1
          /\ FirstFrom(args.start) \subseteq Nat \ {0}
      BY ReadTypes DEF PromiseInv, IInv
    <3>2. PICK f \in FirstFrom(args.start) : Segment(f)
      BY DEF PromiseInv, Reads, Segmented
    <3>3. /\ item' \in IF item = 0 THEN {f} ELSE {item, item + 1}
          /\ f <= item'
      BY <2>1, <3>1, <3>2, JoinsRest DEF Segment
    <3>4. item' \in 1..Len(Log)
      <4>1. Head(cache) \in 1..(position - 1)
        BY <2>1, TailType DEF PromiseInv, IInv, TypeOK
      <4> QED
        BY <2>1, <3>1, <4>1
    <3>5. \A j \in 1..Len(Log) : j \in Stream(args) <=> f <= j
      <4>1. SUFFICES ASSUME NEW j \in 1..Len(Log)
                     PROVE  Log[j].time >= args.start <=> f <= j
        BY DEF Stream
      <4>2. Log[j] \in [kind : Kinds, time : Nat]
        BY <4>1, LogAssumption, ElementOfSeq
      <4>3. args.start \in Nat
        BY ReadTypes DEF PromiseInv, IInv
      <4>4. j < f <=> Log[j].time < args.start
        BY <3>2, <4>1 DEF FirstFrom
      <4> QED
        BY <3>1, <4>1, <4>2, <4>3, <4>4
    <3>6. Promised!After(item) = {j \in Stream(args) : j > item}
      BY DEF Promised!After
    <3>7. item' \in Promised!After(item)
      BY <2>3, <3>1, <3>3, <3>4, <3>5, <3>6
    <3>8. ASSUME NEW j \in Promised!After(item)
          PROVE  item' <= j
      <4>1. j \in 1..Len(Log) /\ j > item /\ f <= j
        BY <3>5, <3>6, <3>8 DEF Stream
      <4> QED
        BY <2>3, <3>1, <3>3, <4>1
    <3>9. Promised!Yield
      BY <2>1, <3>7, <3>8 DEF Promised!Yield, Stream
    <3> QED
      BY <3>9 DEF Promised!Next
  <2> QED
    BY <2>2, <2>3
<1>2. CASE EndIterator("done")
  BY <1>2, NothingToldStep DEF EndIterator
<1>3. CASE iterator' = "waiting" /\ UNCHANGED <<args, item>>
  BY <1>3, NothingToldStep
<1> QED
  BY <1>1, <1>2, <1>3 DEF Consume

\* Every step is one of MessageStream, or tells the reader nothing.
LEMMA StepPromised ==
  ASSUME PromiseInv, [Next]_vars
  PROVE  [Promised!Next]_(Promised!vars)
<1>1. CASE UNCHANGED vars
  BY <1>1, NothingToldStep DEF vars, consuming
<1>2. CASE Producer
  <2>1. UNCHANGED <<args, item, iterator, outcome>>
    BY <1>2 DEF Producer, SourceYields, SourceDone, SourceReturned, SourceRejects,
                ProducerWakes, Finish
  <2> QED
    BY <2>1, NothingToldStep
<1>3. CASE ReaderWakes
  <2>1. args.anyTopics /\ ~aborted /\ iterator # "ended"
    BY <1>3 DEF ReaderWakes, PromiseInv, Reads, Orderly
  <2> QED
    BY <1>3, <2>1, ConsumePromised DEF ReaderWakes
<1>4. CASE IteratorStopped
  <2>1. /\ iterator = "stopping" /\ iterator' = "ended" /\ UNCHANGED <<args, item>>
        /\ outcome' = IF producer = "rejected" THEN "failed" ELSE outcome
    BY <1>4 DEF IteratorStopped
  <2>2. CASE producer = "rejected"
    BY <2>1, <2>2 DEF Promised!Failed, Promised!Next, Stream
  <2>3. CASE producer # "rejected" /\ outcome = "returned"
    BY <2>1, <2>3 DEF Promised!Return, Promised!Next, Stream
  <2>4. CASE producer # "rejected" /\ outcome = "done"
    <3>1. \A j \in Stream(args) : j <= item
      BY <2>1, <2>4 DEF PromiseInv, Reads, Endings
    <3>2. item \in Nat /\ Stream(args) \subseteq Nat
      BY ReadTypes DEF PromiseInv, IInv, Stream
    <3>3. Promised!After(item) = {}
      BY <3>1, <3>2 DEF Promised!After
    <3> QED
      BY <2>1, <2>4, <3>3 DEF Promised!Done, Promised!Next, Stream
  <2> QED
    BY <2>1, <2>2, <2>3, <2>4 DEF PromiseInv, Reads, Endings
<1>5. CASE CallStopped
  BY <1>5, NothingToldStep DEF CallStopped, consuming
<1>6. ASSUME NEW t \in Starts, NEW any \in BOOLEAN,
             MessageIterator([anyTopics |-> any, start |-> t])
      PROVE  Promised!Start
  <2>1. /\ iterator = "ended" /\ iterator' = "fresh" /\ item' = 0
        /\ args' = [anyTopics |-> any, start |-> t]
    BY <1>6 DEF MessageIterator
  <2>2. outcome # "no"
    BY <2>1 DEF PromiseInv, Reads, Endings
  <2>3. Stream(args') \in {Stream(a) : a \in [anyTopics : BOOLEAN, start : Starts]}
    BY <2>1
  <2> QED
    BY <2>1, <2>2, <2>3 DEF Promised!Start, Stream
<1>7. CASE CallNext
  <2>1. iterator \in {"fresh", "yielded"} /\ ~aborted
    BY <1>7 DEF CallNext, Idle, PromiseInv, Reads, Orderly
  <2>2. CASE args.anyTopics
    BY <1>7, <2>1, <2>2, ConsumePromised DEF CallNext
  <2>3. CASE ~args.anyTopics
    BY <1>7, <2>1, <2>3, NothingToldStep DEF CallNext, EndIterator
  <2> QED
    BY <2>2, <2>3
<1>8. CASE CallReturn
  <2>1. CASE /\ iterator = "fresh" /\ iterator' = "ended" /\ outcome' = "returned"
             /\ UNCHANGED <<args, item>>
    BY <2>1 DEF Promised!Return, Promised!Next, Stream
  <2>2. CASE iterator = "yielded" /\ EndIterator("returned")
    BY <2>2, NothingToldStep DEF EndIterator
  <2> QED
    BY <1>8, <2>1, <2>2 DEF CallReturn
<1>9. CASE CallStopProducer \/ CallClose
  BY <1>9, NothingToldStep DEF CallStopProducer, CallClose, consuming
<1> QED
  BY <1>1, <1>2, <1>3, <1>4, <1>5, <1>6, <1>7, <1>8, <1>9
  DEF Next, Reader, Calls, Promised!Next

\* BufferedIterableSource implements MessageStream towards the player, whatever
\* the log, the read-ahead and the times iterators start at are: its iterators
\* yield what they were asked for, in order, leave nothing out, and say that they
\* are done only after the last.
THEOREM BufferKeepsPromise == Spec => IteratorKeepsPromise
<1>1. Init => Promised!Init
  BY DEF Init, Promised!Init, Stream
<1>2. Init => PromiseInv
  BY PromiseInvInit
<1>3. PromiseInv /\ [Next]_vars => PromiseInv'
  BY PromiseInvStep
<1>4. PromiseInv /\ [Next]_vars => [Promised!Next]_(Promised!vars)
  BY StepPromised
<1> QED
  BY <1>1, <1>2, <1>3, <1>4, PTL DEF Spec, IteratorKeepsPromise, Promised!Spec
=============================================================================
