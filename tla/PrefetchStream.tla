---------------------------- MODULE PrefetchStream ----------------------------
(***************************************************************************)
(* ParallelPrefetchReadStream: a Node stream that reads a remote file with *)
(* several SFTP READ requests at a time.  Their answers arrive in any      *)
(* order; what follows without a gap is pushed into the stream.            *)
(*                                                                         *)
(* The stream's base class, Readable, calls _read when its buffer has room *)
(* and hands what is pushed to the `data` handler, at once or later.  It   *)
(* is modelled as far as the class uses it.  The handler may pause it.     *)
(*                                                                         *)
(* The loops of #deliverPending and #pump run without interruption: while  *)
(* `step` is not "rest" only they may go on.                               *)
(***************************************************************************)
EXTENDS Integers, Sequences, FiniteSets

CONSTANTS
  Chunk,        \* #chunkBytes
  Concurrency,  \* #concurrency
  HighWater,    \* highWaterMark of the stream's buffer
  Sizes,        \* sizes the file may have
  MaxResizes,   \* bound: changes of the file's size
  Fails         \* whether requests may fail

ASSUME ConstantsAssumption ==
  /\ Chunk \in Nat \ {0}
  /\ Concurrency \in Nat \ {0}
  /\ HighWater \in Nat \ {0}
  /\ Sizes \subseteq Nat
  /\ MaxResizes \in Nat
  /\ Fails \in BOOLEAN

VARIABLES
  opening, statting,  \* an open, an fstat awaits its answer
  handle,             \* #handle is defined
  onServer,           \* handles the server has open for the stream
  stopped,            \* #stopped
  nextIssue,          \* #nextIssueOffset
  nextDeliver,        \* #nextDeliverOffset
  endOffset,          \* #endOffset
  reads,              \* offsets of the READs in flight; #outstanding counts them
  pending,            \* #pending: pieces read and not delivered
  pushedEnd,          \* #pushedEnd
  step, sync,         \* what runs, and whether _read called it
  reading,            \* Readable: _read was called and nothing pushed since
  buffer,             \* Readable: pieces pushed and not handed over
  flowing,            \* Readable: the consumer has not paused it
  sent, chunk,        \* bytes handed to the consumer, and the last piece
  finish,             \* the last event: "no", "end", "failed", "destroyed"
  size, smallest,     \* the file's size, and the smallest it has had
  resizes             \* changes of the size so far

remote == <<size, smallest, resizes>>
opened == <<opening, statting, handle, onServer, stopped>>
prefetch == <<nextIssue, nextDeliver, endOffset, reads, pending, pushedEnd>>
readable == <<reading, buffer, flowing, sent, chunk>>
vars == <<opened, prefetch, step, sync, readable, finish, remote>>

NoEnd == -1

Readahead == Chunk * Concurrency

\* Bytes in the stream's buffer: pushed and not handed over.
Buffered == nextDeliver - sent

MinEnd(offset) ==
  IF endOffset = NoEnd \/ offset < endOffset THEN offset ELSE endOffset

\* What a READ at `offset` gets of the file as it is now.
Got(offset) ==
  IF offset >= size THEN 0
  ELSE IF offset + Chunk > size THEN size - offset ELSE Chunk

-----------------------------------------------------------------------------
(* Readable, as the class uses it.                                         *)

\* The data handler gets a piece; it may pause the stream.
HandOver(c) ==
  /\ sent' = sent + c.len
  /\ chunk' = c
  /\ flowing' \in BOOLEAN

\* push(): a flowing stream with an empty buffer hands over at once, unless
\* _read is still on the stack.
Push(c) ==
  /\ reading' = FALSE
  /\ IF flowing /\ buffer = <<>> /\ ~sync
     THEN HandOver(c) /\ UNCHANGED buffer
     ELSE buffer' = Append(buffer, c) /\ UNCHANGED <<flowing, sent, chunk>>

\* _read, called when there is room and the last call has been answered by a
\* push.
CallRead ==
  /\ step = "rest"
  /\ finish = "no" /\ ~pushedEnd /\ ~reading
  /\ Buffered < HighWater
  /\ reading' = TRUE
  /\ IF handle
     THEN /\ step' = "deliver"
          /\ sync' = TRUE
          /\ UNCHANGED opening
     ELSE /\ opening' = TRUE
          /\ UNCHANGED <<step, sync>>
  /\ UNCHANGED <<statting, handle, onServer, stopped, prefetch, buffer, flowing,
                 sent, chunk, finish, remote>>

\* A flowing stream hands over what it has buffered.
Flow ==
  /\ step = "rest"
  /\ finish = "no" /\ flowing
  /\ buffer # <<>>
  /\ HandOver(Head(buffer))
  /\ buffer' = Tail(buffer)
  /\ UNCHANGED <<opened, prefetch, step, sync, reading, finish, remote>>

\* The consumer resumes the stream.
Resume ==
  /\ step = "rest"
  /\ finish = "no" /\ ~flowing
  /\ flowing' = TRUE
  /\ UNCHANGED <<opened, prefetch, step, sync, reading, buffer, sent, chunk,
                 finish, remote>>

-----------------------------------------------------------------------------
(* _destroy: after the end, an error, or at the consumer's wish.           *)

\* MUTANT of Destroy: the handle stays open.
DestroyMutant(how) ==
  /\ finish' = how
  /\ stopped' = TRUE
  /\ pending' = {}
  /\ handle' = FALSE
  /\ UNCHANGED onServer

Destroy(how) ==
  /\ finish' = how
  /\ stopped' = TRUE
  /\ pending' = {}
  /\ handle' = FALSE
  /\ onServer' = IF handle THEN onServer - 1 ELSE onServer

\* Everything pushed was handed over and push(null) was called.
End ==
  /\ step = "rest"
  /\ finish = "no" /\ flowing
  /\ pushedEnd /\ buffer = <<>>
  /\ Destroy("end")
  /\ UNCHANGED <<opening, statting, nextIssue, nextDeliver, endOffset, reads,
                 pushedEnd, step, sync, readable, remote>>

\* The download was cancelled or its session is gone.
ConsumerDestroys ==
  /\ step = "rest"
  /\ finish = "no"
  /\ Destroy("destroyed")
  /\ UNCHANGED <<opening, statting, nextIssue, nextDeliver, endOffset, reads,
                 pushedEnd, step, sync, readable, remote>>

-----------------------------------------------------------------------------
(* Answers of the SFTP server.                                             *)

\* A handle that comes too late is closed at once.
OpenAnswered ==
  /\ step = "rest" /\ opening
  /\ opening' = FALSE
  /\ IF stopped
     THEN UNCHANGED <<handle, onServer, statting>>
     ELSE /\ handle' = TRUE
          /\ onServer' = onServer + 1
          /\ statting' = TRUE
  /\ UNCHANGED <<stopped, prefetch, step, sync, readable, finish, remote>>

OpenFails ==
  /\ Fails
  /\ step = "rest" /\ opening
  /\ opening' = FALSE
  /\ IF stopped
     THEN UNCHANGED <<handle, onServer, stopped, pending, finish>>
     ELSE Destroy("failed")
  /\ UNCHANGED <<statting, nextIssue, nextDeliver, endOffset, reads, pushedEnd,
                 step, sync, readable, remote>>

\* The file's size is where the stream will end.
StatAnswered ==
  /\ step = "rest" /\ statting
  /\ statting' = FALSE
  /\ IF stopped
     THEN UNCHANGED <<endOffset, step, sync>>
     ELSE /\ endOffset' = MinEnd(size)
          /\ step' = "deliver"
          /\ sync' = FALSE
  /\ UNCHANGED <<opening, handle, onServer, stopped, nextIssue, nextDeliver, reads,
                 pending, pushedEnd, readable, finish, remote>>

StatFails ==
  /\ Fails
  /\ step = "rest" /\ statting
  /\ statting' = FALSE
  /\ IF stopped
     THEN UNCHANGED <<handle, onServer, stopped, pending, finish>>
     ELSE Destroy("failed")
  /\ UNCHANGED <<opening, nextIssue, nextDeliver, endOffset, reads, pushedEnd,
                 step, sync, readable, remote>>

\* MUTANT of EndAfter: a later short read moves the end back up.
EndAfterMutant(offset) ==
  IF Got(offset) < Chunk THEN offset + Got(offset) ELSE endOffset

\* MUTANT of EndAfter: only an empty read tells that the file has shrunk.
EmptyReadMutant(offset) ==
  IF Got(offset) = 0 THEN MinEnd(offset) ELSE endOffset

\* A short read tells that the file has shrunk.
EndAfter(offset) ==
  IF Got(offset) < Chunk THEN MinEnd(offset + Got(offset)) ELSE endOffset

PendingAfter(offset) ==
  IF Got(offset) = 0 THEN pending
  ELSE pending \union {[at |-> offset, len |-> Got(offset)]}

ReadAnswered(offset) ==
  /\ step = "rest" /\ offset \in reads
  /\ reads' = reads \ {offset}
  /\ IF stopped
     THEN UNCHANGED <<endOffset, pending, step, sync>>
     ELSE /\ endOffset' = EndAfter(offset)
          /\ pending' = PendingAfter(offset)
          /\ step' = "deliver"
          /\ sync' = FALSE
  /\ UNCHANGED <<opened, nextIssue, nextDeliver, pushedEnd, readable, finish, remote>>

ReadFails(offset) ==
  /\ Fails
  /\ step = "rest" /\ offset \in reads
  /\ reads' = reads \ {offset}
  /\ IF stopped
     THEN UNCHANGED <<handle, onServer, stopped, pending, finish>>
     ELSE Destroy("failed")
  /\ UNCHANGED <<opening, statting, nextIssue, nextDeliver, endOffset, pushedEnd,
                 step, sync, readable, remote>>

-----------------------------------------------------------------------------
(* #deliverPending and #pump.                                              *)

\* MUTANT of Deliverable: what has arrived is delivered in any order.
DeliverableMutant == pending

\* The piece that follows what was delivered last.
Deliverable == {c \in pending : c.at = nextDeliver}

\* One turn of the loop; a push that returns false ends it.
DeliverPiece ==
  /\ step = "deliver" /\ ~stopped /\ ~pushedEnd
  /\ \E c \in Deliverable :
       /\ pending' = pending \ {c}
       /\ nextDeliver' = nextDeliver + c.len
       /\ Push(c)
  /\ step' = IF nextDeliver' - sent' < HighWater THEN "deliver" ELSE "delivered"
  /\ UNCHANGED <<opened, nextIssue, endOffset, reads, pushedEnd, sync, finish, remote>>

\* push(null) once the end is reached.
Delivered ==
  /\ \/ step = "delivered"
     \/ step = "deliver" /\ (stopped \/ pushedEnd \/ Deliverable = {})
  /\ IF ~stopped /\ ~pushedEnd /\ endOffset # NoEnd /\ nextDeliver >= endOffset
     THEN pushedEnd' = TRUE /\ reading' = FALSE
     ELSE UNCHANGED <<pushedEnd, reading>>
  /\ step' = "pump"
  /\ UNCHANGED <<opened, nextIssue, nextDeliver, endOffset, reads, pending, sync,
                 buffer, flowing, sent, chunk, finish, remote>>

MayIssue ==
  /\ ~stopped
  /\ Cardinality(reads) < Concurrency
  /\ endOffset = NoEnd \/ nextIssue < endOffset
  /\ nextIssue - nextDeliver < Readahead

IssueRead ==
  /\ step = "pump" /\ MayIssue
  /\ reads' = reads \union {nextIssue}
  /\ nextIssue' = nextIssue + Chunk
  /\ UNCHANGED <<opened, nextDeliver, endOffset, pending, pushedEnd, step, sync,
                 readable, finish, remote>>

Pumped ==
  /\ step = "pump" /\ ~MayIssue
  /\ step' = "rest"
  /\ UNCHANGED <<opened, prefetch, sync, readable, finish, remote>>

-----------------------------------------------------------------------------
\* The file changes while it is read.
Resize ==
  /\ step = "rest"
  /\ finish = "no"
  /\ resizes < MaxResizes
  /\ resizes' = resizes + 1
  /\ size' \in Sizes \ {size}
  /\ smallest' = IF size' < smallest THEN size' ELSE smallest
  /\ UNCHANGED <<opened, prefetch, step, sync, readable, finish>>

Init ==
  /\ opening = FALSE /\ statting = FALSE /\ handle = FALSE
  /\ onServer = 0 /\ stopped = FALSE
  /\ nextIssue = 0 /\ nextDeliver = 0 /\ endOffset = NoEnd
  /\ reads = {} /\ pending = {} /\ pushedEnd = FALSE
  /\ step = "rest" /\ sync = FALSE
  /\ reading = FALSE /\ buffer = <<>> /\ flowing = TRUE
  /\ sent = 0 /\ chunk = [at |-> 0, len |-> 0] /\ finish = "no"
  /\ size \in Sizes /\ smallest = size /\ resizes = 0

Answers ==
  \/ OpenAnswered \/ OpenFails \/ StatAnswered \/ StatFails
  \/ \E offset \in reads : ReadAnswered(offset) \/ ReadFails(offset)

Loops == DeliverPiece \/ Delivered \/ IssueRead \/ Pumped

Progress == CallRead \/ Flow \/ End \/ Answers \/ Loops

Next == Progress \/ Resume \/ ConsumerDestroys \/ Resize

Spec == Init /\ [][Next]_vars

\* The server answers, Readable does its work, and the consumer does not leave
\* the stream paused for ever.
FairSpec == Spec /\ WF_vars(Progress) /\ WF_vars(Resume)

-----------------------------------------------------------------------------
(* Properties.                                                             *)

\* A piece of the file is what one READ has got of it.
Pieces == [at : Nat, len : 1..Chunk]

\* Every variable has its type; in particular no empty piece is kept.
TypeOK ==
  /\ opening \in BOOLEAN /\ statting \in BOOLEAN /\ handle \in BOOLEAN
  /\ onServer \in Nat /\ stopped \in BOOLEAN
  /\ nextIssue \in Nat /\ nextDeliver \in Nat /\ endOffset \in Nat \union {NoEnd}
  /\ reads \in SUBSET Nat /\ pending \in SUBSET Pieces /\ pushedEnd \in BOOLEAN
  /\ step \in {"rest", "deliver", "delivered", "pump"} /\ sync \in BOOLEAN
  /\ reading \in BOOLEAN /\ buffer \in Seq(Pieces) /\ flowing \in BOOLEAN
  /\ sent \in Nat /\ chunk \in [at : Nat, len : Nat]
  /\ finish \in {"no", "end", "failed", "destroyed"}
  /\ size \in Nat /\ smallest \in Nat /\ resizes \in Nat

\* The consumer gets the file's bytes in order, and all of them, however the
\* answers are ordered and the file shrinks or grows meanwhile.
Contract == INSTANCE ByteStream
DeliversFile == Contract!Spec

\* A handle is open on the server exactly while the stream holds it, whenever
\* the stream is destroyed: while it is opened, measured, read or done.
NoHandleLeaks ==
  /\ onServer = (IF handle THEN 1 ELSE 0)
  /\ stopped => ~handle

\* All the memory the stream uses is bounded by that and its own high-water
\* mark, but for the piece that reaches it.
MemoryBounded == nextIssue - sent <= Readahead + HighWater + Chunk

\* While the consumer takes what comes and has not seen the last event, the stream can go
\* on: a loop runs, the server is to answer, or there is something to hand over or to ask
\* for.  Readable does not call _read again before a push, so that a read which finds
\* nothing to do must leave somebody who pushes: no order of the answers, no empty or
\* short one and no change of the file may leave a gap that nobody reads.
NeverStalls ==
  /\ TypeOK
  /\ finish = "no" /\ flowing =>
       \/ step # "rest" \/ opening \/ statting \/ reads # {}
       \/ buffer # <<>> \/ pushedEnd
       \/ ~reading /\ Buffered < HighWater

\* Every stream ends, fails or is destroyed.
StreamFinishes == <>(finish # "no")
=============================================================================
