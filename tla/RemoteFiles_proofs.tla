-------------------------- MODULE RemoteFiles_proofs --------------------------
(***************************************************************************)
(* What holds of the two ways to a file that is elsewhere.                 *)
(*                                                                         *)
(* PrefetchStream, for every size of a READ, every number of them in       *)
(* flight, every buffer and every file, however the file's size changes    *)
(* and whichever requests fail: the types, that no handle leaks, that      *)
(* the stream implements ByteStream, and that it never stalls.             *)
(*                                                                         *)
(* CachedFilelike, for every size of the file, of its blocks and of the    *)
(* cache, and for all reads: what the buffer says it has are the bytes of  *)
(* the file, and a read that waits has a connection that serves it.        *)
(***************************************************************************)
EXTENDS PrefetchStream, CachedFilelike, SequenceTheorems, FiniteSetTheorems,
        WellFoundedInduction, TLAPS

\* Where the i-th piece of s begins, or where the last one ends.
StartOf(s, i, to) == IF i = Len(s) + 1 THEN to ELSE s[i].at

\* The pieces of s follow one another from byte `from` to byte `to`.
Chain(s, from, to) ==
  /\ StartOf(s, 1, to) = from
  /\ \A i \in 1..Len(s) : s[i].at + s[i].len = StartOf(s, i + 1, to)

\* An open is answered before there is a handle, and the stream is stopped by
\* its last event.
Lifetime ==
  /\ opening => ~handle
  /\ stopped <=> finish # "no"

\* What was pushed and not handed over is what lies between the two offsets.
BufferInOrder == Chain(buffer, sent, nextDeliver)

\* The end of the stream is never before what the file has held all the time.
EndInFile ==
  /\ smallest <= size
  /\ endOffset # NoEnd => smallest <= endOffset
  /\ pushedEnd => endOffset # NoEnd /\ endOffset <= nextDeliver

\* The inductive invariant of PrefetchStream.
IInv == TypeOK /\ NoHandleLeaks /\ Lifetime /\ BufferInOrder /\ EndInFile

-----------------------------------------------------------------------------
(* Lemmas about the operators of the model.                                *)

\* A piece that begins where a chain ends prolongs it.
LEMMA ChainAppend ==
  ASSUME NEW s \in Seq(Pieces), NEW from \in Nat, NEW to \in Nat,
         NEW c \in Pieces, Chain(s, from, to), c.at = to
  PROVE  Chain(Append(s, c), from, to + c.len)
<1> DEFINE t == Append(s, c)
<1>1. Len(s) \in Nat /\ Len(t) = Len(s) + 1
  BY AppendProperties
<1>2. /\ \A i \in 1..Len(s) : t[i] = s[i]
      /\ t[Len(s) + 1] = c
  BY AppendProperties
<1> HIDE DEF t
<1>3. StartOf(t, 1, to + c.len) = from
  BY <1>1, <1>2 DEF Chain, StartOf
<1>4. ASSUME NEW i \in 1..Len(t)
      PROVE  t[i].at + t[i].len = StartOf(t, i + 1, to + c.len)
  <2>1. CASE i = Len(s) + 1
    BY <1>1, <1>2, <2>1 DEF StartOf
  <2>2. CASE i \in 1..Len(s)
    <3>1. s[i].at + s[i].len = StartOf(s, i + 1, to)
      BY <2>2 DEF Chain
    <3>2. StartOf(t, i + 1, to + c.len) = StartOf(s, i + 1, to)
      BY <1>1, <1>2, <2>2 DEF StartOf
    <3> QED
      BY <1>2, <2>2, <3>1, <3>2
  <2> QED
    BY <1>1, <2>1, <2>2
<1> QED
  BY <1>3, <1>4 DEF Chain, t

\* Without its first piece a chain begins where that piece ends.
LEMMA ChainTail ==
  ASSUME NEW s \in Seq(Pieces), NEW from \in Nat, NEW to \in Nat,
         Chain(s, from, to), s # <<>>
  PROVE  /\ Head(s) \in Pieces /\ Head(s).at = from
         /\ Tail(s) \in Seq(Pieces)
         /\ Chain(Tail(s), from + Head(s).len, to)
<1> DEFINE t == Tail(s)
<1>1. /\ Len(s) \in Nat /\ Len(s) >= 1
      /\ Len(t) = Len(s) - 1
      /\ \A i \in 1..Len(t) : t[i] = s[i + 1]
      /\ t \in Seq(Pieces) /\ Head(s) \in Pieces /\ Head(s) = s[1]
  BY HeadTailProperties, EmptySeq
<1> HIDE DEF t
<1>2. Head(s).at = from
  BY <1>1 DEF Chain, StartOf
<1>3. StartOf(t, 1, to) = from + Head(s).len
  <2>1. s[1].at + s[1].len = StartOf(s, 2, to)
    BY <1>1 DEF Chain
  <2>2. StartOf(t, 1, to) = StartOf(s, 2, to)
    BY <1>1 DEF StartOf
  <2> QED
    BY <1>1, <1>2, <2>1, <2>2
<1>4. ASSUME NEW i \in 1..Len(t)
      PROVE  t[i].at + t[i].len = StartOf(t, i + 1, to)
  <2>1. i + 1 \in 1..Len(s)
    BY <1>1
  <2>2. s[i + 1].at + s[i + 1].len = StartOf(s, (i + 1) + 1, to)
    BY <2>1 DEF Chain
  <2>3. StartOf(t, i + 1, to) = StartOf(s, (i + 1) + 1, to)
    BY <1>1 DEF StartOf
  <2> QED
    BY <1>1, <2>2, <2>3
<1> QED
  BY <1>1, <1>2, <1>3, <1>4 DEF Chain, t

\* An empty chain ends where it begins, and only an empty one has no piece.
LEMMA ChainEmpty ==
  ASSUME NEW from, NEW to
  PROVE  Chain(<<>>, from, to) <=> from = to
BY EmptySeq DEF Chain, StartOf

\* A READ gets at most what it asks for, and less only up to the file's end.
LEMMA GotBounds ==
  ASSUME NEW offset \in Nat, size \in Nat
  PROVE  /\ Got(offset) \in 0..Chunk
         /\ Got(offset) < Chunk => size <= offset + Got(offset)
BY ConstantsAssumption DEF Got

\* The end only ever moves to an offset at or beyond the file's end, or down
\* to such an offset.
LEMMA EndAfterInFile ==
  ASSUME NEW offset \in Nat, TypeOK, EndInFile
  PROVE  /\ EndAfter(offset) \in Nat \union {NoEnd}
         /\ EndAfter(offset) # NoEnd => smallest <= EndAfter(offset)
         /\ endOffset # NoEnd => EndAfter(offset) # NoEnd /\ EndAfter(offset) <= endOffset
<1>1. /\ Got(offset) \in 0..Chunk
      /\ Got(offset) < Chunk => size <= offset + Got(offset)
  BY GotBounds DEF TypeOK
<1>2. Chunk \in Nat /\ endOffset \in Nat \union {NoEnd} /\ size \in Nat /\ smallest \in Nat
  BY ConstantsAssumption DEF TypeOK
<1>3. smallest <= size /\ (endOffset # NoEnd => smallest <= endOffset)
  BY DEF EndInFile
<1> DEFINE g == Got(offset)
<1>4. g \in 0..Chunk /\ (g < Chunk => size <= offset + g)
  BY <1>1
<1> HIDE DEF g
<1>5. EndAfter(offset) = IF g < Chunk THEN MinEnd(offset + g) ELSE endOffset
  BY DEF EndAfter, g
<1> QED
  BY <1>2, <1>3, <1>4, <1>5 DEF MinEnd, NoEnd

-----------------------------------------------------------------------------
(* Types.                                                                  *)

\* A push keeps the types of what it touches.
LEMMA PushTypes ==
  ASSUME TypeOK, NEW c \in Pieces, Push(c)
  PROVE  /\ reading' \in BOOLEAN /\ buffer' \in Seq(Pieces) /\ flowing' \in BOOLEAN
         /\ sent' \in Nat /\ chunk' \in [at : Nat, len : Nat]
<1>1. Append(buffer, c) \in Seq(Pieces)
  BY AppendProperties DEF TypeOK
<1>2. c \in [at : Nat, len : Nat] /\ sent + c.len \in Nat
  BY ConstantsAssumption DEF TypeOK, Pieces
<1> QED
  BY <1>1, <1>2 DEF TypeOK, Push, HandOver

\* Every step keeps the types.
LEMMA TypeStep ==
  ASSUME TypeOK, NoHandleLeaks, [Next]_vars
  PROVE  TypeOK'
<1> USE ConstantsAssumption
<1>1. CASE UNCHANGED vars
  BY <1>1 DEF TypeOK, vars, opened, prefetch, readable, remote
<1>2. CASE CallRead
  BY <1>2 DEF TypeOK, CallRead, prefetch, remote
<1>3. CASE Flow
  <2>1. /\ Tail(buffer) \in Seq(Pieces) /\ Head(buffer) \in Pieces
    BY <1>3, HeadTailProperties DEF Flow, TypeOK
  <2>2. Head(buffer) \in [at : Nat, len : Nat] /\ sent + Head(buffer).len \in Nat
    BY <2>1 DEF TypeOK, Pieces
  <2> QED
    BY <1>3, <2>1, <2>2 DEF TypeOK, Flow, HandOver, opened, prefetch, remote
<1>4. ASSUME NEW how \in {"end", "failed", "destroyed"}, Destroy(how)
      PROVE  /\ finish' \in {"no", "end", "failed", "destroyed"} /\ stopped' \in BOOLEAN
             /\ pending' \in SUBSET Pieces /\ handle' \in BOOLEAN /\ onServer' \in Nat
  <2>1. onServer' \in Nat
    BY <1>4 DEF Destroy, NoHandleLeaks
  <2>2. stopped' = TRUE /\ pending' = {} /\ handle' = FALSE /\ finish' = how
    BY <1>4 DEF Destroy
  <2> QED
    BY <2>1, <2>2
<1>5. CASE End
  BY <1>4, <1>5 DEF TypeOK, End, readable, remote
<1>6. CASE ConsumerDestroys
  BY <1>4, <1>6 DEF TypeOK, ConsumerDestroys, readable, remote
<1>7. CASE OpenAnswered
  <2>1. onServer' \in Nat
    BY <1>7 DEF TypeOK, OpenAnswered
  <2>2. handle' \in BOOLEAN /\ statting' \in BOOLEAN /\ opening' \in BOOLEAN
    BY <1>7 DEF TypeOK, OpenAnswered
  <2> QED
    BY <1>7, <2>1, <2>2 DEF TypeOK, OpenAnswered, prefetch, readable, remote
<1>8. CASE OpenFails
  BY <1>4, <1>8 DEF TypeOK, OpenFails, readable, remote
<1>9. CASE StatAnswered
  BY <1>9 DEF TypeOK, StatAnswered, MinEnd, readable, remote
<1>10. CASE StatFails
  BY <1>4, <1>10 DEF TypeOK, StatFails, readable, remote
<1>11. ASSUME NEW offset \in reads, ReadAnswered(offset)
       PROVE  TypeOK'
  <2>1. offset \in Nat /\ Got(offset) \in 0..Chunk
    BY <1>11, GotBounds DEF TypeOK
  <2>2. EndAfter(offset) \in Nat \union {NoEnd}
    BY <2>1 DEF EndAfter, MinEnd, TypeOK
  <2>3. Got(offset) # 0 => [at |-> offset, len |-> Got(offset)] \in Pieces
    BY <2>1 DEF Pieces
  <2>4. pending' \in SUBSET Pieces /\ endOffset' \in Nat \union {NoEnd}
    BY <1>11, <2>2, <2>3 DEF ReadAnswered, PendingAfter, TypeOK
  <2> QED
    BY <1>11, <2>4 DEF TypeOK, ReadAnswered, PendingAfter, opened, readable, remote
<1>12. ASSUME NEW offset \in reads, ReadFails(offset)
       PROVE  TypeOK'
  BY <1>4, <1>12 DEF TypeOK, ReadFails, readable, remote
<1>13. CASE DeliverPiece
  <2>1. PICK c \in Deliverable : /\ pending' = pending \ {c}
                                 /\ nextDeliver' = nextDeliver + c.len
                                 /\ Push(c)
    BY <1>13 DEF DeliverPiece
  <2>2. c \in Pieces
    BY <2>1 DEF Deliverable, TypeOK
  <2>3. nextDeliver' \in Nat /\ pending' \in SUBSET Pieces
    BY <2>1, <2>2 DEF TypeOK, Pieces
  <2>4. step' \in {"rest", "deliver", "delivered", "pump"}
    BY <1>13 DEF DeliverPiece
  <2> QED
    BY <1>13, <2>1, <2>2, <2>3, <2>4, PushTypes DEF TypeOK, DeliverPiece, opened, remote
<1>14. CASE Delivered
  BY <1>14 DEF TypeOK, Delivered, opened, remote
<1>15. CASE IssueRead
  BY <1>15 DEF TypeOK, IssueRead, opened, readable, remote
<1>16. CASE Pumped
  BY <1>16 DEF TypeOK, Pumped, opened, prefetch, readable, remote
<1>17. CASE Resume
  BY <1>17 DEF TypeOK, Resume, opened, prefetch, remote
<1>18. CASE Resize
  BY <1>18 DEF TypeOK, Resize, opened, prefetch, readable
<1> QED
  BY <1>1, <1>2, <1>3, <1>5, <1>6, <1>7, <1>8, <1>9, <1>10, <1>11, <1>12, <1>13,
     <1>14, <1>15, <1>16, <1>17, <1>18
  DEF Next, Progress, Answers, Loops
-----------------------------------------------------------------------------
(* The inductive invariant.                                                *)

\* Destroying the stream closes the handle it holds.
LEMMA DestroyClosesHandle ==
  ASSUME NoHandleLeaks, NEW how, Destroy(how), how # "no"
  PROVE  NoHandleLeaks' /\ stopped' /\ ~handle' /\ finish' # "no"
BY DEF NoHandleLeaks, Destroy

\* Every step accounts for the handle.
LEMMA HandleStep ==
  ASSUME TypeOK, NoHandleLeaks, Lifetime, [Next]_vars
  PROVE  NoHandleLeaks' /\ Lifetime'
<1> USE DEF Lifetime
<1>1. CASE UNCHANGED <<opened, finish>>
  BY <1>1 DEF NoHandleLeaks, opened
<1>2. ASSUME NEW how \in {"end", "failed", "destroyed"}, Destroy(how), UNCHANGED opening
      PROVE  NoHandleLeaks' /\ Lifetime'
  BY <1>2, DestroyClosesHandle
<1>3. CASE CallRead
  BY <1>3 DEF CallRead, NoHandleLeaks
<1>4. CASE End \/ ConsumerDestroys
  BY <1>2, <1>4 DEF End, ConsumerDestroys
<1>5. CASE OpenAnswered
  BY <1>5 DEF OpenAnswered, NoHandleLeaks, TypeOK
<1>6. CASE OpenFails
  <2>1. CASE stopped
    BY <1>6, <2>1 DEF OpenFails, NoHandleLeaks
  <2>2. CASE ~stopped
    BY <1>6, <2>2, DestroyClosesHandle DEF OpenFails
  <2> QED
    BY <2>1, <2>2
<1>7. CASE StatAnswered
  BY <1>7 DEF StatAnswered, NoHandleLeaks
<1>8. CASE StatFails
  <2>1. CASE stopped
    BY <1>8, <2>1 DEF StatFails, NoHandleLeaks
  <2>2. CASE ~stopped
    BY <1>2, <1>8, <2>2 DEF StatFails
  <2> QED
    BY <2>1, <2>2
<1>9. ASSUME NEW offset \in reads, ReadAnswered(offset) \/ ReadFails(offset)
      PROVE  NoHandleLeaks' /\ Lifetime'
  <2>1. CASE ReadAnswered(offset)
    BY <1>1, <2>1 DEF ReadAnswered
  <2>2. CASE ReadFails(offset) /\ stopped
    BY <2>2 DEF ReadFails, NoHandleLeaks
  <2>3. CASE ReadFails(offset) /\ ~stopped
    BY <1>2, <2>3 DEF ReadFails
  <2> QED
    BY <1>9, <2>1, <2>2, <2>3
<1>10. CASE Flow \/ Loops \/ Resume \/ Resize
  BY <1>1, <1>10 DEF Flow, Loops, DeliverPiece, Delivered, IssueRead, Pumped, Resume, Resize
<1>11. CASE UNCHANGED vars
  BY <1>1, <1>11 DEF vars
<1> QED
  BY <1>3, <1>4, <1>5, <1>6, <1>7, <1>8, <1>9, <1>10, <1>11 DEF Next, Progress, Answers

\* A push hands the piece over, or puts it at the end of the buffer; either
\* way the buffer remains in order.  The piece is handed over only if nothing
\* is before it.
LEMMA PushInOrder ==
  ASSUME TypeOK, BufferInOrder, NEW c \in Pieces, c.at = nextDeliver, Push(c),
         nextDeliver' = nextDeliver + c.len
  PROVE  /\ BufferInOrder'
         /\ sent' # sent => c.at = sent /\ sent' = sent + c.len /\ chunk' = c
         /\ sent' = sent => chunk' = chunk
<1>1. CASE flowing /\ buffer = <<>> /\ ~sync
  <2>1. sent = nextDeliver
    BY <1>1, ChainEmpty DEF BufferInOrder
  <2>2. sent' = sent + c.len /\ chunk' = c /\ buffer' = <<>>
    BY <1>1 DEF Push, HandOver
  <2>3. BufferInOrder'
    BY <2>1, <2>2, ChainEmpty DEF BufferInOrder
  <2> QED
    BY <2>1, <2>2, <2>3, ConstantsAssumption DEF Pieces, TypeOK
<1>2. CASE ~(flowing /\ buffer = <<>> /\ ~sync)
  <2>1. sent' = sent /\ chunk' = chunk /\ buffer' = Append(buffer, c)
    BY <1>2 DEF Push
  <2>2. Chain(Append(buffer, c), sent, nextDeliver + c.len)
    BY ChainAppend DEF BufferInOrder, TypeOK
  <2> QED
    BY <2>1, <2>2 DEF BufferInOrder
<1> QED
  BY <1>1, <1>2

\* Handing over the first piece of the buffer keeps the rest in order.
LEMMA FlowInOrder ==
  ASSUME TypeOK, BufferInOrder, Flow
  PROVE  /\ BufferInOrder'
         /\ chunk' \in Pieces /\ chunk'.at = sent /\ sent' = sent + chunk'.len
<1>1. /\ Head(buffer) \in Pieces /\ Head(buffer).at = sent
      /\ Chain(Tail(buffer), sent + Head(buffer).len, nextDeliver)
  BY ChainTail DEF Flow, TypeOK, BufferInOrder
<1>2. /\ buffer' = Tail(buffer) /\ nextDeliver' = nextDeliver
      /\ sent' = sent + Head(buffer).len /\ chunk' = Head(buffer)
  BY DEF Flow, HandOver, prefetch
<1> QED
  BY <1>1, <1>2 DEF BufferInOrder

\* Every step keeps the buffer in order.
LEMMA BufferStep ==
  ASSUME TypeOK, BufferInOrder, [Next]_vars
  PROVE  BufferInOrder'
<1>1. CASE UNCHANGED <<buffer, sent, nextDeliver>>
  BY <1>1 DEF BufferInOrder
<1>2. CASE Flow
  BY <1>2, FlowInOrder
<1>3. CASE DeliverPiece
  <2>1. PICK c \in Deliverable : nextDeliver' = nextDeliver + c.len /\ Push(c)
    BY <1>3 DEF DeliverPiece
  <2> QED
    BY <2>1, PushInOrder DEF Deliverable, TypeOK
<1>4. CASE CallRead \/ Resume \/ End \/ ConsumerDestroys \/ Resize
  BY <1>1, <1>4
  DEF CallRead, Resume, End, ConsumerDestroys, Resize, prefetch, readable
<1>5. CASE Answers
  BY <1>1, <1>5
  DEF Answers, OpenAnswered, OpenFails, StatAnswered, StatFails, ReadAnswered,
      ReadFails, prefetch, readable
<1>6. CASE Delivered \/ IssueRead \/ Pumped \/ UNCHANGED vars
  BY <1>1, <1>6 DEF Delivered, IssueRead, Pumped, vars, prefetch, readable
<1> QED
  BY <1>2, <1>3, <1>4, <1>5, <1>6 DEF Next, Progress, Loops

\* Every step keeps the end within the file.
LEMMA EndStep ==
  ASSUME TypeOK, EndInFile, [Next]_vars
  PROVE  EndInFile'
<1>1. CASE UNCHANGED <<endOffset, pushedEnd, nextDeliver, size, smallest>>
  BY <1>1 DEF EndInFile
<1>2. CASE StatAnswered
  BY <1>2 DEF StatAnswered, EndInFile, TypeOK, MinEnd, NoEnd, remote
<1>3. ASSUME NEW offset \in reads, ReadAnswered(offset)
      PROVE  EndInFile'
  <2>1. offset \in Nat
    BY DEF TypeOK
  <2>2. endOffset' = endOffset \/ endOffset' = EndAfter(offset)
    BY <1>3 DEF ReadAnswered
  <2>3. UNCHANGED <<pushedEnd, nextDeliver, size, smallest>>
    BY <1>3 DEF ReadAnswered, remote
  <2>4. CASE endOffset' = EndAfter(offset)
    <3>1. /\ endOffset' \in Nat \union {NoEnd}
          /\ endOffset' # NoEnd => smallest <= endOffset'
          /\ endOffset # NoEnd => endOffset' # NoEnd /\ endOffset' <= endOffset
      BY <2>1, <2>4, EndAfterInFile
    <3> QED
      BY <2>3, <3>1 DEF EndInFile, TypeOK, NoEnd
  <2> QED
    BY <1>1, <2>2, <2>3, <2>4
<1>4. CASE DeliverPiece
  <2>1. PICK c \in pending : nextDeliver' = nextDeliver + c.len
    BY <1>4 DEF DeliverPiece, Deliverable
  <2>2. ~pushedEnd' /\ UNCHANGED <<endOffset, size, smallest>>
    BY <1>4 DEF DeliverPiece, remote
  <2> QED
    BY <2>2 DEF EndInFile
<1>5. CASE Delivered
  BY <1>5 DEF Delivered, EndInFile, remote
<1>6. CASE Resize
  BY <1>6, ConstantsAssumption DEF Resize, EndInFile, TypeOK, prefetch, NoEnd
<1>7. CASE CallRead \/ Flow \/ Resume \/ End \/ ConsumerDestroys
  BY <1>1, <1>7 DEF CallRead, Flow, Resume, End, ConsumerDestroys, prefetch, remote
<1>8. CASE OpenAnswered \/ OpenFails \/ StatFails
  BY <1>1, <1>8 DEF OpenAnswered, OpenFails, StatFails, prefetch, remote
<1>9. ASSUME NEW offset \in reads, ReadFails(offset)
      PROVE  EndInFile'
  BY <1>1, <1>9 DEF ReadFails, remote
<1>10. CASE IssueRead \/ Pumped \/ UNCHANGED vars
  BY <1>1, <1>10 DEF IssueRead, Pumped, vars, prefetch, remote
<1> QED
  BY <1>2, <1>3, <1>4, <1>5, <1>6, <1>7, <1>8, <1>9, <1>10
  DEF Next, Progress, Answers, Loops

\* The initial states satisfy the inductive invariant.
LEMMA InitEstablishesIInv ==
  ASSUME Init
  PROVE  IInv
<1>1. TypeOK
  BY ConstantsAssumption, EmptySeq DEF Init, TypeOK, NoEnd
<1>2. BufferInOrder
  BY ChainEmpty DEF Init, BufferInOrder
<1>3. NoHandleLeaks /\ Lifetime /\ EndInFile
  BY ConstantsAssumption DEF Init, NoHandleLeaks, Lifetime, EndInFile, NoEnd
<1> QED
  BY <1>1, <1>2, <1>3 DEF IInv

\* Every step keeps it.
LEMMA IInvStep ==
  ASSUME IInv, [Next]_vars
  PROVE  IInv'
BY TypeStep, HandleStep, BufferStep, EndStep DEF IInv

\* It holds in every state.
LEMMA InvariantHolds == Spec => []IInv
<1>1. Init => IInv
  BY InitEstablishesIInv
<1>2. IInv /\ [Next]_vars => IInv'
  BY IInvStep
<1> QED
  BY <1>1, <1>2, PTL DEF Spec

-----------------------------------------------------------------------------
(* The theorems.                                                           *)

\* Whatever the server answers and when, the variables keep their types
\* (ParallelPrefetchReadStream).
THEOREM TypeCorrect == Spec => []TypeOK
<1>1. IInv => TypeOK
  BY DEF IInv
<1> QED
  BY <1>1, InvariantHolds, PTL

\* No handle stays open on the server after the stream was destroyed, and none
\* is closed twice (#openHandle, _destroy).
THEOREM HandlesAreClosed == Spec => []NoHandleLeaks
<1>1. IInv => NoHandleLeaks
  BY DEF IInv
<1> QED
  BY <1>1, InvariantHolds, PTL

\* A step of the stream is a step of ByteStream, or leaves its variables alone.
LEMMA StepRefines ==
  ASSUME IInv, [Next]_vars
  PROVE  [Contract!Next]_Contract!vars
<1> USE DEF IInv
<1>1. CASE UNCHANGED <<sent, chunk, smallest, finish>>
  BY <1>1 DEF Contract!vars
<1>2. CASE Flow
  <2>1. /\ chunk' \in Pieces /\ chunk'.at = sent /\ sent' = sent + chunk'.len
    BY <1>2, FlowInOrder
  <2>2. chunk'.len > 0
    BY <2>1, ConstantsAssumption DEF Pieces
  <2>3. finish = "no" /\ UNCHANGED <<smallest, finish>>
    BY <1>2 DEF Flow, remote
  <2> QED
    BY <2>1, <2>2, <2>3 DEF Contract!Next, Contract!Data
<1>3. CASE DeliverPiece
  <2>1. PICK c \in Deliverable : nextDeliver' = nextDeliver + c.len /\ Push(c)
    BY <1>3 DEF DeliverPiece
  <2>2. c \in Pieces /\ c.at = nextDeliver
    BY <2>1 DEF Deliverable, TypeOK
  <2>3. UNCHANGED <<smallest, finish>>
    BY <1>3 DEF DeliverPiece, remote
  <2>4. /\ sent' # sent => c.at = sent /\ sent' = sent + c.len /\ chunk' = c
        /\ sent' = sent => chunk' = chunk
    BY <2>1, <2>2, PushInOrder
  <2>5. CASE sent' = sent
    BY <1>1, <2>3, <2>4, <2>5
  <2>6. CASE sent' # sent
    <3>1. c.len > 0
      BY <2>2, ConstantsAssumption DEF Pieces
    <3>2. finish = "no"
      BY <1>3 DEF DeliverPiece, Lifetime
    <3> QED
      BY <2>3, <2>4, <2>6, <3>1, <3>2 DEF Contract!Next, Contract!Data
  <2> QED
    BY <2>5, <2>6
<1>4. ASSUME NEW how \in {"failed", "destroyed"}, Destroy(how), finish = "no",
             UNCHANGED <<sent, chunk, smallest>>
      PROVE  Contract!Next
  BY <1>4 DEF Destroy, Contract!Next, Contract!Stop
<1>5. CASE End
  <2>1. sent = nextDeliver
    BY <1>5, ChainEmpty DEF End, BufferInOrder
  <2>2. sent >= smallest
    BY <1>5, <2>1 DEF End, EndInFile, TypeOK, NoEnd
  <2> QED
    BY <1>5, <2>2 DEF End, Destroy, readable, remote, Contract!Next, Contract!End
<1>6. CASE ConsumerDestroys
  BY <1>4, <1>6 DEF ConsumerDestroys, readable, remote
<1>7. CASE OpenFails
  BY <1>1, <1>4, <1>7 DEF OpenFails, Lifetime, readable, remote
<1>8. CASE StatFails
  BY <1>1, <1>4, <1>8 DEF StatFails, Lifetime, readable, remote
<1>9. ASSUME NEW offset \in reads, ReadFails(offset)
      PROVE  [Contract!Next]_Contract!vars
  BY <1>1, <1>4, <1>9 DEF ReadFails, Lifetime, readable, remote
<1>10. CASE Resize
  BY <1>1, <1>10 DEF Resize, readable, Contract!Next, Contract!Shrink
<1>11. CASE OpenAnswered \/ StatAnswered \/ CallRead \/ Resume
  BY <1>1, <1>11 DEF OpenAnswered, StatAnswered, CallRead, Resume, readable, remote
<1>12. ASSUME NEW offset \in reads, ReadAnswered(offset)
       PROVE  [Contract!Next]_Contract!vars
  BY <1>1, <1>12 DEF ReadAnswered, readable, remote
<1>13. CASE Delivered \/ IssueRead \/ Pumped \/ UNCHANGED vars
  BY <1>1, <1>13 DEF Delivered, IssueRead, Pumped, vars, readable, remote
<1> QED
  BY <1>2, <1>3, <1>5, <1>6, <1>7, <1>8, <1>9, <1>10, <1>11, <1>12, <1>13
  DEF Next, Progress, Answers, Loops

\* The stream implements ByteStream: the consumer gets the bytes of the file in
\* order and none are cut off, for every order of the answers.
THEOREM StreamDeliversFile == Spec => DeliversFile
<1>1. Init => Contract!Init
  BY ConstantsAssumption DEF Init, Contract!Init
<1>2. IInv /\ [Next]_vars => [Contract!Next]_Contract!vars
  BY StepRefines
<1> QED
  BY <1>1, <1>2, InvariantHolds, PTL DEF Spec, DeliversFile, Contract!Spec

-----------------------------------------------------------------------------
(* The stream never waits for nothing.                                     *)

\* READs are issued at the multiples of the chunk size.
Aligned(k) == \E m \in Nat : k = m * Chunk

\* The stream knows that it ends at k or before.
PastEnd(k) == endOffset # NoEnd /\ endOffset <= k

\* What was issued is in flight, read, or behind the end, without a gap after what was
\* delivered; a piece is short, and what follows it is not at a multiple, only at the end.
Tiled ==
  /\ Aligned(nextIssue)
  /\ \A o \in reads : Aligned(o) /\ o < nextIssue
  /\ \A c \in pending : Aligned(c.at) /\ (c.len = Chunk \/ PastEnd(c.at + c.len))
  /\ ~stopped =>
       /\ Aligned(nextDeliver) \/ PastEnd(nextDeliver)
       /\ \A k \in Nat : Aligned(k) /\ nextDeliver <= k /\ k < nextIssue =>
            k \in reads \/ (\E c \in pending : c.at = k) \/ PastEnd(k)

\* When more is asked for and #pump runs, #deliverPending has found nothing to deliver and
\* the end not reached.
LoopsInTurn ==
  /\ pushedEnd \/ step = "delivered" => ~reading
  /\ step = "pump" /\ reading /\ ~stopped => Deliverable = {} /\ ~PastEnd(nextDeliver)

\* A stream from which more is asked for awaits an answer.
AskedIsAwaited ==
  step = "rest" /\ reading /\ finish = "no" => opening \/ statting \/ reads # {}

\* No more READs than allowed are in flight, and what they and the pieces that wait for
\* earlier ones take is bounded by what so many READs take.
WindowBounded ==
  /\ IsFiniteSet(reads) /\ Cardinality(reads) <= Concurrency
  /\ nextIssue <= nextDeliver + Readahead

LEMMA AlignedNext ==
  ASSUME NEW k \in Nat, Aligned(k)
  PROVE  Aligned(k + Chunk)
<1>1. PICK m \in Nat : k = m * Chunk
  BY DEF Aligned
<1>2. m + 1 \in Nat /\ (m + 1) * Chunk = m * Chunk + Chunk
  BY ConstantsAssumption
<1> QED
  BY <1>1, <1>2, Zenon DEF Aligned

\* Between two multiples lies a chunk.
LEMMA AlignedGap ==
  ASSUME NEW j \in Nat, NEW k \in Nat, Aligned(j), Aligned(k), j < k
  PROVE  j + Chunk <= k
<1>1. PICK a \in Nat : j = a * Chunk
  BY DEF Aligned
<1>2. PICK b \in Nat : k = b * Chunk
  BY DEF Aligned
<1>3. a < b
  BY <1>1, <1>2, ConstantsAssumption, SMT
<1>4. (a + 1) * Chunk <= b * Chunk
  BY <1>3, ConstantsAssumption, SMT
<1>5. (a + 1) * Chunk = a * Chunk + Chunk
  BY ConstantsAssumption, SMT
<1> QED
  BY <1>1, <1>2, <1>4, <1>5

LEMMA AlignedWindow ==
  ASSUME NEW k \in Nat, Aligned(k)
  PROVE  Aligned(k + Readahead) /\ Readahead \in Nat /\ Chunk <= Readahead
<1>1. PICK m \in Nat : k = m * Chunk
  BY DEF Aligned
<1>2. m + Concurrency \in Nat /\ (m + Concurrency) * Chunk = k + Readahead
  BY <1>1, ConstantsAssumption, SMT DEF Readahead
<1>3. Readahead \in Nat /\ Chunk <= Readahead
  BY ConstantsAssumption, SMT DEF Readahead
<1>4. Aligned(k + Readahead)
  BY <1>2, Zenon DEF Aligned
<1> QED
  BY <1>3, <1>4

\* What is past the end stays so, and so does what lies behind it.
LEMMA PastEndStays ==
  ASSUME TypeOK, TypeOK', endOffset # NoEnd => endOffset' # NoEnd /\ endOffset' <= endOffset,
         NEW j \in Nat, NEW k \in Nat, j <= k, PastEnd(j)
  PROVE  PastEnd(k)'
BY DEF PastEnd, TypeOK, NoEnd

\* A short answer tells that what follows it is past the end.
LEMMA ShortIsLast ==
  ASSUME TypeOK, NEW offset \in Nat, NEW g, g = Got(offset), g < Chunk,
         endOffset' = EndAfter(offset)
  PROVE  PastEnd(offset + g)'
<1>1. g \in Nat
  BY GotBounds, ConstantsAssumption DEF TypeOK
<1>2. endOffset' = MinEnd(offset + g)
  BY DEF EndAfter
<1> QED
  BY <1>1, <1>2 DEF MinEnd, PastEnd, TypeOK, NoEnd

\* The end only comes nearer.
LEMMA EndComesNearer ==
  ASSUME TypeOK, EndInFile, [Next]_vars
  PROVE  endOffset # NoEnd => endOffset' # NoEnd /\ endOffset' <= endOffset
<1>1. CASE UNCHANGED endOffset
  BY <1>1 DEF TypeOK, NoEnd
<1>2. CASE StatAnswered
  BY <1>2 DEF StatAnswered, TypeOK, MinEnd, NoEnd
<1>3. ASSUME NEW offset \in reads, ReadAnswered(offset)
      PROVE  endOffset # NoEnd => endOffset' # NoEnd /\ endOffset' <= endOffset
  <2>1. endOffset' = endOffset \/ endOffset' = EndAfter(offset)
    BY <1>3 DEF ReadAnswered
  <2> QED
    BY <1>1, <2>1, EndAfterInFile DEF TypeOK
<1>4. CASE CallRead \/ Flow \/ End \/ Resume \/ ConsumerDestroys \/ Resize
  BY <1>1, <1>4 DEF CallRead, Flow, End, Resume, ConsumerDestroys, Resize, prefetch
<1>5. CASE OpenAnswered \/ OpenFails \/ StatFails
  BY <1>1, <1>5 DEF OpenAnswered, OpenFails, StatFails, prefetch
<1>6. CASE Loops \/ UNCHANGED vars
  BY <1>1, <1>6 DEF Loops, DeliverPiece, Delivered, IssueRead, Pumped, prefetch, vars
<1>7. ASSUME NEW offset \in reads, ReadFails(offset)
      PROVE  UNCHANGED endOffset
  BY <1>7 DEF ReadFails
<1> QED
  BY <1>1, <1>2, <1>3, <1>4, <1>5, <1>6, <1>7 DEF Next, Progress, Answers

\* The stream that is destroyed keeps nothing, and what is in flight stays so.
LEMMA TiledStopped ==
  ASSUME Tiled, pending' = {}, stopped', reads' \subseteq reads, UNCHANGED nextIssue
  PROVE  Tiled'
<1>1. Aligned(nextIssue)' /\ (\A o \in reads : Aligned(o)' /\ o < nextIssue')
  BY DEF Tiled, Aligned
<1> QED
  BY <1>1 DEF Tiled

\* The stream is tiled still if only the end comes nearer.
LEMMA TiledEnd ==
  ASSUME Tiled, TypeOK, TypeOK',
         endOffset # NoEnd => endOffset' # NoEnd /\ endOffset' <= endOffset,
         UNCHANGED <<reads, pending, nextIssue, nextDeliver, stopped>>
  PROVE  Tiled'
<1>1. \A k \in Nat : PastEnd(k) => PastEnd(k)'
  BY PastEndStays DEF TypeOK
<1>2. \A c \in pending : c.at + c.len \in Nat
  BY ConstantsAssumption DEF TypeOK, Pieces
<1>3. \A k : Aligned(k)' <=> Aligned(k)
  BY DEF Aligned
<1>4. nextDeliver \in Nat
  BY DEF TypeOK
<1> HIDE DEF Aligned, PastEnd
<1> QED
  BY <1>1, <1>2, <1>3, <1>4 DEF Tiled

\* An answer takes the place of its READ.
LEMMA TiledAnswered ==
  ASSUME Tiled, TypeOK, TypeOK', EndInFile, NEW offset \in reads, ReadAnswered(offset)
  PROVE  Tiled'
<1>1. CASE stopped
  <2>1. Aligned(nextIssue)' /\ (\A o \in reads' : Aligned(o)' /\ o < nextIssue')
    BY <1>1 DEF ReadAnswered, Tiled, Aligned
  <2>2. stopped' /\ pending' = pending /\ endOffset' = endOffset
    BY <1>1 DEF ReadAnswered, opened
  <2> QED
    BY <2>1, <2>2 DEF Tiled, Aligned, PastEnd
<1>2. CASE ~stopped
  <2>0. PICK g \in 0..Chunk : g = Got(offset)
    BY GotBounds DEF TypeOK
  <2> DEFINE c0 == [at |-> offset, len |-> g]
  <2>1. /\ offset \in Nat /\ Aligned(offset) /\ g \in 0..Chunk
    BY DEF TypeOK, Tiled
  <2>2. endOffset # NoEnd => endOffset' # NoEnd /\ endOffset' <= endOffset
    BY <1>2, EndAfterInFile, <2>1 DEF ReadAnswered
  <2>3. /\ reads' = reads \ {offset} /\ endOffset' = EndAfter(offset)
        /\ pending' = IF g = 0 THEN pending ELSE pending \union {c0}
        /\ UNCHANGED <<nextIssue, nextDeliver, stopped>>
    BY <1>2, <2>0 DEF ReadAnswered, PendingAfter, opened
  <2>4. g < Chunk => PastEnd(offset + g)'
    BY <2>0, <2>1, <2>3, ShortIsLast
  <2>5. \A k \in Nat : PastEnd(k) => PastEnd(k)'
    BY <2>2, PastEndStays
  <2>6. \A k : Aligned(k)' <=> Aligned(k)
    BY DEF Aligned
  <2>7. \A c \in pending : c.at + c.len \in Nat
    BY ConstantsAssumption DEF TypeOK, Pieces
  <2>8. c0.at = offset /\ c0.len = g
    OBVIOUS
  <2>9. \A c \in pending' : Aligned(c.at)' /\ (c.len = Chunk \/ PastEnd(c.at + c.len)')
    <3> TAKE c \in pending'
    <3>1. CASE c \in pending
      <4>1. Aligned(c.at) /\ (c.len = Chunk \/ PastEnd(c.at + c.len))
        BY <3>1 DEF Tiled
      <4> QED
        BY <3>1, <4>1, <2>5, <2>6, <2>7
    <3>2. CASE c = c0
      <4>1. g = Chunk \/ g < Chunk
        BY <2>1, ConstantsAssumption
      <4> QED
        BY <4>1, <3>2, <2>1, <2>4, <2>6, <2>8
    <3> QED
      BY <2>3, <3>1, <3>2
  <2>10. \A k \in Nat : Aligned(k)' /\ nextDeliver' <= k /\ k < nextIssue' =>
            k \in reads' \/ (\E c \in pending' : c.at = k) \/ PastEnd(k)'
    <3> SUFFICES ASSUME NEW k \in Nat, Aligned(k)', nextDeliver <= k, k < nextIssue
                 PROVE  k \in reads' \/ (\E c \in pending' : c.at = k) \/ PastEnd(k)'
      BY <2>3
    <3>1. k \in reads \/ (\E c \in pending : c.at = k) \/ PastEnd(k)
      BY <1>2, <2>6 DEF Tiled
    <3>2. CASE k = offset /\ g = 0
      <4>1. offset + g = k /\ g < Chunk
        BY <3>2, ConstantsAssumption
      <4> QED
        BY <4>1, <2>4
    <3>3. CASE k = offset /\ g # 0
      BY <3>3, <2>3, <2>8
    <3>4. CASE k # offset
      BY <3>1, <3>4, <2>3, <2>5
    <3> QED
      BY <3>2, <3>3, <3>4
  <2>11. Aligned(nextIssue)' /\ (\A o \in reads' : Aligned(o)' /\ o < nextIssue')
    BY <2>3, <2>6 DEF Tiled
  <2>12. Aligned(nextDeliver)' \/ PastEnd(nextDeliver)'
    BY <1>2, <2>3, <2>5, <2>6 DEF Tiled, TypeOK
  <2> QED
    BY <2>9, <2>10, <2>11, <2>12 DEF Tiled
<1> QED
  BY <1>1, <1>2

\* A piece that is delivered leaves no gap before the next.
LEMMA TiledDelivered ==
  ASSUME Tiled, TypeOK, TypeOK', DeliverPiece
  PROVE  Tiled'
<1>1. PICK c \in pending : /\ c.at = nextDeliver
                           /\ pending' = pending \ {c}
                           /\ nextDeliver' = nextDeliver + c.len
  BY DEF DeliverPiece, Deliverable
<1>2. ~stopped /\ UNCHANGED <<nextIssue, endOffset, reads, stopped>>
  BY DEF DeliverPiece, opened
<1>3. c.len \in Nat \ {0} /\ nextDeliver \in Nat
  BY ConstantsAssumption DEF TypeOK, Pieces
<1>4. \A k : (Aligned(k)' <=> Aligned(k)) /\ (PastEnd(k)' <=> PastEnd(k))
  BY <1>2 DEF Aligned, PastEnd
<1>5. Aligned(nextDeliver)' \/ PastEnd(nextDeliver)'
  <2>1. c.len = Chunk \/ PastEnd(nextDeliver + c.len)
    BY <1>1 DEF Tiled
  <2>2. CASE c.len = Chunk
    <3>1. Aligned(nextDeliver)
      BY <1>1 DEF Tiled
    <3> QED
      BY <3>1, <2>2, <1>1, <1>3, AlignedNext DEF Aligned
  <2>3. CASE PastEnd(nextDeliver + c.len)
    BY <2>3, <1>1, <1>2 DEF PastEnd
  <2> QED
    BY <2>1, <2>2, <2>3
<1>6. \A k \in Nat : Aligned(k)' /\ nextDeliver' <= k /\ k < nextIssue' =>
            k \in reads' \/ (\E d \in pending' : d.at = k) \/ PastEnd(k)'
  <2> SUFFICES ASSUME NEW k \in Nat, Aligned(k)', nextDeliver' <= k, k < nextIssue'
               PROVE  k \in reads' \/ (\E d \in pending' : d.at = k) \/ PastEnd(k)'
    OBVIOUS
  <2>1. nextDeliver < k
    BY <1>1, <1>3
  <2>2. k \in reads \/ (\E d \in pending : d.at = k) \/ PastEnd(k)
    BY <1>2, <1>3, <1>4, <2>1 DEF Tiled
  <2>3. ASSUME NEW d \in pending, d.at = k PROVE d \in pending'
    BY <2>1, <2>3, <1>1, <1>3
  <2> QED
    BY <2>2, <2>3, <1>2, <1>4
<1>7. \A d \in pending' : Aligned(d.at)' /\ (d.len = Chunk \/ PastEnd(d.at + d.len)')
  BY <1>1, <1>4 DEF Tiled
<1>8. Aligned(nextIssue)' /\ (\A o \in reads' : Aligned(o)' /\ o < nextIssue')
  BY <1>2, <1>4 DEF Tiled
<1> QED
  BY <1>5, <1>6, <1>7, <1>8 DEF Tiled

\* A READ that is issued follows the last one.
LEMMA TiledIssued ==
  ASSUME Tiled, TypeOK, TypeOK', IssueRead
  PROVE  Tiled'
<1>1. /\ reads' = reads \union {nextIssue} /\ nextIssue' = nextIssue + Chunk
      /\ UNCHANGED <<nextDeliver, endOffset, pending, stopped>>
  BY DEF IssueRead, opened
<1>2. \A k : (Aligned(k)' <=> Aligned(k)) /\ (PastEnd(k)' <=> PastEnd(k))
  BY <1>1 DEF Aligned, PastEnd
<1>3. nextIssue \in Nat /\ Chunk \in Nat \ {0} /\ Aligned(nextIssue) /\ reads \subseteq Nat
  BY ConstantsAssumption DEF TypeOK, Tiled
<1>4. Aligned(nextIssue)' /\ (\A o \in reads' : Aligned(o)' /\ o < nextIssue')
  <2>1. Aligned(nextIssue + Chunk)
    BY <1>3, AlignedNext
  <2>2. \A o \in reads' : Aligned(o) /\ o < nextIssue'
    BY <1>1, <1>3 DEF Tiled
  <2> QED
    BY <2>1, <2>2, <1>1, <1>2 DEF Aligned
<1>5. \A k \in Nat : ~stopped' /\ Aligned(k)' /\ nextDeliver' <= k /\ k < nextIssue' =>
            k \in reads' \/ (\E d \in pending' : d.at = k) \/ PastEnd(k)'
  <2> SUFFICES ASSUME NEW k \in Nat, ~stopped, Aligned(k), nextDeliver <= k,
                      k < nextIssue + Chunk
               PROVE  k \in reads' \/ (\E d \in pending : d.at = k) \/ PastEnd(k)
    BY <1>1, <1>2
  <2>1. CASE k < nextIssue
    BY <2>1, <1>1 DEF Tiled
  <2>2. CASE k = nextIssue
    BY <2>2, <1>1
  <2>3. ~ (nextIssue < k)
    BY <1>3, AlignedGap
  <2> QED
    BY <2>1, <2>2, <2>3, <1>3
<1>6. \A d \in pending' : Aligned(d.at)' /\ (d.len = Chunk \/ PastEnd(d.at + d.len)')
  BY <1>1, <1>2 DEF Tiled
<1>7. ~stopped' => Aligned(nextDeliver)' \/ PastEnd(nextDeliver)'
  BY <1>1 DEF Tiled, Aligned, PastEnd
<1> QED
  BY <1>4, <1>5, <1>6, <1>7 DEF Tiled

\* Every step leaves the stream tiled.
LEMMA TiledStep ==
  ASSUME Tiled, TypeOK, TypeOK', EndInFile, Lifetime, [Next]_vars
  PROVE  Tiled'
<1>1. endOffset # NoEnd => endOffset' # NoEnd /\ endOffset' <= endOffset
  BY EndComesNearer
<1>2. CASE UNCHANGED <<reads, pending, nextIssue, nextDeliver, stopped>>
  BY <1>1, <1>2, TiledEnd
<1>3. CASE pending' = {} /\ stopped' /\ reads' \subseteq reads /\ UNCHANGED nextIssue
  BY <1>3, TiledStopped
<1>4. CASE End \/ ConsumerDestroys
  BY <1>3, <1>4 DEF End, ConsumerDestroys, Destroy
<1>5. CASE OpenFails \/ StatFails
  BY <1>2, <1>3, <1>5 DEF OpenFails, StatFails, Destroy
<1>6. ASSUME NEW offset \in reads, ReadFails(offset)
      PROVE  Tiled'
  <2>1. CASE stopped
    <3>1. /\ reads' \subseteq reads
          /\ UNCHANGED <<pending, nextIssue, nextDeliver, stopped, endOffset>>
      BY <1>6, <2>1 DEF ReadFails
    <3> QED
      BY <3>1, <2>1 DEF Tiled, Aligned, PastEnd
  <2>2. CASE ~stopped
    BY <1>3, <1>6, <2>2 DEF ReadFails, Destroy
  <2> QED
    BY <2>1, <2>2
<1>7. CASE CallRead \/ Flow \/ Resume \/ OpenAnswered \/ StatAnswered \/ Resize \/ UNCHANGED vars
  BY <1>2, <1>7
  DEF CallRead, Flow, Resume, OpenAnswered, StatAnswered, Resize, vars, opened, prefetch
<1>8. CASE Delivered \/ Pumped
  BY <1>2, <1>8 DEF Delivered, Pumped, opened, prefetch
<1> QED
  BY <1>4, <1>5, <1>6, <1>7, <1>8, TiledAnswered, TiledDelivered, TiledIssued
  DEF Next, Progress, Answers, Loops

\* The loops run in turn.
LEMMA LoopsStep ==
  ASSUME LoopsInTurn, TypeOK, Lifetime, [Next]_vars
  PROVE  LoopsInTurn'
<1>1. CASE UNCHANGED <<reading, pushedEnd, step, pending, nextDeliver, endOffset, stopped>>
  BY <1>1 DEF LoopsInTurn, Deliverable, PastEnd
<1>2. CASE UNCHANGED <<reading, pushedEnd>> /\ step' \in {"rest", "deliver"}
  BY <1>2 DEF LoopsInTurn
<1>3. CASE CallRead
  BY <1>3 DEF CallRead, LoopsInTurn, prefetch
<1>4. CASE DeliverPiece
  BY <1>4 DEF DeliverPiece, Push, LoopsInTurn
<1>5. CASE Delivered
  <2>1. /\ step' = "pump"
        /\ UNCHANGED <<pending, nextDeliver, endOffset, stopped>>
    BY <1>5 DEF Delivered, opened
  <2>2. CASE reading'
    <3>1. reading /\ ~pushedEnd /\ pushedEnd' = pushedEnd
      BY <1>5, <2>2 DEF Delivered, LoopsInTurn
    <3>2. step = "deliver" /\ (stopped \/ Deliverable = {})
      BY <1>5, <3>1 DEF Delivered, LoopsInTurn
    <3>3. stopped \/ endOffset = NoEnd \/ ~ (nextDeliver >= endOffset)
      BY <1>5, <2>2, <3>1 DEF Delivered
    <3>4. ~stopped => ~PastEnd(nextDeliver)
      BY <3>3 DEF PastEnd, TypeOK, NoEnd
    <3> QED
      BY <2>1, <3>1, <3>2, <3>4 DEF LoopsInTurn, Deliverable, PastEnd
  <2>3. CASE ~reading'
    BY <2>1, <2>3 DEF LoopsInTurn
  <2> QED
    BY <2>2, <2>3
<1>6. CASE Flow \/ Resume \/ Resize \/ End \/ ConsumerDestroys
  BY <1>2, <1>6
  DEF Flow, Resume, Resize, End, ConsumerDestroys, prefetch, readable
<1>7. CASE OpenAnswered \/ OpenFails \/ StatAnswered \/ StatFails
  BY <1>2, <1>7 DEF OpenAnswered, OpenFails, StatAnswered, StatFails, prefetch, readable
<1>8. ASSUME NEW offset \in reads, ReadAnswered(offset) \/ ReadFails(offset)
      PROVE  LoopsInTurn'
  BY <1>2, <1>8 DEF ReadAnswered, ReadFails, readable
<1>9. CASE IssueRead \/ UNCHANGED vars
  BY <1>1, <1>9 DEF IssueRead, vars, opened, prefetch, readable
<1>10. CASE Pumped
  BY <1>2, <1>10 DEF Pumped, prefetch, readable
<1> QED
  BY <1>3, <1>4, <1>5, <1>6, <1>7, <1>8, <1>9, <1>10
  DEF Next, Progress, Answers, Loops

\* When the loops have found nothing to do, a READ is in flight: what comes next is not
\* delivered, not read, and not behind the end.
LEMMA PumpedAwaits ==
  ASSUME TypeOK, Lifetime, Tiled, LoopsInTurn, Pumped, reading, finish = "no"
  PROVE  reads # {}
<1> SUFFICES ASSUME reads = {} PROVE FALSE
  OBVIOUS
<1>1. step = "pump" /\ ~MayIssue /\ ~stopped
  BY DEF Pumped, Lifetime
<1>2. Deliverable = {} /\ ~PastEnd(nextDeliver)
  BY <1>1 DEF LoopsInTurn
<1>3. nextDeliver \in Nat /\ nextIssue \in Nat /\ endOffset \in Nat \union {NoEnd}
  BY DEF TypeOK
<1>4. Aligned(nextDeliver)
  BY <1>1, <1>2 DEF Tiled
<1>5. Readahead \in Nat /\ Chunk <= Readahead /\ Chunk \in Nat \ {0}
  BY <1>3, <1>4, AlignedWindow, ConstantsAssumption
<1>6. Cardinality(reads) < Concurrency
  BY FS_EmptySet, ConstantsAssumption
<1>7. \/ endOffset # NoEnd /\ ~ (nextIssue < endOffset)
      \/ ~ (nextIssue - nextDeliver < Readahead)
  BY <1>1, <1>6 DEF MayIssue
<1>8. nextDeliver < nextIssue
  BY <1>2, <1>3, <1>5, <1>7 DEF PastEnd, NoEnd
<1>9. \E c \in pending : c.at = nextDeliver
  BY <1>1, <1>2, <1>3, <1>4, <1>8 DEF Tiled
<1> QED
  BY <1>2, <1>9 DEF Deliverable

\* What is asked for is awaited.
LEMMA AskedStep ==
  ASSUME AskedIsAwaited, TypeOK, Lifetime, Tiled, LoopsInTurn, [Next]_vars
  PROVE  AskedIsAwaited'
<1>1. CASE UNCHANGED <<step, reading, finish, opening, statting, reads>>
  BY <1>1 DEF AskedIsAwaited
<1>2. CASE step' # "rest" \/ finish' # "no" \/ opening' \/ statting' \/ reads' # {}
  BY <1>2 DEF AskedIsAwaited
<1>3. CASE CallRead
  BY <1>2, <1>3 DEF CallRead
<1>4. CASE Flow \/ Resume \/ Resize \/ UNCHANGED vars
  BY <1>1, <1>4 DEF Flow, Resume, Resize, vars, opened, prefetch, readable
<1>5. CASE End \/ ConsumerDestroys
  BY <1>2, <1>5 DEF End, ConsumerDestroys, Destroy
<1>6. CASE OpenAnswered \/ StatAnswered
  BY <1>2, <1>6 DEF OpenAnswered, StatAnswered, Lifetime
<1>7. CASE OpenFails \/ StatFails
  BY <1>2, <1>7 DEF OpenFails, StatFails, Destroy, Lifetime
<1>8. ASSUME NEW offset \in reads, ReadAnswered(offset) \/ ReadFails(offset)
      PROVE  AskedIsAwaited'
  BY <1>2, <1>8 DEF ReadAnswered, ReadFails, Destroy, Lifetime
<1>9. CASE DeliverPiece \/ Delivered \/ IssueRead
  BY <1>2, <1>9 DEF DeliverPiece, Delivered, IssueRead
<1>10. CASE Pumped
  <2>1. UNCHANGED <<reading, finish, reads>>
    BY <1>10 DEF Pumped, prefetch, readable
  <2> QED
    BY <1>2, <1>10, <2>1, PumpedAwaits DEF AskedIsAwaited
<1> QED
  BY <1>3, <1>4, <1>5, <1>6, <1>7, <1>8, <1>9, <1>10
  DEF Next, Progress, Answers, Loops

\* The window is kept.
LEMMA WindowStep ==
  ASSUME WindowBounded, TypeOK, Tiled, [Next]_vars
  PROVE  WindowBounded'
<1>1. CASE UNCHANGED <<reads, nextIssue, nextDeliver>>
  BY <1>1 DEF WindowBounded, Readahead
<1>2. ASSUME NEW offset \in reads, ReadAnswered(offset) \/ ReadFails(offset)
      PROVE  WindowBounded'
  <2>1. reads' = reads \ {offset} /\ UNCHANGED <<nextIssue, nextDeliver>>
    BY <1>2 DEF ReadAnswered, ReadFails
  <2>2. IsFiniteSet(reads') /\ Cardinality(reads') = Cardinality(reads) - 1
    BY <2>1, FS_RemoveElement DEF WindowBounded
  <2>3. Cardinality(reads) \in Nat
    BY FS_CardinalityType DEF WindowBounded
  <2> QED
    BY <2>1, <2>2, <2>3, ConstantsAssumption DEF WindowBounded, Readahead
<1>3. CASE DeliverPiece
  <2>1. PICK c \in Pieces : nextDeliver' = nextDeliver + c.len
    BY <1>3 DEF DeliverPiece, Deliverable, TypeOK
  <2>2. UNCHANGED <<reads, nextIssue>>
    BY <1>3 DEF DeliverPiece
  <2>3. c.len \in Nat /\ nextDeliver \in Nat /\ nextIssue \in Nat /\ Readahead \in Nat
    BY ConstantsAssumption DEF TypeOK, Pieces, Readahead
  <2>4. nextIssue <= nextDeliver + Readahead
    BY DEF WindowBounded
  <2>5. Readahead' = Readahead
    BY DEF Readahead
  <2>6. nextIssue' <= nextDeliver' + Readahead'
    BY <2>1, <2>2, <2>3, <2>4, <2>5
  <2> QED
    BY <2>2, <2>6 DEF WindowBounded
<1>4. CASE IssueRead
  <2>1. /\ reads' = reads \union {nextIssue} /\ nextIssue' = nextIssue + Chunk
        /\ UNCHANGED nextDeliver /\ MayIssue
    BY <1>4 DEF IssueRead
  <2>2. nextIssue \notin reads
    BY DEF Tiled, TypeOK
  <2>3. IsFiniteSet(reads') /\ Cardinality(reads') = Cardinality(reads) + 1
    BY <2>1, <2>2, FS_AddElement DEF WindowBounded
  <2>4. Cardinality(reads) \in Nat /\ Cardinality(reads) < Concurrency
    BY <2>1, FS_CardinalityType DEF WindowBounded, MayIssue
  <2>5. nextDeliver \in Nat /\ nextIssue \in Nat /\ endOffset \in Nat \union {NoEnd}
    BY DEF TypeOK
  <2>6. Aligned(nextIssue) /\ (Aligned(nextDeliver) \/ PastEnd(nextDeliver))
    BY <2>1 DEF Tiled, MayIssue
  <2>7. Readahead \in Nat /\ Chunk <= Readahead /\ Chunk \in Nat
    BY <2>5, <2>6, AlignedWindow, ConstantsAssumption
  <2>8. nextIssue < nextDeliver + Readahead
    BY <2>1, <2>5, <2>7 DEF MayIssue
  <2>9. nextIssue + Chunk <= nextDeliver + Readahead
    <3>1. CASE Aligned(nextDeliver)
      <4>1. nextDeliver + Readahead \in Nat /\ Aligned(nextDeliver + Readahead)
        BY <3>1, <2>5, <2>7, AlignedWindow
      <4> QED
        BY <4>1, <2>5, <2>6, <2>8, AlignedGap
    <3>2. CASE PastEnd(nextDeliver)
      <4>1. nextIssue <= nextDeliver
        BY <3>2, <2>1, <2>5 DEF PastEnd, MayIssue, NoEnd
      <4> QED
        BY <4>1, <2>5, <2>7
    <3> QED
      BY <2>6, <3>1, <3>2
  <2>10. Readahead' = Readahead
    BY DEF Readahead
  <2> QED
    BY <2>1, <2>3, <2>4, <2>5, <2>9, <2>10, ConstantsAssumption DEF WindowBounded
<1>5. CASE CallRead \/ Flow \/ Resume \/ Resize \/ End \/ ConsumerDestroys \/ UNCHANGED vars
  BY <1>1, <1>5
  DEF CallRead, Flow, Resume, Resize, End, ConsumerDestroys, vars, prefetch
<1>6. CASE OpenAnswered \/ OpenFails \/ StatAnswered \/ StatFails
  BY <1>1, <1>6 DEF OpenAnswered, OpenFails, StatAnswered, StatFails, prefetch
<1>7. CASE Delivered \/ Pumped
  BY <1>1, <1>7 DEF Delivered, Pumped, prefetch
<1> QED
  BY <1>2, <1>3, <1>4, <1>5, <1>6, <1>7 DEF Next, Progress, Answers, Loops

\* The inductive invariant with which the stream is seen not to stall.
FlowInv == IInv /\ Tiled /\ LoopsInTurn /\ AskedIsAwaited /\ WindowBounded

LEMMA FlowInvHolds == Spec => []FlowInv
<1>1. Init => FlowInv
  <2> SUFFICES ASSUME Init PROVE FlowInv
    OBVIOUS
  <2>1. IInv
    BY InitEstablishesIInv
  <2>2. 0 = 0 * Chunk
    BY ConstantsAssumption
  <2>3. Aligned(0)
    BY <2>2, Zenon DEF Aligned
  <2>4. nextIssue = 0 /\ nextDeliver = 0 /\ reads = {} /\ pending = {}
    BY DEF Init
  <2>5. Tiled
    BY <2>3, <2>4 DEF Tiled
  <2>6. LoopsInTurn /\ AskedIsAwaited
    BY DEF Init, LoopsInTurn, AskedIsAwaited
  <2>7. Readahead \in Nat
    BY <2>3, AlignedWindow
  <2>8. WindowBounded
    BY <2>4, <2>7, FS_EmptySet, ConstantsAssumption DEF WindowBounded
  <2> QED
    BY <2>1, <2>5, <2>6, <2>8 DEF FlowInv
<1>2. FlowInv /\ [Next]_vars => FlowInv'
  <2> SUFFICES ASSUME FlowInv, [Next]_vars PROVE FlowInv'
    OBVIOUS
  <2>1. /\ IInv /\ Tiled /\ LoopsInTurn /\ AskedIsAwaited /\ WindowBounded
        /\ TypeOK /\ Lifetime /\ EndInFile
    BY DEF FlowInv, IInv
  <2>2. IInv'
    BY <2>1, IInvStep
  <2>3. TypeOK'
    BY <2>2 DEF IInv
  <2> QED
    BY <2>1, <2>2, <2>3, TiledStep, LoopsStep, AskedStep, WindowStep DEF FlowInv
<1> QED
  BY <1>1, <1>2, PTL DEF Spec

\* While its consumer takes what comes, the stream never waits without anybody who would
\* go on: the half of StreamFinishes that is a matter of safety (_read, #deliverPending,
\* #pump).
THEOREM StreamGoesOn == Spec => []NeverStalls
<1>1. FlowInv => NeverStalls
  <2> SUFFICES ASSUME FlowInv, finish = "no", flowing, step = "rest", buffer = <<>>,
                      ~opening, ~statting, reads = {}
               PROVE  ~reading /\ Buffered < HighWater
    BY DEF NeverStalls, FlowInv, IInv
  <2>1. ~reading
    BY DEF FlowInv, AskedIsAwaited
  <2>2. sent = nextDeliver /\ nextDeliver \in Nat
    BY ChainEmpty DEF FlowInv, IInv, BufferInOrder, TypeOK
  <2> QED
    BY <2>1, <2>2, ConstantsAssumption DEF Buffered
<1> QED
  BY <1>1, FlowInvHolds, PTL

\* The READs in flight and what they have got that cannot be pushed yet never take more than
\* concurrency times chunkBytes (#outstanding, readaheadBytes).
THEOREM RequestsBounded == Spec => []WindowBounded
<1>1. FlowInv => WindowBounded
  BY DEF FlowInv
<1> QED
  BY <1>1, FlowInvHolds, PTL

-----------------------------------------------------------------------------
(* CachedFilelike.                                                         *)

-----------------------------------------------------------------------------
(* Induction, and folds.                                                   *)

\* A set of naturals has a smallest one.
LEMMA Smallest ==
  ASSUME NEW T, T \subseteq Nat, T # {}
  PROVE  \E n \in T : \A m \in T : n <= m
<1> DEFINE R == {ss \in Nat \X Nat : ss[1] < ss[2]}
<1>1. IsWellFoundedOn(R, Nat)
  BY NatLessThanWellFounded DEF OpToRel
<1> HIDE DEF R
<1>2. PICK n \in T : \A m \in T : <<m, n>> \notin R
  BY <1>1, WFMin
<1>3. \A m \in Nat : m < n => <<m, n>> \in R
  <2>1. n \in Nat
    OBVIOUS
  <2>2. \A m \in Nat : <<m, n>> \in Nat \X Nat /\ <<m, n>>[1] = m /\ <<m, n>>[2] = n
    BY <2>1
  <2> QED BY <2>2, Zenon DEF R
<1>4. ASSUME NEW m \in T PROVE n <= m
  <2>1. n \in Nat /\ m \in Nat
    OBVIOUS
  <2>2. ~ (m < n)
    BY <1>2, <1>3, <2>1
  <2> QED BY <2>1, <2>2
<1> QED BY <1>4

\* Induction over the naturals, for a set.
LEMMA Induction ==
  ASSUME NEW S, 0 \in S, \A n \in Nat : n \in S => n + 1 \in S
  PROVE  \A n \in Nat : n \in S
<1> SUFFICES ASSUME Nat \ S # {} PROVE FALSE
  OBVIOUS
<1>1. PICK n \in Nat \ S : \A m \in Nat \ S : n <= m
  BY Smallest
<1>2. n # 0 /\ n - 1 \in Nat
  BY <1>1
<1>3. n - 1 \in S
  BY <1>1, <1>2
<1> QED BY <1>1, <1>2, <1>3

\* A set of naturals that is bounded has a largest one.
LEMMA Largest ==
  ASSUME NEW T, NEW b \in Nat, T \subseteq 0..b, T # {}
  PROVE  \E n \in T : \A m \in T : m <= n
<1> DEFINE D == {b - n : n \in T}
<1>1. PICK d \in D : \A e \in D : d <= e
  <2>0. \A n \in T : n \in 0..b /\ b - n \in Nat
    OBVIOUS
  <2>1. D \subseteq Nat /\ D # {}
    BY <2>0
  <2> HIDE DEF D
  <2> QED BY <2>1, Smallest
<1>2. PICK n \in T : d = b - n
  OBVIOUS
<1>3. ASSUME NEW m \in T PROVE m <= n
  <2>1. b - n <= b - m
    BY <1>1, <1>2
  <2> QED BY <2>1
<1> QED BY <1>3

LEMMA MaxIs ==
  ASSUME NEW m \in Nat, NEW s \in SUBSET (1..m)
  PROVE  /\ m \in s => Max(s) = m
         /\ s # {} => Max(s) \in s
<1>1. ASSUME s # {} PROVE Max(s) \in s /\ \A y \in s : Max(s) >= y
  <2>0. s \subseteq 0..m
    OBVIOUS
  <2>1. \E x \in s : \A y \in s : y <= x
    BY <1>1, <2>0, Largest
  <2>2. \E x \in s : \A y \in s : x >= y
    BY <2>1
  <2> QED BY <2>2, Zenon DEF Max
<1>2. ASSUME m \in s PROVE Max(s) = m
  <2>1. Max(s) \in s /\ Max(s) >= m
    BY <1>1, <1>2
  <2>2. Max(s) \in 1..m
    BY <2>1
  <2> QED BY <2>1, <2>2
<1> QED BY <1>1, <1>2

\* g folds the function f over the sequence w, on the sets of indices up to m.
Folded(g, f, base, w, m) ==
  g = [s \in SUBSET (1..m) |->
         IF s = {} THEN base ELSE f[<<g[s \ {Max(s)}], w[Max(s)]>>]]

Foldable(A, f, base, w, m) == \E g \in [SUBSET (1..m) -> A] : Folded(g, f, base, w, m)

LEMMA FoldExists ==
  ASSUME NEW A, NEW B, NEW f \in [A \X B -> A], NEW base \in A, NEW w \in Seq(B)
  PROVE  Foldable(A, f, base, w, Len(w))
<1> DEFINE N == {m \in Nat : m <= Len(w) => Foldable(A, f, base, w, m)}
<1>1. 0 \in N
  <2> DEFINE g == [s \in SUBSET (1..0) |-> base]
  <2>1. 1..0 = {}
    OBVIOUS
  <2>2. \A s \in SUBSET (1..0) :
          g[s] = IF s = {} THEN base ELSE f[<<g[s \ {Max(s)}], w[Max(s)]>>]
    BY <2>1
  <2>3. g = [s \in SUBSET (1..0) |-> g[s]] /\ g \in [SUBSET (1..0) -> A]
    OBVIOUS
  <2>4. Folded(g, f, base, w, 0)
    <3> HIDE DEF g
    <3> QED BY <2>2, <2>3, Zenon DEF Folded
  <2>5. Foldable(A, f, base, w, 0)
    <3> HIDE DEF g
    <3> QED BY <2>3, <2>4, Zenon DEF Foldable
  <2> QED BY <2>5
<1>2. ASSUME NEW m \in Nat, m \in N PROVE m + 1 \in N
  <2> SUFFICES ASSUME m + 1 <= Len(w) PROVE Foldable(A, f, base, w, m + 1)
    OBVIOUS
  <2>0. Foldable(A, f, base, w, m)
    BY <1>2
  <2>1. PICK e \in [SUBSET (1..m) -> A] : Folded(e, f, base, w, m)
    BY <2>0, Zenon DEF Foldable
  <2> DEFINE S == SUBSET (1..(m + 1))
             g == [s \in S |-> IF m + 1 \in s THEN f[<<e[s \ {m + 1}], w[m + 1]>>] ELSE e[s]]
  <2>2. w[m + 1] \in B /\ m + 1 \in Nat
    OBVIOUS
  <2>3. ASSUME NEW s \in S
        PROVE  s \ {m + 1} \in SUBSET (1..m) /\ (m + 1 \notin s => s \in SUBSET (1..m))
    OBVIOUS
  <2>4. g \in [S -> A]
    <3>1. ASSUME NEW s \in S PROVE f[<<e[s \ {m + 1}], w[m + 1]>>] \in A
      BY <2>2, <2>3
    <3> QED BY <3>1, <2>3
  <2>5. ASSUME NEW s \in S
        PROVE  g[s] = IF s = {} THEN base ELSE f[<<g[s \ {Max(s)}], w[Max(s)]>>]
    <3>1. CASE m + 1 \in s
      <4>1. Max(s) = m + 1
        BY <3>1, <2>2, MaxIs
      <4>2. g[s \ {m + 1}] = e[s \ {m + 1}]
        OBVIOUS
      <4> QED BY <4>1, <4>2, <3>1
    <3>2. CASE m + 1 \notin s
      <4>1. s \in SUBSET (1..m) /\ g[s] = e[s]
        BY <3>2, <2>3
      <4>2. e[s] = IF s = {} THEN base ELSE f[<<e[s \ {Max(s)}], w[Max(s)]>>]
        BY <4>1, <2>1, Zenon DEF Folded
      <4>3. g[s \ {Max(s)}] = e[s \ {Max(s)}]
        BY <3>2
      <4> QED BY <4>1, <4>2, <4>3
    <3> QED BY <3>1, <3>2
  <2>6. g = [s \in S |-> g[s]]
    OBVIOUS
  <2>7. Folded(g, f, base, w, m + 1)
    <3> HIDE DEF g
    <3> QED BY <2>5, <2>6, Zenon DEF Folded
  <2> QED BY <2>4, <2>7, Zenon DEF Foldable
<1>3. Len(w) \in N
  <2>1. Len(w) \in Nat
    OBVIOUS
  <2> HIDE DEF N
  <2> QED BY <1>1, <1>2, <2>1, Induction
<1> QED BY <1>3

\* The prefixes of a sequence, as sets of indices.
LEMMA PrefixIs ==
  ASSUME NEW m \in Nat, NEW n \in 1..m
  PROVE  /\ 1..n \in SUBSET (1..m) /\ 1..n # {} /\ Max(1..n) = n
         /\ (1..n) \ {Max(1..n)} = 1..(n - 1)
         /\ n \in 0..m /\ n - 1 \in 0..m
<1>1. 1..n \in SUBSET (1..m) /\ n \in 1..n /\ 1..n \in SUBSET (1..n) /\ n \in Nat
  OBVIOUS
<1>2. Max(1..n) = n
  <2> DEFINE s == 1..n
  <2>1. s \in SUBSET (1..n) /\ n \in s /\ n \in Nat
    BY <1>1
  <2> HIDE DEF s
  <2>2. Max(s) = n
    BY <2>1, MaxIs
  <2> QED BY <2>2 DEF s
<1>3. (1..n) \ {n} = 1..(n - 1)
  OBVIOUS
<1> QED BY <1>1, <1>2, <1>3

-----------------------------------------------------------------------------
(* Sequences of different elements, and the order of access.               *)

Elements(r) == {r[n] : n \in DOMAIN r}

Distinct(r) == \A m, n \in DOMAIN r : m # n => r[m] # r[n]

RemovedAt(d, c, k) ==
  /\ Len(d) = Len(c) - 1
  /\ \A j \in 1..Len(d) : d[j] = IF j < k THEN c[j] ELSE c[j + 1]

LEMMA RemoveAtIs ==
  ASSUME NEW S, NEW c \in Seq(S), NEW k \in 1..Len(c)
  PROVE  RemoveAt(c, k) \in Seq(S) /\ RemovedAt(RemoveAt(c, k), c, k)
<1> DEFINE u == SubSeq(c, 1, k - 1)
           v == SubSeq(c, k + 1, Len(c))
<1>0. Len(c) \in Nat /\ k \in Nat
  OBVIOUS
<1>1. u \in Seq(S) /\ Len(u) = k - 1 /\ \A j \in 1..(k - 1) : u[j] = c[j]
  <2>1. \A i \in 1..(k - 1) : c[i] \in S
    BY <1>0
  <2>2. /\ u \in Seq(S)
        /\ Len(u) = (IF 1 <= k - 1 THEN (k - 1) - 1 + 1 ELSE 0)
        /\ \A i \in 1..((k - 1) - 1 + 1) : u[i] = c[1 + i - 1]
    BY <1>0, <2>1, SubSeqProperties
  <2> HIDE DEF u
  <2>3. Len(u) = k - 1
    BY <1>0, <2>2
  <2>4. ASSUME NEW j \in 1..(k - 1) PROVE u[j] = c[j]
    <3>1. j \in 1..((k - 1) - 1 + 1) /\ 1 + j - 1 = j
      BY <1>0
    <3> QED BY <2>2, <3>1
  <2> QED BY <2>2, <2>3, <2>4
<1>2. v \in Seq(S) /\ Len(v) = Len(c) - k /\ \A j \in 1..(Len(c) - k) : v[j] = c[k + j]
  <2>1. \A i \in (k + 1)..Len(c) : c[i] \in S
    BY <1>0
  <2>2. /\ v \in Seq(S)
        /\ Len(v) = (IF k + 1 <= Len(c) THEN Len(c) - (k + 1) + 1 ELSE 0)
        /\ \A i \in 1..(Len(c) - (k + 1) + 1) : v[i] = c[(k + 1) + i - 1]
    BY <1>0, <2>1, SubSeqProperties
  <2> HIDE DEF v
  <2>3. Len(v) = Len(c) - k
    BY <1>0, <2>2
  <2>4. ASSUME NEW j \in 1..(Len(c) - k) PROVE v[j] = c[k + j]
    <3>1. j \in 1..(Len(c) - (k + 1) + 1) /\ (k + 1) + j - 1 = k + j
      BY <1>0
    <3> QED BY <2>2, <3>1
  <2> QED BY <2>2, <2>3, <2>4
<1> HIDE DEF u, v
<1>3. /\ u \o v \in Seq(S) /\ Len(u \o v) = Len(u) + Len(v)
      /\ \A i \in 1..(Len(u) + Len(v)) : (u \o v)[i] = IF i <= Len(u) THEN u[i] ELSE v[i - Len(u)]
  BY <1>1, <1>2, ConcatProperties
<1>4. Len(u) + Len(v) = Len(c) - 1
  BY <1>0, <1>1, <1>2
<1>5. ASSUME NEW j \in 1..(Len(c) - 1)
      PROVE  (u \o v)[j] = IF j < k THEN c[j] ELSE c[j + 1]
  <2>1. CASE j < k
    <3>1. j \in 1..(k - 1) /\ j <= Len(u)
      BY <2>1, <1>0, <1>1
    <3> QED BY <2>1, <3>1, <1>1, <1>3, <1>4
  <2>2. CASE ~ (j < k)
    <3>1. j - Len(u) \in 1..(Len(c) - k) /\ k + (j - Len(u)) = j + 1 /\ ~ (j <= Len(u))
      BY <2>2, <1>0, <1>1
    <3>2. v[j - Len(u)] = c[k + (j - Len(u))]
      BY <3>1, <1>2
    <3> QED BY <2>2, <3>1, <3>2, <1>3, <1>4
  <2> QED BY <2>1, <2>2
<1>6. RemoveAt(c, k) = u \o v
  BY DEF RemoveAt, u, v
<1> QED BY <1>3, <1>4, <1>5, <1>6 DEF RemovedAt

LEMMA RemoveFirstIs ==
  ASSUME NEW S, NEW r \in Seq(S), NEW x
  PROVE  IF x \in {r[n] : n \in DOMAIN r}
         THEN \E k \in 1..Len(r) : r[k] = x /\ RemoveFirst(r, x) = RemoveAt(r, k)
         ELSE RemoveFirst(r, x) = r
<1> DEFINE I == {i \in 1..Len(r) : r[i] = x}
           m == Min(I)
<1>1. DOMAIN r = 1..Len(r)
  OBVIOUS
<1>2. CASE x \in {r[n] : n \in DOMAIN r}
  <2>1. I # {} /\ I \subseteq Nat
    BY <1>1, <1>2
  <2>2. m \in I
    <3> HIDE DEF I
    <3>1. \E y \in I : \A z \in I : y <= z
      BY <2>1, Smallest
    <3> QED BY <3>1, Zenon DEF Min
  <2>3. RemoveFirst(r, x) = RemoveAt(r, m)
    <3>1. \E i \in 1..Len(r) : r[i] = x
      BY <2>1
    <3>2. SelectInSeq(r, LAMBDA v : v = x) = m
      BY <2>1, Zenon DEF SelectInSeq
    <3> HIDE DEF m
    <3> QED BY <3>1, <3>2, Zenon DEF RemoveFirst
  <2> HIDE DEF m
  <2>4. \E k \in 1..Len(r) : r[k] = x /\ RemoveFirst(r, x) = RemoveAt(r, k)
    BY <2>2, <2>3
  <2> QED BY <1>2, <2>4
<1>3. CASE x \notin {r[n] : n \in DOMAIN r}
  <2>1. ~ \E i \in 1..Len(r) : r[i] = x
    BY <1>1, <1>3
  <2>2. RemoveFirst(r, x) = r
    BY <2>1, Zenon DEF RemoveFirst
  <2> QED BY <1>3, <2>2
<1> QED BY <1>2, <1>3

LEMMA DropIs ==
  ASSUME NEW S, NEW r \in Seq(S), NEW x, Distinct(r)
  PROVE  /\ RemoveFirst(r, x) \in Seq(S)
         /\ Elements(RemoveFirst(r, x)) = Elements(r) \ {x}
         /\ Distinct(RemoveFirst(r, x))
<1>1. CASE x \notin Elements(r)
  <2>1. RemoveFirst(r, x) = r
    BY <1>1, RemoveFirstIs DEF Elements
  <2> QED BY <2>1, <1>1
<1>2. CASE x \in Elements(r)
  <2>1. PICK k \in 1..Len(r) : r[k] = x /\ RemoveFirst(r, x) = RemoveAt(r, k)
    BY <1>2, RemoveFirstIs DEF Elements
  <2> DEFINE d == RemoveAt(r, k)
  <2>2. d \in Seq(S) /\ Len(d) = Len(r) - 1
        /\ \A j \in 1..Len(d) : d[j] = IF j < k THEN r[j] ELSE r[j + 1]
    BY RemoveAtIs DEF RemovedAt
  <2> HIDE DEF d
  <2>3. /\ DOMAIN r = 1..Len(r) /\ DOMAIN d = 1..Len(d) /\ Len(r) \in Nat /\ k \in Nat
        /\ Len(d) \in Nat
    BY <2>2
  <2> DEFINE from(j) == IF j < k THEN j ELSE j + 1
  <2>4. ASSUME NEW j \in DOMAIN d PROVE from(j) \in DOMAIN r /\ from(j) # k /\ d[j] = r[from(j)]
    BY <2>2, <2>3
  <2>5. ASSUME NEW i \in DOMAIN d, NEW j \in DOMAIN d, i # j PROVE from(i) # from(j)
    BY <2>3, <2>5
  <2>6. ASSUME NEW i \in DOMAIN r, i # k PROVE \E j \in DOMAIN d : from(j) = i
    <3>1. CASE i < k
      <4>1. i \in DOMAIN d /\ from(i) = i
        BY <2>2, <2>3, <3>1
      <4> QED BY <4>1
    <3>2. CASE i > k
      <4>1. i - 1 \in DOMAIN d /\ from(i - 1) = i
        BY <2>2, <2>3, <3>2
      <4> QED BY <4>1
    <3> QED BY <3>1, <3>2, <2>3, <2>6
  <2> HIDE DEF from
  <2>7. Elements(d) = Elements(r) \ {x}
    <3>1. ASSUME NEW y \in Elements(d) PROVE y \in Elements(r) \ {x}
      <4>1. PICK j \in DOMAIN d : y = d[j]
        BY DEF Elements
      <4> QED BY <4>1, <2>1, <2>3, <2>4 DEF Elements, Distinct
    <3>2. ASSUME NEW y \in Elements(r) \ {x} PROVE y \in Elements(d)
      <4>1. PICK i \in DOMAIN r : y = r[i]
        BY DEF Elements
      <4>2. PICK j \in DOMAIN d : from(j) = i
        BY <4>1, <2>1, <2>6
      <4> QED BY <4>1, <4>2, <2>4 DEF Elements
    <3> QED BY <3>1, <3>2
  <2>8. Distinct(d)
    BY <2>4, <2>5 DEF Distinct
  <2> QED BY <2>1, <2>2, <2>7, <2>8 DEF d
<1> QED BY <1>1, <1>2

\* What the list of blocks becomes when one is accessed and none evicted.
Access(r, k) == Append(RemoveFirst(r, k), k)

LEMMA AccessIs ==
  ASSUME NEW S, NEW r \in Seq(S), NEW x \in S, Distinct(r)
  PROVE  /\ Access(r, x) \in Seq(S)
         /\ Elements(Access(r, x)) = Elements(r) \cup {x}
         /\ Distinct(Access(r, x))
<1> DEFINE q == RemoveFirst(r, x)
           d == Append(q, x)
<1>1. q \in Seq(S) /\ Elements(q) = Elements(r) \ {x} /\ Distinct(q)
  BY DropIs
<1> HIDE DEF q
<1>2. /\ d \in Seq(S) /\ Len(d) = Len(q) + 1 /\ d[Len(q) + 1] = x
      /\ \A i \in 1..Len(q) : d[i] = q[i]
  BY <1>1, AppendProperties
<1> HIDE DEF d
<1>3. DOMAIN q = 1..Len(q) /\ DOMAIN d = 1..(Len(q) + 1) /\ Len(q) \in Nat
  BY <1>1, <1>2
<1>4. Elements(d) = Elements(q) \cup {x}
  <2>1. ASSUME NEW y \in Elements(d) PROVE y \in Elements(q) \cup {x}
    <3>1. PICK j \in DOMAIN d : y = d[j]
      BY DEF Elements
    <3>2. CASE j = Len(q) + 1
      BY <3>1, <3>2, <1>2
    <3>3. CASE j # Len(q) + 1
      <4>1. j \in DOMAIN q /\ d[j] = q[j]
        BY <3>1, <3>3, <1>2, <1>3
      <4> QED BY <3>1, <4>1 DEF Elements
    <3> QED BY <3>2, <3>3
  <2>2. ASSUME NEW y \in Elements(q) PROVE y \in Elements(d)
    <3>1. PICK j \in DOMAIN q : y = q[j]
      BY DEF Elements
    <3>2. j \in DOMAIN d /\ d[j] = q[j]
      BY <3>1, <1>2, <1>3
    <3> QED BY <3>1, <3>2 DEF Elements
  <2>3. x \in Elements(d)
    <3>1. Len(q) + 1 \in DOMAIN d
      BY <1>3
    <3> QED BY <3>1, <1>2 DEF Elements
  <2> QED BY <2>1, <2>2, <2>3
<1>5. Distinct(d)
  <2> SUFFICES ASSUME NEW m \in DOMAIN d, NEW n \in DOMAIN d, m # n PROVE d[m] # d[n]
    BY DEF Distinct
  <2>1. \A i \in DOMAIN q : q[i] # x
    BY <1>1 DEF Elements
  <2>2. \A i \in DOMAIN d : i # Len(q) + 1 => i \in DOMAIN q /\ d[i] = q[i]
    BY <1>2, <1>3
  <2> QED BY <2>1, <2>2, <1>1, <1>2 DEF Distinct
<1>6. x \in Elements(r) => Elements(q) \cup {x} = Elements(r) \cup {x}
  BY <1>1
<1> QED BY <1>1, <1>2, <1>4, <1>5 DEF Access, q, d

\* The last j of the list are the indices from a on.
Ends(r, a, j) == j <= Len(r) /\ \A i \in 1..j : r[Len(r) - j + i] = a + i - 1

\* Blocks that are accessed one after the other are the last of the list.
LEMMA AccessEnds ==
  ASSUME NEW S, NEW r \in Seq(S), Distinct(r), NEW a \in Nat, NEW j \in Nat, a + j \in S,
         Ends(r, a, j)
  PROVE  /\ Ends(Access(r, a + j), a, j + 1)
         /\ Len(Access(r, a + j)) = IF a + j \in Elements(r) THEN Len(r) ELSE Len(r) + 1
<1> DEFINE k == a + j
           q == RemoveFirst(r, k)
           d == Append(q, k)
<1>0. Len(r) \in Nat /\ DOMAIN r = 1..Len(r) /\ j <= Len(r)
  BY DEF Ends
<1>1. q \in Seq(S)
  BY DropIs
<1>2. Len(q) = (IF k \in Elements(r) THEN Len(r) - 1 ELSE Len(r)) /\ Ends(q, a, j)
  <2>1. CASE k \notin Elements(r)
    <3>1. q = r
      BY <2>1, RemoveFirstIs DEF Elements
    <3> QED BY <2>1, <3>1
  <2>2. CASE k \in Elements(r)
    <3>1. PICK n \in 1..Len(r) : r[n] = k /\ q = RemoveAt(r, n)
      BY <2>2, RemoveFirstIs DEF Elements
    <3> HIDE DEF q
    <3>2. Len(q) = Len(r) - 1 /\ \A i \in 1..Len(q) : q[i] = IF i < n THEN r[i] ELSE r[i + 1]
      BY <3>1, RemoveAtIs DEF RemovedAt
    <3>3. n <= Len(r) - j
      <4> SUFFICES ASSUME n > Len(r) - j PROVE FALSE
        BY <1>0
      <4>1. n - (Len(r) - j) \in 1..j /\ (Len(r) - j) + (n - (Len(r) - j)) = n
        BY <1>0
      <4>2. r[(Len(r) - j) + (n - (Len(r) - j))] = a + (n - (Len(r) - j)) - 1
        BY <4>1 DEF Ends
      <4> QED BY <3>1, <4>1, <4>2
    <3>4. j <= Len(q)
      BY <1>0, <3>1, <3>2, <3>3
    <3>5. ASSUME NEW i \in 1..j PROVE q[Len(q) - j + i] = a + i - 1
      <4>1. /\ Len(q) - j + i \in 1..Len(q) /\ ~ (Len(q) - j + i < n)
            /\ (Len(q) - j + i) + 1 = Len(r) - j + i
        BY <1>0, <3>1, <3>2, <3>3
      <4> QED BY <3>2, <4>1 DEF Ends
    <3> QED BY <2>2, <3>2, <3>4, <3>5 DEF Ends
  <2> QED BY <2>1, <2>2
<1> HIDE DEF q
<1>3. /\ Len(d) = Len(q) + 1 /\ d[Len(q) + 1] = k
      /\ \A i \in 1..Len(q) : d[i] = q[i]
  BY <1>1, AppendProperties
<1> HIDE DEF d
<1>4. Len(q) \in Nat /\ j <= Len(q)
  BY <1>1, <1>2 DEF Ends
<1>5. ASSUME NEW i \in 1..(j + 1) PROVE d[Len(d) - (j + 1) + i] = a + i - 1
  <2>1. CASE i = j + 1
    <3>1. Len(d) - (j + 1) + i = Len(q) + 1
      BY <1>3, <1>4, <2>1
    <3> QED BY <1>3, <2>1, <3>1
  <2>2. CASE i # j + 1
    <3>1. /\ Len(d) - (j + 1) + i = Len(q) - j + i /\ i \in 1..j
          /\ Len(q) - j + i \in 1..Len(q)
      BY <1>3, <1>4, <2>2
    <3> QED BY <1>2, <1>3, <3>1 DEF Ends
  <2> QED BY <2>1, <2>2
<1>6. j + 1 <= Len(d)
  BY <1>3, <1>4
<1>7. Ends(d, a, j + 1)
  BY <1>5, <1>6 DEF Ends
<1>8. Len(d) = IF k \in Elements(r) THEN Len(r) ELSE Len(r) + 1
  <2>1. CASE k \in Elements(r)
    BY <2>1, <1>0, <1>2, <1>3
  <2>2. CASE k \notin Elements(r)
    BY <2>2, <1>0, <1>2, <1>3
  <2> QED BY <2>1, <2>2
<1> QED BY <1>7, <1>8 DEF d, q, Access

\* The list gets no longer when a block that is in it is accessed.
LEMMA AccessSame ==
  ASSUME NEW S, NEW r \in Seq(S), Distinct(r), NEW k \in S, k \in Nat, k \in Elements(r)
  PROVE  Len(Access(r, k)) = Len(r)
<1> DEFINE j == 0
<1>1. k + j = k /\ j \in Nat
  OBVIOUS
<1>2. Ends(r, k, j)
  BY DEF Ends
<1> HIDE DEF j
<1>3. k + j \in S
  BY <1>1
<1>4. Len(Access(r, k + j)) = IF k + j \in Elements(r) THEN Len(r) ELSE Len(r) + 1
  BY <1>1, <1>2, <1>3, AccessEnds
<1> QED BY <1>1, <1>4

-----------------------------------------------------------------------------
(* Blocks of the file.                                                     *)

LEMMA DivIs ==
  ASSUME NEW n \in Nat, NEW b \in Nat \ {0}
  PROVE  n \div b \in Nat /\ \E r \in 0..(b - 1) : n = b * (n \div b) + r
  OBVIOUS

LEMMA DivUnique ==
  ASSUME NEW b \in Nat \ {0}, NEW q \in Nat, NEW r \in 0..(b - 1)
  PROVE  (b * q + r) \div b = q
  OBVIOUS

LEMMA DivMonotone ==
  ASSUME NEW m \in Nat, NEW n \in Nat, m <= n, NEW b \in Nat \ {0}
  PROVE  m \div b <= n \div b
  OBVIOUS

LEMMA TimesMonotone ==
  ASSUME NEW x \in Int, NEW y \in Int, NEW b \in Nat \ {0}
  PROVE  b * x < b * y => x < y
  OBVIOUS

\* A range of n positions lies in at most as many blocks as n take, and one.
LEMMA BlocksCounted ==
  ASSUME NEW s \in Nat, NEW n \in Nat \ {0}, NEW b \in Nat \ {0}
  PROVE  /\ (s + n - 1) \div b - s \div b <= Ceiling(n, b)
         /\ (s + n - 1) \div b - s \div b <= n - 1
         /\ s \div b <= (s + n - 1) \div b
<1> DEFINE x == s \div b
           y == (s + n - 1) \div b
           c == (n + b - 1) \div b
<1>0. s + n - 1 \in Nat /\ n + b - 1 \in Nat
  OBVIOUS
<1>1. x \in Nat /\ \E r \in 0..(b - 1) : s = b * x + r
  BY DivIs
<1>2. y \in Nat /\ \E r \in 0..(b - 1) : s + n - 1 = b * y + r
  BY <1>0, DivIs
<1>3. c \in Nat /\ \E r \in 0..(b - 1) : n + b - 1 = b * c + r
  BY <1>0, DivIs
<1>4. x <= y
  BY <1>0, DivMonotone
<1> HIDE DEF x, y, c
<1>5. b * (y - x) < b * (c + 1)
  BY <1>1, <1>2, <1>3
<1>6. y - x < c + 1
  BY <1>1, <1>2, <1>3, <1>5, TimesMonotone
<1>7. b * (y - x) < b * n
  <2>1. b * (y - x) <= (n - 1) + (b - 1)
    BY <1>1, <1>2
  <2>2. (n - 1) * (b - 1) >= 0
    OBVIOUS
  <2>3. (n - 1) + (b - 1) < b * n
    BY <2>2
  <2> QED BY <2>1, <2>3, <1>1, <1>2
<1>8. y - x < n
  BY <1>1, <1>2, <1>7, TimesMonotone
<1> QED BY <1>1, <1>2, <1>3, <1>4, <1>6, <1>8 DEF x, y, c, Ceiling

\* c is no smaller if n is.
LEMMA CeilingMonotone ==
  ASSUME NEW m \in Nat, NEW n \in Nat, m <= n, NEW b \in Nat \ {0}
  PROVE  Ceiling(m, b) <= Ceiling(n, b) /\ Ceiling(n, b) \in Nat
<1>1. m + b - 1 \in Nat /\ n + b - 1 \in Nat /\ m + b - 1 <= n + b - 1
  OBVIOUS
<1> QED BY <1>1, DivMonotone, DivIs DEF Ceiling

LEMMA BlockTypes ==
  /\ \A p \in Positions : BlockIndex(p) \in BlockIndices
  /\ Size \in Nat \ {0} /\ BlockSize \in Nat \ {0}
<1>1. Size \in Nat \ {0} /\ BlockSize \in Nat \ {0}
  BY BufferAssumption
<1>2. ASSUME NEW p \in Positions PROVE BlockIndex(p) \in BlockIndices
  <2>1. p \in Nat /\ Size - 1 \in Nat /\ p <= Size - 1
    BY <1>1 DEF Positions
  <2>2. p \div BlockSize \in Nat /\ (Size - 1) \div BlockSize \in Nat
        /\ p \div BlockSize <= (Size - 1) \div BlockSize
    BY <1>1, <2>1, DivIs, DivMonotone
  <2> QED BY <2>2 DEF BlockIndices, BlockIndex
<1> QED BY <1>1, <1>2

\* The blocks of a range are consecutive.
LEMMA BlocksOfIs ==
  ASSUME NEW from \in Nat, NEW to \in Nat, from < to, to <= Size
  PROVE  LET w == BlocksOf(from, to)
         IN /\ w \in Seq(BlockIndices) /\ BlockIndex(from) \in Nat
            /\ Len(w) \in Nat \ {0}
            /\ Len(w) = BlockIndex(to - 1) - BlockIndex(from) + 1
            /\ \A i \in 1..Len(w) : /\ w[i] = BlockIndex(from) + i - 1
                                    /\ w[i] \in BlockIndices /\ w[i] \in Nat
<1> DEFINE w == BlocksOf(from, to)
           a == BlockIndex(from)
           z == BlockIndex(to - 1)
           n == z - a + 1
<1>0. BlockSize \in Nat \ {0} /\ Size \in Nat \ {0} /\ to - 1 \in Nat /\ from <= to - 1
  BY BlockTypes
<1>1. from \in Positions /\ to - 1 \in Positions
  BY <1>0 DEF Positions
<1>2. a \in BlockIndices /\ z \in BlockIndices
  BY <1>1, BlockTypes
<1>3. (Size - 1) \div BlockSize \in Nat
  BY <1>0, DivIs
<1>4. a <= z /\ a \in Nat /\ z \in Nat
  BY <1>0, DivMonotone, DivIs DEF BlockIndex
<1>5. \A k \in a..z : k \in BlockIndices
  BY <1>2, <1>3, <1>4 DEF BlockIndices, BlockIndex
<1>6. w = [i \in 1..n |-> a + i - 1]
  BY DEF BlocksOf
<1> HIDE DEF a, z, w
<1>7. n \in Nat \ {0} /\ n = z - a + 1
  BY <1>4
<1>8. ASSUME NEW i \in 1..n PROVE a + i - 1 \in a..z /\ a + i - 1 \in Nat
  BY <1>4
<1> HIDE DEF n
<1>9. w \in [1..n -> BlockIndices]
  BY <1>5, <1>6, <1>8
<1>10. w \in Seq(BlockIndices) /\ Len(w) = n
  BY <1>7, <1>9, SeqDef
<1>11. \A i \in 1..n : w[i] = a + i - 1 /\ w[i] \in BlockIndices /\ w[i] \in Nat
  BY <1>5, <1>6, <1>8
<1> QED BY <1>4, <1>7, <1>10, <1>11 DEF a, z, w

\* Each of them has a position of the range.
LEMMA BlocksMeet ==
  ASSUME NEW from \in Nat, NEW to \in Nat, from < to, to <= Size,
         NEW i \in 1..Len(BlocksOf(from, to))
  PROVE  \E p \in from..(to - 1) : BlockIndex(p) = BlocksOf(from, to)[i]
<1> DEFINE a == BlockIndex(from)
           z == BlockIndex(to - 1)
           k == a + i - 1
<1>0. BlockSize \in Nat \ {0} /\ to - 1 \in Nat /\ from \in from..(to - 1)
  BY BlockTypes
<1>1. /\ a \in Nat /\ z \in Nat
      /\ \E r \in 0..(BlockSize - 1) : from = BlockSize * a + r
      /\ \E r \in 0..(BlockSize - 1) : to - 1 = BlockSize * z + r
  BY <1>0, DivIs DEF BlockIndex
<1>2. BlocksOf(from, to)[i] = k /\ i \in 1..(z - a + 1)
  BY BlocksOfIs
<1> HIDE DEF a, z
<1>3. k \in Nat /\ a <= k /\ k <= z
  BY <1>1, <1>2
<1>4. CASE k = a
  BY <1>0, <1>2, <1>4 DEF a
<1>5. CASE k # a
  <2> HIDE DEF k
  <2>1. BlockSize * (a + 1) <= BlockSize * k /\ BlockSize * k <= BlockSize * z
        /\ BlockSize * k \in Nat
    BY <1>0, <1>1, <1>3, <1>5
  <2>2. BlockSize * k \in from..(to - 1)
    BY <1>0, <1>1, <2>1
  <2>3. (BlockSize * k + 0) \div BlockSize = k
    BY <1>0, <1>3, DivUnique
  <2>4. BlockIndex(BlockSize * k) = k
    BY <2>1, <2>3 DEF BlockIndex
  <2> QED BY <1>2, <2>2, <2>4
<1> QED BY <1>4, <1>5

\* Each position of the range is in one of them.
LEMMA BlocksCover ==
  ASSUME NEW from \in Nat, NEW to \in Nat, from < to, to <= Size,
         NEW p \in from..(to - 1)
  PROVE  \E i \in 1..Len(BlocksOf(from, to)) : BlocksOf(from, to)[i] = BlockIndex(p)
<1> DEFINE w == BlocksOf(from, to)
           a == BlockIndex(from)
           z == BlockIndex(to - 1)
           k == BlockIndex(p)
<1>0. BlockSize \in Nat \ {0} /\ to - 1 \in Nat /\ p \in Nat /\ from <= p /\ p <= to - 1
  BY BlockTypes
<1>1. a \in Nat /\ z \in Nat /\ k \in Nat /\ a <= k /\ k <= z
  BY <1>0, DivIs, DivMonotone DEF BlockIndex
<1>2. Len(w) = z - a + 1 /\ \A i \in 1..Len(w) : w[i] = a + i - 1
  BY BlocksOfIs
<1> HIDE DEF a, z, k, w
<1>3. k - a + 1 \in 1..Len(w) /\ a + (k - a + 1) - 1 = k
  BY <1>1, <1>2
<1>4. w[k - a + 1] = k
  BY <1>2, <1>3
<1> QED BY <1>3, <1>4 DEF w, k

-----------------------------------------------------------------------------
(* Access to one block.                                                    *)

\* A buffer with its list of blocks as it should be.
Tidy(b, limit) == b \in Buffers /\ Distinct(b.recent) /\ Len(b.recent) <= limit

LEMMA BufferTypes ==
  ASSUME NEW b \in Buffers
  PROVE  /\ b.recent \in Seq(BlockIndices) /\ b.data \subseteq Positions
         /\ b.bytes \in [Positions -> 0..Size]
  BY DEF Buffers

LEMMA TailIs ==
  ASSUME NEW S, NEW r \in Seq(S), Distinct(r), r # <<>>
  PROVE  /\ Tail(r) \in Seq(S) /\ Len(Tail(r)) = Len(r) - 1 /\ Head(r) = r[1] /\ r[1] \in S
         /\ \A i \in 1..(Len(r) - 1) : Tail(r)[i] = r[i + 1]
         /\ Elements(Tail(r)) = Elements(r) \ {r[1]}
         /\ Distinct(Tail(r))
<1>1. Len(r) \in Nat \ {0} /\ DOMAIN r = 1..Len(r)
  OBVIOUS
<1> DEFINE t == Tail(r)
<1>2. /\ t \in Seq(S) /\ Len(t) = Len(r) - 1 /\ Head(r) = r[1] /\ r[1] \in S
      /\ \A i \in 1..(Len(r) - 1) : t[i] = r[i + 1]
  BY HeadTailProperties
<1> HIDE DEF t
<1>3. DOMAIN t = 1..(Len(r) - 1)
  BY <1>2
<1>4. ASSUME NEW y \in Elements(t) PROVE y \in Elements(r) \ {r[1]}
  <2>1. PICK i \in 1..(Len(r) - 1) : y = t[i]
    BY <1>3, <1>4 DEF Elements
  <2>2. y = r[i + 1] /\ i + 1 \in DOMAIN r /\ i + 1 # 1 /\ 1 \in DOMAIN r
    BY <1>1, <1>2, <2>1
  <2> QED BY <2>2 DEF Elements, Distinct
<1>5. ASSUME NEW y \in Elements(r) \ {r[1]} PROVE y \in Elements(t)
  <2>1. PICK i \in 1..Len(r) : y = r[i]
    BY <1>1, <1>5 DEF Elements
  <2>2. i # 1
    BY <2>1, <1>5
  <2>3. i - 1 \in 1..(Len(r) - 1) /\ t[i - 1] = r[(i - 1) + 1] /\ (i - 1) + 1 = i
    BY <1>1, <1>2, <2>1, <2>2
  <2> QED BY <2>1, <2>3, <1>3 DEF Elements
<1>6. Distinct(t)
  <2> SUFFICES ASSUME NEW m \in DOMAIN t, NEW n \in DOMAIN t, m # n PROVE t[m] # t[n]
    BY DEF Distinct
  <2>1. m + 1 \in DOMAIN r /\ n + 1 \in DOMAIN r /\ m + 1 # n + 1
    BY <1>1, <1>3
  <2>2. t[m] = r[m + 1] /\ t[n] = r[n + 1]
    BY <1>2, <1>3
  <2> QED BY <2>1, <2>2 DEF Distinct
<1> QED BY <1>2, <1>4, <1>5, <1>6 DEF t

\* Nothing but the order changes, or the block is added.
Kept(g, b, k) ==
  /\ g.recent = Access(b.recent, k) /\ Elements(g.recent) = Elements(b.recent) \cup {k}
  /\ g.data = b.data /\ g.bytes = b.bytes

\* The block old is not in memory any more, nor are its data.
Evicted(g, b, k, old) ==
  /\ g.recent = Tail(Access(b.recent, k))
  /\ Elements(g.recent) = (Elements(b.recent) \cup {k}) \ {old}
  /\ g.data = {p \in b.data : BlockIndex(p) # old}
  /\ \A p \in Positions : BlockIndex(p) # old => g.bytes[p] = b.bytes[p]

\* The block is in memory afterwards.
LEMMA GetBlockIs ==
  ASSUME NEW limit \in Nat \ {0}, NEW b, Tidy(b, limit),
         NEW k \in BlockIndices,
         NEW g, g = GetBlock(k, limit)[b]
  PROVE  /\ Tidy(g, limit) /\ k \in Elements(g.recent)
         /\ Len(Access(b.recent, k)) <= limit => Kept(g, b, k)
         /\ Len(Access(b.recent, k)) > limit => Evicted(g, b, k, Access(b.recent, k)[1])
<1> DEFINE r == Access(b.recent, k)
           old == r[1]
<1>0. /\ b \in Buffers /\ Distinct(b.recent) /\ Len(b.recent) <= limit
      /\ b.recent \in Seq(BlockIndices) /\ b.data \subseteq Positions
      /\ b.bytes \in [Positions -> 0..Size]
  BY BufferTypes DEF Tidy
<1>1. /\ r \in Seq(BlockIndices)
      /\ Elements(r) = Elements(b.recent) \cup {k}
      /\ Distinct(r)
  BY <1>0, AccessIs
<1>2. Len(r) <= Len(b.recent) + 1 /\ Len(r) \in Nat \ {0} /\ Len(b.recent) \in Nat
      /\ r[Len(r)] = k
  <2>1. r = Append(RemoveFirst(b.recent, k), k)
    BY DEF Access
  <2> DEFINE q == RemoveFirst(b.recent, k)
  <2>2. q \in Seq(BlockIndices)
    BY <1>0, DropIs
  <2>3. Len(q) <= Len(b.recent)
    <3>1. CASE k \in {b.recent[n] : n \in DOMAIN b.recent}
      <4>1. PICK n \in 1..Len(b.recent) : q = RemoveAt(b.recent, n)
        BY <3>1, <1>0, RemoveFirstIs
      <4>2. Len(q) = Len(b.recent) - 1
        BY <4>1, <1>0, RemoveAtIs DEF RemovedAt
      <4>3. Len(b.recent) \in Nat
        BY <1>0
      <4> QED BY <4>2, <4>3
    <3>2. CASE k \notin {b.recent[n] : n \in DOMAIN b.recent}
      <4>1. q = b.recent
        BY <3>2, <1>0, RemoveFirstIs
      <4>2. Len(b.recent) \in Nat
        BY <1>0
      <4> QED BY <4>1, <4>2
    <3> QED BY <3>1, <3>2
  <2> HIDE DEF q
  <2>4. Len(Append(q, k)) = Len(q) + 1 /\ Append(q, k)[Len(q) + 1] = k
    BY <2>2, AppendProperties
  <2>5. Len(q) \in Nat /\ Len(b.recent) \in Nat
    BY <1>0, <2>2
  <2> HIDE DEF r
  <2>6. r = Append(q, k)
    BY <2>1 DEF q
  <2> QED BY <2>3, <2>4, <2>5, <2>6
<1> DEFINE t == Tail(r)
           e == Evict([b EXCEPT !.recent = t], old)
<1>3. g = IF Len(r) > limit THEN Evict([b EXCEPT !.recent = Tail(r)], Head(r))
          ELSE [b EXCEPT !.recent = r]
  <2>1. GetBlock(k, limit)[b] =
          IF Len(Append(RemoveFirst(b.recent, k), k)) > limit
          THEN Evict([b EXCEPT !.recent = Tail(Append(RemoveFirst(b.recent, k), k))],
                          Head(Append(RemoveFirst(b.recent, k), k)))
          ELSE [b EXCEPT !.recent = Append(RemoveFirst(b.recent, k), k)]
    BY <1>0 DEF GetBlock
  <2> QED BY <2>1, Zenon DEF Access
<1>4. r # <<>>
  BY <1>2
<1> HIDE DEF r
<1>5. /\ t \in Seq(BlockIndices) /\ Len(t) = Len(r) - 1 /\ Head(r) = old
      /\ old \in BlockIndices
      /\ \A i \in 1..(Len(r) - 1) : t[i] = r[i + 1]
      /\ Elements(t) = Elements(r) \ {old}
      /\ Distinct(t)
  BY <1>1, <1>4, TailIs
<1>6. CASE Len(r) <= limit
  <2>1. ~ (Len(r) > limit)
    BY <1>2, <1>6
  <2>2. g = [b EXCEPT !.recent = r]
    BY <1>3, <2>1
  <2>3. g \in Buffers /\ g.recent = r /\ g.data = b.data /\ g.bytes = b.bytes
    BY <2>2, <1>0, <1>1 DEF Buffers
  <2>4. Kept(g, b, k)
    BY <2>3, <1>1 DEF Kept, r
  <2> QED BY <2>1, <2>3, <1>1, <1>6, <2>4 DEF Tidy, r
<1>7. CASE Len(r) > limit
  <2>1. g = e
    BY <1>3, <1>5, <1>7
  <2> HIDE DEF old, t
  <2>2. Size \in 0..Size
    BY BlockTypes
  <2>3. /\ e \in Buffers /\ e.recent = t /\ e.data = {p \in b.data : BlockIndex(p) # old}
        /\ \A p \in Positions : BlockIndex(p) # old => e.bytes[p] = b.bytes[p]
    <3>1. e = [recent |-> t, data |-> {p \in b.data : BlockIndex(p) # old},
               bytes |-> [p \in Positions |->
                 IF BlockIndex(p) = old THEN Size ELSE b.bytes[p]]]
      <4> DEFINE x == [b EXCEPT !.recent = t]
      <4>1. /\ x = [recent |-> t, data |-> b.data, bytes |-> b.bytes]
            /\ x.data = b.data /\ x.bytes = b.bytes
        BY <1>0 DEF Buffers
      <4> HIDE DEF x
      <4>2. Evict(x, old) =
              [x EXCEPT !.data = {p \in x.data : BlockIndex(p) # old},
                        !.bytes = [p \in Positions |->
                 IF BlockIndex(p) = old THEN Size ELSE x.bytes[p]]]
        BY DEF Evict, Unset
      <4>3. Evict(x, old) =
              [recent |-> t, data |-> {p \in x.data : BlockIndex(p) # old},
               bytes |-> [p \in Positions |->
                 IF BlockIndex(p) = old THEN Size ELSE x.bytes[p]]]
        BY <4>1, <4>2
      <4> QED BY <4>1, <4>3 DEF x
    <3> DEFINE y == [p \in Positions |-> IF BlockIndex(p) = old THEN Size ELSE b.bytes[p]]
    <3>2. y \in [Positions -> 0..Size]
      BY <1>0, <2>2
    <3>3. \A p \in Positions : BlockIndex(p) # old => y[p] = b.bytes[p]
      OBVIOUS
    <3> HIDE DEF e, y
    <3>4. e = [recent |-> t, data |-> {p \in b.data : BlockIndex(p) # old}, bytes |-> y]
      BY <3>1 DEF y
    <3> QED BY <3>2, <3>3, <3>4, <1>0, <1>5 DEF Buffers
  <2>4. Len(t) <= limit
    BY <1>0, <1>2, <1>5
  <2>5. k \in Elements(t)
    <3>1. Len(r) > 1
      BY <1>2, <1>7
    <3>2. DOMAIN r = 1..Len(r)
      BY <1>1
    <3>3. r[Len(r)] # r[1]
      BY <1>1, <1>2, <3>1, <3>2 DEF Distinct
    <3> QED BY <1>1, <1>2, <1>5, <3>3 DEF old
  <2>6. ~ (Len(r) <= limit)
    BY <1>2, <1>7
  <2>7. Evicted(g, b, k, old)
    BY <2>1, <2>3, <1>1, <1>5 DEF Evicted, r, t
  <2>8. Tidy(g, limit) /\ k \in Elements(g.recent)
    BY <2>1, <2>3, <2>4, <2>5, <1>5 DEF Tidy
  <2> QED BY <2>6, <2>7, <2>8 DEF r, old
<1> QED BY <1>2, <1>6, <1>7

-----------------------------------------------------------------------------
(* Access to the blocks of a range, one after the other.                   *)

TidyBuffers(limit) == {x \in Buffers : Tidy(x, limit)}

\* What Slice folds with.
Slices(h, b, w, limit) ==
  h = [s \in SUBSET (1..Len(w)) |->
         IF s = {} THEN b ELSE GetBlock(w[Max(s)], limit)[h[s \ {Max(s)}]]]

LEMMA SliceUnrolled ==
  ASSUME NEW limit \in Nat \ {0}, NEW b, Tidy(b, limit),
         NEW from \in Nat, NEW to \in Nat, from < to, to <= Size,
         NEW w, w = BlocksOf(from, to)
  PROVE  \E p : /\ p[0] = b
                /\ \A i \in 1..Len(w) : p[i] = GetBlock(w[i], limit)[p[i - 1]]
                /\ Slice(b, from, to, limit) = p[Len(w)]
<1> DEFINE A == TidyBuffers(limit)
           B == BlockIndices
           f == [y \in A \X B |-> GetBlock(y[2], limit)[y[1]]]
<1>1. w \in Seq(B) /\ Len(w) \in Nat /\ b \in A /\ DOMAIN w = 1..Len(w)
  <2>1. w \in Seq(B)
    BY BlocksOfIs
  <2>2. b \in A
    BY DEF TidyBuffers, Tidy
  <2> HIDE DEF A, B
  <2> QED BY <2>1, <2>2
<1>2. f \in [A \X B -> A]
  <2>1. ASSUME NEW x \in A, NEW k \in B PROVE GetBlock(k, limit)[x] \in A
    BY GetBlockIs DEF TidyBuffers, Tidy
  <2> HIDE DEF A, B
  <2> QED BY <2>1
<1>3. PICK g \in [SUBSET (1..Len(w)) -> A] : Folded(g, f, b, w, Len(w))
  <2> HIDE DEF A, B, f
  <2> QED BY <1>1, <1>2, FoldExists, Zenon DEF Foldable
<1>4. Slices(g, b, w, limit)
  <2>1. ASSUME NEW s \in SUBSET (1..Len(w)), s # {}
        PROVE  f[<<g[s \ {Max(s)}], w[Max(s)]>>]
                 = GetBlock(w[Max(s)], limit)[g[s \ {Max(s)}]]
    <3>1. Max(s) \in s
      BY <1>1, <2>1, MaxIs
    <3>2. g[s \ {Max(s)}] \in A /\ w[Max(s)] \in B
      <4> HIDE DEF A, B, f
      <4>1. Max(s) \in 1..Len(w)
        BY <3>1
      <4>2. w[Max(s)] \in B
        BY <1>1, <4>1
      <4>3. s \ {Max(s)} \in SUBSET (1..Len(w))
        OBVIOUS
      <4> QED BY <4>2, <4>3
    <3> HIDE DEF A, B
    <3> QED BY <3>2
  <2> HIDE DEF f
  <2>2. g = [s \in SUBSET (1..Len(w)) |->
               IF s = {} THEN b ELSE f[<<g[s \ {Max(s)}], w[Max(s)]>>]]
    BY <1>3 DEF Folded
  <2> QED BY <2>1, <2>2 DEF Slices
<1> DEFINE h == CHOOSE e : Slices(e, b, w, limit)
           p == [i \in 0..Len(w) |-> h[1..i]]
<1>5. Slices(h, b, w, limit)
  BY <1>4, Zenon
<1>6. Slice(b, from, to, limit) = h[1..Len(w)]
  BY <1>1 DEF Slice, FoldLeft, MapThenFoldSet, Slices
<1> HIDE DEF h
<1>7. \A s \in SUBSET (1..Len(w)) :
        h[s] = IF s = {} THEN b ELSE GetBlock(w[Max(s)], limit)[h[s \ {Max(s)}]]
  BY <1>5 DEF Slices
<1>8. p[0] = b
  <2>1. 1..0 = {} /\ {} \in SUBSET (1..Len(w)) /\ 0 \in 0..Len(w)
    BY <1>1
  <2>2. p[0] = h[{}]
    BY <2>1
  <2> QED BY <1>7, <2>1, <2>2
<1>9. ASSUME NEW i \in 1..Len(w) PROVE p[i] = GetBlock(w[i], limit)[p[i - 1]]
  <2>1. /\ 1..i \in SUBSET (1..Len(w)) /\ 1..i # {} /\ Max(1..i) = i
        /\ (1..i) \ {Max(1..i)} = 1..(i - 1)
        /\ i \in 0..Len(w) /\ i - 1 \in 0..Len(w)
    BY <1>1, PrefixIs
  <2>2. h[1..i] = GetBlock(w[i], limit)[h[1..(i - 1)]]
    BY <1>7, <2>1
  <2> QED BY <2>1, <2>2
<1>10. Len(w) \in 0..Len(w)
  BY <1>1
<1>11. Slice(b, from, to, limit) = p[Len(w)]
  BY <1>6, <1>10
<1> HIDE DEF p
<1> QED BY <1>8, <1>9, <1>11

\* What is read is in memory, so that nothing is evicted.
LEMMA SliceIs ==
  ASSUME NEW limit \in Nat \ {0}, NEW b, Tidy(b, limit),
         NEW from \in Nat, NEW to \in Nat, from < to, to <= Size,
         \A q \in from..(to - 1) : BlockIndex(q) \in Elements(b.recent),
         NEW s, s = Slice(b, from, to, limit)
  PROVE  /\ Tidy(s, limit) /\ Elements(s.recent) = Elements(b.recent)
         /\ s.data = b.data /\ s.bytes = b.bytes
<1> DEFINE w == BlocksOf(from, to)
           Same(x) == /\ Tidy(x, limit) /\ Elements(x.recent) = Elements(b.recent)
                      /\ x.data = b.data /\ x.bytes = b.bytes
<1>1. /\ Len(w) \in Nat
      /\ \A i \in 1..Len(w) : w[i] \in BlockIndices /\ w[i] \in Nat
  BY BlocksOfIs
<1>6. \A i \in 1..Len(w) : w[i] \in Elements(b.recent)
  <2> SUFFICES ASSUME NEW i \in 1..Len(w) PROVE w[i] \in Elements(b.recent)
    OBVIOUS
  <2>1. \E q \in from..(to - 1) : BlockIndex(q) = w[i]
    BY BlocksMeet
  <2> QED BY <2>1
<1>2. PICK p : /\ p[0] = b
               /\ \A i \in 1..Len(w) : p[i] = GetBlock(w[i], limit)[p[i - 1]]
               /\ s = p[Len(w)]
  BY SliceUnrolled
<1> HIDE DEF w
<1> DEFINE N == {i \in Nat : i <= Len(w) => Same(p[i])}
<1>3. 0 \in N
  BY <1>2
<1>4. ASSUME NEW i \in Nat, i \in N PROVE i + 1 \in N
  <2> SUFFICES ASSUME i + 1 <= Len(w) PROVE Same(p[i + 1])
    OBVIOUS
  <2> DEFINE x == p[i]
             k == w[i + 1]
             g == p[i + 1]
  <2>1. Same(x)
    BY <1>1, <1>4
  <2>2. i + 1 \in 1..Len(w) /\ (i + 1) - 1 = i
    BY <1>1
  <2>3. g = GetBlock(k, limit)[x] /\ k \in BlockIndices /\ k \in Nat
    BY <1>1, <1>2, <2>2
  <2>4. k \in Elements(x.recent)
    BY <1>6, <2>1, <2>2
  <2> HIDE DEF x, k, g
  <2>5. x.recent \in Seq(BlockIndices) /\ Distinct(x.recent) /\ Len(x.recent) <= limit
    BY <2>1, BufferTypes DEF Tidy
  <2>6. Len(Access(x.recent, k)) = Len(x.recent)
    <3> DEFINE r == x.recent
    <3> HIDE DEF r
    <3>1. /\ r \in Seq(BlockIndices) /\ Distinct(r) /\ k \in BlockIndices
          /\ k \in Nat /\ k \in Elements(r)
      BY <2>3, <2>4, <2>5 DEF r
    <3>2. Len(Access(r, k)) = Len(r)
      BY ONLY <3>1, AccessSame
    <3> QED BY <3>2 DEF r
  <2>7. Len(Access(x.recent, k)) <= limit
    BY <2>5, <2>6
  <2>8. /\ Tidy(g, limit)
        /\ Elements(g.recent) = Elements(x.recent) \cup {k}
        /\ g.data = x.data /\ g.bytes = x.bytes
    <3>1. Tidy(x, limit)
      BY <2>1
    <3>2. Tidy(g, limit) /\ Kept(g, x, k)
      BY <2>3, <2>7, <3>1, GetBlockIs
    <3> QED BY <3>2 DEF Kept
  <2>9. Same(g)
    BY <2>1, <2>4, <2>8
  <2> QED BY <2>9 DEF g
<1>5. Len(w) \in N
  <2> HIDE DEF N
  <2> QED BY <1>1, <1>3, <1>4, Induction
<1> QED BY <1>1, <1>2, <1>5

-----------------------------------------------------------------------------
(* Data are copied into the blocks of a range, one after the other.        *)

\* What CopyFrom does with one block.
Written(x, k, start, n, limit) ==
  LET got == GetBlock(k, limit)[x]
  IN [got EXCEPT !.bytes = [p \in Positions |->
        IF p \in start..(start + n - 1) /\ BlockIndex(p) = k
        THEN start + (p - start) ELSE @[p]]]

Writes(h, b, w, start, n, limit) ==
  h = [s \in SUBSET (1..Len(w)) |->
         IF s = {} THEN b
         ELSE Written(h[s \ {Max(s)}], w[Max(s)], start, n, limit)]

LEMMA WrittenIs ==
  ASSUME NEW limit \in Nat \ {0}, NEW x, Tidy(x, limit),
         NEW k \in BlockIndices, NEW start \in Nat, NEW n \in Nat, start + n <= Size,
         NEW got, got = GetBlock(k, limit)[x],
         NEW g, g = Written(x, k, start, n, limit)
  PROVE  /\ Tidy(g, limit) /\ g.recent = got.recent /\ g.data = got.data
         /\ \A p \in Positions :
              g.bytes[p] = IF p \in start..(start + n - 1) /\ BlockIndex(p) = k
                           THEN p ELSE got.bytes[p]
<1> DEFINE In(p) == p \in start..(start + n - 1) /\ BlockIndex(p) = k
           y == [p \in Positions |-> IF In(p) THEN start + (p - start) ELSE got.bytes[p]]
<1>1. Tidy(got, limit)
  BY GetBlockIs
<1>2. got \in Buffers /\ got.bytes \in [Positions -> 0..Size]
  BY <1>1, BufferTypes DEF Tidy
<1>3. ASSUME NEW p \in Positions PROVE p \in 0..Size /\ start + (p - start) = p
  BY BlockTypes DEF Positions
<1>4. g = [got EXCEPT !.bytes = y]
  BY DEF Written
<1> HIDE DEF In
<1>5. y \in [Positions -> 0..Size]
  <2>1. ASSUME NEW p \in Positions
        PROVE  (IF In(p) THEN start + (p - start) ELSE got.bytes[p]) \in 0..Size
    BY <1>2, <1>3
  <2> QED BY <2>1
<1>6. \A p \in Positions : y[p] = IF In(p) THEN p ELSE got.bytes[p]
  BY <1>3
<1> HIDE DEF y
<1>7. g \in Buffers /\ g.recent = got.recent /\ g.data = got.data /\ g.bytes = y
  BY <1>2, <1>4, <1>5 DEF Buffers
<1>8. Tidy(g, limit)
  BY <1>1, <1>7 DEF Tidy
<1> QED BY <1>6, <1>7, <1>8 DEF In

Added(x, start, n) == [x EXCEPT !.data = @ \cup (start..(start + n - 1))]

\* p are the buffers after none, one, two... of the blocks.
Steps(p, b, w, start, n, limit) ==
  /\ p[0] = b
  /\ \A i \in 1..Len(w) : p[i] = Written(p[i - 1], w[i], start, n, limit)

LEMMA CopyUnrolled ==
  ASSUME NEW limit \in Nat \ {0}, NEW b, Tidy(b, limit),
         NEW start \in Nat, NEW n \in Nat \ {0}, start + n <= Size,
         NEW w, w = BlocksOf(start, start + n)
  PROVE  \E p : /\ Steps(p, b, w, start, n, limit)
                /\ CopyFrom(b, start, start, n, limit) = Added(p[Len(w)], start, n)
<1> DEFINE A == TidyBuffers(limit)
           B == BlockIndices
           f == [y \in A \X B |-> Written(y[1], y[2], start, n, limit)]
<1>1. w \in Seq(B) /\ Len(w) \in Nat /\ b \in A /\ DOMAIN w = 1..Len(w)
  <2>0. start + n \in Nat /\ start < start + n
    OBVIOUS
  <2>1. w \in Seq(B)
    BY <2>0, BlocksOfIs
  <2>2. b \in A
    BY DEF TidyBuffers, Tidy
  <2> HIDE DEF A, B
  <2> QED BY <2>1, <2>2
<1>2. f \in [A \X B -> A]
  <2>1. ASSUME NEW x \in A, NEW k \in B PROVE Written(x, k, start, n, limit) \in A
    BY WrittenIs DEF TidyBuffers, Tidy
  <2> HIDE DEF A, B
  <2> QED BY <2>1
<1>3. PICK g \in [SUBSET (1..Len(w)) -> A] : Folded(g, f, b, w, Len(w))
  <2> HIDE DEF A, B, f
  <2> QED BY <1>1, <1>2, FoldExists, Zenon DEF Foldable
<1>4. Writes(g, b, w, start, n, limit)
  <2>1. ASSUME NEW s \in SUBSET (1..Len(w)), s # {}
        PROVE  f[<<g[s \ {Max(s)}], w[Max(s)]>>]
                 = Written(g[s \ {Max(s)}], w[Max(s)], start, n, limit)
    <3>1. Max(s) \in s
      BY <1>1, <2>1, MaxIs
    <3>2. g[s \ {Max(s)}] \in A /\ w[Max(s)] \in B
      <4> HIDE DEF A, B, f
      <4>1. Max(s) \in 1..Len(w)
        BY <3>1
      <4>2. w[Max(s)] \in B
        BY <1>1, <4>1
      <4>3. s \ {Max(s)} \in SUBSET (1..Len(w))
        OBVIOUS
      <4> QED BY <4>2, <4>3
    <3> HIDE DEF A, B
    <3> QED BY <3>2
  <2> HIDE DEF f
  <2>2. g = [s \in SUBSET (1..Len(w)) |->
               IF s = {} THEN b ELSE f[<<g[s \ {Max(s)}], w[Max(s)]>>]]
    BY <1>3 DEF Folded
  <2> QED BY <2>1, <2>2 DEF Writes
<1> DEFINE h == CHOOSE e : Writes(e, b, w, start, n, limit)
           p == [i \in 0..Len(w) |-> h[1..i]]
<1>5. Writes(h, b, w, start, n, limit)
  BY <1>4, Zenon
<1>6. CopyFrom(b, start, start, n, limit) = Added(h[1..Len(w)], start, n)
  <2>1. h[1..Len(w)] = FoldLeft(LAMBDA x, k : Written(x, k, start, n, limit), b, w)
    BY <1>1 DEF FoldLeft, MapThenFoldSet, Writes
  <2> HIDE DEF h
  <2> QED BY <2>1 DEF CopyFrom, Written, Added
<1> HIDE DEF h
<1>7. \A s \in SUBSET (1..Len(w)) :
        h[s] = IF s = {} THEN b
               ELSE Written(h[s \ {Max(s)}], w[Max(s)], start, n, limit)
  BY <1>5 DEF Writes
<1>8. p[0] = b
  <2>1. 1..0 = {} /\ {} \in SUBSET (1..Len(w)) /\ 0 \in 0..Len(w)
    BY <1>1
  <2>2. p[0] = h[{}]
    BY <2>1
  <2> QED BY <1>7, <2>1, <2>2
<1>9. ASSUME NEW i \in 1..Len(w) PROVE p[i] = Written(p[i - 1], w[i], start, n, limit)
  <2>1. /\ 1..i \in SUBSET (1..Len(w)) /\ 1..i # {} /\ Max(1..i) = i
        /\ (1..i) \ {Max(1..i)} = 1..(i - 1)
        /\ i \in 0..Len(w) /\ i - 1 \in 0..Len(w)
    BY <1>1, PrefixIs
  <2>2. h[1..i] = Written(h[1..(i - 1)], w[i], start, n, limit)
    BY <1>7, <2>1
  <2> QED BY <2>1, <2>2
<1>10. Len(w) \in 0..Len(w)
  BY <1>1
<1>11. CopyFrom(b, start, start, n, limit) = Added(p[Len(w)], start, n)
  BY <1>6, <1>10
<1> HIDE DEF p
<1>12. Steps(p, b, w, start, n, limit)
  BY <1>8, <1>9 DEF Steps
<1> QED BY <1>11, <1>12

\* All that a buffer has is in memory, and what is in the file.
Faithful(b) ==
  \A p \in b.data : b.bytes[p] = p /\ BlockIndex(p) \in Elements(b.recent)

\* The data of j blocks, the one of index a and those after it, have been copied.
Filled(x, a, j, start, n, limit) ==
  /\ Tidy(x, limit) /\ Faithful(x)
  /\ Ends(x.recent, a, j)
  /\ \A p \in start..(start + n - 1) : BlockIndex(p) < a + j => x.bytes[p] = p

\* Of a list that ends in j + 1 elements, and has more than these, the first is none of them.
LEMMA FirstIsOther ==
  ASSUME NEW S, NEW r \in Seq(S), Distinct(r), NEW a \in Nat, NEW j \in Nat,
         Ends(r, a, j + 1), Len(r) > j + 1
  PROVE  /\ \A i \in 0..j : r[1] # a + i
         /\ Ends(Tail(r), a, j + 1)
<1>1. Len(r) \in Nat /\ DOMAIN r = 1..Len(r) /\ r # <<>>
  OBVIOUS
<1>2. /\ Len(Tail(r)) = Len(r) - 1
      /\ \A i \in 1..(Len(r) - 1) : Tail(r)[i] = r[i + 1]
  BY <1>1, TailIs
<1>3. ASSUME NEW i \in 0..j PROVE r[1] # a + i
  <2>1. i + 1 \in 1..(j + 1) /\ Len(r) - (j + 1) + (i + 1) \in DOMAIN r
        /\ Len(r) - (j + 1) + (i + 1) # 1 /\ 1 \in DOMAIN r
    BY <1>1
  <2>2. r[Len(r) - (j + 1) + (i + 1)] = a + (i + 1) - 1
    BY <2>1 DEF Ends
  <2> QED BY <2>1, <2>2 DEF Distinct
<1> DEFINE t == Tail(r)
<1> HIDE DEF t
<1>4. Len(t) = Len(r) - 1 /\ \A i \in 1..(Len(r) - 1) : t[i] = r[i + 1]
  BY <1>2 DEF t
<1>5. ASSUME NEW i \in 1..(j + 1) PROVE t[Len(t) - (j + 1) + i] = a + i - 1
  <2>1. /\ Len(t) - (j + 1) + i \in 1..(Len(r) - 1)
        /\ (Len(t) - (j + 1) + i) + 1 = Len(r) - (j + 1) + i
    BY <1>1, <1>4
  <2> QED BY <1>4, <2>1 DEF Ends
<1>6. Ends(t, a, j + 1)
  BY <1>1, <1>4, <1>5 DEF Ends
<1> QED BY <1>3, <1>6 DEF t

LEMMA FillsOne ==
  ASSUME NEW limit \in Nat \ {0}, NEW x, NEW a \in Nat, NEW j \in Nat,
         NEW start \in Nat, NEW n \in Nat, start + n <= Size,
         \A p \in start..(start + n - 1) : a <= BlockIndex(p),
         Filled(x, a, j, start, n, limit), a + j \in BlockIndices, j + 1 <= limit,
         NEW g, g = Written(x, a + j, start, n, limit)
  PROVE  Filled(g, a, j + 1, start, n, limit)
<1> DEFINE k == a + j
           got == GetBlock(k, limit)[x]
           r == Access(x.recent, k)
           InRange(p) == p \in start..(start + n - 1)
<1>0. /\ Tidy(x, limit) /\ Faithful(x) /\ Ends(x.recent, a, j)
      /\ \A p \in start..(start + n - 1) : BlockIndex(p) < a + j => x.bytes[p] = p
  BY DEF Filled
<1>1. /\ x.recent \in Seq(BlockIndices) /\ Distinct(x.recent)
      /\ x.data \subseteq Positions /\ k \in Nat
  BY <1>0, BufferTypes DEF Tidy
<1>2. /\ r \in Seq(BlockIndices) /\ Elements(r) = Elements(x.recent) \cup {k}
      /\ Distinct(r)
  BY <1>1, AccessIs
<1>3. Ends(r, a, j + 1)
  BY <1>0, <1>1, AccessEnds
<1>4. /\ Tidy(got, limit)
      /\ Len(r) <= limit => Kept(got, x, k)
      /\ Len(r) > limit => Evicted(got, x, k, r[1])
  BY <1>0, GetBlockIs
<1> HIDE DEF got, r
<1>5. /\ Faithful(got) /\ Ends(got.recent, a, j + 1)
      /\ \A p \in start..(start + n - 1) : BlockIndex(p) < k => got.bytes[p] = p
  <2>0. Len(r) \in Nat
    BY <1>2
  <2>1. CASE Len(r) <= limit
    <3>1. /\ got.recent = r /\ Elements(got.recent) = Elements(x.recent) \cup {k}
          /\ got.data = x.data /\ got.bytes = x.bytes
      BY <1>4, <2>1 DEF Kept, r
    <3> QED BY <3>1, <1>0, <1>3 DEF Faithful
  <2>2. CASE Len(r) > limit
    <3>0. Len(r) > j + 1
      BY <2>0, <2>2
    <3>1. (\A i \in 0..j : r[1] # a + i) /\ Ends(Tail(r), a, j + 1)
      BY <1>2, <1>3, <3>0, FirstIsOther
    <3>2. /\ got.recent = Tail(r)
          /\ Elements(got.recent) = (Elements(x.recent) \cup {k}) \ {r[1]}
          /\ got.data = {p \in x.data : BlockIndex(p) # r[1]}
          /\ \A p \in Positions : BlockIndex(p) # r[1] => got.bytes[p] = x.bytes[p]
      BY <1>4, <2>2 DEF Evicted, r
    <3>3. Faithful(got)
      <4> SUFFICES ASSUME NEW p \in got.data
                   PROVE  got.bytes[p] = p /\ BlockIndex(p) \in Elements(got.recent)
        BY DEF Faithful
      <4>1. p \in x.data /\ p \in Positions /\ BlockIndex(p) # r[1]
        BY <3>2, <1>1
      <4> QED BY <4>1, <3>2, <1>0 DEF Faithful
    <3>4. ASSUME NEW p \in start..(start + n - 1), BlockIndex(p) < k
          PROVE  got.bytes[p] = p
      <4>1. p \in Positions
        BY BlockTypes DEF Positions
      <4>2. BlockIndex(p) \in Nat
        BY <4>1, BlockTypes DEF BlockIndices
      <4>3. BlockIndex(p) - a \in 0..j /\ a + (BlockIndex(p) - a) = BlockIndex(p)
        BY <4>2, <3>4
      <4>4. BlockIndex(p) # r[1]
        BY <3>1, <4>3
      <4> QED BY <3>2, <3>4, <4>1, <4>4, <1>0
    <3> QED BY <3>1, <3>2, <3>3, <3>4
  <2> QED BY <2>0, <2>1, <2>2
<1>6. /\ Tidy(g, limit) /\ g.recent = got.recent /\ g.data = got.data
      /\ \A p \in Positions :
           g.bytes[p] = IF InRange(p) /\ BlockIndex(p) = k THEN p ELSE got.bytes[p]
  <2>1. /\ Tidy(g, limit) /\ g.recent = got.recent /\ g.data = got.data
        /\ \A p \in Positions :
             g.bytes[p] = IF p \in start..(start + n - 1) /\ BlockIndex(p) = k
                          THEN p ELSE got.bytes[p]
    BY <1>0, WrittenIs DEF got
  <2> QED BY <2>1
<1>7. Faithful(g)
  <2> SUFFICES ASSUME NEW p \in g.data
               PROVE  g.bytes[p] = p /\ BlockIndex(p) \in Elements(g.recent)
    BY DEF Faithful
  <2>1. p \in got.data /\ p \in Positions
    BY <1>4, <1>6, BufferTypes DEF Tidy
  <2> QED BY <2>1, <1>5, <1>6 DEF Faithful
<1>8. ASSUME NEW p \in start..(start + n - 1), BlockIndex(p) < a + (j + 1)
      PROVE  g.bytes[p] = p
  <2>1. p \in Positions
    BY BlockTypes DEF Positions
  <2>2. BlockIndex(p) \in Nat
    BY <2>1, BlockTypes DEF BlockIndices
  <2>3. BlockIndex(p) = k \/ BlockIndex(p) < k
    BY <2>2, <1>1, <1>8
  <2> QED BY <2>1, <2>3, <1>5, <1>6
<1> QED BY <1>5, <1>6, <1>7, <1>8 DEF Filled

\* No more blocks than may be in memory: all of the data are there afterwards.
LEMMA CopyIs ==
  ASSUME NEW limit \in Nat \ {0}, NEW b, Tidy(b, limit), Faithful(b),
         NEW start \in Nat, NEW n \in Nat \ {0}, start + n <= Size,
         Len(BlocksOf(start, start + n)) <= limit,
         NEW c, c = CopyFrom(b, start, start, n, limit)
  PROVE  Tidy(c, limit) /\ Faithful(c)
<1> DEFINE w == BlocksOf(start, start + n)
           a == BlockIndex(start)
<1>0. start + n \in Nat /\ start < start + n /\ Size \in Nat
  BY BlockTypes
<1>1. /\ a \in Nat /\ Len(w) \in Nat /\ Len(w) <= limit
      /\ Len(w) = BlockIndex(start + n - 1) - a + 1
      /\ \A i \in 1..Len(w) : w[i] = a + i - 1 /\ w[i] \in BlockIndices
  <2> DEFINE to == start + n
  <2>1. to \in Nat /\ start < to /\ to <= Size
    BY <1>0
  <2> HIDE DEF to
  <2>2. /\ BlockIndex(start) \in Nat
        /\ Len(BlocksOf(start, to)) \in Nat \ {0}
        /\ Len(BlocksOf(start, to)) = BlockIndex(to - 1) - BlockIndex(start) + 1
        /\ \A i \in 1..Len(BlocksOf(start, to)) :
             /\ BlocksOf(start, to)[i] = BlockIndex(start) + i - 1
             /\ BlocksOf(start, to)[i] \in BlockIndices
    BY <2>1, BlocksOfIs
  <2> QED BY <2>2 DEF to
<1>2. ASSUME NEW p \in start..(start + n - 1)
      PROVE  /\ a <= BlockIndex(p) /\ BlockIndex(p) < a + Len(w)
             /\ p \in Positions /\ BlockIndex(p) \in Nat
  <2>1. p \in Nat /\ start <= p /\ start + n - 1 \in Nat /\ p <= start + n - 1
        /\ BlockSize \in Nat \ {0}
    BY <1>0, BlockTypes
  <2>2. a <= BlockIndex(p) /\ BlockIndex(p) <= BlockIndex(start + n - 1)
        /\ BlockIndex(p) \in Nat /\ BlockIndex(start + n - 1) \in Nat
    BY <2>1, DivMonotone, DivIs DEF BlockIndex
  <2>3. p \in Positions
    BY <1>0, <2>1 DEF Positions
  <2> HIDE DEF a, w
  <2> QED BY <1>1, <2>2, <2>3
<1>3. PICK p : Steps(p, b, w, start, n, limit) /\ c = Added(p[Len(w)], start, n)
  <2> HIDE DEF w
  <2>1. w = BlocksOf(start, start + n)
    BY DEF w
  <2>2. \E p : /\ Steps(p, b, w, start, n, limit)
               /\ CopyFrom(b, start, start, n, limit) = Added(p[Len(w)], start, n)
    BY <2>1, CopyUnrolled, SMTT(30)
  <2> QED BY <2>2
<1> HIDE DEF a, w
<1> DEFINE N == {j \in Nat : j <= Len(w) => Filled(p[j], a, j, start, n, limit)}
<1>4. 0 \in N
  <2>1. b.recent \in Seq(BlockIndices)
    BY BufferTypes DEF Tidy
  <2>2. Ends(b.recent, a, 0)
    BY <2>1 DEF Ends
  <2>3. \A q \in start..(start + n - 1) : ~ (BlockIndex(q) < a + 0)
    BY <1>1, <1>2
  <2>4. Filled(b, a, 0, start, n, limit)
    BY <2>2, <2>3 DEF Filled
  <2> QED BY <1>3, <2>4 DEF Steps
<1>5. ASSUME NEW j \in Nat, j \in N PROVE j + 1 \in N
  <2> SUFFICES ASSUME j + 1 <= Len(w) PROVE Filled(p[j + 1], a, j + 1, start, n, limit)
    OBVIOUS
  <2>1. Filled(p[j], a, j, start, n, limit)
    BY <1>1, <1>5
  <2>2. j + 1 \in 1..Len(w) /\ (j + 1) - 1 = j /\ a + (j + 1) - 1 = a + j
    BY <1>1
  <2>3. p[j + 1] = Written(p[j], a + j, start, n, limit) /\ a + j \in BlockIndices
    BY <1>1, <1>3, <2>2 DEF Steps
  <2>4. \A q \in start..(start + n - 1) : a <= BlockIndex(q)
    BY <1>2
  <2>5. j + 1 <= limit
    BY <1>1, <2>2
  <2> QED BY <1>1, <2>1, <2>3, <2>4, <2>5, FillsOne
<1>6. Len(w) \in N
  <2> HIDE DEF N
  <2> QED BY <1>1, <1>4, <1>5, Induction
<1> DEFINE y == p[Len(w)]
           R == start..(start + n - 1)
<1>7. Filled(y, a, Len(w), start, n, limit) /\ c = [y EXCEPT !.data = @ \cup R]
  BY <1>1, <1>3, <1>6 DEF Added
<1> HIDE DEF y
<1>8. Tidy(y, limit) /\ Faithful(y) /\ y \in Buffers /\ Ends(y.recent, a, Len(w))
      /\ y.recent \in Seq(BlockIndices) /\ y.data \subseteq Positions
  BY <1>7, BufferTypes DEF Filled, Tidy
<1>9. ASSUME NEW q \in R
      PROVE  /\ y.bytes[q] = q /\ BlockIndex(q) \in Elements(y.recent)
             /\ q \in Positions
  <2>1. y.bytes[q] = q
    BY <1>2, <1>7 DEF Filled
  <2> DEFINE i == BlockIndex(q) - a + 1
  <2>2. i \in 1..Len(w) /\ a + i - 1 = BlockIndex(q)
    BY <1>1, <1>2
  <2> HIDE DEF i
  <2>3. y.recent[Len(y.recent) - Len(w) + i] = a + i - 1 /\ Len(w) <= Len(y.recent)
    BY <1>8, <2>2 DEF Ends
  <2>4. Len(y.recent) - Len(w) + i \in DOMAIN y.recent
    BY <1>1, <1>8, <2>2, <2>3
  <2> QED BY <1>2, <2>1, <2>2, <2>3, <2>4 DEF Elements
<1> HIDE DEF R
<1>10. R \subseteq Positions
  BY <1>9
<1>11. /\ c \in Buffers /\ c.recent = y.recent /\ c.data = y.data \cup R
       /\ c.bytes = y.bytes
  BY <1>7, <1>8, <1>10 DEF Buffers
<1>12. Tidy(c, limit)
  BY <1>8, <1>11 DEF Tidy
<1>13. Faithful(c)
  BY <1>8, <1>9, <1>11 DEF Faithful
<1> QED BY <1>12, <1>13

-----------------------------------------------------------------------------
(* Which range a connection is for.                                        *)

\* A range with something in it.
Ranges == {x \in Spans : x.start < x.end}

\* What can be read: no more than the cache holds.
Requests == {x \in Ranges : x.end - x.start <= cacheSize}

\* A range whose blocks can all be in memory at a time.
Fits(x) == x.start <= x.end /\ (~ WholeFile => x.end - x.start <= cacheSize)

LEMMA SpanIs ==
  ASSUME NEW s, NEW e
  PROVE  Span(s, e).start = s /\ Span(s, e).end = e
  BY DEF Span

\* p comes first in T.
IsFirst(p, T) == p \in T /\ \A q \in T : p <= q

LEMMA MinIs ==
  ASSUME NEW T, T \subseteq Nat, T # {}
  PROVE  Min(T) \in T /\ IsFirst(Min(T), T)
<1>1. \E x \in T : \A y \in T : x <= y
  BY Smallest
<1>2. Min(T) \in T /\ \A y \in T : Min(T) <= y
  BY <1>1, Zenon DEF Min
<1> QED BY <1>2, Zenon DEF IsFirst

\* The first missing range is none, or a range of those asked for, from the first missing
\* position on.
LEMMA FirstMissingIs ==
  ASSUME NEW range \in Spans, NEW data,
         NEW x, x = FirstMissing(range, data)
  PROVE  \/ x = NoSpan /\ Missing(range, data) = {}
         \/ /\ x \in Ranges /\ range.start <= x.start /\ x.end <= range.end
            /\ IsFirst(x.start, Missing(range, data))
<1> DEFINE missing == Missing(range, data)
           start == Min(missing)
           later == {p \in (start + 1)..(range.end - 1) : p \notin missing}
           end == IF later = {} THEN range.end ELSE Min(later)
<1>1. range.start \in 0..Size /\ range.end \in 0..Size /\ Size \in Nat
  BY BlockTypes DEF Spans
<1>2. missing \subseteq range.start..(range.end - 1)
  BY DEF Missing
<1>3. x = IF missing = {} THEN NoSpan ELSE Span(start, end)
  BY DEF FirstMissing
<1> HIDE DEF missing
<1>4. CASE missing # {}
  <2>1. start \in range.start..(range.end - 1) /\ IsFirst(start, missing)
    <3>1. missing \subseteq Nat
      BY <1>1, <1>2
    <3> QED BY <3>1, <1>2, <1>4, MinIs
  <2> HIDE DEF start
  <2>2. end \in (start + 1)..range.end
    <3>1. CASE later = {}
      BY <1>1, <2>1, <3>1
    <3>2. CASE later # {}
      <4> HIDE DEF later
      <4>1. later \subseteq (start + 1)..(range.end - 1)
        BY DEF later
      <4>2. later \subseteq Nat
        BY <4>1, <1>1, <2>1
      <4>3. Min(later) \in later
        BY <3>2, <4>2, MinIs
      <4>4. Min(later) \in (start + 1)..(range.end - 1) /\ end = Min(later)
        BY <3>2, <4>1, <4>3
      <4> HIDE DEF end
      <4> QED BY <4>4, <1>1, <2>1
    <3> HIDE DEF later
    <3> QED BY <3>1, <3>2
  <2> HIDE DEF end
  <2>3. x = [start |-> start, end |-> end]
    BY <1>3, <1>4 DEF Span
  <2>4. /\ start \in 0..Size /\ end \in 0..Size /\ start < end
        /\ range.start <= start /\ end <= range.end
    BY <1>1, <2>1, <2>2
  <2> QED BY <2>1, <2>3, <2>4 DEF Ranges, Spans, missing
<1> QED BY <1>3, <1>4 DEF missing

\* What the theorems about CachedFilelike need of its constants.
LEMMA SizeTypes ==
  ASSUME cacheSize \in CacheSizes
  PROVE  /\ cacheSize \in Nat \ {0} /\ Size \in Nat \ {0}
         /\ Limit \in Nat \ {0}
         /\ WholeFile <=> cacheSize >= Size
<1>1. cacheSize \in Nat \ {0} /\ Size \in Nat \ {0} /\ BlockSize \in Nat \ {0}
  BY BlockTypes, FilelikeAssumption
<1>2. Ceiling(cacheSize, BlockSize) \in Nat
  BY <1>1, CeilingMonotone
<1> QED BY <1>1, <1>2 DEF Limit, WholeFile

LEMMA NoSpanFits ==
  ASSUME cacheSize \in Nat
  PROVE  NoSpan \in Spans /\ Fits(NoSpan)
  BY BlockTypes DEF NoSpan, Span, Spans, Fits

\* A part of what fits does so.
LEMMA FirstMissingFits ==
  ASSUME cacheSize \in Nat, NEW range \in Spans, NEW data,
         WholeFile \/ range.end - range.start <= cacheSize,
         NEW x, x = FirstMissing(range, data)
  PROVE  x \in Spans /\ Fits(x)
<1>1. CASE x = NoSpan
  BY <1>1, NoSpanFits
<1>2. CASE x \in Ranges /\ range.start <= x.start /\ x.end <= range.end
  <2>1. /\ x.start \in Nat /\ x.end \in Nat /\ range.start \in Nat /\ range.end \in Nat
        /\ x.start < x.end
    BY <1>2, BlockTypes DEF Ranges, Spans
  <2> QED BY <1>2, <2>1 DEF Ranges, Fits
<1> QED BY <1>1, <1>2, FirstMissingIs

LEMMA ConnectionForFits ==
  ASSUME cacheSize \in Nat \ {0}, NEW request \in Requests, NEW data,
         NEW x, x = ConnectionFor(request, data)
  PROVE  x \in Spans /\ Fits(x)
<1> DEFINE first == FirstMissing(request, data)
           end == Smaller(request.start + cacheSize, Size)
<1>0. /\ request \in Spans /\ request.start \in 0..Size /\ request.end \in 0..Size
      /\ request.start < request.end /\ request.end - request.start <= cacheSize
      /\ Size \in Nat \ {0}
  BY BlockTypes DEF Requests, Ranges, Spans
<1>1. \/ first = NoSpan
      \/ first \in Ranges /\ request.start <= first.start /\ first.end <= request.end
  BY <1>0, FirstMissingIs
<1>2. first \in Spans /\ Fits(first)
  BY <1>0, FirstMissingFits
<1>3. x = IF WholeFile THEN FirstMissing(Span(first.start, Size), data)
          ELSE IF first.end = request.end THEN Span(first.start, end)
          ELSE first
  BY DEF ConnectionFor
<1> HIDE DEF first
<1>4. CASE WholeFile
  <2>1. Span(first.start, Size) \in Spans
    BY <1>0, <1>2 DEF Spans, Span
  <2> QED BY <1>0, <1>3, <1>4, <2>1, FirstMissingFits
<1>5. CASE ~ WholeFile /\ first.end = request.end
  <2>1. first # NoSpan
    BY <1>0, <1>5 DEF NoSpan, Span
  <2>2. /\ first.start \in 0..Size /\ request.start <= first.start
        /\ first.start < request.end
    BY <1>1, <1>5, <2>1 DEF Ranges, Spans
  <2>3. end \in 0..Size /\ end <= request.start + cacheSize /\ request.end <= end
    BY <1>0 DEF Smaller
  <2> HIDE DEF end
  <2>4. x = [start |-> first.start, end |-> end]
    BY <1>3, <1>5 DEF Span
  <2>5. x \in Spans /\ x.start = first.start /\ x.end = end
    BY <2>2, <2>3, <2>4 DEF Spans
  <2>6. first.start <= end /\ end - first.start <= cacheSize
    BY <1>0, <2>2, <2>3
  <2> QED BY <2>5, <2>6 DEF Fits
<1>6. CASE ~ WholeFile /\ first.end # request.end
  BY <1>2, <1>3, <1>6
<1> QED BY <1>4, <1>5, <1>6

\* A connection for a request that lacks something begins with what it lacks first.
LEMMA ConnectionForServes ==
  ASSUME cacheSize \in Nat \ {0}, NEW request \in Requests, NEW data,
         Missing(request, data) # {}, NEW x, x = ConnectionFor(request, data)
  PROVE  /\ x.start \in Missing(request, data) /\ x.start < x.end
         /\ x.start \in Nat /\ x.end \in Nat
<1> DEFINE first == FirstMissing(request, data)
           end == Smaller(request.start + cacheSize, Size)
           rest == Span(first.start, Size)
<1>0. /\ request \in Spans /\ request.start \in 0..Size /\ request.end \in 0..Size
      /\ request.start < request.end /\ request.end - request.start <= cacheSize
      /\ Size \in Nat \ {0}
  BY BlockTypes DEF Requests, Ranges, Spans
<1>1. /\ first \in Ranges /\ request.start <= first.start /\ first.end <= request.end
      /\ IsFirst(first.start, Missing(request, data))
  BY <1>0, FirstMissingIs
<1>2. x = IF WholeFile THEN FirstMissing(rest, data)
          ELSE IF first.end = request.end THEN Span(first.start, end)
          ELSE first
  BY DEF ConnectionFor
<1> HIDE DEF first
<1>3. /\ first.start \in 0..Size /\ first.end \in 0..Size /\ first.start < first.end
      /\ first.start \in Missing(request, data)
  BY <1>1 DEF Ranges, Spans, IsFirst
<1>4. CASE WholeFile
  <2>1. rest \in Spans /\ rest.start = first.start /\ rest.end = Size
    BY <1>0, <1>3 DEF Spans, Span
  <2>2. first.start \in Missing(rest, data)
    BY <1>0, <1>1, <1>3, <2>1 DEF Missing
  <2> HIDE DEF rest
  <2>3. /\ x \in Ranges /\ first.start <= x.start
        /\ IsFirst(x.start, Missing(rest, data))
    BY <1>2, <1>4, <2>1, <2>2, FirstMissingIs
  <2>4. x.start <= first.start /\ x.start \in 0..Size /\ x.end \in 0..Size /\ x.start < x.end
    BY <2>2, <2>3 DEF IsFirst, Ranges, Spans
  <2>5. x.start = first.start
    BY <1>3, <2>3, <2>4
  <2> QED BY <1>3, <2>4, <2>5
<1>5. CASE ~ WholeFile /\ first.end = request.end
  <2>1. end \in Nat /\ first.start < end
    BY <1>0, <1>1, <1>3, <1>5 DEF Smaller
  <2> HIDE DEF end
  <2>2. x.start = first.start /\ x.end = end
    BY <1>2, <1>5, SpanIs
  <2> QED BY <1>3, <2>1, <2>2
<1>6. CASE ~ WholeFile /\ first.end # request.end
  BY <1>2, <1>3, <1>6
<1> QED BY <1>4, <1>5, <1>6

\* The new connection, or the one that is kept, will deliver something that the first request
\* lacks.
LEMMA NewConnectionServes ==
  ASSUME cacheSize \in Nat \ {0}, NEW c, NEW requests \in Seq(Requests), requests # <<>>,
         NEW data, NEW resolved, Missing(Head(requests), data) # {},
         NEW x, x = NewConnection(c, requests, data, resolved)
  PROVE  IF x = NoSpan THEN Missing(Head(requests), data) \cap (c.next..(c.end - 1)) # {}
         ELSE Missing(Head(requests), data) \cap (x.start..(x.end - 1)) # {}
<1>1. Head(requests) \in Requests
  OBVIOUS
<1>2. x = IF Reaches(c, Head(requests), data) THEN NoSpan
          ELSE ConnectionFor(Head(requests), data)
  BY DEF NewConnection
<1> HIDE DEF Requests
<1>3. CASE Reaches(c, Head(requests), data)
  BY <1>2, <1>3 DEF Reaches
<1>4. CASE ~ Reaches(c, Head(requests), data)
  <2>1. /\ x.start \in Missing(Head(requests), data) /\ x.start < x.end
        /\ x.start \in Nat /\ x.end \in Nat
    BY <1>1, <1>2, <1>4, ConnectionForServes
  <2>2. x # NoSpan
    BY <2>1, SpanIs DEF NoSpan
  <2>3. x.start \in x.start..(x.end - 1)
    BY <2>1
  <2> QED BY <2>1, <2>2, <2>3
<1> QED BY <1>3, <1>4

LEMMA ReadAheadFits ==
  ASSUME cacheSize \in Nat \ {0}, NEW resolved \in 0..Undefined,
         NEW data, NEW x, x = ReadAhead(resolved, data)
  PROVE  x \in Spans /\ Fits(x)
<1>0. Size \in Nat \ {0} /\ Undefined = Size + 1
  BY BlockTypes DEF Undefined
<1> DEFINE whole == Span(0, Size)
           from == Span(IF resolved = Undefined THEN 0 ELSE resolved, Size)
           near == Span(resolved, Smaller(resolved + cacheSize, Size))
           range == IF Missing(from, data) # {} THEN from ELSE whole
<1>1. x = IF WholeFile THEN FirstMissing(range, data)
          ELSE IF resolved = Undefined THEN NoSpan
          ELSE FirstMissing(near, data)
  BY DEF ReadAhead
<1>2. range \in Spans
  <2>1. whole \in Spans /\ from \in Spans
    BY <1>0 DEF Spans, Span
  <2> HIDE DEF whole, from
  <2> QED BY <2>1
<1> HIDE DEF range
<1>3. CASE WholeFile
  BY <1>1, <1>2, <1>3, FirstMissingFits
<1>4. CASE ~ WholeFile /\ resolved = Undefined
  BY <1>1, <1>4, NoSpanFits
<1>5. CASE ~ WholeFile /\ resolved # Undefined
  <2> DEFINE end == Smaller(resolved + cacheSize, Size)
  <2>1. resolved \in 0..Size /\ end \in 0..Size /\ end - resolved <= cacheSize
    BY <1>0, <1>5 DEF Smaller
  <2> HIDE DEF end
  <2>2. near = [start |-> resolved, end |-> end]
    BY DEF Span, end
  <2>3. near \in Spans /\ near.end - near.start <= cacheSize
    BY <2>1, <2>2 DEF Spans
  <2> HIDE DEF near
  <2> QED BY <1>1, <1>5, <2>3, FirstMissingFits
<1> QED BY <1>3, <1>4, <1>5

LEMMA NewConnectionFits ==
  ASSUME cacheSize \in Nat \ {0}, NEW c, NEW requests \in Seq(Requests),
         NEW data, NEW resolved \in 0..Undefined,
         NEW x, x = NewConnection(c, requests, data, resolved)
  PROVE  x \in Spans /\ Fits(x)
<1>1. NoSpan \in Spans /\ Fits(NoSpan)
  BY NoSpanFits
<1>2. CASE requests # <<>>
  <2>1. Head(requests) \in Requests
    BY <1>2
  <2>2. \/ x = NoSpan
        \/ x = ConnectionFor(Head(requests), data)
    BY <1>2 DEF NewConnection
  <2> HIDE DEF Requests
  <2> QED BY <1>1, <2>1, <2>2, ConnectionForFits
<1>3. CASE requests = <<>>
  <2>1. x = NoSpan \/ x = ReadAhead(resolved, data)
    BY <1>3 DEF NewConnection
  <2> QED BY <1>1, <2>1, ReadAheadFits
<1> QED BY <1>2, <1>3

\* The blocks of a part of what fits are no more than may be in memory.
LEMMA FewBlocks ==
  ASSUME cacheSize \in CacheSizes,
         NEW start \in Nat, NEW n \in Nat \ {0}, start + n <= Size,
         ~ WholeFile => n <= cacheSize
  PROVE  Len(BlocksOf(start, start + n)) <= Limit
<1> DEFINE d == BlockIndex(start + n - 1) - BlockIndex(start)
<1>0. /\ cacheSize \in Nat \ {0} /\ Size \in Nat \ {0} /\ BlockSize \in Nat \ {0}
  BY SizeTypes, BlockTypes
<1>1. Len(BlocksOf(start, start + n)) = d + 1
  <2> DEFINE to == start + n
  <2>1. to \in Nat /\ start < to /\ to <= Size
    BY <1>0
  <2> HIDE DEF to
  <2>2. Len(BlocksOf(start, to)) = BlockIndex(to - 1) - BlockIndex(start) + 1
    BY <2>1, BlocksOfIs
  <2> QED BY <2>2 DEF to
<1>2. d <= Ceiling(n, BlockSize) /\ d <= n - 1
  BY <1>0, BlocksCounted DEF BlockIndex
<1>3. d \in Int
  <2>1. start + n - 1 \in Nat
    OBVIOUS
  <2>2. (start + n - 1) \div BlockSize \in Nat /\ start \div BlockSize \in Nat
    BY <1>0, <2>1, DivIs
  <2> QED BY <2>2 DEF BlockIndex
<1> HIDE DEF d
<1>4. CASE WholeFile
  <2>1. Limit = Size
    BY <1>4 DEF Limit
  <2> QED BY <1>0, <1>1, <1>2, <1>3, <2>1
<1>5. CASE ~ WholeFile
  <2>1. Limit = Ceiling(cacheSize, BlockSize) + 2
    BY <1>5 DEF Limit
  <2>2. /\ Ceiling(n, BlockSize) <= Ceiling(cacheSize, BlockSize)
        /\ Ceiling(n, BlockSize) \in Nat /\ Ceiling(cacheSize, BlockSize) \in Nat
    BY <1>0, <1>5, CeilingMonotone
  <2> QED BY <1>1, <1>2, <1>3, <2>1, <2>2
<1> QED BY <1>4, <1>5

-----------------------------------------------------------------------------
(* Requests are served.                                                    *)

\* Each of the requests lacks something.
AllLack(requests, data) ==
  \A k \in 1..Len(requests) : ~ (requests[k].start..(requests[k].end - 1) \subseteq data)

LEMMA AllLackAppend ==
  ASSUME NEW S, NEW w \in Seq(S), NEW r \in S, NEW data, AllLack(w, data),
         ~ (r.start..(r.end - 1) \subseteq data)
  PROVE  AllLack(Append(w, r), data)
<1>1. /\ Len(w) \in Nat /\ Len(Append(w, r)) = Len(w) + 1 /\ Append(w, r)[Len(w) + 1] = r
      /\ \A k \in 1..Len(w) : Append(w, r)[k] = w[k]
  BY AppendProperties
<1>2. ASSUME NEW k \in 1..Len(Append(w, r))
      PROVE  k \in 1..Len(w) \/ k = Len(w) + 1
  BY <1>1
<1> QED BY <1>1, <1>2 DEF AllLack

\* How far Serve is: the buffer, the requests that wait, the end of the last one served.
Servings ==
  {s \in [buffer : Buffers, waiting : Seq(Requests), resolved : 0..Undefined] :
     Tidy(s.buffer, Limit) /\ Faithful(s.buffer) /\ AllLack(s.waiting, s.buffer.data)}

\* What Serve does with one request.
Served(s, r) ==
  IF HasData(s.buffer, r.start, r.end)
  THEN [s EXCEPT !.buffer = Slice(@, r.start, r.end, Limit), !.resolved = r.end]
  ELSE [s EXCEPT !.waiting = Append(@, r)]

ServesAll(h, s, w) ==
  h = [x \in SUBSET (1..Len(w)) |->
         IF x = {} THEN s ELSE Served(h[x \ {Max(x)}], w[Max(x)])]

LEMMA ServedIs ==
  ASSUME cacheSize \in CacheSizes,
         NEW s \in Servings, NEW r \in Requests
  PROVE  Served(s, r) \in Servings
<1> DEFINE limit == Limit
           sliced == Slice(s.buffer, r.start, r.end, limit)
<1>0. /\ s.buffer \in Buffers /\ s.waiting \in Seq(Requests)
      /\ s.resolved \in 0..Undefined
      /\ s = [buffer |-> s.buffer, waiting |-> s.waiting, resolved |-> s.resolved]
      /\ Tidy(s.buffer, limit) /\ Faithful(s.buffer) /\ AllLack(s.waiting, s.buffer.data)
  BY DEF Servings
<1>1. /\ limit \in Nat \ {0} /\ Size \in Nat
  BY SizeTypes
<1>2. r.start \in Nat /\ r.end \in Nat /\ r.start < r.end /\ r.end <= Size
      /\ r.end \in 0..Undefined
  BY <1>1 DEF Requests, Ranges, Spans, Undefined
<1> HIDE DEF limit
<1>3. CASE HasData(s.buffer, r.start, r.end)
  <2>1. \A q \in r.start..(r.end - 1) : BlockIndex(q) \in Elements(s.buffer.recent)
    BY <1>0, <1>3 DEF HasData, Faithful
  <2>2. /\ Tidy(sliced, limit) /\ Elements(sliced.recent) = Elements(s.buffer.recent)
        /\ sliced.data = s.buffer.data /\ sliced.bytes = s.buffer.bytes
    BY <1>0, <1>1, <1>2, <2>1, SliceIs
  <2> HIDE DEF sliced
  <2>3. sliced \in Buffers /\ Faithful(sliced)
    BY <1>0, <2>2 DEF Faithful, Tidy
  <2>4. Served(s, r) = [s EXCEPT !.buffer = sliced, !.resolved = r.end]
    BY <1>3 DEF Served, sliced, limit
  <2>5. Served(s, r) = [buffer |-> sliced, waiting |-> s.waiting, resolved |-> r.end]
    BY <1>0, <2>4
  <2> QED BY <1>0, <1>2, <2>2, <2>3, <2>5 DEF Servings, limit
<1>4. CASE ~ HasData(s.buffer, r.start, r.end)
  <2>1. Served(s, r) = [s EXCEPT !.waiting = Append(s.waiting, r)]
    BY <1>4 DEF Served
  <2>2. Append(s.waiting, r) \in Seq(Requests) /\ AllLack(Append(s.waiting, r), s.buffer.data)
    <3>1. ~ (r.start..(r.end - 1) \subseteq s.buffer.data)
      BY <1>4 DEF HasData
    <3> HIDE DEF Requests
    <3> QED BY <1>0, <3>1, AppendProperties, AllLackAppend
  <2>3. Served(s, r) = [buffer |-> s.buffer, waiting |-> Append(s.waiting, r),
                        resolved |-> s.resolved]
    BY <1>0, <2>1
  <2> DEFINE longer == Append(s.waiting, r)
             z == [buffer |-> s.buffer, waiting |-> longer, resolved |-> s.resolved]
  <2>4. longer \in Seq(Requests) /\ AllLack(longer, s.buffer.data) /\ Served(s, r) = z
    BY <2>2, <2>3
  <2> HIDE DEF longer
  <2>5. /\ z \in [buffer : Buffers, waiting : Seq(Requests), resolved : 0..Undefined]
        /\ Tidy(z.buffer, Limit) /\ Faithful(z.buffer) /\ AllLack(z.waiting, z.buffer.data)
    BY <1>0, <2>4 DEF limit
  <2> HIDE DEF z
  <2> QED BY <2>4, <2>5 DEF Servings
<1> QED BY <1>3, <1>4

LEMMA ServeIs ==
  ASSUME cacheSize \in CacheSizes,
         lastResolved \in 0..Undefined,
         NEW b, Tidy(b, Limit), Faithful(b), NEW w \in Seq(Requests)
  PROVE  Serve(b, w) \in Servings
<1> DEFINE A == Servings
           B == Requests
           base == [buffer |-> b, waiting |-> <<>>, resolved |-> lastResolved]
           f == [y \in A \X B |-> Served(y[1], y[2])]
<1>1. w \in Seq(B) /\ Len(w) \in Nat /\ DOMAIN w = 1..Len(w)
  BY Zenon, LenProperties
<1>2. base \in A
  <2>1. <<>> \in Seq(Requests) /\ b \in Buffers /\ AllLack(<<>>, b.data)
    BY DEF Tidy, AllLack
  <2> HIDE DEF Requests
  <2> QED BY <2>1 DEF Servings
<1>3. f \in [A \X B -> A]
  <2>1. ASSUME NEW s \in A, NEW r \in B PROVE Served(s, r) \in A
    BY ServedIs
  <2> HIDE DEF A, B
  <2> QED BY <2>1
<1> HIDE DEF base
<1>4. PICK g \in [SUBSET (1..Len(w)) -> A] : Folded(g, f, base, w, Len(w))
  <2> HIDE DEF A, B, f
  <2> QED BY <1>1, <1>2, <1>3, FoldExists, Zenon DEF Foldable
<1>5. ServesAll(g, base, w)
  <2>1. ASSUME NEW x \in SUBSET (1..Len(w)), x # {}
        PROVE  f[<<g[x \ {Max(x)}], w[Max(x)]>>]
                 = Served(g[x \ {Max(x)}], w[Max(x)])
    <3>1. Max(x) \in x
      BY <1>1, <2>1, MaxIs
    <3>2. g[x \ {Max(x)}] \in A /\ w[Max(x)] \in B
      <4> HIDE DEF A, B, f
      <4>1. Max(x) \in 1..Len(w)
        BY <3>1
      <4>2. w[Max(x)] \in B
        BY <1>1, <4>1
      <4>3. x \ {Max(x)} \in SUBSET (1..Len(w))
        OBVIOUS
      <4> QED BY <4>2, <4>3
    <3> HIDE DEF A, B
    <3> QED BY <3>2
  <2> HIDE DEF f
  <2>2. g = [x \in SUBSET (1..Len(w)) |->
               IF x = {} THEN base ELSE f[<<g[x \ {Max(x)}], w[Max(x)]>>]]
    BY <1>4 DEF Folded
  <2> QED BY <2>1, <2>2 DEF ServesAll
<1> DEFINE h == CHOOSE e : ServesAll(e, base, w)
           p == [i \in 0..Len(w) |-> h[1..i]]
<1>6. ServesAll(h, base, w)
  BY <1>5, Zenon
<1>7. Serve(b, w) = h[1..Len(w)]
  <2>1. h[1..Len(w)] = FoldLeft(LAMBDA s, r : Served(s, r), base, w)
    BY <1>1 DEF FoldLeft, MapThenFoldSet, ServesAll
  <2> HIDE DEF h
  <2> QED BY <2>1 DEF Serve, Served, base
<1> HIDE DEF h
<1>8. \A x \in SUBSET (1..Len(w)) :
        h[x] = IF x = {} THEN base ELSE Served(h[x \ {Max(x)}], w[Max(x)])
  BY <1>6 DEF ServesAll
<1> DEFINE N == {i \in Nat : i <= Len(w) => h[1..i] \in A}
<1>9. 0 \in N
  <2>1. 1..0 = {} /\ {} \in SUBSET (1..Len(w))
    BY <1>1
  <2> HIDE DEF A
  <2> QED BY <1>2, <1>8, <2>1
<1>10. ASSUME NEW i \in Nat, i \in N PROVE i + 1 \in N
  <2> SUFFICES ASSUME i + 1 <= Len(w) PROVE h[1..(i + 1)] \in A
    OBVIOUS
  <2>1. i + 1 \in 1..Len(w) /\ (i + 1) - 1 = i
    BY <1>1
  <2>2. /\ 1..(i + 1) \in SUBSET (1..Len(w)) /\ 1..(i + 1) # {} /\ Max(1..(i + 1)) = i + 1
        /\ (1..(i + 1)) \ {Max(1..(i + 1))} = 1..((i + 1) - 1)
    BY <1>1, <2>1, PrefixIs
  <2>3. h[1..(i + 1)] = Served(h[1..i], w[i + 1])
    BY <1>8, <2>1, <2>2
  <2>4. h[1..i] \in Servings
    BY <1>1, <1>10
  <2>5. w[i + 1] \in Requests
    <3> HIDE DEF Requests
    <3> QED BY <2>1
  <2> QED BY <2>3, <2>4, <2>5, ServedIs
<1>11. Len(w) \in N
  <2> HIDE DEF N
  <2> QED BY <1>1, <1>9, <1>10, Induction
<1> QED BY <1>1, <1>7, <1>11

-----------------------------------------------------------------------------
(* What the buffer has is the file.                                        *)

\* A connection and where it is.
Connections ==
  {x \in [start : 0..Size, end : 0..Size, next : 0..Size] : x.next \in x.start..x.end /\ Fits(x)}

\* The data are the file's; the current stream is where its connection is; and neither a
\* connection nor a request is longer than the cache.
FileInv ==
  /\ cacheSize \in CacheSizes /\ reconnects \in BOOLEAN
  /\ Tidy(virtualBuffer, Limit) /\ Faithful(virtualBuffer)
  /\ connection \in Connections /\ position = connection.next /\ stale \in 0..Size
  /\ readRequests \in Seq(Requests)
  /\ lastResolved \in 0..Undefined
  /\ recentError \in BOOLEAN /\ closed \in BOOLEAN
  /\ calls \in 0..MaxReads /\ errors \in 0..MaxErrors
  /\ ReadsAreServed

LEMMA NoConnectionIs ==
  ASSUME cacheSize \in Nat
  PROVE  NoConnection \in Connections /\ NoConnection.next = 0
<1>1. 0 \in 0..Size
  BY BlockTypes
<1> QED BY <1>1 DEF NoConnection, Connections, Fits

LEMMA FileInitial ==
  ASSUME FileInit
  PROVE  FileInv
<1> USE DEF FileInit
<1>1. cacheSize \in Nat \ {0} /\ Size \in Nat \ {0} /\ Limit \in Nat \ {0}
  BY SizeTypes
<1>2. virtualBuffer = [recent |-> <<>>, data |-> {}, bytes |-> [p \in Positions |-> Size]]
  BY DEF EmptyBuffer, Unset
<1>3. virtualBuffer \in Buffers /\ virtualBuffer.recent = <<>> /\ virtualBuffer.data = {}
  BY <1>1, <1>2 DEF Buffers
<1>4. Tidy(virtualBuffer, Limit) /\ Faithful(virtualBuffer)
  BY <1>1, <1>3 DEF Tidy, Faithful, Distinct
<1>5. connection \in Connections /\ position = connection.next
  BY <1>1, NoConnectionIs
<1>6. stale \in 0..Size /\ lastResolved \in 0..Undefined
  BY <1>1 DEF Unset, Undefined
<1>7. readRequests \in Seq(Requests)
  <2> HIDE DEF Requests
  <2>1. <<>> \in Seq(Requests)
    OBVIOUS
  <2> QED BY <2>1
<1>8. calls \in 0..MaxReads /\ errors \in 0..MaxErrors
  BY FilelikeAssumption
<1>9. ReadsAreServed
  BY DEF ReadsAreServed
<1> QED BY <1>4, <1>5, <1>6, <1>7, <1>8, <1>9 DEF FileInv

\* Nothing here depends on a variable but the size of the cache.
LEMMA SameCache ==
  ASSUME cacheSize' = cacheSize
  PROVE  /\ Limit' = Limit /\ Requests' = Requests
         /\ Connections' = Connections
  BY DEF Limit, WholeFile, Requests, Connections, Fits

\* Whatever buffer and connection it finds.
LEMMA UpdateStateStep ==
  ASSUME FileInv, cacheSize' = cacheSize,
         NEW b, Tidy(b, Limit), Faithful(b), NEW c \in Connections,
         NEW old \in 0..Size, NEW requests \in Seq(Requests),
         UpdateState(b, c, c.next, old, requests)
  PROVE  /\ Tidy(virtualBuffer', Limit) /\ Faithful(virtualBuffer')
         /\ connection' \in Connections /\ position' = connection'.next /\ stale' \in 0..Size
         /\ readRequests' \in Seq(Requests)
         /\ lastResolved' \in 0..Undefined
         /\ ReadsAreServed'
<1>0. /\ cacheSize \in CacheSizes /\ lastResolved \in 0..Undefined
      /\ cacheSize \in Nat \ {0} /\ Size \in Nat
  BY SizeTypes DEF FileInv
<1> DEFINE served == Serve(b, requests)
           new == NewConnection(c, served.waiting, served.buffer.data, served.resolved)
<1>1. served \in Servings
  BY <1>0, ServeIs
<1>2. /\ virtualBuffer' = served.buffer /\ readRequests' = served.waiting
      /\ lastResolved' = served.resolved
      /\ IF new = NoSpan
         THEN connection' = c /\ position' = c.next /\ stale' = old
         ELSE /\ connection' = [start |-> new.start, end |-> new.end, next |-> new.start]
              /\ position' = new.start
              /\ stale' = IF c # NoConnection /\ c.next < c.end THEN c.next ELSE old
  BY DEF UpdateState
<1> HIDE DEF served
<1>3. /\ served.waiting \in Seq(Requests) /\ served.resolved \in 0..Undefined
      /\ Tidy(served.buffer, Limit) /\ Faithful(served.buffer)
      /\ AllLack(served.waiting, served.buffer.data)
  BY <1>1 DEF Servings
<1>4. new \in Spans /\ Fits(new)
  BY <1>0, <1>3, NewConnectionFits
<1> HIDE DEF new
<1>5. c.next \in 0..Size
  BY DEF Connections
<1>6. /\ connection' \in Connections /\ position' = connection'.next /\ stale' \in 0..Size
  <2>1. CASE new = NoSpan
    BY <1>0, <1>2, <2>1
  <2>2. CASE new # NoSpan
    <3>1. /\ connection' = [start |-> new.start, end |-> new.end, next |-> new.start]
          /\ position' = new.start /\ stale' \in 0..Size
      BY <1>0, <1>2, <1>5, <2>2
    <3>2. new.start \in 0..Size /\ new.end \in 0..Size /\ new.start <= new.end
      BY <1>4 DEF Spans, Fits
    <3> DEFINE k == [start |-> new.start, end |-> new.end, next |-> new.start]
    <3>3. k \in [start : 0..Size, end : 0..Size, next : 0..Size]
          /\ k.next \in k.start..k.end /\ Fits(k) /\ k.next = new.start
      BY <1>4, <3>2 DEF Fits
    <3> HIDE DEF k
    <3>4. k \in Connections
      BY <3>3 DEF Connections
    <3>5. connection' = k
      BY <3>1 DEF k
    <3> QED BY <3>1, <3>3, <3>4, <3>5
  <2> QED BY <2>1, <2>2
<1>7. ASSUME readRequests' # <<>>
      PROVE  Missing(Head(readRequests'), virtualBuffer'.data)
               \cap (position'..(connection'.end - 1)) # {}
  <2> DEFINE requests1 == served.waiting
             data == served.buffer.data
  <2>1. requests1 # <<>> /\ requests1 \in Seq(Requests)
    BY <1>2, <1>3, <1>7
  <2>2. 1 \in 1..Len(requests1) /\ Head(requests1) = requests1[1]
    <3> HIDE DEF Requests, requests1
    <3> QED BY <2>1
  <2>3. Missing(Head(requests1), data) # {}
    BY <1>3, <2>2 DEF AllLack, Missing
  <2>4. new = NewConnection(c, requests1, data, served.resolved)
    BY DEF new
  <2>5. readRequests' = requests1 /\ virtualBuffer'.data = data
    BY <1>2
  <2> HIDE DEF requests1, data
  <2>6. IF new = NoSpan THEN Missing(Head(requests1), data) \cap (c.next..(c.end - 1)) # {}
        ELSE Missing(Head(requests1), data) \cap (new.start..(new.end - 1)) # {}
    BY <1>0, <2>1, <2>3, <2>4, NewConnectionServes
  <2>7. IF new = NoSpan THEN position' = c.next /\ connection'.end = c.end
        ELSE position' = new.start /\ connection'.end = new.end
    BY <1>2
  <2> QED BY <2>5, <2>6, <2>7
<1>8. ReadsAreServed'
  BY <1>7 DEF ReadsAreServed, Missing
<1> QED BY <1>2, <1>3, <1>6, <1>8

LEMMA ReadStep ==
  ASSUME FileInv, NEW r \in Reads,
         Read(r[1], r[2])
  PROVE  FileInv'
<1> USE DEF Read, options, streams
<1> DEFINE request == Span(r[1], r[2])
           requests == Append(readRequests, request)
<1>1. UNCHANGED <<cacheSize, reconnects, recentError, closed, errors>>
  OBVIOUS
<1>2. /\ Limit' = Limit /\ Requests' = Requests
      /\ Connections' = Connections /\ Undefined' = Undefined
  BY <1>1, SameCache DEF Undefined
<1>3. calls' \in 0..MaxReads
  BY FilelikeAssumption DEF FileInv
<1>4. requests \in Seq(Requests)
  <2>1. /\ r[1] \in 0..Size /\ r[2] \in 0..Size /\ r[1] < r[2] /\ r[2] - r[1] <= cacheSize
    BY FilelikeAssumption
  <2>2. request \in Requests
    BY <2>1 DEF Requests, Ranges, Spans, Span
  <2> HIDE DEF Requests, request
  <2> QED BY <2>2, AppendProperties DEF FileInv
<1> HIDE DEF requests
<1>5. CASE closed
  <2>1. /\ readRequests' = requests
        /\ UNCHANGED <<virtualBuffer, connection, position, stale, lastResolved>>
    BY <1>5 DEF requests
  <2>2. ReadsAreServed'
    BY <1>1, <1>5 DEF ReadsAreServed
  <2> QED BY <1>1, <1>2, <1>3, <1>4, <2>1, <2>2 DEF FileInv
<1>6. CASE ~ closed
  <2>1. UpdateState(virtualBuffer, connection, connection.next, stale, requests)
    BY <1>6 DEF requests, FileInv
  <2>2. /\ Tidy(virtualBuffer', Limit) /\ Faithful(virtualBuffer')
        /\ connection' \in Connections /\ position' = connection'.next /\ stale' \in 0..Size
        /\ readRequests' \in Seq(Requests)
        /\ lastResolved' \in 0..Undefined /\ ReadsAreServed'
    BY <1>1, <1>4, <2>1, UpdateStateStep DEF FileInv
  <2> QED BY <1>1, <1>2, <1>3, <2>2 DEF FileInv
<1> QED BY <1>5, <1>6

LEMMA DataStep ==
  ASSUME FileInv, NEW n \in 1..MaxChunk,
         Data(n)
  PROVE  FileInv'
<1> USE DEF Data, options
<1> DEFINE b == CopyFrom(virtualBuffer, position, connection.next, n, Limit)
           done == HasData(b, connection.start, connection.end)
           c == IF done THEN NoConnection ELSE [connection EXCEPT !.next = @ + n]
           old == IF done /\ position + n < connection.end THEN position + n ELSE stale
<1>1. UNCHANGED <<cacheSize, reconnects, closed, calls, errors>> /\ recentError' = FALSE
  OBVIOUS
<1>2. /\ Limit' = Limit /\ Requests' = Requests
      /\ Connections' = Connections /\ Undefined' = Undefined
  BY <1>1, SameCache DEF Undefined
<1>3. /\ cacheSize \in CacheSizes /\ cacheSize \in Nat \ {0} /\ Size \in Nat \ {0}
      /\ Limit \in Nat \ {0} /\ n \in Nat \ {0}
  BY SizeTypes, FilelikeAssumption DEF FileInv
<1>4. /\ connection \in [start : 0..Size, end : 0..Size, next : 0..Size]
      /\ connection.next \in connection.start..connection.end /\ Fits(connection)
      /\ position = connection.next /\ position \in 0..Size /\ connection.start \in 0..Size
      /\ connection.end \in 0..Size /\ position + n <= connection.end
  BY DEF FileInv, Connections
<1>5. /\ Tidy(b, Limit) /\ Faithful(b)
  <2>1. position \in Nat /\ position + n <= Size
    BY <1>3, <1>4
  <2>2. ~ WholeFile => n <= cacheSize
    BY <1>3, <1>4 DEF Fits
  <2>3. Len(BlocksOf(position, position + n)) <= Limit
    BY <1>3, <2>1, <2>2, FewBlocks
  <2>4. b = CopyFrom(virtualBuffer, position, position, n, Limit)
    BY <1>4
  <2>5. Tidy(virtualBuffer, Limit) /\ Faithful(virtualBuffer)
    BY DEF FileInv
  <2> HIDE DEF b
  <2> QED BY <1>3, <2>1, <2>3, <2>4, <2>5, CopyIs
<1> HIDE DEF b
<1>6. c \in Connections /\ c.next = (IF done THEN 0 ELSE position + n)
  <2> HIDE DEF done
  <2>1. CASE done
    BY <1>3, <2>1, NoConnectionIs
  <2>2. CASE ~ done
    <3>1. /\ c \in [start : 0..Size, end : 0..Size, next : 0..Size]
          /\ c.start = connection.start /\ c.end = connection.end /\ c.next = position + n
      BY <1>3, <1>4, <2>2
    <3>2. c.next \in c.start..c.end
      BY <1>3, <1>4, <3>1
    <3>3. Fits(c)
      BY <1>4, <3>1 DEF Fits
    <3> HIDE DEF c
    <3> QED BY <2>2, <3>1, <3>2, <3>3 DEF Connections
  <2> QED BY <2>1, <2>2
<1>7. UpdateState(b, c, c.next, old, readRequests)
  <2>1. UpdateState(b, c, IF done THEN 0 ELSE position + n, old, readRequests)
    BY DEF b
  <2> HIDE DEF c, done, old
  <2> QED BY <1>6, <2>1
<1>7a. old \in 0..Size
  <2> HIDE DEF done
  <2>1. stale \in 0..Size
    BY DEF FileInv
  <2> QED BY <1>3, <1>4, <2>1
<1> HIDE DEF c, done, old
<1>8. /\ Tidy(virtualBuffer', Limit) /\ Faithful(virtualBuffer')
      /\ connection' \in Connections /\ position' = connection'.next /\ stale' \in 0..Size
      /\ readRequests' \in Seq(Requests)
      /\ lastResolved' \in 0..Undefined /\ ReadsAreServed'
  <2>1. readRequests \in Seq(Requests)
    BY DEF FileInv
  <2> HIDE DEF Data
  <2> QED BY <1>1, <1>5, <1>6, <1>7, <1>7a, <2>1, UpdateStateStep
<1> QED BY <1>1, <1>2, <1>8 DEF FileInv

LEMMA StreamFailsStep ==
  ASSUME FileInv, StreamFails
  PROVE  FileInv'
<1> USE DEF StreamFails, options, streams
<1>1. UNCHANGED <<cacheSize, reconnects, calls>>
  OBVIOUS
<1>2. /\ Limit' = Limit /\ Requests' = Requests
      /\ Connections' = Connections /\ Undefined' = Undefined
  BY <1>1, SameCache DEF Undefined
<1>3. errors' \in 0..MaxErrors
  BY FilelikeAssumption DEF FileInv
<1>4. CASE recentError /\ ~ reconnects
  <2>1. /\ closed' = TRUE
        /\ UNCHANGED <<virtualBuffer, connection, position, stale, readRequests,
                       lastResolved, recentError>>
    BY <1>4
  <2>2. ReadsAreServed'
    BY <2>1 DEF ReadsAreServed
  <2> QED BY <1>1, <1>2, <1>3, <2>1, <2>2 DEF FileInv
<1>5. CASE ~ (recentError /\ ~ reconnects)
  <2>1. /\ recentError' = TRUE /\ UNCHANGED closed
        /\ UpdateState(virtualBuffer, NoConnection, 0, stale, readRequests)
    BY <1>5
  <2>2. NoConnection \in Connections /\ NoConnection.next = 0
    BY SizeTypes, NoConnectionIs DEF FileInv
  <2>3. UpdateState(virtualBuffer, NoConnection, NoConnection.next, stale, readRequests)
    BY <2>1, <2>2
  <2>4. /\ Tidy(virtualBuffer', Limit) /\ Faithful(virtualBuffer')
        /\ connection' \in Connections /\ position' = connection'.next /\ stale' \in 0..Size
        /\ readRequests' \in Seq(Requests)
        /\ lastResolved' \in 0..Undefined /\ ReadsAreServed'
    BY <1>1, <2>2, <2>3, UpdateStateStep DEF FileInv
  <2> QED BY <1>1, <1>2, <1>3, <2>1, <2>4 DEF FileInv
<1> QED BY <1>4, <1>5

LEMMA FileStep ==
  ASSUME FileInv, [FileNext]_fileVars
  PROVE  FileInv'
<1> USE DEF options, streams
<1>1. CASE OldData
  <2>1. /\ UNCHANGED <<cacheSize, reconnects, recentError, closed, calls, errors, virtualBuffer,
                       connection, position, readRequests, lastResolved>>
        /\ stale' = Size
    BY <1>1 DEF OldData, Unset
  <2>2. Limit' = Limit /\ Requests' = Requests /\ Connections' = Connections
        /\ Undefined' = Undefined
    BY <2>1, SameCache DEF Undefined
  <2>3. Size \in 0..Size
    BY BlockTypes
  <2>4. ReadsAreServed'
    BY <2>1 DEF FileInv, ReadsAreServed, Missing
  <2> QED BY <2>1, <2>2, <2>3, <2>4 DEF FileInv
<1>2. CASE TimePasses \/ UNCHANGED fileVars
  <2>1. /\ UNCHANGED <<cacheSize, reconnects, closed, calls, errors, virtualBuffer, stale,
                       connection, position, readRequests, lastResolved>>
        /\ recentError' \in BOOLEAN
    BY <1>2 DEF TimePasses, fileVars, FileInv
  <2>2. Limit' = Limit /\ Requests' = Requests /\ Connections' = Connections
        /\ Undefined' = Undefined
    BY <2>1, SameCache DEF Undefined
  <2>3. ReadsAreServed'
    BY <2>1 DEF FileInv, ReadsAreServed, Missing
  <2> QED BY <2>1, <2>2, <2>3 DEF FileInv
<1>3. CASE \E r \in Reads : Read(r[1], r[2])
  BY <1>3, ReadStep
<1>4. CASE Stream
  BY <1>4, DataStep, StreamFailsStep DEF Stream
<1> QED BY <1>1, <1>2, <1>3, <1>4 DEF FileNext

LEMMA FileInvImplies ==
  ASSUME FileInv
  PROVE  DataAreTheFile
<1>1. FileTypeOK
  <2>1. /\ virtualBuffer \in Buffers /\ Len(virtualBuffer.recent) <= Limit
        /\ connection \in [start : 0..Size, end : 0..Size, next : 0..Size]
        /\ connection.next \in connection.start..connection.end
        /\ position \in 0..Size
    BY DEF FileInv, Tidy, Connections
  <2>2. readRequests \in Seq(Spans)
    <3>1. Requests \subseteq Spans
      BY DEF Requests, Ranges
    <3>2. readRequests \in Seq(Requests)
      BY DEF FileInv
    <3> HIDE DEF Requests
    <3> QED BY <3>1, <3>2
  <2> QED BY <2>1, <2>2 DEF FileInv, FileTypeOK
<1>2. ASSUME NEW p \in virtualBuffer.data
      PROVE  /\ virtualBuffer.bytes[p] = p
             /\ \E k \in DOMAIN virtualBuffer.recent : virtualBuffer.recent[k] = BlockIndex(p)
  BY DEF FileInv, Faithful, Elements
<1> QED BY <1>1, <1>2 DEF DataAreTheFile

\* The buffer of a CachedFilelike never claims to have anything but the bytes of the file,
\* in blocks that are in memory, whatever is read, and whatever connections are replaced,
\* fail or deliver late.
THEOREM DataStayTheFile == FileSpec => []DataAreTheFile
<1>1. FileInit => FileInv
  BY FileInitial
<1>2. FileInv /\ [FileNext]_fileVars => FileInv'
  BY FileStep
<1>3. FileInv => DataAreTheFile
  BY FileInvImplies
<1> QED BY <1>1, <1>2, <1>3, PTL DEF FileSpec

\* A read that waits has a connection that will bring something of what it lacks, whatever was
\* evicted or replaced meanwhile (getNewConnection, #updateState).
THEOREM WaitingReadsAreServed == FileSpec => []ReadsAreServed
<1>1. FileInit => FileInv
  BY FileInitial
<1>2. FileInv /\ [FileNext]_fileVars => FileInv'
  BY FileStep
<1>3. FileInv => ReadsAreServed
  BY DEF FileInv
<1> QED BY <1>1, <1>2, <1>3, PTL DEF FileSpec
=============================================================================
