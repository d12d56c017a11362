------------------------ MODULE CachingIterableSource ------------------------
(***************************************************************************)
(* CachingIterableSource: what an iterator reads from the source is kept   *)
(* in blocks, each of which claims to hold everything in its time range;   *)
(* a later iterator takes from the blocks what they cover and reads the    *)
(* gaps between them from the source.                                      *)
(*                                                                         *)
(* The caller is the producer of BufferedIterableSource: it has one        *)
(* iterator at a time, gives it up only where it is suspended at a yield,  *)
(* and asks for a backfill only between iterators.  Between two yields     *)
(* only the source is awaited, so nothing else touches the cache then.     *)
(***************************************************************************)
EXTENDS Integers, Sequences, SequencesExt

CONSTANTS
  Log,           \* what the source holds, in log time order
  Topics,        \* topics
  Selections,    \* the sets of topics that are subscribed to, none empty
  Starts, Ends,  \* times iterators start and end at
  MaxBlockSize,  \* #maxBlockSizeBytes
  MaxTotalSize,  \* #maxTotalSizeBytes
  MaxIterators,  \* bound: iterators opened
  SourceFails    \* whether reads of the source may fail

Kinds == {"message", "stamp", "problem"}

\* Only messages have a size.  A problem's time is where it lies in the source;
\* the result does not tell.
ASSUME LogAssumption ==
  /\ Log \in Seq([kind : Kinds, time : Nat, topic : Topics, size : Nat])
  /\ \A i, j \in 1..Len(Log) : i <= j => Log[i].time <= Log[j].time
  /\ \A i \in 1..Len(Log) : Log[i].kind # "message" => Log[i].size = 0

ASSUME BoundsAssumption ==
  /\ Selections \subseteq (SUBSET Topics) \ {{}}
  /\ Starts \subseteq Nat /\ Ends \subseteq Nat
  /\ MaxBlockSize \in Nat \ {0} /\ MaxTotalSize \in Nat
  /\ MaxIterators \in Nat
  /\ SourceFails \in BOOLEAN

VARIABLES
  cachedTopics,     \* #cachedTopics
  cache,            \* #cache: blocks [id, start, end, items, size], by time
  recent,           \* ids of the blocks by lastAccess, oldest first
  totalSize,        \* #totalSizeBytes
  currentReadHead,  \* #currentReadHead: where the consumer is
  candidates,       \* length of #evictableBlockCandidates
  at,               \* where the iterator is: "ended", "loop", "cached", "source"
  yielded,          \* it is suspended at a yield
  maxEnd, readHead, \* its variables of these names
  block,            \* the id of its block, 0 for none
  idx,              \* the next of the block's items
  ahead,            \* what the source's iterator is still to yield
  sourceEnd,        \* sourceReadEnd
  lastTime,         \* lastTime
  pending,          \* pendingIterResults
  stream, last,     \* the results with a time it was asked for; the last yielded
  outcome,          \* how it ended, "no" before
  opened, closed    \* iterators opened; terminate was called

shared == <<cachedTopics, cache, recent, totalSize, candidates>>
reading == <<ahead, sourceEnd, lastTime, pending>>
asked == <<maxEnd, stream, opened, closed>>
vars == <<shared, currentReadHead, at, yielded, readHead, block, idx, reading, last,
          outcome, asked>>

-----------------------------------------------------------------------------
(* The source.                                                             *)

Timed(i) == Log[i].kind # "problem"

\* What the source yields for these topics in this time range.
Wanted(topics, from, to) ==
  {i \in 1..Len(Log) : /\ Log[i].time \in from..to
                       /\ Log[i].kind = "message" => Log[i].topic \in topics}

First(S) == CHOOSE i \in S : \A j \in S : i <= j

\* The last message at or before t on each of the topics: what a source answers
\* to getBackfillMessages.
Latest(S, topics, t) ==
  {i \in S : /\ Log[i].kind = "message" /\ Log[i].topic \in topics
             /\ Log[i].time <= t
             /\ \A j \in S : /\ Log[j].kind = "message"
                             /\ Log[j].topic = Log[i].topic
                             /\ Log[j].time <= t
                             => j <= i}

-----------------------------------------------------------------------------
(* Blocks.                                                                 *)

Holds(b, t) == b.start <= t /\ t <= b.end

\* Started, but nothing was written to it yet: its end is not known.
Hollow(b) == b.start = b.end /\ b.items = <<>>

\* The results a block holds.
Held(b) == {b.items[n].pos : n \in DOMAIN b.items}

Adjacent(b, c) == b.end + 1 = c.start

Total(sizes) == FoldLeft(+, 0, sizes)

Size(items) == Total([n \in DOMAIN items |-> Log[items[n].pos].size])

BlockOf(c, id) == c[CHOOSE k \in DOMAIN c : c[k].id = id]

\* ids only tell apart the blocks there are.
FreshId(c) == CHOOSE n \in 1..(Len(c) + 1) : \A k \in DOMAIN c : c[k].id # n

\* A block goes before the first one that does not start before it.
Insert(c, b) ==
  InsertAt(c, First({k \in 1..(Len(c) + 1) : k <= Len(c) => c[k].start >= b.start}), b)

Without(c, id) == RemoveFirstMatch(c, LAMBDA b : b.id = id)

\* MUTANT of Extend: the end is set to the time of the result just received.
ExtendMutant(c, id, items, end) ==
  [k \in DOMAIN c |->
     IF c[k].id = id
     THEN [c[k] EXCEPT !.end = end + 1, !.items = @ \o items, !.size = @ + Size(items)]
     ELSE c[k]]

\* Pending results are written to the block and it now reaches to end.
Extend(c, id, items, end) ==
  [k \in DOMAIN c |->
     IF c[k].id = id
     THEN [c[k] EXCEPT !.end = end, !.items = @ \o items, !.size = @ + Size(items)]
     ELSE c[k]]

Touch(r, id) == Append(RemoveFirst(r, id), id)

\* The blocks that may be the one not used for longest: the times of use are in
\* milliseconds, and of those that were used in the same one the first is taken.
Oldest(c, r) ==
  {c[First({k \in DOMAIN c : \E m \in 1..n : r[m] = c[k].id})].id : n \in DOMAIN r}

\* The blocks that may be evicted, the first one first: those before the read
\* head, then those after a gap, from the far end.  With the read head in no
\* block, the one that was not used for longest.
EvictionOrders(c, r, head) ==
  LET at_head == {k \in DOMAIN c : Holds(c[k], head)}
      k == First(at_head)
      gaps == {j \in (k + 1)..Len(c) : ~Adjacent(c[j - 1], c[j])}
      beyond == IF gaps = {} THEN <<>> ELSE SubSeq(c, First(gaps), Len(c))
      ids(s) == [j \in DOMAIN s |-> s[j].id]
  IN IF c = <<>> THEN {<<>>}
     ELSE IF at_head = {} THEN {<<id>> : id \in Oldest(c, r)}
     ELSE {ids(SubSeq(c, 1, k - 1)) \o Reverse(ids(beyond))}

-----------------------------------------------------------------------------
(* The iterator.                                                           *)

End(how) ==
  /\ at' = "ended"
  /\ yielded' = FALSE
  /\ outcome' = how
  /\ block' = 0 /\ idx' = 0
  /\ ahead' = {} /\ sourceEnd' = 0 /\ lastTime' = 0 /\ pending' = <<>>

\* The end of the source is passed.
Finish ==
  /\ at = "loop"
  /\ readHead > maxEnd
  /\ End("done")
  /\ UNCHANGED <<shared, currentReadHead, readHead, last, asked>>

AtHead == {k \in DOMAIN cache : Holds(cache[k], readHead)}

DropHollow ==
  /\ at = "loop"
  /\ readHead <= maxEnd
  /\ AtHead # {}
  /\ LET k == First(AtHead)
     IN /\ Hollow(cache[k])
        /\ cache' = RemoveAt(cache, k)
        /\ recent' = RemoveFirst(recent, cache[k].id)
  /\ UNCHANGED <<cachedTopics, totalSize, candidates, currentReadHead, at, yielded,
                 readHead, block, idx, reading, last, outcome, asked>>

\* MUTANT of StartIndex: looks for the first item after the time.
StartIndexMutant(items, t) ==
  First({n \in 1..(Len(items) + 1) : n <= Len(items) => items[n].at > t})

\* The first item at or after the time.
StartIndex(items, t) ==
  First({n \in 1..(Len(items) + 1) : n <= Len(items) => items[n].at >= t})

EnterBlock ==
  /\ at = "loop"
  /\ readHead <= maxEnd
  /\ AtHead # {}
  /\ LET b == cache[First(AtHead)]
     IN /\ ~Hollow(b)
        /\ block' = b.id
        /\ idx' = StartIndex(b.items, readHead)
  /\ at' = "cached"
  /\ UNCHANGED <<shared, currentReadHead, yielded, readHead, reading, last, outcome,
                 asked>>

Yield(i) ==
  /\ yielded' = TRUE
  /\ last' = IF Timed(i) THEN i ELSE last

YieldCached ==
  /\ at = "cached"
  /\ LET b == BlockOf(cache, block)
     IN /\ idx <= Len(b.items)
        /\ b.items[idx].at <= maxEnd
        /\ Yield(b.items[idx].pos)
  /\ idx' = idx + 1
  /\ recent' = Touch(recent, block)
  /\ UNCHANGED <<cachedTopics, cache, totalSize, candidates, currentReadHead, at,
                 readHead, block, reading, outcome, asked>>

\* A cached result lies beyond the end the iterator was asked for.
FinishCached ==
  /\ at = "cached"
  /\ LET b == BlockOf(cache, block)
     IN idx <= Len(b.items) /\ b.items[idx].at > maxEnd
  /\ End("done")
  /\ UNCHANGED <<shared, currentReadHead, readHead, last, asked>>

\* Where reading goes on after a block.
After(b) == b.end + 1

LeaveBlock ==
  /\ at = "cached"
  /\ LET b == BlockOf(cache, block)
     IN /\ idx > Len(b.items)
        /\ readHead' = After(b)
  /\ at' = "loop"
  /\ yielded' = FALSE
  /\ block' = 0 /\ idx' = 0
  /\ UNCHANGED <<shared, currentReadHead, reading, last, outcome, asked>>

\* The source is read up to the next block, which starts after the read head: the
\* invariant that lines 235-237 throw for cannot be broken.
ReadUntil ==
  LET next == {k \in DOMAIN cache : readHead < cache[k].start}
  IN IF next # {} /\ cache[First(next)].start - 1 < maxEnd
     THEN cache[First(next)].start - 1
     ELSE maxEnd

OpenSource ==
  /\ at = "loop"
  /\ readHead <= maxEnd
  /\ AtHead = {}
  /\ at' = "source"
  /\ ahead' = Wanted(cachedTopics, readHead, ReadUntil)
  /\ sourceEnd' = ReadUntil
  /\ lastTime' = readHead
  /\ UNCHANGED <<shared, currentReadHead, yielded, readHead, block, idx, pending, last,
                 outcome, asked>>

NewBlock(id, start, end, items) ==
  [id |-> id, start |-> start, end |-> end, items |-> items, size |-> Size(items)]

\* The cache with a block to write to.
WithBlock(id) ==
  IF block = 0 THEN Insert(cache, NewBlock(id, readHead, readHead, <<>>)) ELSE cache

\* A result of the source is kept pending, and yielded; the results before it
\* are written to the block once time moves on.  One block may be evicted.
SourceYields ==
  /\ at = "source"
  /\ ahead # {}
  /\ LET i == First(ahead)
         own == IF block = 0 THEN FreshId(cache) ELSE block
         t == IF Timed(i) THEN Log[i].time ELSE lastTime
         onward == t > lastTime
         c == IF onward THEN Extend(WithBlock(own), own, pending, t - 1)
              ELSE WithBlock(own)
         r == IF block = 0 \/ onward THEN Touch(recent, own) ELSE recent
         full == BlockOf(c, own).size >= MaxBlockSize
         active == IF full THEN 0 ELSE own
         purge == totalSize + Log[i].size > MaxTotalSize
     IN \E order \in EvictionOrders(c, r, currentReadHead) :
          LET evicts == purge /\ order # <<>>
          IN /\ candidates' = IF evicts THEN Len(order) - 1
                              ELSE IF purge THEN 0 ELSE candidates
             /\ readHead' = IF full THEN After(BlockOf(c, own)) ELSE readHead
             /\ IF evicts /\ Head(order) = active
                THEN /\ cache' = c /\ recent' = r
                     /\ End("failed")
                     /\ UNCHANGED <<totalSize, last>>
                ELSE /\ cache' = IF evicts THEN Without(c, Head(order)) ELSE c
                     /\ recent' = IF evicts THEN RemoveFirst(r, Head(order)) ELSE r
                     /\ totalSize' = totalSize + Log[i].size
                          - (IF evicts THEN BlockOf(c, Head(order)).size ELSE 0)
                     /\ block' = active
                     /\ ahead' = ahead \ {i}
                     /\ lastTime' = t
                     /\ pending' = Append(IF onward THEN <<>> ELSE pending,
                                          [at |-> t, pos |-> i])
                     /\ Yield(i)
                     /\ UNCHANGED <<at, idx, sourceEnd, outcome>>
  /\ UNCHANGED <<cachedTopics, currentReadHead, asked>>

\* The source has nothing more: the block, or a new one, reaches to the end.
SourceDone ==
  /\ at = "source"
  /\ ahead = {}
  /\ LET id == FreshId(cache)
     IN IF block # 0
        THEN /\ cache' = Extend(cache, block, pending, sourceEnd)
             /\ recent' = Touch(recent, block)
        ELSE /\ cache' = Insert(cache, NewBlock(id, readHead, sourceEnd, pending))
             /\ recent' = Touch(recent, id)
  /\ readHead' = sourceEnd + 1
  /\ at' = "loop"
  /\ yielded' = FALSE
  /\ block' = 0
  /\ ahead' = {} /\ sourceEnd' = 0 /\ lastTime' = 0 /\ pending' = <<>>
  /\ UNCHANGED <<cachedTopics, totalSize, candidates, currentReadHead, idx, last,
                 outcome, asked>>

SourceRejects ==
  /\ SourceFails
  /\ at = "source"
  /\ End("failed")
  /\ UNCHANGED <<shared, currentReadHead, readHead, last, asked>>

-----------------------------------------------------------------------------
(* The calls.                                                              *)

\* The cache is for one selection of topics.
Purge(topics) ==
  IF topics # cachedTopics
  THEN cache' = <<>> /\ recent' = <<>> /\ totalSize' = 0
  ELSE UNCHANGED <<cache, recent, totalSize>>

MessageIterator(topics, start, end) ==
  /\ at = "ended" /\ ~closed
  /\ opened < MaxIterators
  /\ opened' = opened + 1
  /\ cachedTopics' = topics
  /\ Purge(topics)
  /\ maxEnd' = end /\ readHead' = start /\ currentReadHead' = start
  /\ \E order \in EvictionOrders(cache', recent', start) : candidates' = Len(order)
  /\ at' = "loop"
  /\ stream' = {i \in Wanted(topics, start, end) : Timed(i)}
  /\ last' = 0
  /\ outcome' = "no"
  /\ UNCHANGED <<yielded, block, idx, reading, closed>>

\* return(): what is pending is dropped.
Return ==
  /\ yielded
  /\ End("returned")
  /\ UNCHANGED <<shared, currentReadHead, readHead, last, asked>>

\* The producer tells where the consumer is: it has not yet taken the result
\* that was just yielded.
SetCurrentReadHead(t) ==
  /\ yielded
  /\ t > currentReadHead
  /\ \E i \in stream : i < last /\ Log[i].time = t
  /\ currentReadHead' = t
  /\ UNCHANGED <<shared, at, yielded, readHead, block, idx, reading, last, outcome,
                 asked>>

Terminate ==
  /\ at = "ended" /\ ~closed
  /\ closed' = TRUE
  /\ cache' = <<>> /\ recent' = <<>>
  /\ cachedTopics' = {}
  /\ UNCHANGED <<totalSize, candidates, currentReadHead, at, yielded, readHead, block,
                 idx, reading, last, outcome, maxEnd, stream, opened>>

\* MUTANT of Chain: gaps between the blocks are not looked at.
ChainMutant(t) == {k \in DOMAIN cache : cache[k].start <= t}

\* The blocks a backfill looks into: the one that holds t, and those before it
\* up to a gap.
Chain(t) ==
  {k \in DOMAIN cache :
     \E top \in DOMAIN cache :
       /\ Holds(cache[top], t)
       /\ k <= top
       /\ \A j \in (k + 1)..top : Adjacent(cache[j - 1], cache[j])}

\* getBackfillMessages: what the cache knows of the topics, the rest is asked
\* of the source.
Backfill(topics, t) ==
  LET held == UNION {Held(cache[k]) : k \in Chain(t)}
      found == Latest(held, topics, t)
      missing == topics \ {Log[i].topic : i \in found}
  IN found \cup Latest(1..Len(Log), missing, t)

-----------------------------------------------------------------------------
Init ==
  /\ cachedTopics = {} /\ cache = <<>> /\ recent = <<>>
  /\ totalSize = 0 /\ currentReadHead = 0 /\ candidates = 0
  /\ at = "ended" /\ yielded = FALSE
  /\ maxEnd = 0 /\ readHead = 0 /\ block = 0 /\ idx = 0
  /\ ahead = {} /\ sourceEnd = 0 /\ lastTime = 0 /\ pending = <<>>
  /\ stream = {} /\ last = 0 /\ outcome = "returned"
  /\ opened = 0 /\ closed = FALSE

Advance ==
  \/ Finish \/ DropHollow \/ EnterBlock \/ YieldCached \/ FinishCached \/ LeaveBlock
  \/ OpenSource \/ SourceYields \/ SourceDone \/ SourceRejects

Calls ==
  \/ \E topics \in Selections, start \in Starts, end \in Ends :
       MessageIterator(topics, start, end)
  \/ Return
  \/ \E t \in {Log[i].time : i \in 1..Len(Log)} : SetCurrentReadHead(t)
  \/ Terminate

Next == Advance \/ Calls

Spec == Init /\ [][Next]_vars

-----------------------------------------------------------------------------
(* Properties.                                                             *)

Items == [at : Nat, pos : 1..Len(Log)]

Blocks == [id : Nat \ {0}, start : Nat, end : Nat, items : Seq(Items), size : Nat]

\* Every variable has its type; in particular the block an iterator works on is
\* in the cache.
TypeOK ==
  /\ cachedTopics \in SUBSET Topics
  /\ cache \in Seq(Blocks) /\ recent \in Seq(Nat \ {0})
  /\ totalSize \in Nat /\ currentReadHead \in Nat /\ candidates \in Nat
  /\ at \in {"ended", "loop", "cached", "source"} /\ yielded \in BOOLEAN
  /\ maxEnd \in Nat /\ readHead \in Nat
  /\ block \in {cache[k].id : k \in DOMAIN cache} \cup {0} /\ idx \in Nat
  /\ ahead \subseteq 1..Len(Log) /\ sourceEnd \in Nat /\ lastTime \in Nat
  /\ pending \in Seq(Items)
  /\ stream \subseteq 1..Len(Log) /\ last \in 0..Len(Log)
  /\ outcome \in {"no", "done", "failed", "returned"}
  /\ opened \in 0..MaxIterators /\ closed \in BOOLEAN

\* A block tells the truth: its items are the results of the source for the
\* cached topics in its time range, all of them and in order, and its range
\* overlaps no other, however iterators were given up, failed or evicted blocks
\* on the way.  A block that was only started holds nothing yet.  The size the
\* cache goes by when it decides to evict covers the blocks and what is pending.
BlocksTellTheTruth ==
  /\ TypeOK
  /\ \A k \in DOMAIN cache :
       LET b == cache[k]
       IN /\ b.start <= b.end
          /\ \A n \in DOMAIN b.items : Holds(b, b.items[n].at)
          /\ Hollow(b) \/ {i \in Held(b) : Timed(i)} =
                            {i \in Wanted(cachedTopics, b.start, b.end) : Timed(i)}
          /\ \A m, n \in DOMAIN b.items : m < n => b.items[m].pos < b.items[n].pos
          /\ b.size = Size(b.items)
  /\ \A k, l \in DOMAIN cache : k < l => cache[k].end < cache[l].start
  /\ totalSize >= Size(pending) + Total([k \in DOMAIN cache |-> cache[k].size])

\* A backfill answered from the blocks is what the source would have answered,
\* whatever the blocks were read for, unless one of them was only started.
BackfillIsLatest ==
  at = "ended" =>
    \A topics \in Selections, t \in Starts \cup Ends :
      \/ \E k \in Chain(t) : Hollow(cache[k])
      \/ Backfill(topics, t) = Latest(1..Len(Log), topics, t)

\* Mixing blocks and source, an iterator yields what the source alone would have:
\* nothing is lost or repeated where one block, or the cache, ends.
Promised ==
  INSTANCE MessageStream WITH
    Streams <- {{i \in Wanted(topics, start, end) : Timed(i)} :
                  topics \in Selections, start \in Starts, end \in Ends},
    over <- outcome
IteratorKeepsPromise == Promised!Spec
=============================================================================
