----------------------------- MODULE BlockLoader -----------------------------
(***************************************************************************)
(* BlockLoader: reads the topics that are to be preloaded into blocks of a *)
(* fixed time span, in the background, for as long as a player lives.  The *)
(* topics change while it reads; a block knows which it still needs.       *)
(*                                                                         *)
(* A cursor is made for a span of blocks that need the same topics, and    *)
(* read up to the end of each.  Sources run in workers: what a cursor has  *)
(* read may be on its way here when it is told to abort.  The source has   *)
(* every message of a topic, and sends no topics that were not asked for.  *)
(***************************************************************************)
EXTENDS Integers, Sequences, FiniteSetsExt

CONSTANTS
  Log,          \* messages and stamps, by time; a stamp is the last of its time
  Topics,       \* topics
  Selections,   \* what can be preloaded: each topic's subscription, 0 for none
  LastTime,     \* end of the source, which starts at 0
  MaxBlocks,    \* maxBlocks
  MinDuration,  \* minBlockDurationNs
  MaxCacheSize, \* cacheSizeBytes
  MaxChanges,   \* bound: changes of the topics
  SourceFails   \* whether reads of the source may fail

Nothing == [t \in Topics |-> 0]

ASSUME LogAssumption ==
  /\ Log \in Seq([kind : {"message", "stamp"}, time : 0..LastTime, topic : Topics,
                  size : Nat])
  /\ \A i, j \in 1..Len(Log) :
       i < j => \/ Log[i].time < Log[j].time
                \/ Log[i].time = Log[j].time /\ Log[i].kind = "message"

ASSUME BoundsAssumption ==
  /\ LastTime \in Nat
  /\ MaxBlocks \in Nat \ {0} /\ MinDuration \in Nat
  /\ MaxCacheSize \in Nat /\ MaxChanges \in Nat
  /\ Selections \subseteq [Topics -> Nat] /\ Nothing \in Selections
  /\ SourceFails \in BOOLEAN

VARIABLES
  topics,      \* #topics
  blocks,      \* #blocks, from 0
  changes,     \* calls of setTopics that changed them
  stopped,     \* #stopped
  at,          \* startLoading: "idle", "load", "reading", "read", "ending", "waiting",
               \* "ended", "failed"
  aborted,     \* #abortController.signal.aborted, since this load began
  loading,     \* load's topics
  fetch,       \* topicsToFetch
  end,         \* endBlockId
  current,     \* currentBlockId; in "ending", the block to go on with, or none
  ahead, held, \* the cursor: what it is still to read, and #lastIteratorResult
  results,     \* what readUntil has read
  total,       \* totalBlockSizeBytes
  full,        \* this load has stopped because the cache is full
  late         \* a load took what was read although topics had been replaced, by equal
               \* ones in the end

cursor == <<fetch, end, ahead, held, results>>
vars == <<topics, blocks, changes, stopped, at, aborted, loading, current, cursor, total,
          full, late>>

-----------------------------------------------------------------------------
(* Blocks of time.                                                         *)

Ceiling(a, b) == (a + b - 1) \div b

Larger(a, b) == IF a >= b THEN a ELSE b

\* Times are inclusive.
Total == LastTime + 1

Duration == Larger(MinDuration, Ceiling(Total, MaxBlocks))

BlockIds == 0..(Ceiling(Total, Duration) - 1)

NoBlock == Ceiling(Total, Duration)

StartTime(k) == k * Duration

\* A block ends one before the next one starts, the last one with the source.
EndTime(k) ==
  IF (k + 1) * Duration - 1 > LastTime THEN LastTime ELSE (k + 1) * Duration - 1

-----------------------------------------------------------------------------
(* What a block holds: of each topic the subscription it was read for, 0 if it is *)
(* not there, and its messages; and what it needs.                                *)

Chosen(s) == {t \in Topics : s[t] # 0}

\* A block that does not exist (undefined) needs whatever is loaded.
Undefined == [made |-> FALSE, need |-> Nothing, as |-> Nothing,
              messages |-> [t \in Topics |-> {}], size |-> 0]

NeedTopics(b, s) == IF b.made THEN b.need ELSE s

SizeOf(S) == SumFunctionOnSet([i \in 1..Len(Log) |-> Log[i].size], S)

Messages(k, t) ==
  {i \in 1..Len(Log) : /\ Log[i].kind = "message" /\ Log[i].topic = t
                       /\ Log[i].time \in StartTime(k)..EndTime(k)}

CacheSize(bs) == SumFunction([k \in BlockIds |-> bs[k].size])

\* MUTANT of StillNeeded: topics whose subscription stays are not needed.
StillNeededMutant(b, old, new) == [t \in Topics |-> IF old[t] = new[t] THEN 0 ELSE new[t]]

\* A topic is needed unless the block has it and its subscription is the one of
\* the topics that are replaced.
StillNeeded(b, old, new) ==
  [t \in Topics |-> IF b.as[t] # 0 /\ old[t] = new[t] THEN 0 ELSE new[t]]

SetTopics(s) ==
  /\ s # topics
  /\ changes < MaxChanges
  /\ changes' = changes + 1
  /\ topics' = s
  /\ blocks' = [k \in BlockIds |->
       IF blocks[k].made THEN [blocks[k] EXCEPT !.need = StillNeeded(blocks[k], topics, s)]
       ELSE blocks[k]]
  /\ aborted' = TRUE
  /\ at' = IF at = "waiting" THEN "load" ELSE at
  /\ UNCHANGED <<stopped, loading, current, cursor, total, full, late>>

-----------------------------------------------------------------------------
(* Loading.                                                                *)

NoCursor ==
  fetch' = Nothing /\ end' = 0 /\ ahead' = {} /\ held' = 0 /\ results' = {}

\* load is over: it begins again if the topics were replaced, be they equal to those
\* that were, which has aborted it; otherwise the loader waits.
LoadEnds(replaced) ==
  /\ at' = IF stopped THEN "ended" ELSE IF replaced THEN "load" ELSE "waiting"
  /\ current' = NoBlock
  /\ NoCursor

Needy(k, s) == {n \in BlockIds : n >= k /\ NeedTopics(blocks[n], s) # Nothing}

\* Up to where blocks need the same as block k.
SpanEnd(k, s) ==
  CHOOSE n \in BlockIds :
    /\ n >= k
    /\ \A m \in k..n : NeedTopics(blocks[m], s) = NeedTopics(blocks[k], s)
    /\ n + 1 \in BlockIds => NeedTopics(blocks[n + 1], s) # NeedTopics(blocks[k], s)

\* A cursor for the next span from block k on.
OpenCursor(k, s) ==
  LET first == Min(Needy(k, s))
      wanted == NeedTopics(blocks[first], s)
  IN /\ at' = "reading"
     /\ current' = first
     /\ end' = SpanEnd(first, s)
     /\ fetch' = wanted
     /\ ahead' = {i \in 1..Len(Log) :
                    /\ Log[i].kind = "message" => wanted[Log[i].topic] # 0
                    /\ Log[i].time \in StartTime(first)..EndTime(SpanEnd(first, s))}
     /\ held' = 0 /\ results' = {}

StartLoading ==
  /\ at = "idle"
  /\ at' = "load"
  /\ UNCHANGED <<topics, blocks, changes, stopped, aborted, loading, current, cursor,
                 total, full, late>>

Load ==
  /\ at = "load"
  /\ aborted' = stopped
  /\ full' = FALSE
  /\ loading' = topics
  /\ total' = CacheSize(blocks)
  /\ IF stopped \/ Needy(0, topics) = {} THEN LoadEnds(FALSE) ELSE OpenCursor(0, topics)
  /\ UNCHANGED <<topics, blocks, changes, stopped, late>>

-----------------------------------------------------------------------------
(* Reading a block.                                                        *)

\* MUTANT of Beyond: a message at the end of the block is left for the next one.
BeyondMutant(i) == Log[i].time >= EndTime(current)

\* A result that readUntil keeps for the next block.
Beyond(i) ==
  IF Log[i].kind = "stamp" THEN Log[i].time >= EndTime(current)
  ELSE Log[i].time > EndTime(current)

\* The result kept from the last block comes first.
ReadHeld ==
  /\ at = "reading"
  /\ held # 0
  /\ IF Beyond(held) THEN at' = "read" /\ UNCHANGED <<held, results>>
     ELSE held' = 0 /\ results' = {held} /\ UNCHANGED at
  /\ UNCHANGED <<topics, blocks, changes, stopped, aborted, loading, current, fetch, end,
                 ahead, total, full, late>>

ReadNext ==
  /\ at = "reading"
  /\ held = 0
  /\ IF ahead = {} THEN at' = "read" /\ UNCHANGED <<ahead, held, results>>
     ELSE LET i == Min(ahead)
          IN /\ ahead' = ahead \ {i}
             /\ IF Beyond(i) THEN at' = "read" /\ held' = i /\ UNCHANGED results
                ELSE results' = results \cup {i} /\ UNCHANGED <<at, held>>
  /\ UNCHANGED <<topics, blocks, changes, stopped, aborted, loading, current, fetch, end,
                 total, full, late>>

\* readUntil gives nothing once the cursor knows it is aborted: load returns when the
\* cursor has ended.
ReadAborted ==
  /\ at = "reading" /\ aborted
  /\ at' = "ending"
  /\ current' = NoBlock
  /\ NoCursor
  /\ UNCHANGED <<topics, blocks, changes, stopped, aborted, loading, total, full, late>>

SourceRejects ==
  /\ SourceFails
  /\ at = "reading"
  /\ at' = "failed"
  /\ current' = NoBlock
  /\ NoCursor
  /\ UNCHANGED <<topics, blocks, changes, stopped, aborted, loading, total, full, late>>

\* Topics of the block that are not preloaded any more, or will be read again.
Unused(b) == {t \in Topics : b.as[t] # 0 /\ (topics[t] = 0 \/ b.need[t] # 0)}

UnusedSize(b) == SizeOf(UNION {b.messages[t] : t \in Unused(b)})

\* #removeUnusedBlockTopics: a block that gains nothing stays as it is.
Trimmed(b) ==
  IF UnusedSize(b) = 0 THEN b
  ELSE [b EXCEPT !.as = [t \in Topics |-> IF t \in Unused(b) THEN 0 ELSE @[t]],
                 !.messages = [t \in Topics |-> IF t \in Unused(b) THEN {} ELSE @[t]],
                 !.size = @ - UnusedSize(b)]

TrimmedBlocks == [k \in BlockIds |-> Trimmed(blocks[k])]

\* What was read goes into a block that may have other topics, or read these before.
Written(b) ==
  LET read(t) == {i \in results : Log[i].kind = "message" /\ Log[i].topic = t}
  IN [made |-> TRUE, need |-> Nothing,
      as |-> [t \in Topics |-> IF fetch[t] # 0 THEN fetch[t] ELSE b.as[t]],
      messages |-> [t \in Topics |-> IF fetch[t] # 0 THEN read(t) ELSE b.messages[t]],
      size |-> b.size - SizeOf(UNION {b.messages[t] : t \in Chosen(fetch)})
                 + SizeOf(UNION {read(t) : t \in Chosen(fetch)})]

\* The block was the last one of the span.
SpanRead == current = end

\* MUTANT of Fits: what was just read is not counted.
FitsMutant(size) == total <= MaxCacheSize

Fits(size) == size <= MaxCacheSize

\* What was read goes into the block, if there is room for it once unused topics are
\* removed; otherwise, or if the topics have changed, load returns at once.
TakeResults ==
  /\ at = "read"
  /\ LET size == total + SizeOf({i \in results : Log[i].kind = "message"})
         roomy == size < MaxCacheSize
         bs == IF roomy THEN blocks ELSE TrimmedBlocks
         taken == size - (IF roomy THEN 0 ELSE CacheSize(blocks) - CacheSize(bs))
         b == Written(bs[current])
     IN IF topics # loading THEN LoadEnds(aborted) /\ UNCHANGED <<blocks, total, full, late>>
        ELSE IF ~Fits(taken)
        THEN LoadEnds(aborted) /\ blocks' = bs /\ full' = TRUE /\ UNCHANGED <<total, late>>
        ELSE /\ blocks' = [bs EXCEPT ![current] = b]
             /\ total' = taken - SizeOf(UNION {bs[current].messages[t] : t \in Chosen(fetch)})
             /\ current' = current + 1
             /\ at' = IF SpanRead THEN "ending" ELSE "reading"
             /\ results' = {}
             /\ late' = (late \/ aborted)
             /\ UNCHANGED <<fetch, end, ahead, held, full>>
  /\ UNCHANGED <<topics, changes, stopped, aborted, loading>>

\* A cursor that is aborted when it is made reads nothing.
CursorEnded ==
  /\ at = "ending"
  /\ IF aborted \/ Needy(current, loading) = {} THEN LoadEnds(aborted)
     ELSE OpenCursor(current, loading)
  /\ UNCHANGED <<topics, blocks, changes, stopped, aborted, loading, total, full, late>>

\* MUTANT of StopLoading: a loader that waits is not told.
StopLoadingMutant ==
  /\ at \notin {"idle", "ended", "failed"} /\ ~stopped
  /\ stopped' = TRUE /\ aborted' = TRUE
  /\ UNCHANGED <<topics, blocks, changes, at, loading, current, cursor, total, full, late>>

StopLoading ==
  /\ at \notin {"idle", "ended", "failed"} /\ ~stopped
  /\ stopped' = TRUE /\ aborted' = TRUE
  /\ at' = IF at = "waiting" THEN "ended" ELSE at
  /\ UNCHANGED <<topics, blocks, changes, loading, current, cursor, total, full, late>>

-----------------------------------------------------------------------------
Init ==
  /\ topics = Nothing /\ changes = 0
  /\ blocks = [k \in BlockIds |-> Undefined]
  /\ stopped = FALSE /\ at = "idle" /\ aborted = FALSE
  /\ loading = Nothing
  /\ fetch = Nothing /\ end = 0 /\ current = NoBlock
  /\ ahead = {} /\ held = 0 /\ results = {}
  /\ total = 0 /\ full = FALSE /\ late = FALSE

Advance ==
  \/ Load \/ ReadHeld \/ ReadNext \/ ReadAborted \/ SourceRejects \/ TakeResults
  \/ CursorEnded

Next ==
  \/ Advance
  \/ \E s \in Selections : SetTopics(s)
  \/ StartLoading \/ StopLoading

Spec == Init /\ [][Next]_vars

\* Reads of the source settle, and the loader goes on then.
FairSpec == Spec /\ WF_vars(Advance)

-----------------------------------------------------------------------------
(* Properties.                                                             *)

Positions == SUBSET (1..Len(Log))

Blocks == [made : BOOLEAN, need : [Topics -> Nat], as : [Topics -> Nat],
           messages : [Topics -> Positions], size : Nat]

\* Every variable has its type.
TypeOK ==
  /\ topics \in Selections /\ loading \in Selections
  /\ blocks \in [BlockIds -> Blocks]
  /\ changes \in 0..MaxChanges
  /\ stopped \in BOOLEAN /\ aborted \in BOOLEAN /\ full \in BOOLEAN
  /\ late \in BOOLEAN
  /\ at \in {"idle", "load", "reading", "read", "ending", "waiting", "ended", "failed"}
  /\ fetch \in [Topics -> Nat] /\ end \in 0..NoBlock /\ current \in 0..NoBlock
  /\ at \in {"reading", "read"} => current \in 0..end /\ end \in BlockIds
  /\ ahead \in Positions /\ results \in Positions /\ held \in 0..Len(Log)
  /\ total \in Nat

\* A block has all messages of its time on each topic it holds, and none else, and its
\* size is theirs, whatever was read, aborted, read again or removed in between.
BlocksAreComplete ==
  /\ TypeOK
  /\ \A k \in BlockIds :
       LET b == blocks[k]
       IN /\ \A t \in Topics : b.as[t] # 0 => b.messages[t] = Messages(k, t)
          /\ b.size = SizeOf(UNION {b.messages[t] : t \in Topics})

\* The blocks never take more than the cache may.
CacheBounded == CacheSize(blocks) <= MaxCacheSize

\* The loader waits only when the blocks have every message of the topics that are to
\* be preloaded, or there is no room for them: no change of the topics is missed.  The
\* exception are topics that were replaced, and restored, while results were on their
\* way: the blocks these go to are taken to need nothing, though they may.
RestsWhenLoaded ==
  at = "waiting" /\ ~full /\ ~late =>
    \A t \in Chosen(topics) :
      UNION {blocks[k].messages[t] : k \in BlockIds} =
        {i \in 1..Len(Log) : Log[i].kind = "message" /\ Log[i].topic = t}

\* Loading comes to rest, and to an end when it is stopped, however often it was aborted.
Running == at \in {"load", "reading", "read", "ending"}
LoadingRests ==
  /\ Running ~> ~Running
  /\ stopped ~> at \in {"ended", "failed"}
=============================================================================
