--------------------------- MODULE CachedFilelike ---------------------------
(***************************************************************************)
(* CachedFilelike: a remote file, read through a VirtualLRUBuffer that one *)
(* connection at a time fills.  Which range a connection is for is decided *)
(* anew whenever a read comes in or data do (getNewConnection).            *)
(*                                                                         *)
(* Callers await open() before they read.  A stream delivers its range in  *)
(* order, or fails.                                                        *)
(***************************************************************************)
EXTENDS VirtualLRUBuffer, FiniteSetsExt

CONSTANTS
  CacheSizes,  \* cacheSizeInBytes, either limited or the whole file
  Threshold,   \* CLOSE_ENOUGH_BYTES_TO_NOT_START_NEW_CONNECTION
  Reads,       \* ranges that are read, as <<start, end>>
  MaxChunk,    \* bound: positions in a chunk
  MaxReads,    \* bound: reads
  MaxErrors    \* bound: failures of streams

ASSUME FilelikeAssumption ==
  /\ CacheSizes \subseteq Nat \ {0}
  /\ Threshold \in Nat
  /\ Reads \subseteq {r \in (0..Size) \X (0..Size) : r[1] < r[2]}
  /\ MaxChunk \in Nat \ {0} /\ MaxReads \in Nat /\ MaxErrors \in Nat

VARIABLES
  cacheSize,     \* #cacheSizeInBytes
  reconnects,    \* keepReconnectingCallback is set
  virtualBuffer, \* #virtualBuffer
  connection,    \* #currentConnection: its range, and where the remaining one starts
  position,      \* the position the current stream is to deliver next
  stale,         \* the same of a stream that was destroyed, Unset without one
  readRequests,  \* #readRequests
  lastResolved,  \* #lastResolvedCallbackEnd, Unset + 1 for undefined
  recentError,   \* #lastErrorTime is less than 100 ms ago, and no data came since
  closed,        \* #closed
  calls, errors  \* how many reads and errors there were

streams == <<connection, position, stale>>
options == <<cacheSize, reconnects>>
fileVars == <<options, virtualBuffer, streams, readRequests, lastResolved, recentError,
              closed, calls, errors>>

NoConnection == [start |-> 0, end |-> 0, next |-> 0]

Undefined == Size + 1

-----------------------------------------------------------------------------
(* Which connection to make, if any.                                       *)

Ceiling(a, b) == (a + b - 1) \div b

WholeFile == cacheSize >= Size

\* #numberOfBlocks
Limit == IF WholeFile THEN Size ELSE Ceiling(cacheSize, BlockSize) + 2

Smaller(a, b) == IF a <= b THEN a ELSE b

Span(start, end) == [start |-> start, end |-> end]

NoSpan == Span(0, 0)

Missing(range, data) == range.start..(range.end - 1) \ data

\* missingRanges(range, data)[0]
FirstMissing(range, data) ==
  LET missing == Missing(range, data)
      start == Min(missing)
      later == {p \in (start + 1)..(range.end - 1) : p \notin missing}
  IN IF missing = {} THEN NoSpan
     ELSE Span(start, IF later = {} THEN range.end ELSE Min(later))

\* MUTANT of Reaches: a connection that has passed the range will do.
ReachesMutant(c, request, data) ==
  /\ c # NoConnection
  /\ c.next + Threshold >= FirstMissing(request, data).start

\* The connection will soon get to something of the request that is missing.  (One
\* that has delivered all its range gets nowhere.)
Reaches(c, request, data) ==
  /\ c # NoConnection
  /\ Missing(request, data) \cap (c.next..(c.end - 1)) # {}
  /\ c.next + Threshold >= FirstMissing(request, data).start

ConnectionFor(request, data) ==
  LET first == FirstMissing(request, data)
  IN IF WholeFile THEN FirstMissing(Span(first.start, Size), data)
     ELSE IF first.end = request.end
     THEN Span(first.start, Smaller(request.start + cacheSize, Size))
     ELSE first

\* With no read and no connection: what lies behind the last read.
ReadAhead(resolved, data) ==
  LET whole == Span(0, Size)
      from == Span(IF resolved = Undefined THEN 0 ELSE resolved, Size)
  IN IF WholeFile
     THEN FirstMissing(IF Missing(from, data) # {} THEN from ELSE whole, data)
     ELSE IF resolved = Undefined THEN NoSpan
     ELSE FirstMissing(Span(resolved, Smaller(resolved + cacheSize, Size)), data)

\* MUTANT of NewConnection: a connection that is there is kept.
NewConnectionMutant(c, requests, data, resolved) ==
  IF c # NoConnection THEN NoSpan
  ELSE IF requests # <<>> THEN ConnectionFor(Head(requests), data)
  ELSE ReadAhead(resolved, data)

\* getNewConnection
NewConnection(c, requests, data, resolved) ==
  IF requests # <<>>
  THEN IF Reaches(c, Head(requests), data) THEN NoSpan
       ELSE ConnectionFor(Head(requests), data)
  ELSE IF c = NoConnection THEN ReadAhead(resolved, data) ELSE NoSpan

-----------------------------------------------------------------------------
\* The requests that can be are resolved, in order; resolved is the end of the last one.
Serve(b, requests) ==
  LET serve(s, r) ==
        IF HasData(s.buffer, r.start, r.end)
        THEN [s EXCEPT !.buffer = Slice(@, r.start, r.end, Limit), !.resolved = r.end]
        ELSE [s EXCEPT !.waiting = Append(@, r)]
  IN FoldLeft(serve, [buffer |-> b, waiting |-> <<>>, resolved |-> lastResolved], requests)

\* #updateState: reads are resolved, and the connection is replaced if need be.  b and c
\* are the buffer and the connection there are now, at is where the connection's stream is,
\* old where one is that was destroyed before.
UpdateState(b, c, at, old, requests) ==
  \E served \in {Serve(b, requests)} :
    /\ virtualBuffer' = served.buffer
    /\ readRequests' = served.waiting
    /\ lastResolved' = served.resolved
    /\ \E new \in {NewConnection(c, served.waiting, served.buffer.data, served.resolved)} :
         IF new = NoSpan THEN connection' = c /\ position' = at /\ stale' = old
         ELSE /\ connection' = [start |-> new.start, end |-> new.end, next |-> new.start]
              /\ position' = new.start
              /\ stale' = IF c # NoConnection /\ at < c.end THEN at ELSE old

\* A read: once closed, it is kept in the list and nothing looks at it.
Read(start, end) ==
  /\ calls < MaxReads
  /\ end - start <= cacheSize
  /\ calls' = calls + 1
  /\ LET requests == Append(readRequests, Span(start, end))
     IN IF closed
        THEN readRequests' = requests /\ UNCHANGED <<virtualBuffer, streams, lastResolved>>
        ELSE UpdateState(virtualBuffer, connection, position, stale, requests)
  /\ UNCHANGED <<options, recentError, closed, errors>>

\* n positions arrive of the current stream.  It is destroyed when all its range is there.
Data(n) ==
  /\ ~closed
  /\ connection # NoConnection /\ position + n <= connection.end
  /\ recentError' = FALSE
  /\ \E b \in {CopyFrom(virtualBuffer, position, connection.next, n, Limit)} :
       LET done == HasData(b, connection.start, connection.end)
       IN UpdateState(b,
                      IF done THEN NoConnection ELSE [connection EXCEPT !.next = @ + n],
                      IF done THEN 0 ELSE position + n,
                      IF done /\ position + n < connection.end THEN position + n ELSE stale,
                      readRequests)
  /\ UNCHANGED <<options, closed, calls, errors>>

\* Data of a stream that was destroyed while they were on their way are ignored.
OldData ==
  /\ stale # Unset
  /\ stale' = Unset
  /\ UNCHANGED <<options, recentError, closed, calls, errors, virtualBuffer, connection,
                 position, readRequests, lastResolved>>

\* The current stream fails: another one is made, unless this is the second time within
\* 100 ms; then all reads are rejected, and the list and the connection left as they are.
StreamFails ==
  /\ ~closed
  /\ connection # NoConnection /\ position < connection.end
  /\ errors < MaxErrors
  /\ errors' = errors + 1
  /\ IF recentError /\ ~reconnects
     THEN /\ closed' = TRUE
          /\ UNCHANGED <<virtualBuffer, streams, readRequests, lastResolved, recentError>>
     ELSE /\ recentError' = TRUE
          /\ UpdateState(virtualBuffer, NoConnection, 0, stale, readRequests)
          /\ UNCHANGED closed
  /\ UNCHANGED <<options, calls>>

TimePasses ==
  /\ recentError
  /\ recentError' = FALSE
  /\ UNCHANGED <<options, virtualBuffer, streams, readRequests, lastResolved, closed, calls,
                 errors>>

-----------------------------------------------------------------------------
FileInit ==
  /\ cacheSize \in CacheSizes
  /\ reconnects \in BOOLEAN
  /\ virtualBuffer = EmptyBuffer
  /\ connection = NoConnection /\ position = 0 /\ stale = Unset
  /\ readRequests = <<>> /\ lastResolved = Undefined
  /\ recentError = FALSE /\ closed = FALSE
  /\ calls = 0 /\ errors = 0

Stream == StreamFails \/ \E n \in 1..MaxChunk : Data(n)

FileNext ==
  \/ Stream
  \/ OldData
  \/ \E r \in Reads : Read(r[1], r[2])
  \/ TimePasses

FileSpec == FileInit /\ [][FileNext]_fileVars

\* The network goes on: a stream that has more to deliver does, or fails.
FairFileSpec == FileSpec /\ WF_fileVars(Stream)

-----------------------------------------------------------------------------
(* Properties.                                                             *)

Spans == [start : 0..Size, end : 0..Size]

\* Every variable has its type, and no more blocks are in memory than the cache may
\* have.
FileTypeOK ==
  /\ cacheSize \in CacheSizes /\ reconnects \in BOOLEAN
  /\ virtualBuffer \in Buffers /\ Len(virtualBuffer.recent) <= Limit
  /\ connection \in [start : 0..Size, end : 0..Size, next : 0..Size]
  /\ connection.next \in connection.start..connection.end
  /\ position \in 0..Size /\ stale \in 0..Size
  /\ readRequests \in Seq(Spans)
  /\ lastResolved \in 0..Undefined
  /\ recentError \in BOOLEAN /\ closed \in BOOLEAN
  /\ calls \in 0..MaxReads /\ errors \in 0..MaxErrors

\* What the buffer says it has are the file's bytes, and in memory: a read that is
\* resolved gets what is in the file, whatever connections were replaced, failed or
\* delivered late, and whatever was evicted.
DataAreTheFile ==
  /\ FileTypeOK
  /\ \A p \in virtualBuffer.data :
       /\ virtualBuffer.bytes[p] = p
       /\ \E k \in DOMAIN virtualBuffer.recent : virtualBuffer.recent[k] = BlockIndex(p)

\* While a read waits, the connection has something of the first one that is missing still
\* before it, whatever was evicted or replaced since that read was made: it is never left to a
\* connection that has passed it or has delivered all its range.
ReadsAreServed ==
  readRequests # <<>> /\ ~closed =>
    Missing(Head(readRequests), virtualBuffer.data) \cap (position..(connection.end - 1)) # {}

\* Every read is answered, unless the file was closed after errors: no connection that
\* delivers something else, or had part of it evicted again, is waited for in vain.
ReadsAreAnswered == readRequests # <<>> ~> readRequests = <<>> \/ closed
=============================================================================
