# A verification project for Foxglove Studio (opensource fork)

Foxglove Studio shows robotics data in panels. The data comes from files read in
the browser, from a live connection, or from a server whose files are copied
over SSH first. This directory holds TLA+ modules of the parts of the program whose
correctness depends on the order in which things happen, TLC configurations
that check them on small instances, and proofs, checked by TLAPS, of what can be
shown for every instance.

All paths below are under `src/`; `P/` stands for `packages/studio-base/src/`.

## 1. Inventory

Everything runs on JavaScript event loops: code is interrupted at an `await`
(or a `yield` of an async generator) and nowhere else, so the interleavings
that matter are those of callers, timers, promises and message handlers
between awaits.

| Component | State it keeps | Operations | Talks to | Hard behaviour | What makes it correct |
|---|---|---|---|---|---|
| **IterablePlayer** `P/players/IterablePlayer/IterablePlayer.ts` | running and requested state, playback iterator, last message and stamp read, current time, seek target, topics, messages to emit | setListener, startPlayback, playUntil, pausePlayback, seekPlayback, setSubscriptions, setPlaybackSpeed, close; eight internal states | pipeline (frames out, calls in), BufferedIterableSource, BlockLoader | calls at any await; a requested state supersedes the running one; a seek is acknowledged after 100 ms while its backfill is still read; debounced emission; a failing source | the frames honour the `Player` contract; nothing is skipped or repeated; requests are carried out; it comes to rest and closes |
| **BufferedIterableSource** `…/BufferedIterableSource.ts` | queue, read head, producer promise, abort flag, two condition variables | messageIterator, next/return, stopProducer, terminate | IterablePlayer above, CachingIterableSource below | two coroutines that wait for each other; abort while either sleeps; failure of the producer | the reader gets exactly the stream it asked for; no lost wakeup; every call returns |
| **CachingIterableSource** `…/CachingIterableSource.ts` | cached blocks, their sizes and last access, loaded ranges | messageIterator, getBackfillMessages, eviction | the file source below | iterators suspended at a `yield` while a backfill or an eviction changes the blocks | what is read from the cache is what the source holds |
| **BlockLoader** `…/BlockLoader.ts` | blocks, needed topics per block, cache size | setTopics, startLoading, stopLoading | IterablePlayer, the file source | topics change while a batch is awaited; memory limit | a block claims a topic only if it holds all of it |
| **Iterable sources** (`BagIterableSource`, `McapIterableSource`, workers …) | readers of file formats | initialize, messageIterator, getBackfillMessages | files, workers | decoding | log order, no omission |
| **MessagePipeline** `P/components/MessagePipeline/` | player state, subscriptions by panel, last messages by topic, frame promises | setSubscriptions, listener, renderDone, pauseFrame, player change | every player, every panel | the listener's promise resolves only after all panels have resumed or timed out; a player change with a frame in flight | one frame in flight; a late subscriber gets the last message; frames are not lost |
| **ssh-bridge** `packages/ssh-bridge/src/` | per WebSocket: SSH session, listed directories, one download with its byte counters, idle timer | hello, connect, list, serverTime, download, ack, cancel, disconnect | ssh2 below, ServerExport above | answers of an SSH session that was replaced; a cancel before the stream started; flow control | each request is answered once; at most one transfer; window bound; sessions do not leak |
| **ServerExport** `P/components/DataSourceDialog/ServerExport*.ts*` | requests by id, the running download, ZIP writer queue | connect, list, download, cancel | ssh-bridge | binary frames carry no request id; local write failure with chunks in flight | the file written is the file read |
| **CachedFilelike**, **VirtualLRUBuffer** `P/util/` | read requests, one connection, the blocks and ranges that are cached | open, read | HTTP | reconnection to another range, late data of a stream that was replaced, errors, eviction | reads are answered, with the file's bytes |
| **FoxgloveWebSocketPlayer** `P/players/FoxgloveWebSocketPlayer/index.ts` | the client and its session, channels by topic and id, subscriptions by topic and id and those not resolved, publications, service callbacks, asset requests, parsed messages, clock | the `Player` interface, `#open` and the client's events | a server over a WebSocket, the pipeline | channels that come and go while subscriptions cross them; a connection that is made again, to the same server or one that was restarted; time that goes back; answers that never come | the server sends what is wanted, once; a state's messages are of one time; every call settles |
| **RosbridgePlayer** | the same for rosbridge | the `Player` interface | roslib | as above | as above |
| **TopicAliasingPlayer** `P/players/TopicAliasingPlayer/` | state processor, subscriptions and what the player was told of them, last state, mutex | the `Player` interface, setGlobalVariables | every player, the pipeline | a state is processed again when the variables change, while another one is with the listener | the player sends what the panels want, under its own names; states reach the listener one at a time |
| **PlayerManager**, **PlayerProblemManager** | chosen player, problems | selectSource … | players, pipeline | — | — |
| **den/async, den/collection** | — | debouncePromise, Condvar, VecQueue … | used everywhere | reentrancy | — |
| **3D panel, Image panel, Plot panel** | transform tree, message synchroniser, datasets | — | frames | — | algorithms |
| **Layouts, message paths, MCAP support, settings, themes, i18n, desktop, web, benchmark** | — | — | — | sequential | — |

`PROJECT.json` lists each of these with its files, its status and, where
nothing is modelled, the reason. It also lists the hazards: what can go wrong,
at which line, and which property would notice.

## 2. Plan

Order: what a user depends on in every session comes first.

1. *(done)* `IterablePlayer` with the abstract `FrameContract` it implements,
   and `IterablePlayer_proofs`.
2. *(done)* `BufferedIterableSource` with the abstract `MessageStream` it
   implements, and `BufferedIterableSource_proofs`.
3. *(done)* `PrefetchStream`, the prefetching read stream of `ssh2Connector.ts`,
   with the abstract `ByteStream` it implements.
4. *(done)* `SshBridge`, one client session of the bridge, and `ServerExport`,
   the client and dialog composed with it over a WebSocket;
   `ServerExport_proofs`.
5. *(done)* `CachingIterableSource`, against the `MessageStream` that was
   already there, and `BlockLoader`; `CachingIterableSource_proofs` and
   `BlockLoader_proofs`.
6. *(done)* `MessagePipeline`, which extends and composes with
   `TopicAliasingPlayer`, and `MessagePipeline_proofs`.
7. *(done)* `CachedFilelike` over `VirtualLRUBuffer`, and `RemoteFiles_proofs` about it and
   `PrefetchStream`.
8. *(done)* `FoxgloveWebSocketPlayer` with the server it talks to, and
   `FoxgloveWebSocketPlayer_proofs`.
9. *(open)* `RosbridgePlayer`; the image panel's synchroniser; the 3D panel's
   queue of transforms and messages.

Every safety property, action property and refinement that a passing run checks is
proved (section 6). Theorems planned: those of the modules that are still to come.

Every module has its parameters as CONSTANTS with named assumptions, one
action per piece of code between two awaits, and no RECURSIVE operator, so that
it can be checked and proved about as it stands.

## 3. Modules

| Module | What it is |
|---|---|
| `IterablePlayer` | the player's state machine |
| `FrameContract` | what a player promises its listener (abstract) |
| `MCIterablePlayer` | instance for TLC |
| `IterablePlayer_proofs` | theorems about `IterablePlayer`, among them that it implements `FrameContract` |
| `BufferedIterableSource` | producer, queue and message iterator |
| `MessageStream` | what the player relies on when it reads (abstract) |
| `MCBufferedIterableSource` | instance for TLC |
| `BufferedIterableSource_proofs` | theorems about `BufferedIterableSource`, among them that it implements `MessageStream` |
| `PrefetchStream` | the stream that reads a remote file |
| `ByteStream` | what the bridge relies on when it sends a file (abstract) |
| `MCPrefetchStream` | instances for TLC |
| `SshBridge` | one client session of the bridge, its SSH session and its transfer |
| `ServerExport` | the export dialog and its client; extends and composes with `SshBridge` |
| `MCServerExport` | instances for TLC |
| `ServerExport_proofs` | theorems about the composition: all safety properties of its passing run |
| `CachingIterableSource` | iterators over cached blocks and the source; implements `MessageStream` |
| `MCCachingIterableSource` | instance for TLC |
| `CachingIterableSource_proofs` | theorems about `CachingIterableSource`, among them that it implements `MessageStream` |
| `BlockLoader` | preloading of topics into blocks |
| `MCBlockLoader` | instance for TLC |
| `BlockLoader_proofs` | theorems about `BlockLoader` |
| `TopicAliasingPlayer` | the layer of topic aliases: its state and operations |
| `MessagePipeline` | store, listener and panels; extends and composes with `TopicAliasingPlayer` |
| `MCMessagePipeline` | instance for TLC |
| `MessagePipeline_proofs` | theorems about the composition |
| `VirtualLRUBuffer` | the buffer of a file, as operators |
| `CachedFilelike` | reads of a remote file through that buffer; extends it |
| `MCCachedFilelike` | instance for TLC |
| `RemoteFiles_proofs` | theorems about `PrefetchStream`, among them that it implements `ByteStream`, and about `CachedFilelike` |
| `FoxgloveWebSocketPlayer` | a live player, its server and what is between them |
| `MCFoxgloveWebSocketPlayer` | instance for TLC |
| `FoxgloveWebSocketPlayer_proofs` | theorems about the player and its server |

### 3.1 IterablePlayer

A step of the model is the code between two awaits. `pc` says at which await
`#runState` is suspended (`"off"`: the loop is not running); `state` and
`nextState` are `#state` and `#nextState`. At the points listed in
`Synchronous` the code has not returned to the event loop, so no call, timer or
promise is taken there. Everywhere else the outside world may intervene,
also where the `await` is of something that has already settled (`"loop"`): a
promise of another chain may be ahead in the microtask queue.

| Code | Action |
|---|---|
| `setListener` | `SetListener` |
| `startPlayback`, `playUntil` | `StartPlay(until)` |
| `pausePlayback` | `PausePlayback` |
| `seekPlayback` | `SeekPlayback(t)` |
| `setSubscriptions` | `SetSubscriptions(topics)` |
| `close`, preceded by the pipeline's `cleanupListener` | `Close` |
| `setPlaybackSpeed`, buffering timers, loaded ranges, progress of blocks | `QueueEmitFromOutside` |
| `#setState`, `#setError` | `SetState`, `Fail` |
| `#queueEmitState`, a `debouncePromise` of `#emitStateImpl` | `QueueEmit`, `EmitFrame`, `ListenerResolves` |
| `#runState` | `RunNextState`, `IteratorEnded`, `EndIteratorFails` |
| `#stateInitialize` | `EnterInitialize`, `Initialized`, `InitializeFails`, `StartDelayEnds` |
| `#stateStartPlay` | `EnterStartPlay`, `Read…`, `StartPlayReads` |
| `#tick`, `#statePlay` | `EnterPlay`, `PlayStops`, `PlayReachesEnd`, `Tick`, `Read…`, `TickEmits`, `TickEnds`, `FrameDelayEnds` |
| `#stateIdle` | `EnterIdle`, `IdleEnds` |
| `#stateSeekBackfill` | `EnterSeekBackfill`, `SeekAckTimeout`, `BackfillLoaded`, `BackfillSuperseded`, `BackfillFails` |
| `#stateResetPlaybackIterator`, `#resetPlaybackIterator` | `EnterResetPlaybackIterator`, `IteratorReset`, `ResetFails` |
| `#stateClose` | `EnterClose`, `Closed`, `CloseFails` |

What is abstracted. Times are naturals from 0 to `EndTime`; a message is a
position of the constant `Log`. `lastSeekTime` is not a number but the fact
that it is new in the next frame (`seekEmit`). A tick may ask for any range up to
`MaxTick`, since the real one follows from the wall clock and the speed. The
iterator is a position in the log and yields each remaining result once
(the buffering source repeats a far stamp while its reader does not move; the player reads on
or stops at the same place either way). A stamp says that the source has been read through
its time (`StampAssumption`). The state handed to the listener is
its current time, whether it is playing, its messages and whether `lastSeekTime` is new. Left out: presence, progress,
problems other than the error that ends playback, topics' metadata, seek
analytics. `contiguous`, `rewound`, `heard`, `orphaned` and `calls` are history or bound,
not state of the program: `heard` is what the listener has received since the
last seek, `contiguous` that no message of the current iterator was dropped,
`rewound` that a tick went back in time since the last seek,
`topicsReplaced` that `#allTopics` is another `Map` than the one play was entered with (the code compares
the maps, not what is in them), `orphaned` that the pipeline removed its listener with a frame in flight.

The callers are the pipeline's: it subscribes, plays, pauses and seeks at any time
after `setListener`, and calls nothing after `close()`.

### 3.2 FrameContract

What `P/players/types.ts` says of `PlayerStateActiveData`: messages at or before the
frame's current time, in order and once, and a fresh start only with a new
`lastSeekTime`, with at most one message of each topic. A frame without messages
may say anything. `FramesHonourContract` is the refinement
`IterablePlayer => FrameContract!Spec` under the mapping
`Positions <- Messages`, with `frame` and `heard` taken by name, except for steps
of a player that went back in time without a seek (`rewound`), which section 5 tells of.

### 3.3 BufferedIterableSource

The producer (`#startProducer`) is suspended at `reading`: awaiting the
source's `next()`, waiting on `writeSignal` after a result (`"write"`) or on
behalf of a stamp that lies too far ahead (`"stamp"`), or ending the source's
iterator (`"return"`). The message iterator is suspended at `iterator`: never
read from (`"fresh"`), in `readSignal.wait()`, at a `yield`, or in its
finally block awaiting the producer. `readWait` and `writeWait` are the
waiters of the two `Condvar`s: `notifyAll` resets them, and who was woken
runs later, so other code may run in between. `caller` is the one call that IterablePlayer
awaits.

| Code | Action |
|---|---|
| `messageIterator` | `MessageIterator(a)` |
| generator: first `next`, later `next`, wakeup | `CallNext`, `ReaderWakes` (both `Consume`) |
| generator: `return` and finally | `CallReturn`, `EndIterator`, `IteratorStopped` |
| `#startProducer` | `SourceYields`, `SourceDone`, `SourceReturned`, `SourceRejects`, `ProducerWakes`, `Finish` |
| `stopProducer` | `CallStopProducer`, `CallStopped`, `Abort`, `Stopped` |
| `terminate` | `CallClose`, `CallStopped` |

`canReadMore()` of the cache below depends on sizes in memory and is a free choice.
The log holds messages (several at one time), stamps and problems, which have
no time. The source may fail at any read. `getBackfillMessages`, `loadedRanges`
and `getCacheSize` pass calls on to the cache of 3.7 and are left out here.

### 3.4 MessageStream

A source's iterator as its reader sees it: a set of positions fixed at the
start, one of `Streams`, yielded in order and without omission, `done` only after the last.
`IterablePlayer` reads its `Remaining(iterator)` under exactly this assumption,
`BufferedIterableSource` implements it towards the player and reads the source
below under it, and `CachingIterableSource`, which is that source, implements it
again: the three modules meet here. A reader that is given the very last result once
more at once takes no step of `MessageStream`: such a repetition (the buffering source's far stamp is
one) is allowed, one of an earlier result is not.

### 3.5 PrefetchStream and ByteStream

`ParallelPrefetchReadStream` issues several SFTP READs at a time and pushes, in
the order of the file, what has arrived without a gap. Its callbacks run loops (`#deliverPending`,
then `#pump`) in which nothing else may happen: `step` is the place in them, and all other
actions wait for `"rest"`.

| Code | Action |
|---|---|
| `_read`, `#openHandle` | `CallRead` |
| callbacks of open, fstat, read | `OpenAnswered`, `OpenFails`, `StatAnswered`, `StatFails`, `ReadAnswered`, `ReadFails` |
| `#deliverPending` | `DeliverPiece` (a turn of the loop), `Delivered` |
| `#pump` | `IssueRead` (a turn), `Pumped` |
| `_destroy` | `Destroy`, by `End`, `ConsumerDestroys` and every failure |
| Node's `Readable` (external) | `Push`, `Flow`, `Resume`, `CallRead`'s guard |

A piece of data is its offset and length; a byte is where it comes from. The
file is its size, which may change (`Resize`) while it is read. `Readable` is modelled
as the class meets it: `_read` is called when the buffer has room and
something was pushed since the last call; a flowing stream with nothing
buffered passes a push on at once unless `_read` is on the stack; the handler may pause the stream
on any piece, which the bridge does when its window is full. A request that
is sent is answered or fails: ssh2 fails those that are open when the channel
closes. `ByteStream` says what the bridge uses: the next piece starts where
the last one ended, and the stream ends only when at least the smallest size
of the file was delivered.

### 3.6 SshBridge and ServerExport

`SshBridge` is `ClientSession` from the end of the handshake. A handler is one
action up to its await; what follows the await is another one (`Settle…`),
taken when the SSH layer answers, in any order. `operations` are those calls.
An SSH session is named by the request that asked for it; `open` and
`ending` are the sessions that ssh2 holds open and those that were closed but whose close
event is still to come. `destroyed` is `#destroyed`, `link` the WebSocket between the two
sides: when it goes down each side sees it later, in an event of its
own (`BridgeSeesClose`, `ClientSeesClose`), and what was not received is lost.

| Code | Action |
|---|---|
| `#dispatch`, `#handle…` | `HandleConnect`, `HandleList`, `HandleServerTime`, `HandleDownload`, `HandleAck`, `HandleCancel`, `HandleDisconnect` |
| after their awaits | `ConnectResolves`, `ConnectRejects`, `HomeSettles`, `ListResolves`, `ServerTimeResolves`, `FileSizeResolves`, `CallRejects` |
| `#startStream`'s data, end, error events | `Data`, `StreamEnds`, `StreamFails` |
| `#handleSshClosed`, `#resetIdleTimer` | `SshCloses`, `IdleTimeout` |
| `destroy`, `kick`, the close event | `Destroy`, `Kick`, `BridgeSeesClose` |

`ServerExport` adds the browser's side: `ServerExportBridgeClient`
(`ws`, `request`, `current`, `writes` are `#ws`, `#pending`, `#download` and the
chain of writes) and the dialog that drives it (`step`).

| Code | Action |
|---|---|
| `connectBridge`, `collectPreview` | `Connect`, `ConnectedArrives`, `ClockArrives`, `ListingArrives`, `RequestFails` |
| `runExport` | `Start`, `DownloadNext`, `ExportStops`, `Succeed`, `Void` |
| `#handleBinaryFrame`, the write chain, acks | `FrameArrives`, `Written`, `WriteFails` |
| `fileEnd`, `canceled`, `error`, `sshClosed` | `FileEndArrives`, `Completed`, `DownloadFails`, `SshClosedArrives`, `OtherArrives` |
| cancel, retry and closing of the dialog | `UserCancels`, `UserRetries`, `UserLeaves` |
| `onclose` | `ClientSeesClose` |

What is abstracted. A file is `FileFrames` binary frames; a frame carries its number and the
request it was sent for, which the code's frames do not: the actions never look at
them, only `FileIntact` and `WithinWindow` do. `Paused` is derived from the
bytes sent and acknowledged, since the code pauses and resumes the stream at exactly
those two places. That the stream delivers the whole file is what 3.5 establishes.
The listings of several directories are one listing. Left out: the handshake and
malformed messages (the client sends none), the heartbeat, and a
second connection of the dialog, for which it makes a new client and the
bridge a new session: `nextRequestId = 1` keeps `Connect` to one. Chunks
that wait to be written when a download fails go to a writer that is aborted, which lets them pass
unwritten (`serverExportZip.ts:242`), and their acks name a request that is over, which the bridge ignores:
`Void` drops them, and `WithinWindow` does not count what a slow disk still holds of a package that was
given up. An SSH session that is made when the client is gone is closed at once, and since
the bridge registers for the close event of no such session, its end is no event of the model. While the dialog connects it does not hold its client yet, so
leaving it then does nothing (`UserLeaves`).

### 3.7 CachingIterableSource

An iterator's `at` is the part of `messageIterator` it is in: the outer loop, a
cached block, or the source. Between two yields only the source is awaited, and
the one caller (the producer of 3.3) acts only where the iterator is suspended at a
yield (`yielded`) or has ended.

| Code | Action |
|---|---|
| `messageIterator`, outer loop | `MessageIterator(topics, start, end)`, `Finish`, `DropHollow`, `EnterBlock`, `OpenSource` |
| in a cached block | `YieldCached`, `FinishCached`, `LeaveBlock` |
| reading the source, `#maybePurgeCache`, `#findEvictableBlockCandidates` | `SourceYields`, `SourceDone`, `SourceRejects` with `Extend`, `EvictionOrders` |
| `return()` of the generator | `Return` |
| `setCurrentReadHead` | `SetCurrentReadHead(t)` |
| `getBackfillMessages` | `Backfill(topics, t)`, an operator, since it changes nothing |
| `terminate` | `Terminate` |

What is abstracted. Times are naturals and "one nanosecond later" is the next one. A
result is a position of `Log`, its size a small number. `lastAccess` is the order of
`recent`, of which blocks used in the same millisecond make a tie: any number of those used
longest ago may tie, and the first of them in the cache is evicted (`Oldest`). Loaded ranges, which are for the seek bar, are left out. A problem's place in the
source is known to the model, not to the code.

### 3.8 BlockLoader

`at` is the await of `startLoading` or `#load`; a cursor that was told to abort
still has its worker's answer under way. Subscriptions carry a number for what
`isEqual` compares beside the topic (`preloadType`, fields).

| Code | Action |
|---|---|
| `setTopics` | `SetTopics(s)` |
| `startLoading`, `stopLoading` | `StartLoading`, `StopLoading` |
| `#load`: next span, `cursor.readUntil`, results | `Load`, `CursorEnded` (`OpenCursor`), `ReadHeld`, `ReadNext`, `ReadAborted`, `SourceRejects`, `TakeResults` |
| `#removeUnusedBlockTopics`, `#cacheSize` | `Trimmed`, `CacheSize` |

Progress, which is for the seek bar, is left out. A failed read ends `startLoading`, which `IterablePlayer` reports and does not repeat.
`full` and `late` are history: that the last load stopped for lack of room, and
that results were taken although the topics had been changed and changed back
(the code compares topics by `isEqual`, so it does not notice).

### 3.9 TopicAliasingPlayer and MessagePipeline

`TopicAliasingPlayer` has the layer's operations as operators on its variables;
`MessagePipeline` extends it and makes actions of them. The composed player
emits arrays of messages, numbered, on any of its topics, since it learns late which ones are wanted,
and changes its id when it connects to another session.

| Code | Action |
|---|---|
| a player's emission, `TopicAliasingPlayer.#onPlayerState`, the listener of `MessagePipeline` | `PlayerEmits` (`TakeState`, `Process`, `Listen`) |
| `updatePlayerStateAction` | `Distribute` |
| `serverInfo` of another session, as `FoxgloveWebSocketPlayer` takes it | `NewSession` |
| `store.reset()` for a state with another player id, and the panels, which are mounted anew (`P/Workspace.tsx:454`) | `DistributeAnew` |
| `updateSubscriberAction`, `setSubscriptions` of a panel | `ChangeSubscriptions` |
| the debounced `player.setSubscriptions` | `SetPlayerSubscriptions` (`SetSubscriptions`) |
| `setGlobalVariables` | `SetVariables` (`ChangeVariables`) |
| `renderDone`, the timer for the frame, `pauseFrameForPromises` | `RenderDone`, `FrameTimer`, `PausesEnd` |
| `pauseFrame` and the function it returns | `PauseFrame(p)`, `Resume(p)` |
| unmounting, another player | `Close` |

What is abstracted. Whatever the alias functions are, what matters is whether the aliases changed:
the global variables switch them on and off, and each processor that is built has a number. An
alias stands for one topic and hides none. Left out: user scripts (the layer above), states without
`activeData`, `setAliasFunctions`, publishers, services, assets and parameters (which pass through). Another player gets a store and a
listener of its own, so `Close` is the end of this model; the store is reset only when the same player changes its id.
`fresh` is history: the topics with a message that came into the store after the last reset and after
the topic last lost its subscribers.

### 3.10 CachedFilelike and VirtualLRUBuffer

`VirtualLRUBuffer` is a value and its methods are operators: which blocks are in
memory in order of access, which positions have data, and which position of the
remote file the byte at each is from. `CachedFilelike` is synchronous between two
events of a stream; `#updateState` runs at the end of each of its actions.

| Code | Action |
|---|---|
| `read` | `Read(start, end)` |
| `#updateState`, `#setConnection` | `UpdateState`, an operator of the actions; `Serve`, the requests it resolves |
| `getNewConnection` and its two cases | `NewConnection`, `Reaches`, `ConnectionFor`, `ReadAhead` |
| data of the current stream, of an old one | `Data(n)`, `OldData` |
| error of the stream | `StreamFails` |
| 100 ms after an error | `TimePasses` |
| `VirtualLRUBuffer.slice`, `copyFrom`, `#getBlock` | `Slice`, `CopyFrom`, `GetBlock` |

A position stands for some bytes. `open` is done before anything is read. The two
kinds of cache, limited and holding the whole file, are two initial states, and so are a source that
keeps reconnecting and one that does not. A file that was closed after errors keeps its requests, which were
rejected, and its connection, as the code does; nothing looks at them any more. `stale` is the
position of a stream that was destroyed, because another one replaced it or its range was complete.

### 3.11 FoxgloveWebSocketPlayer

The player and the server it talks to. The server acts at once on what it is sent, and
what it sends arrives in order and late (`toClient`): a player cannot tell this from a server
that acts late. What is sent before the connection is open is lost, as the worker that
holds the WebSocket throws then.

| Code | Action |
|---|---|
| `#open`, its timers; `open` and `close` events | `Open`, `Opened`, `ConnectionCloses(restart)` |
| `#resetSessionState` | `ResetSessionState` |
| `serverInfo`, `#setupPublishers` | `HandleServerInfo` |
| `advertise`, `unadvertise`, `#processUnresolvedSubscriptions` | `HandleAdvertise`, `HandleUnadvertise`, `Subscribe` |
| `message`, `time` | `HandleMessage`, `HandleTime` |
| `serviceCallResponse`, `fetchAssetResponse` | `HandleServiceCallResponse`, `HandleFetchAssetResponse` |
| `setSubscriptions`, `setPublishers` | `SetSubscriptions(ts)`, `SetPublishers(ts)` |
| `callService`, `fetchAsset` | `CallService`, `FetchAsset(u)` |
| `#emitState`, debounced | `Emit`, `ListenerResolves` |
| the server (external) | `ServerAdvertises`, `ServerUnadvertises`, `ServerSendsMessage`, `ServerPublishesTime`, `ServerAnswers` |

What is abstracted. A channel is a number with a topic; the constant `TopicOf` may give
two channels one topic. A subscription id and the channel it is for are what both sides keep.
The client hands out ids in the order the player asks, which is the order of a set that the model does not
follow: `Subscribe` tries every order. `settled`, `forgotten`, `revived` and `shadowed` are history. What is left
out is listed at the head of the module: `close()`, servers that do not publish the
time, parameters, status and the connection graph, channels that cannot be
parsed, the limit of 400 MB for one state, `publish()` and the problems.

## 4. Runs

| Run | Result | What it shows |
|---|---|---|
| `player` | passes, about 881,000 states | four calls of any kind at any await, failures of the source, a slow or lost listener: the safety, contract and liveness properties below |
| `player_seek` | violation of `SeekRequestKept` | a seek made while a state is about to finish is overwritten by that state's `#setState("idle")` |
| `buffered` | passes, about 8,000 states | three iterators over one queue with stamps, problems and failures |
| `cache` | passes, about 17,000 states | three iterators and backfills over blocks that are cut short, evicted, given up and read again |
| `blocks` | passes, about 44,000 states | four changes of the topics while blocks are read, aborted, trimmed and refused |
| `pipeline` | passes, about 977,000 states | two panels that subscribe, unsubscribe and pause frames while a player, which changes its id, and the global variables emit states |
| `filelike` | passes, about 157,000 states | reads of every kind of range through both kinds of cache while streams are replaced, deliver late and fail |
| `websocket` | passes, about 688,000 states | subscriptions, publications, calls and assets while channels come and go, time goes back, and the connection is lost and made again, to the same or another session |
| `prefetch` | passes, about 32,000 states | READs answered in any order of a file that shrinks and grows, failures, a consumer that pauses and destroys the stream |
| `prefetch_memory` | violation of `MemoryBounded` | a paused stream goes on reading and buffers the whole file |
| `export` | passes, about 180,000 states | two files of three frames through a window of two, with cancels, a retry, failures of each call and write, closes of the SSH session and of the WebSocket, idle timeout, kick |
| `export_cancel` | violation of `CancelVoids` | a cancel that loses its race is forgotten and the package reported complete |

Properties of `player`:

- `NeverAhead` – no message is emitted before its time.
- `InvariantsNeverThrow` – the "Invariant:" errors of the code never occur.
- `NothingSkipped` – ticks leave no gap, except in three situations that section 5 tells of: a
  pause that drops what a tick had read, a pause that replaces the reset which would have repeated the message
  read ahead, and a stamp that is left from before a seek back. The exceptions are kept as narrow as the variable `contiguous` can make them.
- `RestingFrameIsCurrent` – the debounced emission catches up: what is shown at rest
  is the player's state.
- `FramesHonourContract` – refinement of `FrameContract`: among other things, messages come in
  log order, once, between seeks, unless `playUntil` made a tick go back in time.
- `CloseCompletesUnlessOrphaned` – `close()` is carried out, but for a frame whose
  promise the pipeline has forgotten (section 5) and but for an error that ends the loop.
- `ComesToRest` – when the calls stop, the player ends in idle or stops.

Properties of `buffered`:

- `NobodyWaitsInVain` – no lost wakeup: the reader sleeps only while the producer runs, the producer only while
  there is a result to take; and while a call is pending somebody goes on by itself.
- `IteratorKeepsPromise` – refinement of `MessageStream`.
- `CallsWearDown` – every step that is taken while a call is pending leaves fewer of them: producer
  and reader do not send each other round in circles.
- `CallsReturn` – every call returns.

Properties of `cache`:

- `BlocksTellTheTruth` – a block holds exactly what the source has in its range, blocks
  do not overlap, and the size the cache goes by covers what it holds; also the types.
- `BackfillIsLatest` – a backfill answered from blocks is what the source would have answered. The exception
  is a chain of blocks that contains one that was only started (section 5).
- `IteratorKeepsPromise` – refinement of `MessageStream`: mixing blocks and source, nothing is lost or repeated.

Properties of `blocks`:

- `BlocksAreComplete` – a block has all messages of each topic it claims, and its size is theirs; also the types.
- `CacheBounded` – the blocks never take more than the cache may.
- `RestsWhenLoaded` – the loader waits only when everything that is wanted is loaded or
  there is no room (`full`). `late` is the exception that section 5 tells of.
- `LoadingRests` – loading comes to rest and, when stopped, to an end.

Properties of `pipeline`:

- `OneStateAtATime` – the listener is never called before the last state was rendered, which would
  throw; also the types.
- `PlayerKnowsSubscriptions` – once the debounced call was made, the player sends what the panels want, aliases resolved.
- `PanelsAgree` – panels on one topic have the same last message, late subscribers too, and it is none of a former
  session, nor one that was there before the topic lost its last subscriber (`fresh`).
- `NeverSetBack` – no panel gets an earlier message after a later one.
- `FramesEnd` – every state is acknowledged, whatever panels do with `pauseFrame`.

Properties of `filelike`: `DataAreTheFile` (what the buffer claims to have is in memory and
is the file's; also the types), `ReadsAreServed` (while a read waits, the connection still has before it something of the
first one that is missing), `ReadsAreAnswered` (unless the file was closed after errors).

Properties of `websocket`:

- `ServerSendsWhatIsWanted` – once everything has arrived, the server has one subscription for each topic that is wanted and
  offered, and none else, and knows what the player takes for published. The exceptions are topics given up while
  disconnected (`revived`) and topics with a second channel (`shadowed`); also the types. That the
  player itself forgets its publications when the connection is made again (section 5) is not excluded but
  outside what the property compares.
- `FramesAreOfOneTime` – the messages that go into the next state are in order and none is
  later than it.
- `CallsSettle` – assets and service calls come or fail. The exception are calls whose callback is deleted
  (`forgotten`).

Properties of `prefetch`: `NeverStalls` (there is always something to be answered, issued, pushed or told, unless
the consumer has to act: an empty piece, say, would stop delivery for good; also the types),
`NoHandleLeaks` (open, fstat and READ answers may all come after the destruction),
`DeliversFile` (refinement of `ByteStream`), `StreamFinishes`.

Properties of `export`:

- `NothingStalls` – while the connection lasts, whatever the dialog waits for is on its way, with the SSH
  layer, being transferred, or answered in terms the dialog understands; and a transfer whose window is full has
  frames, writes, an acknowledgement or its cancel under way. A fault here, such as a bridge that
  ignores the newer of two acks, is seen by no other property: the stream of a transfer that stalls
  may still fail, and under weak fairness it does, which ends the wait that `WaitEnds` is about.
- `OneTransfer` – the check for a running download and its start are separated by an
  await; no second file size is ever awaited.
- `FileIntact` – frames carry no request, yet the package gets those of the file it is writing,
  in order, and all of them before the file counts as complete.
- `WithinWindow` – frames on the wire and not yet written never exceed the
  window, even those of a download that was given up.
- `NoSessionLeak` – no SSH session stays open that the bridge does not hold.
- `AnswersOnce` – nothing is said of a request after its last answer.
- `WaitEnds` – whatever the dialog waits for comes or fails, while it has a WebSocket.

For each property of a passing run `PROJECT.json` names a mutant: a plausible bug
in the mapped code, written as an operator `…Mutant` next to the one it
replaces, with which TLC finds the property violated.

### Bounds

- `MaxCalls = 4`: two calls are enough to supersede one state by another, a third
  to supersede that, a fourth to play or close on top of it. Timers of the
  player itself and the listener are not counted.
- `EndTime = 3`, `SeekOnStart = 0`, `MaxTick = 2`: start-play ends inside the data,
  ticks of different lengths exist, one of them overshoots the end, and a seek can
  go back (to 2 from the end), forward or (time 4) beyond the end. `PlayUntilTimes = {1}` lies between the start and
  both targets of a seek: a `playUntil` that is reached, one that a seek has passed, and one that
  is called while such a seek is pending.
- The log has two topics, two messages at one time, a stamp with messages at its
  time and a message at the last time. `player_seek` uses a shorter log, which
  gives a shorter counterexample.
- `MaxIterators = 3`: an iterator that starts after one that was aborted and after one that
  failed or ended. `ReadAhead = 2`, `MinReadAhead = 1` over times 0 to 7: results
  fall before, at and beyond both limits, and a stamp lies far ahead.
- `Chunk = 2`, `Concurrency = 3`, sizes 0, 3, 6 and 9: an empty file, files that end within and at
  a chunk, a file longer than the read-ahead; two changes of size: one that shrinks
  below what is being read and one back. `HighWater = 3` is reached in the middle of a piece.
- `FileFrames = 3`, `Window = 2`: a transfer pauses and resumes, and ends with acks outstanding.
  `Files = 2`: frames and acks of the first may meet the second. `MaxRetries = 1`: a cancelled
  export is followed by another over the same session.
- `cache`: seven results on two topics, two messages at one time with a problem between them, a stamp; iterators
  start and end inside and at the edges of what earlier ones left. `MaxBlockSize = 2`
  cuts blocks short, `MaxTotalSize = 3` evicts one of two, `MaxIterators = 3` reads again what was evicted.
- `blocks`: three blocks over times 0 to 4, so that the last is shorter; messages and a
  stamp at their edges; `MaxCacheSize = 4` does not hold both topics. Four changes:
  away, back, to another subscription of the same topic, and on.
- `pipeline`: two panels, one of which pauses frames, two topics and an alias of one; two arrays of
  messages, since each is compared only with the one before, and one processor, which
  is built, dropped and met by states on both sides; two ids of the player, so that states of the old session are in
  the store, in the alias layer and with the listener when the new one begins.
- `filelike`: nine positions in blocks of two, the last one shorter; a cache of three blocks and one of the whole file;
  `Threshold = 1` makes a connection good enough, or not, for reads that lie ahead; chunks of one and two; three
  reads, so that two wait while a third is answered; two errors, the second of which closes the file.
- `websocket`: two channels on one topic and one on another, `MaxEvents = 3` of the server and the
  network together (a channel that goes and comes back under another number, a restart in between), `MaxCalls = 2`
  (a subscription that is changed or given up, a call and an asset of the same number).
- Deadlock is not checked: the systems rest when nobody calls, and stop when
  closed or when a bound is used up. That they rest only where they may is
  what `ComesToRest`, `CallsReturn`, `NobodyWaitsInVain`, `StreamFinishes`, `NeverStalls`,
  `WaitEnds`, `NothingStalls`, `FramesEnd`, `LoadingRests`, `RestsWhenLoaded`, `ReadsAreAnswered`,
  `ReadsAreServed` and `CallsSettle` check.

### Fairness

Weak fairness of `Run`: an awaited read, backfill, timer or reset
settles, and the run loop then goes on; nothing else can disable it for ever. Weak
fairness of `ListenerResolves`: the listener's promise resolves, since
the pipeline bounds `pauseFrame` by a timeout; not if it was forgotten. Weak
fairness of `SetListener`: a player is made to be listened to. In the buffer:
`Producer` (reads settle, a notified waiter runs) and `Reader` likewise. In the stream:
`Progress` (the server answers, `Readable` does its work) and `Resume` (the
bridge resumes the stream when the client acknowledges). In the export: the bridge's handlers,
answers and stream (`BridgeWorks`) and the client's (`ClientWorks`), that is, messages are
handled, calls of the SSH layer are answered, chunks are written and a closed WebSocket is noticed.
In the pipeline: `Frame` (React renders, the timers of the listener fire) and
`SetPlayerSubscriptions` (the debounced call is made); no panel need resume, and
the player need not emit. In the block loader: `Advance` (reads settle, the loop goes on). In
the file: `Stream` (a stream delivers more or fails). In the websocket player: `Handle`
(what was sent arrives), `Answers` (the server answers) and `Open \/ Opened` (a connection
that was lost is tried again every three seconds, in the end with success). The
cache is checked for safety only and needs none.
No call, act of the user, failure, timeout or loss of a connection is fair: none need happen.

## 5. What the violations say

Each is a behaviour of the code that its own documentation or an obvious
reading of it contradicts; `PROJECT.json` quotes the lines under "findings".

1. **A seek can be lost** (`player_seek`). `#stateStartPlay` and
   `#resetPlaybackIterator`'s callers set the next state after an await without
   looking at `#nextState`; a seek requested during that await is overwritten.
2. **A paused stream buffers the whole file** (`prefetch_memory`). Every READ that
   completes pushes again, whatever the last `push` answered, and moves the limit of
   the read-ahead.
3. **A cancel can be forgotten** (`export_cancel`). If it reaches the bridge after the last
   `fileEnd`, or while the file's size is awaited, the bridge ignores it, the outcome is "completed", and
   the dialog reports success.

### Met while modelling

The models have these behaviours too. No run is there to show them: the
properties that they would break name them as exceptions, or no line of the
repository says otherwise.

- `IterablePlayer.ts:948`: a superseded tick returns without its `msgEvents`; `idle`
  keeps the iterator, which has moved past them, so a pause can lose messages.
- `IterablePlayer.ts:1053`: when the subscriptions changed, a tick drops the message read ahead, since the reset of the
  iterator it requests will repeat it; a pause that comes before that state is taken up replaces it by `idle`,
  and the message is lost.
- `IterablePlayer.ts:849` with `:217-226`: `playUntil` compares its time with the current one, not with the target of a seek that
  is pending. If it lies between them, the tick that follows the seek is clamped to it and goes back:
  time decreases, and messages may be delivered again, with `lastSeekTime` unchanged
  (`P/players/types.ts:135-139` wants it to differ then).
- `IterablePlayer.ts:859`: after a seek back, `#lastStamp` of the old iterator makes ticks believe that
  there is nothing before it; messages then arrive late, in a burst.
- `IterablePlayer.ts:955` with `MessagePipeline/index.tsx:198-200`: the listener's
  `resolveFn` is forgotten just before `close()`; a tick awaiting that frame never goes on, `#stateClose`
  never runs, and the source is not terminated.
- `ServerExportBridgeClient.ts:273`: `download()` does not look whether there is a WebSocket; if it was closed between
  two downloads, the next one waits for ever.
- `CachedFilelike.ts:184`: a read after the file was closed is kept in a list that nothing looks at
  any more, although lines 31-35 say that after some retries read requests are rejected.
- `VirtualLRUBuffer.ts:82-83`: a comment says that of an input longer than the buffer's blocks the earliest data are
  evicted. They are, but line 92 then adds the whole range to what the buffer has. `CachedFilelike` never makes such an input,
  which section 6 proves.
- `BlockLoader.ts:276`: topics that are changed and changed back during a read pass
  `isEqual`, and what was read goes into blocks that were told meanwhile to need something (`late`).
- `CachingIterableSource`: an iterator that is given up takes what was pending with it, but
  not its size, which `#totalSizeBytes` counts until the topics change; a block that was only started claims the instant it starts at, and a
  backfill believes it; eviction may choose the block an iterator is writing to, which then throws.
- `TopicAliasingPlayer.ts:182-186`: a player's state that comes while one caused by the global variables is with
  the listener is dropped.
- `store.ts:269-279`: with its last subscriber a topic loses its last message, so that a panel which comes back
  to it does not get "this old stale message". A state that comes before the player knows, or one that is processed again for
  changed aliases, puts a last message back, and the panel gets that; `PanelsAgree` takes it for current.
- `FoxgloveWebSocketPlayer/index.ts:215-219`: on a new connection, service calls of the old
  one lose their callbacks and never settle; publications are cleared but not advertised again; topics unsubscribed
  from while disconnected are subscribed to again.
- `FoxgloveWebSocketPlayer/index.ts:810-815`: the answer to an asset request deletes the callback of the service
  call with the same number; an answer that comes after the session was reset throws.
- The same player: a second channel on a topic is refused, and not taken either when the first
  one is withdrawn; after a reconnection the time of its states falls to 0 with `lastSeekTime`
  unchanged; a session reset keeps the number of bytes of messages that were dropped;
  `unadvertiseServices` takes `Object.values` of a `Map`, which is empty.

## 6. Proofs

`IterablePlayer_proofs` (for every log, every set of topics, times, and any number of calls):

- `TypeCorrect`: `Spec => []TypeOK`.
- `MessagesNeverAhead`: `Spec => []NeverAhead`.
- `NeverThrows`: `Spec => []InvariantsNeverThrow`.
- `RestShowsCurrentState`: `Spec => []RestingFrameIsCurrent`.
- `TicksLeaveNoGap`: `Spec => []NothingSkipped`.
- `PlayerHonoursContract`: `Spec => FramesHonourContract`, the refinement of `FrameContract`.

`NeverAhead` and `InvariantsNeverThrow` are not inductive: a tick's messages are compared
with `currentTime` only when they are emitted, and whether a state finds an
iterator or a current time depends on which state ran before. The inductive
invariant `IInv` adds `AtState` (what each place the loop is suspended at has
already established), `BatchIsLocal` (a tick's messages exist only between its
read and its emission) and `SilentUntilInitialized` (no message waits to be emitted before the source
is initialised). There is one lemma per action
or group of actions, with the emission treated once for all its users.

What rest shows follows from the debounce: while the listener is free nothing is pending
(`Debounced`), so that whoever last changed the state has emitted it, and in idle
nothing changes it without an emission (`Resting`). That no message due is missing
follows one message from the log to the listener (`Accounted`): until an iterator has passed it, it is
ahead; then it is the message read ahead, in a tick's batch, in `#messages`, or heard. `ReadAhead` says
that nothing unread comes before the message or the stamp that was read ahead, `Gapless`
that no message up to the current time is missing.

The contract needs the converse: that nothing is told again. `Ordered` has three parts. What waits in `#messages`
may be told (`Deliverable`): it is later in the log than all that was heard since the last seek, or the seek's own, one of each
topic. What reached the listener, what the tick has read, what was read ahead and what is
unread follow each other in the log (`InOrder`). And what is heard is not later than the
current time (`InTime`), behind which a new iterator starts. It
holds until an error or a tick that goes back in time. `Fresh` says that nothing is
heard before the beginning of the data has been read. A step then either emits what it may tell or leaves it to wait
(`Offers`, `Honest`).

`BufferedIterableSource_proofs` (for every log, read-ahead and any number of iterators):

- `TypeCorrect`: `Spec => []TypeOK`.
- `NoLostWakeup`: `Spec => []NobodyWaitsInVain`. `WaitsAgree` ties a registered waiter to the
  place its coroutine is suspended at and the producer's promise to the place it has reached, with which
  `SleepersAreWoken` is inductive. `CallsAgree` says where a pending call waits (a reader that was
  woken finds a result or the end, an aborted producer does not wait for the reader), from which follows that
  somebody goes on (`SomebodyGoesOn`).
- `CallsTakeFewSteps`: `Spec => CallsWearDown`. `StepsLeft` counts the results that the producer has still to
  read, the places it passes with the present one, and the one wakeup of the reader.
- `BufferKeepsPromise`: `Spec => IteratorKeepsPromise`, the refinement of `MessageStream`. The invariant is `Segmented`:
  the queue joins what was yielded to what the source yields next (`Joins`), repeating results but
  leaving none out. `Orderly` says that nobody aborts a producer whose iterator is being read and that
  one which was not aborted ends with the source, and `Endings` that an iterator which is to say `done` has
  yielded everything or will find the producer's promise rejected.

`CachingIterableSource_proofs` (for every log, limit of the cache and of a block, and any number of
iterators that are given up, fail or evict):

- `TypeCorrect`: `Spec => []TypeOK`.
- `BlocksHoldWhatTheyClaim`: `Spec => []BlocksTellTheTruth`.
- `BackfillsAreLatest`: `Spec => []BackfillIsLatest`.
- `StreamsAreTheSources`: `Spec => IteratorKeepsPromise`, the refinement of `MessageStream`.

What the blocks have (`CacheInv`: a block is `Sound` and holds all of its range unless it was only
started, no two meet, each has one place in the order of access, and the total counts at least their sizes and
what is pending) depends on where an iterator is suspended while it writes one (`Reading`): the block in
use ends before the time that is being read, and what was read of that time is pending. Eviction takes away
whole blocks, and the others stay as they are. For the refinement
`IteratorInv` says of each place where an iterator can be (`InLoop`, `InCache`,
`InSource`) that what it has still to yield lies there and that nothing there was yielded. A backfill goes from block
to block backwards: a chain of blocks without a gap covers all times from its first block on
(`ChainCovers`).

`BlockLoader_proofs` (for every log, block size, and any number of changes of the topics):

- `TypeCorrect`: `Spec => []TypeOK`.
- `BlocksStayComplete`: `Spec => []BlocksAreComplete`.
- `CacheStaysBounded`: `Spec => []CacheBounded`.
- `WaitingMeansLoaded`: `Spec => []RestsWhenLoaded`.
- `LoadsAreFinite`: `Spec => LoadingWearsDown`. Every step of the loader lowers, in lexicographic order, the loads that
  may follow (an aborted one is followed by one more), the blocks it has not come to, and the results that may be read
  before the block is written. Only a change of the topics raises it.

`DataInv` is about what is in the blocks: those that were made are whole (`BlocksAreWhole`), the total
that a load counts is that of the blocks (`TotalAgrees`), and while the cursor is read, the messages
of its block and of the rest of its span are in the results, held, or ahead, in this order
(`CursorCovers`) – also when the topics change at an await and the
results come to a load that is aborted. `NeedInv` is about what the blocks need: a
load that was not aborted is for the present topics (`LoadFollows`), a block has every topic that it
is not said to need (`NeedKnown`), a cursor reads for blocks that
need just what it fetches (`SpanNeeds`), the blocks behind it need nothing (`BehindIsDone`), and a loader
waits only when none needs anything or nothing more fits (`RestIsDone`).

`RemoteFiles_proofs`, first part (`PrefetchStream`, for every chunk size, concurrency, high-water
mark and file):

- `TypeCorrect`: `Spec => []TypeOK`.
- `HandlesAreClosed`: `Spec => []NoHandleLeaks`.
- `StreamDeliversFile`: `Spec => DeliversFile`, the refinement of `ByteStream`.
- `StreamGoesOn`: `Spec => []NeverStalls`.
- `RequestsBounded`: `Spec => []WindowBounded`. At most `Concurrency` READs are in flight, and they and the pieces that wait
  for earlier ones lie within the read-ahead after what was pushed. (`prefetch_memory` shows that this bounds requests, not memory.)

The invariant adds `Lifetime` (an open is answered before there is a handle, and the
stream is stopped exactly by its last event), `BufferInOrder` (the pieces in `Readable`'s buffer join what
was handed over to what is delivered next) and `EndInFile` (the end the stream knows
is no smaller than the smallest size of the file, which is why it does not end early). For the last two
theorems, what was issued is in flight, read or behind the end, without a gap after what was pushed (`Tiled`);
when `#pump` runs, `#deliverPending` has left nothing to deliver (`LoopsInTurn`); and a stream at rest from which
more is asked for awaits an answer (`AskedIsAwaited`).

`RemoteFiles_proofs`, second part (`CachedFilelike`, for every size of the file, of a block and of the
cache, and all reads and failures):

- `DataStayTheFile`: `FileSpec => []DataAreTheFile`.
- `WaitingReadsAreServed`: `FileSpec => []ReadsAreServed`. It does not follow that a read comes nearer
  to its end with every step: what it waits for may be evicted again while it is read.

`FileInv` adds that the list of blocks has each once, that the current stream is at the position its connection goes
on at, and that neither a request nor, unless the whole file fits, a
connection is longer than the cache. This last part is the reason for the property, and
follows from the case analysis of `getNewConnection` (`NewConnectionFits`): a chunk then lies in no more blocks
than may be in memory (`FewBlocks`: a range lies in at most one block more than its length takes, and there
are two more than the cache takes), so that no block of the chunk is evicted for a later one of
it. `CopyIs` follows the loop of `copyFrom` block by block: the blocks written are the last of the list (`Ends`),
so the first, which is evicted, is none of them (`FirstIsOther`), and its data are no longer claimed. A read resolves only
when all of it is there, and changes nothing but the order of access (`SliceIs`).

`ServerExport_proofs` (for every size and number of files, window and number of retries):

- `TypeCorrect`: `Spec => []TypeOK`.
- `RequestsAnsweredOnce`: `Spec => AnswersOnce`. The invariant is `OneOwner`: a
  request is in one place at a time – on the wire, with the SSH layer, being
  transferred, or answered. Every step of the bridge moves at most one request
  (`Moves`) and says something of no other; a step of the client adds at most one, with a
  new id, and otherwise leaves the calls on the wire alone (`ClientSays`).
- `SessionsDoNotLeak`: `Spec => []NoSessionLeak`. The invariant is `OneConnection`: the
  one connection of a client's life has not been asked for, is on its way,
  is being made, is there or is over, so a session that comes to be never meets
  another one.
- `TransfersOneAtATime`: `Spec => []OneTransfer`. The bridge looks for a running download
  before it asks for the file's size and starts one when that has come; nothing in the
  bridge keeps two from passing. The client does: `OneDownload` says that whatever
  the bridge has to do with downloads (`Held`: asked for, its size awaited, or running) is about one
  request, which is the client's own or one whose cancel is on its way, ahead of
  whatever a retry asks (`Cancelling`); and when the answer that is waited for has come, nothing
  is left (`AnswerEndsAll`).
- `FileStaysIntact`: `Spec => []FileIntact`. `InPackage` says that the chunks written and
  to be written are the first of one file, `FramesFollow` that the frames on the wire are those that come next,
  without a gap and before the file's end, and `TransferFollows` that what the
  bridge has sent is on the wire or in hand. A frame on the wire belongs to the
  download that runs or to one that was voided (`FramesOwned`), and the next download is asked for only after
  an answer that comes behind all of them.
- `FramesWithinWindow`: `Spec => []WithinWindow`. By the same invariant the frames on
  the wire have numbers of their own between what is in hand and the window past what is
  written, since the bridge believes written only what is (an ack names its download). It can
  be counted by an injection.

- `ExportNeverStalls`: `Spec => []NothingStalls`. A dialog that waits has asked for something (`WaitsFor`). `Tracked` says of a
  request that it is on the wire, with the SSH layer, transferred or answered, and wherever it is, that
  it is what this step of the dialog asks for, so that the answer is one it understands. `Acknowledged`: the last chunk
  written of the file that is transferred is known to the bridge, or its ack is on its way; so a full window has
  frames, writes or this ack to empty it. Each side's steps are treated once for all requests
  (`BridgeTracks`, `ClientTracks`).

`MessagePipeline_proofs` (for every set of topics, aliases, panels, and any number of frames):

- `StatesShownOneAtATime`: `Spec => []OneStateAtATime`.
- `PlayerToldSubscriptions`: `Spec => []PlayerKnowsSubscriptions`.
- `PanelsAlwaysAgree`: `Spec => []PanelsAgree`.
- `PanelsNeverSetBack`: `Spec => NeverSetBack`.
- `FramesWearDown`: `Spec => StagesWearDown`. While a state is being shown, at most three steps of the listener
  are left until it is acknowledged, and nothing that player, panels or variables do sets them back.

The invariant adds to the types (which say that the mutex of the alias layer is held just while the
listener is at work) `PlayerFollows` (the player was told what the layer's processor makes of the layer's
subscriptions), `LayerFollows` (these are the panels' unless the debounced call is due) and
`LastStateIsNewest`: nothing in the store is newer than the state that may be processed again, which is why
that never sets a panel back. A last message is of a topic in `fresh`, and so are those the panels were given of topics
they subscribe to, since a topic leaves `fresh` only with its last subscriber or with the reset, and both take the
last message along.

`FoxgloveWebSocketPlayer_proofs` (for every set of channels and topics, any number of calls and
of events of the server and the network):

- `SubscriptionsSettle`: `Spec => []ServerSendsWhatIsWanted`.
- `FramesDoNotMix`: `Spec => []FramesAreOfOneTime`.
- `CallsAreNotLost`: `Spec => []CallsAreKept`. Of every asset and service call that has not settled the player keeps
  what will settle it (`Booked`; forgotten callbacks are the exception), and while it is connected
  the server has the request or the answer is on the wire (`Pursued`).

`ServerSendsWhatIsWanted` speaks of the moments when nothing is on the wire. The invariant
says what holds while there is: `WireAgrees` follows one channel through it. What was sent of a
channel and has not arrived alternates between advertisements and withdrawals; the last
of them tells whether the server has the channel, the first is a withdrawal if the player has it. With
`IdsAreFresh`, `ChannelsAreKnown`, `WantedIsKept` (a topic that is wanted has a subscription or waits for a
channel) and `ServedIsHeld` (the server's subscriptions are those of the player, but for channels whose
withdrawal is under way), all of it is inductive, and an empty wire leaves the property. `PublishedAgrees` and
`GreetingIsFirst` do the same for publications. Facts about sequences that lose their head or gain a last
element are lemmas of their own.

The assumptions are the named ones of the modules: the log is in time order, no message after a stamp is of its time or
earlier, bounds are
naturals, the small read-ahead is at most the large one, topics are finite, a channel has a topic, an alias is no topic of
the source. TLC evaluates them in every run.

Sums over blocks and folds over sequences are CHOOSEn functions in the library. `BlockLoader_proofs`,
`CachingIterableSource_proofs` and `RemoteFiles_proofs` show that these functions exist,
by an induction over a set of naturals instead of a formula: a natural that was missing from it would make
a smallest one, as their order is well-founded. What a step of a fold does is then a fact about two
neighbouring values of it.

Only model-checked: liveness (`ComesToRest`, `CloseCompletesUnlessOrphaned`, `CallsReturn`,
`StreamFinishes`, `WaitEnds`, `FramesEnd`, `LoadingRests`, `ReadsAreAnswered`, `CallsSettle`), since the
provers have no rules for fairness and ENABLED. What these properties need besides fairness is safety, and
that part is proved for all but the first two:

| Liveness | What is proved of it |
|---|---|
| `CallsReturn` | somebody can go on (`NoLostWakeup`), and each step leaves fewer (`CallsTakeFewSteps`) |
| `StreamFinishes` | the stream has something to do while its consumer takes what comes (`StreamGoesOn`) |
| `ReadsAreAnswered` | the connection leads to a read that waits (`WaitingReadsAreServed`) |
| `WaitEnds` | while connected, what is waited for is under way, and a full window is about to be emptied (`ExportNeverStalls`) |
| `FramesEnd` | three steps at most, none undone (`FramesWearDown`) |
| `LoadingRests` | each step leaves less to load (`LoadsAreFinite`) |
| `CallsSettle` | the request or its answer is somewhere (`CallsAreNotLost`) |

`StagesWearDown`, `LoadingWearsDown`, `CallsAreKept` and `WindowBounded` are stated in the proof modules and are
properties of no run.

## 7. Not modelled

Decoding of file formats, message paths, layout reducers, settings, themes
and the user interface: sequential code in which one call has one result, and unit
tests reach it. Panels' rendering and
plot reduction work on floating point data. Of the bridge, the handshake and
a client that sends malformed or unexpected messages; a close event of a session
that was replaced by another connect on the same WebSocket is listed as a
hazard, since the dialog never reconnects on one.

Of components that are modelled in part, sections 3.6, 3.9 and 3.11 say what is left out.
The pipeline's publishers, services and assets are calls that go
through to the player. `RosbridgePlayer` has the same duties as the websocket player over
another protocol, of which the library keeps the state; it, the image panel's
synchroniser and the 3D panel's queues are what a continuation would take next.
