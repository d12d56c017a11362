---------------------------- MODULE ServerExport ----------------------------
(***************************************************************************)
(* The export dialog and its bridge client (ServerExport.tsx,              *)
(* ServerExportBridgeClient.ts) at work with the bridge.  The dialog       *)
(* connects, asks for the robot's clock, lists the directory, downloads    *)
(* the files one after the other into a package, and may be cancelled or   *)
(* left at any time; a failed export may be retried.                       *)
(*                                                                         *)
(* Listings of several directories are one listing.  A new connection      *)
(* means a new client and bridge session: the dialog's life ends there.    *)
(***************************************************************************)
EXTENDS SshBridge

CONSTANTS
  Files,       \* files of the export
  MaxRetries   \* bound: retries of the export

ASSUME ExportAssumption == Files \in Nat /\ MaxRetries \in Nat

VARIABLES
  ws,               \* #ws is defined
  nextRequestId,    \* #nextRequestId
  request,          \* #pending: the request that awaits its answer
  current,          \* #download's request on the client's side
  draining,         \* a download that has ended, with chunks to be written
  writes,           \* writeChain: frames to be written
  written,          \* frames of the current file in the package
  step,             \* where the dialog is
  file,             \* files downloaded so far or being downloaded
  cancelRequested,  \* session.cancelRequested
  connectionLost,   \* connectionLost
  retries,          \* retries so far
  cancelSent        \* history: this export has sent a cancel to the bridge

client == <<ws, nextRequestId, request, current, draining, writes>>
dialog == <<step, file, written, cancelRequested, connectionLost, retries, cancelSent>>
vars == <<bridgeVars, client, dialog>>

bridgeSide == <<toClient, link, over, session, transfer, operations, destroyed>>

-----------------------------------------------------------------------------
(* The client.                                                             *)

\* #sendRaw: without a WebSocket, or on one that closes, nothing is sent.
Post(messages) ==
  toBridge' = IF ws /\ link = "up" THEN toBridge \o messages ELSE toBridge

\* #request
Ask(type) ==
  /\ Post(<<Message(type, nextRequestId, 0)>>)
  /\ nextRequestId' = nextRequestId + 1
  /\ request' = nextRequestId

\* disconnect(); what still awaits an answer is rejected.
Disconnect(before) ==
  /\ Post(before \o <<Message("disconnect", None, 0)>>)
  /\ link' = IF ws THEN "down" ELSE link
  /\ ws' = FALSE
  /\ request' = None
  /\ current' = None

Cancel == <<Message("cancel", current, 0)>>

\* The next message is one of `types` and about `id`.
Arrives(types, id) ==
  /\ ws /\ toClient # <<>>
  /\ Head(toClient).type \in types /\ Head(toClient).id = id
  /\ toClient' = Tail(toClient)
  /\ UNCHANGED <<over, session, transfer, operations, destroyed>>

NoMessageTaken == UNCHANGED <<toClient, over, session, transfer, operations, destroyed>>

\* The download's promise rejects, and the package is voided. The chunks that wait
\* for the one being written are dropped: the aborted writer lets them through
\* unwritten, and their acks name a request that is over, which the bridge ignores.
Void ==
  /\ step' = "voided"
  /\ current' = None
  /\ draining' = None
  /\ writes' = <<>>

-----------------------------------------------------------------------------
(* Connection and preview.                                                 *)

Connect ==
  /\ step = "form" /\ nextRequestId = 1 /\ ws
  /\ Ask("connect")
  /\ step' = "connecting"
  /\ NoMessageTaken
  /\ UNCHANGED <<link, ws, current, draining, writes, file, written, cancelRequested,
                 connectionLost, retries, cancelSent>>

ConnectedArrives ==
  /\ step = "connecting" /\ Arrives({"connected"}, request)
  /\ Ask("serverTime")
  /\ step' = "clock"
  /\ UNCHANGED <<link, ws, current, draining, writes, file, written, cancelRequested,
                 connectionLost, retries, cancelSent>>

\* Without the robot's clock the browser's does.
ClockArrives ==
  /\ step = "clock" /\ Arrives({"serverTime", "error"}, request)
  /\ Ask("list")
  /\ step' = "listing"
  /\ UNCHANGED <<link, ws, current, draining, writes, file, written, cancelRequested,
                 connectionLost, retries, cancelSent>>

ListingArrives ==
  /\ step = "listing" /\ Arrives({"list"}, request)
  /\ request' = None
  /\ step' = "preview"
  /\ UNCHANGED <<toBridge, link, ws, nextRequestId, current, draining, writes, file,
                 written, cancelRequested, connectionLost, retries, cancelSent>>

\* An error, or a time range that the robot's clock shows to be invalid, leads
\* back to the form; but for a retry, the client is given up.
RequestFails ==
  /\ \/ step \in {"connecting", "listing"} /\ Arrives({"error"}, request)
     \/ step = "clock" /\ Arrives({"serverTime", "error"}, request)
  /\ step' = "form"
  /\ IF retries = 0
     THEN Disconnect(<<>>)
     ELSE request' = None /\ UNCHANGED <<toBridge, link, ws, current>>
  /\ UNCHANGED <<nextRequestId, draining, writes, file, written, cancelRequested,
                 connectionLost, retries, cancelSent>>

-----------------------------------------------------------------------------
(* runExport                                                               *)

\* After a retry's listing the export begins by itself.
Start ==
  /\ step = "preview"
  /\ connectionLost => retries > 0
  /\ step' = "between"
  /\ file' = 0
  /\ cancelRequested' = FALSE /\ cancelSent' = FALSE
  /\ connectionLost' = FALSE
  /\ NoMessageTaken
  /\ UNCHANGED <<toBridge, link, client, written, retries>>

DownloadNext ==
  /\ step = "between"
  /\ file < Files /\ ~cancelRequested
  /\ file' = file + 1
  /\ written' = <<>>
  /\ current' = nextRequestId
  /\ nextRequestId' = nextRequestId + 1
  /\ Post(<<Message("download", nextRequestId, 0)>>)
  /\ step' = "downloading"
  /\ NoMessageTaken
  /\ UNCHANGED <<link, ws, request, draining, writes, cancelRequested, connectionLost,
                 retries, cancelSent>>

\* The cancel is noticed, or the package cannot be written.
ExportStops ==
  /\ step = "between"
  /\ Void
  /\ NoMessageTaken
  /\ UNCHANGED <<toBridge, link, ws, nextRequestId, request, file, written,
                 cancelRequested, connectionLost, retries, cancelSent>>

\* After the last file the bridge is left, and the package completed.
Succeed ==
  /\ step = "between" /\ file = Files
  /\ step' = "succeeded"
  /\ Disconnect(<<>>)
  /\ NoMessageTaken
  /\ UNCHANGED <<nextRequestId, draining, writes, file, written, cancelRequested,
                 connectionLost, retries, cancelSent>>

-----------------------------------------------------------------------------
(* The download.                                                           *)

\* A frame says not whose it is: it is taken for the download that runs.
FrameArrives ==
  /\ ws /\ toClient # <<>> /\ Head(toClient).type = "data"
  /\ toClient' = Tail(toClient)
  /\ writes' = IF current # None THEN Append(writes, Head(toClient)) ELSE writes
  /\ UNCHANGED <<toBridge, over, link, session, transfer, operations, destroyed, ws,
                 nextRequestId, request, current, draining, dialog>>

\* The chunk is on disk; the ack is cumulative.
Written ==
  /\ writes # <<>>
  /\ writes' = Tail(writes)
  /\ written' = Append(written, Head(writes))
  /\ Post(<<Message("ack", IF current # None THEN current ELSE draining, Len(written'))>>)
  /\ NoMessageTaken
  /\ UNCHANGED <<link, ws, nextRequestId, request, current, draining, step, file,
                 cancelRequested, connectionLost, retries, cancelSent>>

\* The bridge is told unless the file's end has come.
WriteFails ==
  /\ writes # <<>>
  /\ Void
  /\ Post(IF current # None THEN Cancel ELSE <<>>)
  /\ NoMessageTaken
  /\ UNCHANGED <<link, ws, nextRequestId, request, file, written, cancelRequested,
                 connectionLost, retries, cancelSent>>

\* MUTANT of FileEndArrives: the download completes with chunks to be written.
FileEndArrivesMutant ==
  /\ current # None /\ Arrives({"fileEnd"}, current)
  /\ current' = None
  /\ writes' = <<>>
  /\ step' = "between"
  /\ UNCHANGED <<toBridge, link, ws, nextRequestId, request, draining, file, written,
                 cancelRequested, connectionLost, retries, cancelSent>>

FileEndArrives ==
  /\ current # None /\ Arrives({"fileEnd"}, current)
  /\ current' = None
  /\ draining' = current
  /\ UNCHANGED <<toBridge, link, ws, nextRequestId, request, writes, dialog>>

Completed ==
  /\ draining # None /\ writes = <<>>
  /\ draining' = None
  /\ step' = "between"
  /\ NoMessageTaken
  /\ UNCHANGED <<toBridge, link, ws, nextRequestId, request, current, writes, file,
                 written, cancelRequested, connectionLost, retries, cancelSent>>

DownloadFails ==
  /\ current # None /\ Arrives({"canceled", "error"}, current)
  /\ Void
  /\ UNCHANGED <<toBridge, link, ws, nextRequestId, request, file, written,
                 cancelRequested, connectionLost, retries, cancelSent>>

\* onSshClosed
SshClosedArrives ==
  /\ Arrives({"sshClosed"}, None)
  /\ connectionLost' = TRUE
  /\ UNCHANGED <<toBridge, link, client, step, file, written, cancelRequested, retries,
                 cancelSent>>

\* fileStart changes nothing here; the rest is about requests that are settled.
OtherArrives ==
  /\ ws /\ toClient # <<>>
  /\ \/ Head(toClient).type = "fileStart"
     \/ Head(toClient).type \in Last /\ Head(toClient).id \notin {request, current}
  /\ toClient' = Tail(toClient)
  /\ UNCHANGED <<toBridge, over, link, session, transfer, operations, destroyed, client,
                 dialog>>

-----------------------------------------------------------------------------
(* The user, and the end of the WebSocket.                                 *)

\* MUTANT of UserCancels: the package is voided without the bridge's answer.
UserCancelsMutant ==
  /\ step \in {"between", "downloading"} /\ ~cancelRequested
  /\ cancelRequested' = TRUE
  /\ cancelSent' = (current # None)
  /\ Post(IF current # None THEN Cancel ELSE <<>>)
  /\ Void
  /\ NoMessageTaken
  /\ UNCHANGED <<link, ws, nextRequestId, request, file, written, connectionLost,
                 retries>>

UserCancels ==
  /\ step \in {"between", "downloading"} /\ ~cancelRequested
  /\ cancelRequested' = TRUE
  /\ cancelSent' = (current # None)
  /\ Post(IF current # None THEN Cancel ELSE <<>>)
  /\ NoMessageTaken
  /\ UNCHANGED <<link, client, step, file, written, connectionLost, retries>>

UserRetries ==
  /\ step = "voided" /\ retries < MaxRetries
  /\ ws /\ ~connectionLost
  /\ retries' = retries + 1
  /\ Ask("serverTime")
  /\ step' = "clock"
  /\ NoMessageTaken
  /\ UNCHANGED <<link, ws, current, draining, writes, file, written, cancelRequested,
                 connectionLost, cancelSent>>

\* While it connects the dialog does not know its client: closing it then
\* changes nothing.
UserLeaves ==
  /\ step \notin {"connecting", "left"}
  /\ step' = "left"
  /\ Disconnect(IF current # None THEN Cancel ELSE <<>>)
  /\ draining' = None
  /\ writes' = <<>>
  /\ NoMessageTaken
  /\ UNCHANGED <<nextRequestId, file, written, cancelRequested, connectionLost, retries,
                 cancelSent>>

\* onclose: requests and the download are rejected, in no case is one resent.
ClientSeesClose ==
  /\ ws /\ link = "down"
  /\ ws' = FALSE
  /\ toClient' = <<>>
  /\ connectionLost' = TRUE
  /\ request' = None
  /\ IF current # None
     THEN Void
     ELSE /\ step' = IF request # None THEN "form" ELSE step
          /\ UNCHANGED <<current, draining, writes>>
  /\ UNCHANGED <<toBridge, over, link, session, transfer, operations, destroyed,
                 nextRequestId, file, written, cancelRequested, retries, cancelSent>>

-----------------------------------------------------------------------------
Init ==
  /\ BridgeInit
  /\ ws = TRUE /\ nextRequestId = 1 /\ request = None
  /\ current = None /\ draining = None /\ writes = <<>> /\ written = <<>>
  /\ step = "form" /\ file = 0 /\ cancelRequested = FALSE /\ connectionLost = FALSE
  /\ retries = 0 /\ cancelSent = FALSE

Bridge == BridgeNext /\ UNCHANGED <<client, dialog>>

Arrivals ==
  \/ ConnectedArrives \/ ClockArrives \/ ListingArrives \/ RequestFails
  \/ FrameArrives \/ FileEndArrives \/ DownloadFails \/ SshClosedArrives \/ OtherArrives

ClientWorks ==
  \/ Arrivals \/ DownloadNext \/ ExportStops \/ Succeed
  \/ Written \/ WriteFails \/ Completed \/ ClientSeesClose

User == Connect \/ Start \/ UserCancels \/ UserRetries \/ UserLeaves

Next == Bridge \/ ClientWorks \/ User

Spec == Init /\ [][Next]_vars

\* Messages are handled, the SSH layer answers, files end, chunks are written and a
\* closed WebSocket is noticed; the user, failures of the connections and the
\* idle timer are not relied on.
FairSpec ==
  /\ Spec
  /\ WF_vars(BridgeWorks /\ UNCHANGED <<client, dialog>>)
  /\ WF_vars(ClientWorks)

-----------------------------------------------------------------------------
(* Properties.                                                             *)

Steps == {"form", "connecting", "clock", "listing", "preview", "between",
          "downloading", "voided", "succeeded", "left"}

Kinds == {"connect", "realpath", "list", "serverTime", "fileSize"}

\* Messages that ask for an answer, and the other ones of the client.
Calls == {"connect", "list", "serverTime", "download"}
Notices == {"ack", "disconnect"}

Ids == Nat \ {None}

ToBridge == [type : Calls \union {"cancel"}, id : Ids, n : Nat]
              \union [type : Notices, id : Nat, n : Nat]
ToClient == [type : Last \union {"fileStart", "data"}, id : Ids, n : Nat]
              \union [type : {"sshClosed"}, id : {None}, n : Nat]

\* Every variable has its type; whatever is asked or answered has a request.
TypeOK ==
  /\ toBridge \in Seq(ToBridge) /\ toClient \in Seq(ToClient) /\ link \in {"up", "down"}
  /\ over \subseteq Ids
  /\ ssh \in Nat /\ sshCloseExpected \in BOOLEAN /\ listed \in BOOLEAN
  /\ open \subseteq Ids /\ ending \subseteq Ids
  /\ download \in Nat /\ sent \in Nat /\ acked \in Nat
  /\ operations \subseteq [kind : Kinds, id : Ids]
  /\ destroyed \in BOOLEAN
  /\ ws \in BOOLEAN /\ nextRequestId \in Ids
  /\ request \in Nat /\ current \in Nat /\ draining \in Nat
  /\ writes \in Seq(ToClient) /\ written \in Seq(ToClient)
  /\ step \in Steps /\ file \in 0..Files /\ cancelRequested \in BOOLEAN
  /\ connectionLost \in BOOLEAN /\ retries \in 0..MaxRetries /\ cancelSent \in BOOLEAN

\* Requests that a message adds something to: none of them is over.
SaidAnew == {toClient'[i].id : i \in (Len(toClient) + 1)..Len(toClient')} \ {None}

\* The bridge says nothing of a request after its last answer: one answer to a
\* call, nothing after fileEnd, canceled or error of a download.
AnswersOnce == [][SaidAnew \intersect over = {}]_vars

\* One transfer at a time, though the check for it and its start lie apart: a
\* file's size is awaited in between.
OneTransfer ==
  Cardinality({operation \in operations : operation.kind = "fileSize"})
    + (IF download = None THEN 0 ELSE 1) <= 1

\* Frames carry no request: still the package only ever gets, in order, those of
\* the file it is writing, and all of them before the file counts as complete.
FileIntact ==
  /\ \A i \in DOMAIN written : written[i].n = i /\ written[i].id = written[1].id
  /\ current # None => \A i \in DOMAIN written : written[i].id = current
  /\ step \in {"between", "succeeded"} /\ file > 0 => Len(written) = FileFrames

\* What the client has yet to write is bounded by the window, whoever holds it
\* and whichever download it was sent for. Chunks of a voided package, which are
\* not going to be written, do not count.
FramesOut == {i \in DOMAIN toClient : toClient[i].type = "data"}
WithinWindow == Cardinality(FramesOut) + Len(writes) <= Window

\* No SSH session stays open that the bridge does not hold; a client that is gone
\* leaves none behind, however late its connection is made.
NoSessionLeak ==
  /\ open \subseteq {ssh}
  /\ destroyed => open = {}

\* Whatever the dialog waits for over a WebSocket that was there when it asked
\* comes or fails.
Waiting == step \in {"connecting", "clock", "listing", "downloading"}
WaitEnds == (Waiting /\ ws) ~> ~Waiting

\* The request whose answer the dialog waits for, and the answers it can do
\* something with at that step.
Expected == IF step = "downloading" THEN current ELSE request

Answers ==
  [connecting |-> {"connected", "error"}, clock |-> {"serverTime", "error"},
   listing |-> {"list", "error"}, downloading |-> {"fileEnd", "canceled", "error"}]

\* A request is on its way to the bridge, with the SSH layer, being transferred, or
\* answered.
InGoodHands(id) ==
  \/ \E i \in DOMAIN toBridge : toBridge[i].type \in Calls /\ toBridge[i].id = id
  \/ \E operation \in operations : operation.id = id
  \/ download = id
  \/ \E i \in DOMAIN toClient : toClient[i].type \in Last /\ toClient[i].id = id

\* While the connection lasts nothing is lost and nobody waits for the other.  What
\* the dialog waits for is somewhere, and is answered in terms it understands at
\* this step, so that no answer stays in front of the others.  And a transfer is
\* paused only while frames, or an acknowledgement or the cancel of it, are on their
\* way.
NothingStalls ==
  ws /\ link = "up" =>
    /\ ~destroyed
    /\ Waiting =>
         /\ IF draining # None THEN Expected = None ELSE InGoodHands(Expected)
         /\ \A i \in DOMAIN toClient :
              toClient[i].type \in Last /\ toClient[i].id = Expected =>
                toClient[i].type \in Answers[step]
    /\ download # None /\ Paused =>
         \/ FramesOut # {} \/ writes # <<>>
         \/ \E i \in DOMAIN toBridge :
              toBridge[i].type \in {"ack", "cancel"} /\ toBridge[i].id = download

\* A package whose download was cancelled is voided, whoever wins the race
\* (ServerExport.tsx:1033).
CancelVoids == ~(step = "succeeded" /\ cancelSent)
=============================================================================
