------------------------------ MODULE SshBridge ------------------------------
(***************************************************************************)
(* ClientSession of the SSH bridge: one WebSocket, after the handshake.    *)
(* The client asks for an SSH connection, directories, the robot's clock   *)
(* and files; the bridge asks an SSH session, whose answers come later and *)
(* in any order, and streams one file at a time.                           *)
(*                                                                         *)
(* A WebSocket carries messages in order, both ways, until it is closed.   *)
(* The client is a module of its own (ServerExport).                       *)
(***************************************************************************)
EXTENDS Integers, Sequences, FiniteSets

CONSTANTS
  FileFrames,  \* binary frames a file is sent in
  Window       \* WINDOW_BYTES, in frames

ASSUME BridgeAssumption ==
  /\ FileFrames \in Nat
  /\ Window \in Nat \ {0}

VARIABLES
  toBridge, toClient,  \* the WebSocket's messages on their way
  link,                \* whether the WebSocket is "up"
  ssh,                 \* #ssh, named by the connect request that asked for it
  sshCloseExpected,    \* #sshCloseExpected
  listed,              \* #listedDirs holds the directory of the files
  download,            \* #download's request
  sent, acked,         \* its sentBytes and ackedBytes, in frames
  operations,          \* calls of the SSH layer that await their answer
  open, ending,        \* SSH sessions: open; closed, with their event to come
  destroyed,           \* #destroyed
  over                 \* history: requests that were given their last answer

wires == <<toBridge, toClient, link, over>>
session == <<ssh, sshCloseExpected, listed, open, ending>>
transfer == <<download, sent, acked>>
bridgeVars == <<wires, session, transfer, operations, destroyed>>

None == 0

\* A message; `n` is the frame's number or what an ack acknowledges.
Message(type, id, n) == [type |-> type, id |-> id, n |-> n]

\* Messages after which nothing more is said of a request.
Last == {"connected", "list", "serverTime", "fileEnd", "canceled", "error"}

\* #send, sendBinary: a socket that is not open drops what it is given.
Send(messages) ==
  /\ toClient' = IF link = "up" /\ ~destroyed THEN toClient \o messages ELSE toClient
  /\ over' = over \union {messages[i].id :
                            i \in {j \in DOMAIN messages : messages[j].type \in Last}}

Answer(type, id) == Send(<<Message(type, id, 0)>>)

\* #closeSsh
CloseSsh ==
  /\ listed' = FALSE
  /\ ssh' = None
  /\ open' = open \ {ssh}
  /\ ending' = ending \union ({ssh} \ {None})
  /\ sshCloseExpected' = (sshCloseExpected \/ ssh # None)

\* The transfer, if there is one, is over; its stream is destroyed.
EndTransfer ==
  /\ download' = None
  /\ sent' = 0
  /\ acked' = 0

\* MUTANT of Disconnected: a transfer that dies with its session is not reported.
DisconnectedMutant == <<>>

\* What the client is told of a transfer that dies with its session.
Disconnected ==
  IF download = None THEN <<>> ELSE <<Message("error", download, 0)>>

SshClosed == <<Message("sshClosed", None, 0)>>

\* destroy(): nothing is sent any more.
Destroy ==
  /\ destroyed' = TRUE
  /\ toBridge' = <<>>
  /\ EndTransfer
  /\ CloseSsh

-----------------------------------------------------------------------------
(* #dispatch                                                               *)

Receive(type) ==
  /\ toBridge # <<>> /\ Head(toBridge).type = type
  /\ ~destroyed
  /\ toBridge' = Tail(toBridge)
  /\ UNCHANGED destroyed

Call(kind, id) == operations' = operations \union {[kind |-> kind, id |-> id]}

\* A call needs an SSH session.
CallSsh(kind) ==
  LET id == Head(toBridge).id
  IN IF ssh = None
     THEN Answer("error", id) /\ UNCHANGED operations
     ELSE Call(kind, id) /\ UNCHANGED <<toClient, over>>

HandleConnect ==
  /\ Receive("connect")
  /\ CloseSsh
  /\ Call("connect", Head(toBridge).id)
  /\ UNCHANGED <<toClient, over, link, transfer>>

HandleList ==
  /\ Receive("list")
  /\ CallSsh("list")
  /\ UNCHANGED <<link, session, transfer>>

HandleServerTime ==
  /\ Receive("serverTime")
  /\ CallSsh("serverTime")
  /\ UNCHANGED <<link, session, transfer>>

\* One download at a time, and only from a directory that was listed.
HandleDownload ==
  /\ Receive("download")
  /\ IF ssh # None /\ (download # None \/ ~listed)
     THEN Answer("error", Head(toBridge).id) /\ UNCHANGED operations
     ELSE CallSsh("fileSize")
  /\ UNCHANGED <<link, session, transfer>>

\* MUTANT of AckedAfter: of two acks the lesser one counts.
AckedAfterMutant(m) == IF m.n < acked THEN m.n ELSE acked

\* Acks are cumulative.
AckedAfter(m) == IF m.n > acked THEN m.n ELSE acked

HandleAck ==
  /\ Receive("ack")
  /\ acked' = IF download = Head(toBridge).id THEN AckedAfter(Head(toBridge)) ELSE acked
  /\ UNCHANGED <<toClient, over, link, session, download, sent, operations>>

\* MUTANT of HandleCancel: the transfer goes on.
HandleCancelMutant ==
  /\ Receive("cancel")
  /\ IF download = Head(toBridge).id
     THEN Answer("canceled", download)
     ELSE UNCHANGED <<toClient, over>>
  /\ UNCHANGED <<link, session, transfer, operations>>

\* A cancel of a transfer that has not begun or is over is ignored.
HandleCancel ==
  /\ Receive("cancel")
  /\ IF download = Head(toBridge).id
     THEN Answer("canceled", download) /\ EndTransfer
     ELSE UNCHANGED <<toClient, over, transfer>>
  /\ UNCHANGED <<link, session, operations>>

HandleDisconnect ==
  /\ Receive("disconnect")
  /\ CloseSsh
  /\ link' = "down"
  /\ UNCHANGED <<toClient, over, transfer, operations>>

-----------------------------------------------------------------------------
(* Answers of the SSH layer.                                               *)

Settle(kind, id) ==
  /\ [kind |-> kind, id |-> id] \in operations
  /\ operations' = operations \ {[kind |-> kind, id |-> id]}
  /\ UNCHANGED <<toBridge, link, destroyed>>

\* MUTANT of Connected: a session that comes too late is kept.
ConnectedMutant(id) ==
  /\ open' = open \union {id}
  /\ ssh' = id
  /\ sshCloseExpected' = FALSE
  /\ operations' = (operations \ {[kind |-> "connect", id |-> id]})
                     \union {[kind |-> "realpath", id |-> id]}

\* The session is made; a client that is gone has it closed, any other is told
\* of its home directory. Nothing waits for the end of a session closed at once:
\* the bridge has not registered for its close event.
Connected(id) ==
  /\ operations' = (operations \ {[kind |-> "connect", id |-> id]})
                     \union (IF destroyed THEN {} ELSE {[kind |-> "realpath", id |-> id]})
  /\ IF destroyed
     THEN UNCHANGED <<open, ssh, sshCloseExpected>>
     ELSE /\ open' = open \union {id}
          /\ ssh' = id
          /\ sshCloseExpected' = FALSE

ConnectResolves(id) ==
  /\ [kind |-> "connect", id |-> id] \in operations
  /\ Connected(id)
  /\ UNCHANGED <<wires, destroyed, listed, ending, transfer>>

ConnectRejects(id) ==
  /\ Settle("connect", id)
  /\ Answer("error", id)
  /\ UNCHANGED <<session, transfer>>

\* If the home directory is not known it is "/".
HomeSettles(id) ==
  /\ Settle("realpath", id)
  /\ Answer("connected", id)
  /\ UNCHANGED <<session, transfer>>

ListResolves(id) ==
  /\ Settle("list", id)
  /\ listed' = TRUE
  /\ Answer("list", id)
  /\ UNCHANGED <<ssh, sshCloseExpected, open, ending, transfer>>

ServerTimeResolves(id) ==
  /\ Settle("serverTime", id)
  /\ Answer("serverTime", id)
  /\ UNCHANGED <<session, transfer>>

CallRejects(kind, id) ==
  /\ Settle(kind, id)
  /\ Answer("error", id)
  /\ UNCHANGED <<session, transfer>>

\* #startStream follows at once.
FileSizeResolves(id) ==
  /\ Settle("fileSize", id)
  /\ IF destroyed
     THEN UNCHANGED <<toClient, over, transfer>>
     ELSE /\ Send(<<Message("fileStart", id, 0)>>)
          /\ download' = id
          /\ sent' = 0
          /\ acked' = 0
  /\ UNCHANGED session

-----------------------------------------------------------------------------
(* The stream of the transfer.  It is paused while the window is full.     *)

\* MUTANT of Paused: the window is never full.
PausedMutant == FALSE

Paused == sent - acked >= Window

Data ==
  /\ download # None /\ ~Paused
  /\ sent < FileFrames
  /\ Send(<<Message("data", download, sent + 1)>>)
  /\ sent' = sent + 1
  /\ UNCHANGED <<toBridge, link, session, download, acked, operations, destroyed>>

StreamEnds ==
  /\ download # None /\ ~Paused
  /\ sent = FileFrames
  /\ Answer("fileEnd", download)
  /\ EndTransfer
  /\ UNCHANGED <<toBridge, link, session, operations, destroyed>>

\* #terminateDownload
StreamFails ==
  /\ download # None
  /\ Answer("error", download)
  /\ EndTransfer
  /\ UNCHANGED <<toBridge, link, session, operations, destroyed>>

-----------------------------------------------------------------------------
(* The end of an SSH session and of the WebSocket.                         *)

\* #handleSshClosed: any session that was or had been connected.
SshCloses(s) ==
  /\ s \in open \union ending
  /\ open' = open \ {s}
  /\ ending' = ending \ {s}
  /\ IF destroyed
     THEN UNCHANGED <<toClient, over, ssh, listed, transfer>>
     ELSE /\ ssh' = None
          /\ listed' = FALSE
          /\ EndTransfer
          /\ Send(Disconnected \o (IF sshCloseExpected THEN <<>> ELSE SshClosed))
  /\ UNCHANGED <<toBridge, link, sshCloseExpected, operations, destroyed>>

\* No message of the client for IDLE_TIMEOUT_MS.
IdleTimeout ==
  /\ ~destroyed /\ ssh # None
  /\ CloseSsh
  /\ EndTransfer
  /\ Send(Disconnected \o SshClosed)
  /\ UNCHANGED <<toBridge, link, operations, destroyed>>

\* A new client has connected.
Kick ==
  /\ ~destroyed
  /\ Destroy
  /\ link' = "down"
  /\ UNCHANGED <<toClient, over, operations>>

\* The WebSocket's close event; what was not received before it is lost.
BridgeSeesClose ==
  /\ link = "down" /\ ~destroyed
  /\ Destroy
  /\ UNCHANGED <<toClient, over, link, operations>>

LinkBreaks ==
  /\ link = "up"
  /\ link' = "down"
  /\ UNCHANGED <<toBridge, toClient, over, session, transfer, operations, destroyed>>

-----------------------------------------------------------------------------
BridgeInit ==
  /\ toBridge = <<>> /\ toClient = <<>> /\ link = "up" /\ over = {}
  /\ ssh = None /\ sshCloseExpected = FALSE /\ listed = FALSE
  /\ open = {} /\ ending = {}
  /\ download = None /\ sent = 0 /\ acked = 0
  /\ operations = {} /\ destroyed = FALSE

Handlers ==
  \/ HandleConnect \/ HandleList \/ HandleServerTime \/ HandleDownload
  \/ HandleAck \/ HandleCancel \/ HandleDisconnect

SshAnswers ==
  \E id \in {operation.id : operation \in operations} :
    \/ ConnectResolves(id) \/ ConnectRejects(id) \/ HomeSettles(id)
    \/ ListResolves(id) \/ ServerTimeResolves(id) \/ FileSizeResolves(id)
    \/ \E kind \in {"list", "serverTime", "fileSize"} : CallRejects(kind, id)

Stream == Data \/ StreamEnds \/ StreamFails

\* What the bridge and the SSH layer do when left alone, and what they suffer.
BridgeWorks == Handlers \/ SshAnswers \/ Stream \/ BridgeSeesClose
BridgeSuffers == (\E s \in open \union ending : SshCloses(s)) \/ IdleTimeout \/ Kick \/ LinkBreaks

BridgeNext == BridgeWorks \/ BridgeSuffers
=============================================================================
