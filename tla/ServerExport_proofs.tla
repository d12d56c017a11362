------------------------- MODULE ServerExport_proofs -------------------------
(***************************************************************************)
(* Theorems about ServerExport, for every number and size of files, window *)
(* and number of retries: its types, that no SSH session leaks, that       *)
(* nothing is said of a request after its last answer, that one file is    *)
(* transferred at a time, that the package gets each file whole and in     *)
(* order, that what is not written of it stays within the window, and that *)
(* nothing the dialog or a paused transfer waits for is ever lost.         *)
(***************************************************************************)
EXTENDS ServerExport, SequenceTheorems, FiniteSetTheorems, TLAPS

\* A call on its way to the bridge.
Asked(i) == i \in DOMAIN toBridge /\ toBridge[i].type \in Calls

\* A request is in one place at a time: on its way, with the SSH layer, being
\* transferred, or answered.
OneOwner ==
  /\ \A i \in Nat : Asked(i) =>
       /\ toBridge[i].id < nextRequestId
       /\ toBridge[i].id \notin over \union {download}
       /\ \A operation \in operations : operation.id # toBridge[i].id
  /\ \A i, j \in Nat : Asked(i) /\ Asked(j) /\ toBridge[i].id = toBridge[j].id => i = j
  /\ \A operation \in operations :
       /\ operation.id < nextRequestId
       /\ operation.id \notin over \union {download}
  /\ \A o, p \in operations : o.id = p.id => o = p
  /\ download \notin over /\ download < nextRequestId
  /\ \A id \in over : id < nextRequestId

\* There is one connection: it has not been asked for, is on its way, is being
\* made, is there, or is over.
Unconnected == ssh = None /\ open = {} /\ ending = {}
ConnectAsked(i) == i \in DOMAIN toBridge /\ toBridge[i].type = "connect"

OneConnection ==
  /\ \A i \in Nat : ConnectAsked(i) =>
       /\ Unconnected /\ nextRequestId # 1
       /\ \A operation \in operations : operation.kind # "connect"
       /\ \A j \in Nat : ConnectAsked(j) => i = j
  /\ \A operation \in operations : operation.kind = "connect" =>
       /\ Unconnected /\ nextRequestId # 1
       /\ \A o \in operations : o.kind = "connect" => o = operation
  /\ nextRequestId = 1 => Unconnected
  /\ ending # {} => ssh = None
  /\ NoSessionLeak

-----------------------------------------------------------------------------
(* Types.                                                                  *)

\* The first message of a wire, and what is left without it.
LEMMA TakeFirst ==
  ASSUME NEW S, NEW s \in Seq(S), s # <<>>
  PROVE  /\ Head(s) \in S /\ Tail(s) \in Seq(S)
         /\ Len(s) \in Nat /\ Len(Tail(s)) = Len(s) - 1
         /\ Head(s) = s[1] /\ \A i \in 1..Len(Tail(s)) : Tail(s)[i] = s[i + 1]
BY HeadTailProperties, EmptySeq

\* The three ways to write a message, and what each kind of message is.
LEMMA MessageTypes ==
  /\ \A type \in Calls \union {"cancel"} : \A id \in Ids : Message(type, id, 0) \in ToBridge
  /\ \A type \in Notices : \A id, n \in Nat : Message(type, id, n) \in ToBridge
  /\ \A type \in Last \union {"fileStart", "data"} :
       \A id \in Ids : \A n \in Nat : Message(type, id, n) \in ToClient
  /\ Message("sshClosed", None, 0) \in ToClient
BY DEF Message, ToBridge, ToClient, Ids, None

LEMMA CallHasId ==
  ASSUME NEW m \in ToBridge
  PROVE  /\ m.id \in Nat /\ m.n \in Nat
         /\ m.type \in Calls \union {"cancel"} => m.id \in Ids
BY DEF ToBridge, Calls, Notices, Ids

LEMMA AnswerHasId ==
  ASSUME NEW m \in ToClient
  PROVE  /\ m.id \in Nat /\ m.n \in Nat
         /\ m.type \in Last => m.id \in Ids
BY DEF ToClient, Last, Ids, None

LEMMA SendTypes ==
  ASSUME TypeOK, NEW messages \in Seq(ToClient), Send(messages)
  PROVE  toClient' \in Seq(ToClient) /\ over' \subseteq Ids
<1>1. toClient \o messages \in Seq(ToClient)
  BY ConcatProperties DEF TypeOK
<1>2. \A j \in DOMAIN messages : messages[j] \in ToClient
  BY ElementOfSeq, LenProperties
<1>3. {messages[i].id : i \in {j \in DOMAIN messages : messages[j].type \in Last}} \subseteq Ids
  BY <1>2, AnswerHasId
<1> QED
  BY <1>1, <1>3 DEF Send, TypeOK

LEMMA OneMessage ==
  ASSUME NEW S, NEW m \in S
  PROVE  <<m>> \in Seq(S)
OBVIOUS

LEMMA AnswerTypes ==
  ASSUME TypeOK, NEW type \in Last, NEW id \in Ids, Answer(type, id)
  PROVE  toClient' \in Seq(ToClient) /\ over' \subseteq Ids
<1>1. Message(type, id, 0) \in ToClient
  BY MessageTypes
<1>2. <<Message(type, id, 0)>> \in Seq(ToClient)
  BY <1>1, OneMessage
<1> QED
  BY <1>2, SendTypes DEF Answer

LEMMA PostTypes ==
  ASSUME TypeOK, NEW messages \in Seq(ToBridge), Post(messages)
  PROVE  toBridge' \in Seq(ToBridge)
<1>1. toBridge \o messages \in Seq(ToBridge)
  BY ConcatProperties DEF TypeOK
<1> QED
  BY <1>1 DEF Post, TypeOK

\* What the bridge sends when a session ends.
LEMMA DisconnectedTypes ==
  ASSUME TypeOK
  PROVE  /\ Disconnected \in Seq(ToClient) /\ SshClosed \in Seq(ToClient)
         /\ Disconnected \o SshClosed \in Seq(ToClient)
         /\ Disconnected \o <<>> \in Seq(ToClient)
<1>1. download # None => Message("error", download, 0) \in ToClient
  BY MessageTypes DEF TypeOK, Ids, Last
<1>2. Disconnected \in Seq(ToClient)
  BY <1>1, OneMessage, EmptySeq DEF Disconnected
<1>3. SshClosed \in Seq(ToClient)
  BY MessageTypes, OneMessage DEF SshClosed
<1> QED
  BY <1>2, <1>3, ConcatProperties, EmptySeq

LEMMA ReceiveTypes ==
  ASSUME TypeOK, NEW type, Receive(type)
  PROVE  /\ toBridge' \in Seq(ToBridge) /\ destroyed' \in BOOLEAN
         /\ Head(toBridge) \in ToBridge
         /\ Head(toBridge).id \in Nat /\ Head(toBridge).n \in Nat
         /\ type \in Calls \union {"cancel"} => Head(toBridge).id \in Ids
<1>1. Head(toBridge) \in ToBridge /\ Tail(toBridge) \in Seq(ToBridge)
  BY TakeFirst DEF Receive, TypeOK
<1> QED
  BY <1>1, CallHasId DEF Receive, TypeOK

LEMMA CallTypes ==
  ASSUME TypeOK, NEW kind \in Kinds, NEW id \in Ids, Call(kind, id)
  PROVE  operations' \subseteq [kind : Kinds, id : Ids]
BY DEF Call, TypeOK

LEMMA CallSshTypes ==
  ASSUME TypeOK, NEW kind \in Kinds, Head(toBridge).id \in Ids, CallSsh(kind)
  PROVE  /\ operations' \subseteq [kind : Kinds, id : Ids]
         /\ toClient' \in Seq(ToClient) /\ over' \subseteq Ids
<1>1. CASE ssh = None
  BY <1>1, AnswerTypes DEF CallSsh, TypeOK, Last
<1>2. CASE ssh # None
  BY <1>2, CallTypes DEF CallSsh, TypeOK
<1> QED
  BY <1>1, <1>2

LEMMA CloseSshTypes ==
  ASSUME TypeOK, CloseSsh
  PROVE  /\ ssh' \in Nat /\ sshCloseExpected' \in BOOLEAN /\ listed' \in BOOLEAN
         /\ open' \subseteq Ids /\ ending' \subseteq Ids
<1>1. ssh' \in Nat /\ listed' \in BOOLEAN /\ open' \subseteq Ids
  BY DEF CloseSsh, TypeOK, None
<1>2. ending' \subseteq Ids
  BY DEF CloseSsh, TypeOK, Ids
<1>3. sshCloseExpected' \in BOOLEAN
  BY DEF CloseSsh, TypeOK
<1> QED
  BY <1>1, <1>2, <1>3

LEMMA EndTransferTypes ==
  ASSUME EndTransfer
  PROVE  download' \in Nat /\ sent' \in Nat /\ acked' \in Nat
BY DEF EndTransfer, None

\* The parts of TypeOK that actions leave alone or disturb together.
WireTypes ==
  /\ toBridge \in Seq(ToBridge) /\ toClient \in Seq(ToClient) /\ link \in {"up", "down"}
  /\ over \subseteq Ids

SessionTypes ==
  /\ ssh \in Nat /\ sshCloseExpected \in BOOLEAN /\ listed \in BOOLEAN
  /\ open \subseteq Ids /\ ending \subseteq Ids

TransferTypes == download \in Nat /\ sent \in Nat /\ acked \in Nat

WorkTypes == operations \subseteq [kind : Kinds, id : Ids] /\ destroyed \in BOOLEAN

ClientTypes ==
  /\ ws \in BOOLEAN /\ nextRequestId \in Ids
  /\ request \in Nat /\ current \in Nat /\ draining \in Nat
  /\ writes \in Seq(ToClient)

DialogTypes ==
  /\ written \in Seq(ToClient)
  /\ step \in Steps /\ file \in 0..Files /\ cancelRequested \in BOOLEAN
  /\ connectionLost \in BOOLEAN /\ retries \in 0..MaxRetries /\ cancelSent \in BOOLEAN

LEMMA TypeParts ==
  TypeOK <=> /\ WireTypes /\ SessionTypes /\ TransferTypes /\ WorkTypes
             /\ ClientTypes /\ DialogTypes
BY DEF TypeOK, WireTypes, SessionTypes, TransferTypes, WorkTypes, ClientTypes, DialogTypes

LEMMA TypePartsAfter ==
  /\ WireTypes' /\ SessionTypes' /\ TransferTypes' /\ WorkTypes'
  /\ ClientTypes' /\ DialogTypes'
  => TypeOK'
BY DEF TypeOK, WireTypes, SessionTypes, TransferTypes, WorkTypes, ClientTypes, DialogTypes

LEMMA Unchanged ==
  ASSUME TypeOK
  PROVE  /\ UNCHANGED wires => WireTypes'
         /\ UNCHANGED session => SessionTypes'
         /\ UNCHANGED transfer => TransferTypes'
         /\ UNCHANGED <<operations, destroyed>> => WorkTypes'
         /\ UNCHANGED client => ClientTypes'
         /\ UNCHANGED dialog => DialogTypes'
<1>1. UNCHANGED wires => WireTypes'
  BY TypeParts DEF WireTypes, wires
<1>2. UNCHANGED session => SessionTypes'
  BY TypeParts DEF SessionTypes, session
<1>3. UNCHANGED transfer => TransferTypes'
  BY TypeParts DEF TransferTypes, transfer
<1>4. UNCHANGED <<operations, destroyed>> => WorkTypes'
  BY TypeParts DEF WorkTypes
<1>5. UNCHANGED client => ClientTypes'
  BY TypeParts DEF ClientTypes, client
<1>6. UNCHANGED dialog => DialogTypes'
  BY TypeParts DEF DialogTypes, dialog
<1> QED
  BY <1>1, <1>2, <1>3, <1>4, <1>5, <1>6

LEMMA HandlerTypes ==
  ASSUME TypeOK, Handlers, UNCHANGED <<client, dialog>>
  PROVE  TypeOK'
<1> USE TypeOK
<1>0. ClientTypes' /\ DialogTypes'
  BY Unchanged
<1>k. Kinds = {"connect", "realpath", "list", "serverTime", "fileSize"}
  BY DEF Kinds
<1>c. Calls = {"connect", "list", "serverTime", "download"}
  BY DEF Calls
<1>1. CASE HandleConnect
  <2>1. Receive("connect") /\ Call("connect", Head(toBridge).id) /\ CloseSsh
        /\ UNCHANGED <<toClient, over, link, transfer>>
    BY <1>1 DEF HandleConnect
  <2>2. WireTypes' /\ destroyed' \in BOOLEAN /\ Head(toBridge).id \in Ids
    BY <2>1, <1>c, ReceiveTypes, TypeParts DEF WireTypes
  <2>3. SessionTypes'
    BY <2>1, CloseSshTypes DEF SessionTypes
  <2>4. WorkTypes'
    BY <2>1, <2>2, <1>k, CallTypes DEF WorkTypes
  <2> QED
    BY <1>0, <2>1, <2>2, <2>3, <2>4, TypePartsAfter, Unchanged
<1>2. CASE HandleList \/ HandleServerTime
  <2>1. \E kind \in {"list", "serverTime"} :
          Receive(kind) /\ CallSsh(kind) /\ UNCHANGED <<link, session, transfer>>
    BY <1>2 DEF HandleList, HandleServerTime
  <2>2. PICK kind \in {"list", "serverTime"} :
          Receive(kind) /\ CallSsh(kind) /\ UNCHANGED <<link, session, transfer>>
    BY <2>1
  <2>3. toBridge' \in Seq(ToBridge) /\ destroyed' \in BOOLEAN /\ Head(toBridge).id \in Ids
    BY <2>2, <1>c, ReceiveTypes
  <2>4. WorkTypes' /\ WireTypes'
    BY <2>2, <2>3, <1>k, CallSshTypes, TypeParts DEF WorkTypes, WireTypes
  <2> QED
    BY <1>0, <2>2, <2>4, TypePartsAfter, Unchanged
<1>3. CASE HandleDownload
  <2>1. toBridge' \in Seq(ToBridge) /\ destroyed' \in BOOLEAN /\ Head(toBridge).id \in Ids
    BY <1>3, <1>c, ReceiveTypes DEF HandleDownload
  <2>2. \/ CallSsh("fileSize")
        \/ Answer("error", Head(toBridge).id) /\ UNCHANGED operations
    BY <1>3 DEF HandleDownload
  <2>3. /\ operations' \subseteq [kind : Kinds, id : Ids]
        /\ toClient' \in Seq(ToClient) /\ over' \subseteq Ids
    BY <2>1, <2>2, <1>k, CallSshTypes, AnswerTypes, TypeParts DEF Last, WorkTypes
  <2>4. WorkTypes' /\ WireTypes'
    BY <1>3, <2>1, <2>3, TypeParts DEF WorkTypes, WireTypes, HandleDownload
  <2> QED
    BY <1>0, <1>3, <2>4, TypePartsAfter, Unchanged DEF HandleDownload
<1>4. CASE HandleAck
  <2>1. toBridge' \in Seq(ToBridge) /\ destroyed' \in BOOLEAN /\ Head(toBridge).n \in Nat
    BY <1>4, ReceiveTypes DEF HandleAck
  <2>2. TransferTypes'
    BY <1>4, <2>1, TypeParts DEF HandleAck, AckedAfter, TransferTypes
  <2>3. WorkTypes' /\ WireTypes'
    BY <1>4, <2>1, TypeParts DEF WorkTypes, WireTypes, HandleAck
  <2> QED
    BY <1>0, <1>4, <2>2, <2>3, TypePartsAfter, Unchanged DEF HandleAck
<1>5. CASE HandleCancel
  <2>1. toBridge' \in Seq(ToBridge) /\ destroyed' \in BOOLEAN /\ Head(toBridge).id # None
    BY <1>5, ReceiveTypes DEF HandleCancel, Ids
  <2>2. CASE download = Head(toBridge).id /\ download # None
    <3>1. Answer("canceled", download) /\ EndTransfer
      BY <1>5, <2>2 DEF HandleCancel
    <3>2. toClient' \in Seq(ToClient) /\ over' \subseteq Ids
      BY <3>1, <2>2, AnswerTypes, TypeParts DEF Last, TransferTypes, Ids
    <3>3. TransferTypes'
      BY <3>1, EndTransferTypes DEF TransferTypes
    <3>4. WorkTypes' /\ WireTypes'
      BY <1>5, <2>1, <3>2, TypeParts DEF WorkTypes, WireTypes, HandleCancel
    <3> QED
      BY <1>0, <1>5, <3>3, <3>4, TypePartsAfter, Unchanged DEF HandleCancel
  <2>3. CASE download # Head(toBridge).id
    <3>1. UNCHANGED <<toClient, over, transfer>>
      BY <1>5, <2>3 DEF HandleCancel
    <3>2. WorkTypes' /\ WireTypes'
      BY <1>5, <2>1, <3>1, TypeParts DEF WorkTypes, WireTypes, HandleCancel
    <3> QED
      BY <1>0, <1>5, <3>1, <3>2, TypePartsAfter, Unchanged DEF HandleCancel
  <2> QED
    BY <2>1, <2>2, <2>3
<1>6. CASE HandleDisconnect
  <2>1. toBridge' \in Seq(ToBridge) /\ destroyed' \in BOOLEAN
    BY <1>6, ReceiveTypes DEF HandleDisconnect
  <2>2. SessionTypes'
    BY <1>6, CloseSshTypes DEF SessionTypes, HandleDisconnect
  <2>3. WorkTypes' /\ WireTypes'
    BY <1>6, <2>1, TypeParts DEF WorkTypes, WireTypes, HandleDisconnect
  <2> QED
    BY <1>0, <1>6, <2>2, <2>3, TypePartsAfter, Unchanged DEF HandleDisconnect
<1> QED
  BY <1>1, <1>2, <1>3, <1>4, <1>5, <1>6 DEF Handlers

\* What most answers of the SSH layer do.
LEMMA SettleTypes ==
  ASSUME TypeOK, NEW kind, NEW id, Settle(kind, id)
  PROVE  /\ id \in Ids /\ WorkTypes'
         /\ toBridge' \in Seq(ToBridge) /\ link' \in {"up", "down"}
BY DEF Settle, TypeOK, WorkTypes

LEMMA SettleAnswerTypes ==
  ASSUME TypeOK, NEW kind, NEW id, NEW type \in Last, Settle(kind, id), Answer(type, id)
  PROVE  WireTypes' /\ WorkTypes'
BY SettleTypes, AnswerTypes DEF WireTypes

LEMMA SshAnswerTypes ==
  ASSUME TypeOK, SshAnswers, UNCHANGED <<client, dialog>>
  PROVE  TypeOK'
<1> USE TypeOK
<1>0. ClientTypes' /\ DialogTypes'
  BY Unchanged
<1>l. {"error", "connected", "list", "serverTime"} \subseteq Last
  BY DEF Last
<1>1. CASE \E id \in {operation.id : operation \in operations} : ConnectResolves(id)
  <2>1. PICK id : ConnectResolves(id)
    BY <1>1
  <2>2. id \in Ids
    BY <2>1 DEF ConnectResolves, TypeOK
  <2>3. SessionTypes'
    BY <2>1, <2>2, TypeParts DEF ConnectResolves, Connected, SessionTypes, Ids
  <2>4. WorkTypes'
    BY <2>1, <2>2, TypeParts DEF ConnectResolves, Connected, WorkTypes, Kinds
  <2> QED
    BY <1>0, <2>1, <2>3, <2>4, TypePartsAfter, Unchanged DEF ConnectResolves
<1>2. CASE \E id \in {operation.id : operation \in operations} :
             \/ ConnectRejects(id) \/ HomeSettles(id) \/ ServerTimeResolves(id)
             \/ \E kind \in {"list", "serverTime", "fileSize"} : CallRejects(kind, id)
  <2>1. \E id, kind : \E type \in Last : Settle(kind, id) /\ Answer(type, id)
        /\ UNCHANGED <<session, transfer>>
    BY <1>2, <1>l DEF ConnectRejects, HomeSettles, ServerTimeResolves, CallRejects
  <2>2. WireTypes' /\ WorkTypes' /\ UNCHANGED <<session, transfer>>
    BY <2>1, SettleAnswerTypes
  <2> QED
    BY <1>0, <2>2, TypePartsAfter, Unchanged
<1>3. CASE \E id \in {operation.id : operation \in operations} : ListResolves(id)
  <2>1. PICK id : ListResolves(id)
    BY <1>3
  <2>2. WireTypes' /\ WorkTypes'
    BY <2>1, <1>l, SettleAnswerTypes DEF ListResolves
  <2>3. SessionTypes'
    BY <2>1, TypeParts DEF ListResolves, SessionTypes
  <2> QED
    BY <1>0, <2>1, <2>2, <2>3, TypePartsAfter, Unchanged DEF ListResolves
<1>4. CASE \E id \in {operation.id : operation \in operations} : FileSizeResolves(id)
  <2>1. PICK id : FileSizeResolves(id)
    BY <1>4
  <2>2. id \in Ids /\ WorkTypes' /\ toBridge' \in Seq(ToBridge) /\ link' \in {"up", "down"}
    BY <2>1, SettleTypes DEF FileSizeResolves
  <2>3. <<Message("fileStart", id, 0)>> \in Seq(ToClient)
    BY <2>2, MessageTypes, OneMessage
  <2>4. TransferTypes'
    BY <2>1, <2>2, TypeParts, Unchanged DEF FileSizeResolves, TransferTypes, Ids, transfer
  <2>5. toClient' \in Seq(ToClient) /\ over' \subseteq Ids
    BY <2>1, <2>3, SendTypes, TypeParts DEF FileSizeResolves, WireTypes
  <2> QED
    BY <1>0, <2>1, <2>2, <2>4, <2>5, TypePartsAfter, Unchanged DEF FileSizeResolves, WireTypes
<1> QED
  BY <1>1, <1>2, <1>3, <1>4 DEF SshAnswers

LEMMA StreamTypes ==
  ASSUME TypeOK, Stream, UNCHANGED <<client, dialog>>
  PROVE  TypeOK'
<1> USE TypeOK
<1>0. ClientTypes' /\ DialogTypes'
  BY Unchanged
<1>1. /\ download \in Ids
      /\ UNCHANGED <<toBridge, link, session, operations, destroyed>>
  BY DEF Stream, Data, StreamEnds, StreamFails, TypeOK, Ids
<1>2. CASE Data
  <2>1. sent' \in Nat /\ sent + 1 \in Nat /\ UNCHANGED <<download, acked>>
    BY <1>2 DEF Data, TypeOK
  <2>2. <<Message("data", download, sent + 1)>> \in Seq(ToClient)
    BY <1>1, <2>1, MessageTypes, OneMessage
  <2>3. WireTypes'
    BY <1>1, <1>2, <2>2, SendTypes, TypeParts DEF Data, WireTypes
  <2>4. TransferTypes'
    BY <2>1, TypeParts DEF TransferTypes
  <2> QED
    BY <1>0, <1>1, <2>3, <2>4, TypePartsAfter, Unchanged
<1>3. CASE StreamEnds \/ StreamFails
  <2>1. (Answer("fileEnd", download) \/ Answer("error", download)) /\ EndTransfer
    BY <1>3 DEF StreamEnds, StreamFails
  <2>2. WireTypes'
    BY <1>1, <2>1, AnswerTypes, TypeParts DEF WireTypes, Last
  <2>3. TransferTypes'
    BY <2>1, EndTransferTypes DEF TransferTypes
  <2> QED
    BY <1>0, <1>1, <2>2, <2>3, TypePartsAfter, Unchanged
<1> QED
  BY <1>2, <1>3 DEF Stream

LEMMA EndTypes ==
  ASSUME TypeOK, BridgeSuffers \/ BridgeSeesClose, UNCHANGED <<client, dialog>>
  PROVE  TypeOK'
<1> USE TypeOK
<1>0. ClientTypes' /\ DialogTypes'
  BY Unchanged
<1>1. CASE \E s \in open \union ending : SshCloses(s)
  <2>1. PICK s : SshCloses(s)
    BY <1>1
  <2>2. \/ UNCHANGED toClient /\ UNCHANGED over
        \/ Send(Disconnected \o SshClosed) \/ Send(Disconnected \o <<>>)
    BY <2>1 DEF SshCloses
  <2>3. toClient' \in Seq(ToClient) /\ over' \subseteq Ids
    BY <2>2, DisconnectedTypes, SendTypes, TypeParts DEF WireTypes
  <2>4. UNCHANGED transfer \/ EndTransfer
    BY <2>1 DEF SshCloses
  <2>5. TransferTypes'
    BY <2>4, EndTransferTypes, Unchanged DEF TransferTypes
  <2>s. open' \subseteq Ids /\ ending' \subseteq Ids
    BY <2>1 DEF SshCloses, TypeOK
  <2>t. ssh' = ssh \/ ssh' = None
    BY <2>1 DEF SshCloses
  <2>u. ssh' \in Nat
    BY <2>t DEF TypeOK, None
  <2>v. listed' \in BOOLEAN /\ sshCloseExpected' \in BOOLEAN
    BY <2>1 DEF SshCloses, TypeOK
  <2>6. SessionTypes'
    BY <2>s, <2>u, <2>v DEF SessionTypes
  <2>7. WorkTypes' /\ WireTypes'
    BY <2>1, <2>3, TypeParts DEF SshCloses, WorkTypes, WireTypes
  <2> QED
    BY <1>0, <2>5, <2>6, <2>7, TypePartsAfter
<1>2. CASE IdleTimeout
  <2>1. toClient' \in Seq(ToClient) /\ over' \subseteq Ids
    BY <1>2, DisconnectedTypes, SendTypes DEF IdleTimeout
  <2>2. SessionTypes' /\ TransferTypes'
    BY <1>2, CloseSshTypes, EndTransferTypes DEF IdleTimeout, SessionTypes, TransferTypes
  <2>3. WorkTypes' /\ WireTypes'
    BY <1>2, <2>1, TypeParts DEF IdleTimeout, WorkTypes, WireTypes
  <2> QED
    BY <1>0, <2>2, <2>3, TypePartsAfter
<1>3. CASE Kick \/ BridgeSeesClose
  <2>1. Destroy /\ UNCHANGED <<toClient, over, operations>> /\ link' \in {"up", "down"}
    BY <1>3, TypeParts DEF Kick, BridgeSeesClose, WireTypes
  <2>2. SessionTypes' /\ TransferTypes'
    BY <2>1, CloseSshTypes, EndTransferTypes DEF Destroy, SessionTypes, TransferTypes
  <2>3. WorkTypes' /\ WireTypes'
    BY <2>1, EmptySeq, TypeParts DEF Destroy, WorkTypes, WireTypes
  <2> QED
    BY <1>0, <2>2, <2>3, TypePartsAfter
<1>4. CASE LinkBreaks
  <2>1. WireTypes'
    BY <1>4, TypeParts DEF LinkBreaks, WireTypes
  <2> QED
    BY <1>0, <1>4, <2>1, TypePartsAfter, Unchanged DEF LinkBreaks
<1> QED
  BY <1>1, <1>2, <1>3, <1>4 DEF BridgeSuffers

LEMMA BridgeTypes ==
  ASSUME TypeOK, Bridge
  PROVE  TypeOK'
BY HandlerTypes, SshAnswerTypes, StreamTypes, EndTypes
   DEF Bridge, BridgeNext, BridgeWorks, BridgeSuffers

\* The client leaves the bridge's state alone.
BridgeKept == UNCHANGED <<over, session, transfer, operations, destroyed>>

LEMMA KeptTypes ==
  ASSUME TypeOK, BridgeKept
  PROVE  SessionTypes' /\ TransferTypes' /\ WorkTypes' /\ over' \subseteq Ids
BY Unchanged, TypeParts DEF BridgeKept, WireTypes

LEMMA ArrivesTypes ==
  ASSUME TypeOK, NEW types, NEW id, Arrives(types, id)
  PROVE  toClient' \in Seq(ToClient) /\ BridgeKept
BY TakeFirst DEF Arrives, TypeOK, BridgeKept

LEMMA NoMessageTypes ==
  ASSUME TypeOK, NoMessageTaken
  PROVE  toClient' \in Seq(ToClient) /\ BridgeKept
BY DEF NoMessageTaken, TypeOK, BridgeKept

LEMMA AskTypes ==
  ASSUME TypeOK, NEW type \in Calls, Ask(type)
  PROVE  /\ toBridge' \in Seq(ToBridge) /\ nextRequestId' \in Ids /\ request' \in Nat
         /\ nextRequestId' = nextRequestId + 1
<1>1. nextRequestId \in Ids /\ nextRequestId + 1 \in Ids /\ nextRequestId \in Nat
  BY DEF TypeOK, Ids, None
<1>2. <<Message(type, nextRequestId, 0)>> \in Seq(ToBridge)
  BY <1>1, MessageTypes, OneMessage
<1> QED
  BY <1>1, <1>2, PostTypes DEF Ask

LEMMA CancelTypes ==
  ASSUME TypeOK
  PROVE  (IF current # None THEN Cancel ELSE <<>>) \in Seq(ToBridge)
<1>1. current # None => Message("cancel", current, 0) \in ToBridge
  BY MessageTypes DEF TypeOK, Ids
<1> QED
  BY <1>1, OneMessage, EmptySeq DEF Cancel

LEMMA DisconnectClientTypes ==
  ASSUME TypeOK, NEW before \in Seq(ToBridge), Disconnect(before)
  PROVE  /\ toBridge' \in Seq(ToBridge) /\ link' \in {"up", "down"}
         /\ ws' \in BOOLEAN /\ request' \in Nat /\ current' \in Nat
<1>1. Message("disconnect", None, 0) \in ToBridge
  BY MessageTypes DEF Notices, None
<1>2. before \o <<Message("disconnect", None, 0)>> \in Seq(ToBridge)
  BY <1>1, OneMessage, ConcatProperties
<1>3. toBridge' \in Seq(ToBridge)
  BY <1>2, PostTypes DEF Disconnect
<1> QED
  BY <1>3 DEF Disconnect, TypeOK, None

LEMMA VoidTypes ==
  ASSUME Void
  PROVE  /\ step' \in Steps /\ current' \in Nat /\ draining' \in Nat
         /\ writes' \in Seq(ToClient)
BY EmptySeq DEF Void, Steps, None

LEMMA ArrivalTypes ==
  ASSUME TypeOK, Arrivals
  PROVE  TypeOK'
<1> USE TypeOK
<1>s. {"form", "clock", "listing", "preview"} \subseteq Steps
  BY DEF Steps
<1>1. CASE ConnectedArrives \/ ClockArrives
  <2>1. \E type \in Calls : \E types, id : Ask(type) /\ Arrives(types, id)
    BY <1>1 DEF ConnectedArrives, ClockArrives, Calls
  <2>2. /\ toClient' \in Seq(ToClient) /\ BridgeKept
        /\ toBridge' \in Seq(ToBridge) /\ nextRequestId' \in Ids /\ request' \in Nat
    BY <2>1, ArrivesTypes, AskTypes
  <2>3. WireTypes'
    BY <1>1, <2>2, KeptTypes, TypeParts DEF WireTypes, ConnectedArrives, ClockArrives
  <2>4. ClientTypes'
    BY <1>1, <2>2, TypeParts DEF ClientTypes, ConnectedArrives, ClockArrives
  <2>5. DialogTypes'
    BY <1>1, <1>s, TypeParts DEF DialogTypes, ConnectedArrives, ClockArrives
  <2> QED
    BY <2>2, <2>3, <2>4, <2>5, KeptTypes, TypePartsAfter
<1>2. CASE ListingArrives
  <2>1. toClient' \in Seq(ToClient) /\ BridgeKept
    BY <1>2, ArrivesTypes DEF ListingArrives
  <2>2. WireTypes'
    BY <1>2, <2>1, KeptTypes, TypeParts DEF WireTypes, ListingArrives
  <2>3. ClientTypes'
    BY <1>2, TypeParts DEF ClientTypes, ListingArrives, None
  <2>4. DialogTypes'
    BY <1>2, <1>s, TypeParts DEF DialogTypes, ListingArrives
  <2> QED
    BY <2>1, <2>2, <2>3, <2>4, KeptTypes, TypePartsAfter
<1>3. CASE RequestFails
  <2>1. toClient' \in Seq(ToClient) /\ BridgeKept
    BY <1>3, ArrivesTypes DEF RequestFails
  <2>2. \/ Disconnect(<<>>)
        \/ request' = None /\ UNCHANGED <<toBridge, link, ws, current>>
    BY <1>3 DEF RequestFails
  <2>3. /\ toBridge' \in Seq(ToBridge) /\ link' \in {"up", "down"}
        /\ ws' \in BOOLEAN /\ request' \in Nat /\ current' \in Nat
    <3>1. CASE Disconnect(<<>>)
      <4>1. <<>> \in Seq(ToBridge)
        BY EmptySeq
      <4> QED
        BY <3>1, <4>1, DisconnectClientTypes
    <3>2. CASE request' = None /\ UNCHANGED <<toBridge, link, ws, current>>
      BY <3>2 DEF TypeOK, None
    <3> QED
      BY <2>2, <3>1, <3>2
  <2>4. WireTypes'
    BY <2>1, <2>3, KeptTypes DEF WireTypes
  <2>5. ClientTypes'
    BY <1>3, <2>3, TypeParts DEF ClientTypes, RequestFails
  <2>6. DialogTypes'
    BY <1>3, <1>s, TypeParts DEF DialogTypes, RequestFails
  <2> QED
    BY <2>1, <2>4, <2>5, <2>6, KeptTypes, TypePartsAfter
<1>4. CASE FrameArrives
  <2>1. /\ toClient' \in Seq(ToClient) /\ BridgeKept
        /\ Head(toClient) \in ToClient
    BY <1>4, TakeFirst, TypeParts DEF FrameArrives, BridgeKept, WireTypes
  <2>2. WireTypes'
    BY <1>4, <2>1, KeptTypes, TypeParts DEF WireTypes, FrameArrives
  <2>3. Append(writes, Head(toClient)) \in Seq(ToClient)
    BY <2>1, AppendProperties, TypeParts DEF ClientTypes
  <2>4. ClientTypes'
    BY <1>4, <2>3, TypeParts DEF ClientTypes, FrameArrives
  <2> QED
    BY <1>4, <2>1, <2>2, <2>4, KeptTypes, TypePartsAfter, Unchanged DEF FrameArrives
<1>5. CASE FileEndArrives
  <2>1. toClient' \in Seq(ToClient) /\ BridgeKept
    BY <1>5, ArrivesTypes DEF FileEndArrives
  <2>2. WireTypes'
    BY <1>5, <2>1, KeptTypes, TypeParts DEF WireTypes, FileEndArrives
  <2>3. ClientTypes'
    BY <1>5, TypeParts DEF ClientTypes, FileEndArrives, None
  <2> QED
    BY <1>5, <2>1, <2>2, <2>3, KeptTypes, TypePartsAfter, Unchanged DEF FileEndArrives
<1>6. CASE DownloadFails
  <2>1. toClient' \in Seq(ToClient) /\ BridgeKept
    BY <1>6, ArrivesTypes DEF DownloadFails
  <2>2. WireTypes'
    BY <1>6, <2>1, KeptTypes, TypeParts DEF WireTypes, DownloadFails
  <2>3. ClientTypes' /\ DialogTypes'
    BY <1>6, VoidTypes, TypeParts DEF ClientTypes, DialogTypes, DownloadFails
  <2> QED
    BY <2>1, <2>2, <2>3, KeptTypes, TypePartsAfter
<1>7. CASE SshClosedArrives
  <2>1. toClient' \in Seq(ToClient) /\ BridgeKept
    BY <1>7, ArrivesTypes DEF SshClosedArrives
  <2>2. WireTypes'
    BY <1>7, <2>1, KeptTypes, TypeParts DEF WireTypes, SshClosedArrives
  <2>3. DialogTypes'
    BY <1>7, TypeParts DEF DialogTypes, SshClosedArrives
  <2> QED
    BY <1>7, <2>1, <2>2, <2>3, KeptTypes, TypePartsAfter, Unchanged DEF SshClosedArrives
<1>8. CASE OtherArrives
  <2>1. toClient' \in Seq(ToClient) /\ BridgeKept
    BY <1>8, TakeFirst, TypeParts DEF OtherArrives, BridgeKept, WireTypes
  <2>2. WireTypes'
    BY <1>8, <2>1, KeptTypes, TypeParts DEF WireTypes, OtherArrives
  <2> QED
    BY <1>8, <2>1, <2>2, KeptTypes, TypePartsAfter, Unchanged DEF OtherArrives
<1> QED
  BY <1>1, <1>2, <1>3, <1>4, <1>5, <1>6, <1>7, <1>8 DEF Arrivals

\* The download and the export's course.
LEMMA WorkingTypes ==
  ASSUME TypeOK, DownloadNext \/ ExportStops \/ Succeed \/ Written \/ WriteFails \/ Completed
  PROVE  TypeOK'
<1> USE TypeOK
<1>0. NoMessageTaken
  BY DEF DownloadNext, ExportStops, Succeed, Written, WriteFails, Completed
<1>n. toClient' \in Seq(ToClient) /\ BridgeKept
  BY <1>0, NoMessageTypes
<1>k. SessionTypes' /\ TransferTypes' /\ WorkTypes' /\ over' \subseteq Ids
  BY <1>n, KeptTypes
<1>s. {"between", "downloading", "succeeded", "voided"} \subseteq Steps
  BY DEF Steps
<1>1. CASE DownloadNext
  <2>1. nextRequestId \in Ids /\ nextRequestId \in Nat /\ nextRequestId + 1 \in Ids
    BY DEF TypeOK, Ids, None
  <2>2. <<Message("download", nextRequestId, 0)>> \in Seq(ToBridge)
    BY <2>1, MessageTypes, OneMessage DEF Calls
  <2>3. toBridge' \in Seq(ToBridge)
    BY <1>1, <2>2, PostTypes DEF DownloadNext
  <2>4. WireTypes'
    BY <1>1, <1>n, <1>k, <2>3, TypeParts DEF WireTypes, DownloadNext
  <2>5. ClientTypes'
    BY <1>1, <2>1, TypeParts DEF ClientTypes, DownloadNext
  <2>6. written' \in Seq(ToClient) /\ file' \in 0..Files
    BY <1>1, EmptySeq, ExportAssumption, TypeParts DEF DialogTypes, DownloadNext
  <2>7. DialogTypes'
    BY <1>1, <1>s, <2>6, TypeParts DEF DialogTypes, DownloadNext
  <2> QED
    BY <1>k, <2>4, <2>5, <2>7, TypePartsAfter
<1>2. CASE ExportStops
  <2>1. WireTypes'
    BY <1>2, <1>n, <1>k, TypeParts DEF WireTypes, ExportStops
  <2>2. ClientTypes' /\ DialogTypes'
    BY <1>2, VoidTypes, TypeParts DEF ClientTypes, DialogTypes, ExportStops
  <2> QED
    BY <1>k, <2>1, <2>2, TypePartsAfter
<1>3. CASE Succeed
  <2>1. <<>> \in Seq(ToBridge)
    BY EmptySeq
  <2>2. /\ toBridge' \in Seq(ToBridge) /\ link' \in {"up", "down"}
        /\ ws' \in BOOLEAN /\ request' \in Nat /\ current' \in Nat
    BY <1>3, <2>1, DisconnectClientTypes DEF Succeed
  <2>3. WireTypes'
    BY <1>n, <1>k, <2>2 DEF WireTypes
  <2>4. ClientTypes'
    BY <1>3, <2>2, TypeParts DEF ClientTypes, Succeed
  <2>5. DialogTypes'
    BY <1>3, <1>s, TypeParts DEF DialogTypes, Succeed
  <2> QED
    BY <1>k, <2>3, <2>4, <2>5, TypePartsAfter
<1>4. CASE Written
  <2>1. Head(writes) \in ToClient /\ writes' \in Seq(ToClient)
    BY <1>4, TakeFirst, TypeParts DEF ClientTypes, Written
  <2>2. written' \in Seq(ToClient) /\ Len(written') \in Nat
    BY <1>4, <2>1, AppendProperties, LenProperties, TypeParts DEF DialogTypes, Written
  <2>3. (IF current # None THEN current ELSE draining) \in Nat
    BY TypeParts DEF ClientTypes
  <2>4. <<Message("ack", IF current # None THEN current ELSE draining, Len(written'))>>
          \in Seq(ToBridge)
    BY <2>2, <2>3, MessageTypes, OneMessage DEF Notices
  <2>5. toBridge' \in Seq(ToBridge)
    BY <1>4, <2>4, PostTypes DEF Written
  <2>6. WireTypes'
    BY <1>4, <1>n, <1>k, <2>5, TypeParts DEF WireTypes, Written
  <2>7. ClientTypes'
    BY <1>4, <2>1, TypeParts DEF ClientTypes, Written
  <2>8. DialogTypes'
    BY <1>4, <2>2, TypeParts DEF DialogTypes, Written
  <2> QED
    BY <1>k, <2>6, <2>7, <2>8, TypePartsAfter
<1>5. CASE WriteFails
  <2>1. toBridge' \in Seq(ToBridge)
    BY <1>5, CancelTypes, PostTypes DEF WriteFails
  <2>2. WireTypes'
    BY <1>5, <1>n, <1>k, <2>1, TypeParts DEF WireTypes, WriteFails
  <2>3. ClientTypes' /\ DialogTypes'
    BY <1>5, VoidTypes, TypeParts DEF ClientTypes, DialogTypes, WriteFails
  <2> QED
    BY <1>k, <2>2, <2>3, TypePartsAfter
<1>6. CASE Completed
  <2>1. WireTypes'
    BY <1>6, <1>n, <1>k, TypeParts DEF WireTypes, Completed
  <2>2. ClientTypes'
    BY <1>6, TypeParts DEF ClientTypes, Completed, None
  <2>3. DialogTypes'
    BY <1>6, <1>s, TypeParts DEF DialogTypes, Completed
  <2> QED
    BY <1>k, <2>1, <2>2, <2>3, TypePartsAfter
<1> QED
  BY <1>1, <1>2, <1>3, <1>4, <1>5, <1>6

LEMMA ClientSeesCloseTypes ==
  ASSUME TypeOK, ClientSeesClose
  PROVE  TypeOK'
<1> USE TypeOK
<1>1. BridgeKept /\ UNCHANGED <<toBridge, link>> /\ toClient' = <<>>
  BY DEF ClientSeesClose, BridgeKept
<1>2. WireTypes'
  BY <1>1, KeptTypes, EmptySeq, TypeParts DEF WireTypes
<1>3. \/ Void
      \/ /\ UNCHANGED <<current, draining, writes>>
         /\ step' = step \/ step' = "form"
  BY DEF ClientSeesClose
<1>4. /\ step' \in Steps /\ current' \in Nat /\ draining' \in Nat
      /\ writes' \in Seq(ToClient)
  BY <1>3, VoidTypes DEF TypeOK, Steps
<1>5. ClientTypes'
  BY <1>4, TypeParts DEF ClientTypes, ClientSeesClose, None
<1>6. DialogTypes'
  BY <1>4, TypeParts DEF DialogTypes, ClientSeesClose
<1> QED
  BY <1>1, <1>2, <1>5, <1>6, KeptTypes, TypePartsAfter

LEMMA UserTypes ==
  ASSUME TypeOK, User
  PROVE  TypeOK'
<1> USE TypeOK
<1>0. NoMessageTaken
  BY DEF User, Connect, Start, UserCancels, UserRetries, UserLeaves
<1>n. toClient' \in Seq(ToClient) /\ BridgeKept
  BY <1>0, NoMessageTypes
<1>k. SessionTypes' /\ TransferTypes' /\ WorkTypes' /\ over' \subseteq Ids
  BY <1>n, KeptTypes
<1>s. {"connecting", "between", "clock", "left"} \subseteq Steps
  BY DEF Steps
<1>1. CASE Connect \/ UserRetries
  <2>1. Ask("connect") \/ Ask("serverTime")
    BY <1>1 DEF Connect, UserRetries
  <2>2. toBridge' \in Seq(ToBridge) /\ nextRequestId' \in Ids /\ request' \in Nat
    BY <2>1, AskTypes DEF Calls
  <2>3. WireTypes'
    BY <1>1, <1>n, <1>k, <2>2, TypeParts DEF WireTypes, Connect, UserRetries
  <2>4. ClientTypes'
    BY <1>1, <2>2, TypeParts DEF ClientTypes, Connect, UserRetries
  <2>5. retries' \in 0..MaxRetries
    BY <1>1, ExportAssumption, TypeParts DEF DialogTypes, Connect, UserRetries
  <2>6. DialogTypes'
    BY <1>1, <1>s, <2>5, TypeParts DEF DialogTypes, Connect, UserRetries
  <2> QED
    BY <1>k, <2>3, <2>4, <2>6, TypePartsAfter
<1>2. CASE Start
  <2>1. WireTypes' /\ ClientTypes'
    BY <1>2, <1>n, <1>k, TypeParts, Unchanged DEF WireTypes, Start
  <2>2. file' \in 0..Files
    BY <1>2, ExportAssumption DEF Start
  <2>3. DialogTypes'
    BY <1>2, <1>s, <2>2, TypeParts DEF DialogTypes, Start
  <2> QED
    BY <1>k, <2>1, <2>3, TypePartsAfter
<1>3. CASE UserCancels
  <2>1. toBridge' \in Seq(ToBridge)
    BY <1>3, CancelTypes, PostTypes DEF UserCancels
  <2>2. WireTypes' /\ ClientTypes'
    BY <1>3, <1>n, <1>k, <2>1, TypeParts, Unchanged DEF WireTypes, UserCancels
  <2>3. DialogTypes'
    BY <1>3, TypeParts DEF DialogTypes, UserCancels
  <2> QED
    BY <1>k, <2>2, <2>3, TypePartsAfter
<1>4. CASE UserLeaves
  <2>1. /\ toBridge' \in Seq(ToBridge) /\ link' \in {"up", "down"}
        /\ ws' \in BOOLEAN /\ request' \in Nat /\ current' \in Nat
    BY <1>4, CancelTypes, DisconnectClientTypes DEF UserLeaves
  <2>2. WireTypes'
    BY <1>n, <1>k, <2>1 DEF WireTypes
  <2>3. ClientTypes'
    BY <1>4, <2>1, EmptySeq, TypeParts DEF ClientTypes, UserLeaves, None
  <2>4. DialogTypes'
    BY <1>4, <1>s, TypeParts DEF DialogTypes, UserLeaves
  <2> QED
    BY <1>k, <2>2, <2>3, <2>4, TypePartsAfter
<1> QED
  BY <1>1, <1>2, <1>3, <1>4 DEF User

LEMMA StepTypes ==
  ASSUME TypeOK, [Next]_vars
  PROVE  TypeOK'
<1> USE TypeOK
<1>1. CASE Next
  BY <1>1, BridgeTypes, ArrivalTypes, WorkingTypes, ClientSeesCloseTypes, UserTypes
     DEF Next, ClientWorks
<1>2. CASE UNCHANGED vars
  BY <1>2, TypePartsAfter, Unchanged DEF vars, bridgeVars
<1> QED
  BY <1>1, <1>2

LEMMA InitTypes == Init => TypeOK
<1> SUFFICES ASSUME Init
             PROVE  TypeOK
  OBVIOUS
<1>1. WireTypes /\ SessionTypes /\ TransferTypes /\ WorkTypes
  BY EmptySeq DEF Init, BridgeInit, WireTypes, SessionTypes, TransferTypes, WorkTypes, None
<1>2. ClientTypes
  BY EmptySeq DEF Init, ClientTypes, Ids, None
<1>3. file \in 0..Files /\ retries \in 0..MaxRetries
  BY ExportAssumption DEF Init
<1>4. DialogTypes
  BY <1>3, EmptySeq DEF Init, DialogTypes, Steps
<1> QED
  BY <1>1, <1>2, <1>4, TypeParts

\* Every variable always has its type, and every message and call its request.
THEOREM TypeCorrect == Spec => []TypeOK
BY InitTypes, StepTypes, PTL DEF Spec

-----------------------------------------------------------------------------
(* The wire to the bridge: its calls are taken in order and added one by   *)
(* one.                                                                    *)

\* The calls on the wire are some of those that were there, `k` places further.
CallsMoved(k) ==
  \A i \in Nat : Asked(i)' => Asked(i + k) /\ toBridge'[i] = toBridge[i + k]

CallsKept == \E k \in {0, 1} : CallsMoved(k)

\* One more call is on the wire, with a new id.
CallAdded(type) ==
  /\ nextRequestId' = nextRequestId + 1
  /\ \A i \in Nat : Asked(i)' =>
       \/ Asked(i) /\ toBridge'[i] = toBridge[i]
       \/ i = Len(toBridge) + 1 /\ toBridge'[i] = Message(type, nextRequestId, 0)

LEMMA SameCalls ==
  ASSUME TypeOK, UNCHANGED toBridge
  PROVE  CallsKept
<1>1. \A i \in Nat : i + 0 = i
  OBVIOUS
<1> QED
  BY <1>1 DEF CallsKept, CallsMoved, Asked

LEMMA NoCalls ==
  ASSUME toBridge' = <<>>
  PROVE  CallsKept
<1>1. \A i \in Nat : ~Asked(i)'
  BY EmptySeq DEF Asked
<1> QED
  BY <1>1 DEF CallsKept, CallsMoved

\* A message is taken: the calls behind it stay.
LEMMA CallTaken ==
  ASSUME TypeOK, NEW type, Receive(type)
  PROVE  /\ CallsMoved(1)
         /\ \A i \in Nat : Asked(i)' => i # 0
         /\ 1 \in DOMAIN toBridge /\ Head(toBridge) = toBridge[1]
<1>1. toBridge \in Seq(ToBridge) /\ toBridge # <<>> /\ toBridge' = Tail(toBridge)
  BY DEF Receive, TypeOK
<1>2. /\ toBridge' \in Seq(ToBridge) /\ Len(toBridge) \in Nat
      /\ Len(toBridge') = Len(toBridge) - 1
      /\ Head(toBridge) = toBridge[1]
      /\ \A i \in 1..Len(toBridge') : toBridge'[i] = toBridge[i + 1]
  BY <1>1, TakeFirst
<1>3. DOMAIN toBridge = 1..Len(toBridge) /\ DOMAIN toBridge' = 1..Len(toBridge')
  BY <1>1, <1>2, LenProperties
<1>4. ASSUME NEW i \in Nat, Asked(i)'
      PROVE  /\ i # 0 /\ i + 1 \in DOMAIN toBridge
             /\ toBridge'[i] = toBridge[i + 1] /\ toBridge'[i].type \in Calls
  BY <1>2, <1>3, <1>4 DEF Asked
<1>5. 1 \in DOMAIN toBridge
  BY <1>1, <1>2, <1>3, EmptySeq
<1> QED
  BY <1>2, <1>4, <1>5 DEF CallsMoved, Asked

LEMMA PostedCalls ==
  ASSUME TypeOK, NEW messages \in Seq(ToBridge), Post(messages)
  PROVE  \A i \in Nat : Asked(i)' =>
           \/ Asked(i) /\ toBridge'[i] = toBridge[i]
           \/ \E j \in 1..Len(messages) :
                i = Len(toBridge) + j /\ toBridge'[i] = messages[j]
                /\ messages[j].type \in Calls
<1> DEFINE s == toBridge \o messages
<1>1. toBridge \in Seq(ToBridge)
  BY DEF TypeOK
<1>2. /\ s \in Seq(ToBridge) /\ Len(s) = Len(toBridge) + Len(messages)
      /\ Len(toBridge) \in Nat /\ Len(messages) \in Nat
      /\ \A i \in 1..Len(s) :
           s[i] = IF i <= Len(toBridge) THEN toBridge[i] ELSE messages[i - Len(toBridge)]
  BY <1>1, ConcatProperties, LenProperties
<1>3. DOMAIN s = 1..Len(s) /\ DOMAIN toBridge = 1..Len(toBridge)
  BY <1>1, <1>2, LenProperties
<1>4. CASE toBridge' = toBridge
  BY <1>4 DEF Asked
<1>5. CASE toBridge' = s
  <2>1. TAKE i \in Nat
  <2>2. HAVE Asked(i)'
  <2>3. i \in 1..Len(s) /\ toBridge'[i] = s[i] /\ s[i].type \in Calls
    BY <1>3, <1>5, <2>2 DEF Asked
  <2> HIDE DEF s
  <2>4. CASE i <= Len(toBridge)
    <3>1. i \in DOMAIN toBridge /\ s[i] = toBridge[i]
      BY <1>2, <1>3, <2>3, <2>4
    <3> QED
      BY <2>3, <3>1 DEF Asked
  <2>5. CASE ~(i <= Len(toBridge))
    <3>1. /\ i - Len(toBridge) \in 1..Len(messages) /\ i = Len(toBridge) + (i - Len(toBridge))
          /\ s[i] = messages[i - Len(toBridge)]
      BY <1>2, <2>3, <2>5
    <3> QED
      BY <2>3, <3>1
  <2> QED
    BY <2>4, <2>5
<1> QED
  BY <1>4, <1>5 DEF Post

LEMMA NoCallPosted ==
  ASSUME TypeOK, NEW messages \in Seq(ToBridge), Post(messages),
         \A j \in 1..Len(messages) : messages[j].type \notin Calls
  PROVE  CallsKept
<1>1. \A i \in Nat : Asked(i)' => Asked(i) /\ toBridge'[i] = toBridge[i]
  BY PostedCalls
<1>2. \A i \in Nat : i + 0 = i
  OBVIOUS
<1> QED
  BY <1>1, <1>2 DEF CallsKept, CallsMoved

LEMMA OneCallPosted ==
  ASSUME TypeOK, NEW type \in Calls, Post(<<Message(type, nextRequestId, 0)>>),
         nextRequestId' = nextRequestId + 1
  PROVE  CallAdded(type)
<1> DEFINE m == Message(type, nextRequestId, 0)
<1>1. m \in ToBridge
  BY MessageTypes DEF TypeOK
<1>2. <<m>> \in Seq(ToBridge)
  BY <1>1, OneMessage
<1> HIDE DEF m
<1>3. Len(<<m>>) = 1 /\ <<m>>[1] = m
  OBVIOUS
<1>4. Post(<<m>>)
  BY DEF m
<1>5. \A i \in Nat : Asked(i)' =>
           \/ Asked(i) /\ toBridge'[i] = toBridge[i]
           \/ \E j \in 1..Len(<<m>>) :
                i = Len(toBridge) + j /\ toBridge'[i] = <<m>>[j]
                /\ <<m>>[j].type \in Calls
  BY <1>2, <1>4, PostedCalls
<1>6. \A i \in Nat : Asked(i)' =>
           \/ Asked(i) /\ toBridge'[i] = toBridge[i]
           \/ i = Len(toBridge) + 1 /\ toBridge'[i] = m
  BY <1>3, <1>5
<1> QED
  BY <1>6 DEF CallAdded, m

\* What any step of the client means to the bridge and its wire.
ClientSays ==
  /\ BridgeKept
  /\ Len(toClient') <= Len(toClient)
  /\ \/ CallsKept /\ nextRequestId' = nextRequestId
     \/ \E type \in Calls : CallAdded(type) /\ (type = "connect" => nextRequestId = 1)

LEMMA ShorterToClient ==
  ASSUME TypeOK,
         \/ UNCHANGED toClient
         \/ toClient # <<>> /\ toClient' = Tail(toClient)
         \/ toClient' = <<>>
  PROVE  Len(toClient') <= Len(toClient)
<1>1. toClient \in Seq(ToClient) /\ Len(toClient) \in Nat
  BY LenProperties DEF TypeOK
<1>2. CASE UNCHANGED toClient
  BY <1>1, <1>2
<1>3. CASE toClient # <<>> /\ toClient' = Tail(toClient)
  BY <1>1, <1>3, TakeFirst
<1>4. CASE toClient' = <<>>
  BY <1>1, <1>4, EmptySeq
<1> QED
  BY <1>2, <1>3, <1>4

LEMMA AskAdds ==
  ASSUME TypeOK, NEW type \in Calls, Ask(type)
  PROVE  CallAdded(type)
BY OneCallPosted DEF Ask

LEMMA CancelKeeps ==
  ASSUME TypeOK, Post(IF current # None THEN Cancel ELSE <<>>)
  PROVE  CallsKept
<1> DEFINE messages == IF current # None THEN Cancel ELSE <<>>
<1>1. messages \in Seq(ToBridge)
  BY CancelTypes
<1>2. \A j \in 1..Len(messages) : messages[j].type \notin Calls
  BY DEF Cancel, Message, Calls
<1> QED
  BY <1>1, <1>2, NoCallPosted

LEMMA DisconnectKeeps ==
  ASSUME TypeOK, NEW before,
         before = <<>> \/ before = IF current # None THEN Cancel ELSE <<>>,
         Disconnect(before)
  PROVE  CallsKept
<1> DEFINE m == Message("disconnect", None, 0)
           messages == before \o <<m>>
<1>1. m \in ToBridge /\ m.type \notin Calls
  BY MessageTypes DEF Notices, None, Message, Calls
<1>2. before = <<>> \/ (before = <<Message("cancel", current, 0)>> /\ current # None)
  BY DEF Cancel
<1> HIDE DEF m
<1>3. CASE before = <<>>
  <2>1. messages = <<m>>
    BY <1>3
  <2>a. messages \in Seq(ToBridge)
    BY <1>1, <2>1, OneMessage
  <2>2. messages \in Seq(ToBridge) /\ \A j \in 1..Len(messages) : messages[j].type \notin Calls
    BY <1>1, <2>1, <2>a
  <2> QED
    BY <2>2, NoCallPosted DEF Disconnect, m
<1>4. CASE before = <<Message("cancel", current, 0)>> /\ current # None
  <2> DEFINE c == Message("cancel", current, 0)
  <2>1. c \in ToBridge /\ c.type \notin Calls
    BY <1>4, MessageTypes DEF TypeOK, Ids, Message, Calls
  <2> HIDE DEF c
  <2>2. before = <<c>>
    BY <1>4 DEF c
  <2>3. <<c>> \in Seq(ToBridge) /\ <<m>> \in Seq(ToBridge)
    BY <1>1, <2>1, OneMessage
  <2>4. /\ messages \in Seq(ToBridge) /\ Len(messages) = 2
        /\ messages[1] = c /\ messages[2] = m
    BY <2>2, <2>3, ConcatProperties
  <2>5. \A j \in 1..Len(messages) : messages[j].type \notin Calls
    BY <1>1, <2>1, <2>4
  <2> QED
    BY <2>4, <2>5, NoCallPosted DEF Disconnect, m
<1> QED
  BY <1>2, <1>3, <1>4

LEMMA AckKeeps ==
  ASSUME TypeOK, Written
  PROVE  CallsKept
<1>1. PICK id, n : Post(<<Message("ack", id, n)>>) /\ id \in Nat /\ n \in Nat
  <2>1. Head(writes) \in ToClient
    BY TakeFirst DEF TypeOK, Written
  <2>2. Len(written') \in Nat
    BY <2>1, AppendProperties, LenProperties DEF TypeOK, Written
  <2>3. (IF current # None THEN current ELSE draining) \in Nat
    BY DEF TypeOK
  <2> QED
    BY <2>2, <2>3 DEF Written
<1>2. Message("ack", id, n) \in ToBridge /\ Message("ack", id, n).type \notin Calls
  BY <1>1, MessageTypes DEF Notices, Message, Calls
<1>3. <<Message("ack", id, n)>> \in Seq(ToBridge)
  BY <1>2, OneMessage
<1>4. \A j \in 1..Len(<<Message("ack", id, n)>>) :
         <<Message("ack", id, n)>>[j].type \notin Calls
  BY <1>2
<1> QED
  BY <1>1, <1>3, <1>4, NoCallPosted

LEMMA ClientStepSays ==
  ASSUME TypeOK, ClientWorks \/ User
  PROVE  ClientSays
<1> USE TypeOK
<1>1. CASE Connect \/ ConnectedArrives \/ ClockArrives \/ UserRetries \/ DownloadNext
  <2>1. NoMessageTaken \/ \E types, id : Arrives(types, id)
    BY <1>1 DEF Connect, ConnectedArrives, ClockArrives, UserRetries, DownloadNext
  <2>2. BridgeKept
    BY <2>1, ArrivesTypes, NoMessageTypes
  <2>3. UNCHANGED toClient \/ (toClient # <<>> /\ toClient' = Tail(toClient))
    BY <1>1 DEF Connect, ConnectedArrives, ClockArrives, UserRetries, DownloadNext, Arrives,
                NoMessageTaken
  <2>4. \E type \in Calls : CallAdded(type) /\ (type = "connect" => nextRequestId = 1)
    <3>1. CASE Connect
      BY <3>1, AskAdds DEF Connect, Calls
    <3>2. CASE ConnectedArrives \/ UserRetries
      BY <3>2, AskAdds DEF ConnectedArrives, UserRetries, Calls
    <3>3. CASE ClockArrives
      BY <3>3, AskAdds DEF ClockArrives, Calls
    <3>4. CASE DownloadNext
      BY <3>4, OneCallPosted DEF DownloadNext, Calls
    <3> QED
      BY <1>1, <3>1, <3>2, <3>3, <3>4
  <2> QED
    BY <2>2, <2>3, <2>4, ShorterToClient DEF ClientSays
<1>2. CASE \/ ListingArrives \/ RequestFails \/ FrameArrives \/ FileEndArrives
           \/ DownloadFails \/ SshClosedArrives \/ OtherArrives
  <2>1. BridgeKept
    <3>1. CASE FrameArrives \/ OtherArrives
      BY <3>1 DEF FrameArrives, OtherArrives, BridgeKept
    <3>2. CASE ~(FrameArrives \/ OtherArrives)
      BY <1>2, <3>2, ArrivesTypes
         DEF ListingArrives, RequestFails, FileEndArrives, DownloadFails, SshClosedArrives
    <3> QED
      BY <3>1, <3>2
  <2>2. toClient # <<>> /\ toClient' = Tail(toClient)
    BY <1>2 DEF ListingArrives, RequestFails, FrameArrives, FileEndArrives, DownloadFails,
                SshClosedArrives, OtherArrives, Arrives
  <2>3. UNCHANGED toBridge \/ Disconnect(<<>>)
    BY <1>2 DEF ListingArrives, RequestFails, FrameArrives, FileEndArrives, DownloadFails,
                SshClosedArrives, OtherArrives
  <2>4. nextRequestId' = nextRequestId
    BY <1>2 DEF ListingArrives, RequestFails, FrameArrives, FileEndArrives, DownloadFails,
                SshClosedArrives, OtherArrives, client
  <2>5. CallsKept
    BY <2>3, SameCalls, DisconnectKeeps
  <2> QED
    BY <2>1, <2>2, <2>4, <2>5, ShorterToClient DEF ClientSays
<1>3. CASE \/ ExportStops \/ Succeed \/ Written \/ WriteFails \/ Completed
           \/ Start \/ UserCancels \/ UserLeaves
  <2>1. NoMessageTaken
    BY <1>3 DEF ExportStops, Succeed, Written, WriteFails, Completed, Start, UserCancels,
                UserLeaves
  <2>2. BridgeKept /\ UNCHANGED toClient
    BY <2>1, NoMessageTypes DEF NoMessageTaken
  <2>3. nextRequestId' = nextRequestId
    BY <1>3 DEF ExportStops, Succeed, Written, WriteFails, Completed, Start, UserCancels,
                UserLeaves, client
  <2>4. CASE ExportStops \/ Completed \/ Start
    BY <2>2, <2>3, <2>4, SameCalls, ShorterToClient
       DEF ClientSays, ExportStops, Completed, Start
  <2>5. CASE Written
    BY <2>2, <2>3, <2>5, AckKeeps, ShorterToClient DEF ClientSays
  <2>6. CASE WriteFails \/ UserCancels
    BY <2>2, <2>3, <2>6, CancelKeeps, ShorterToClient DEF ClientSays, WriteFails, UserCancels
  <2>7. CASE Succeed \/ UserLeaves
    <3>1. CallsKept
      BY <2>7, DisconnectKeeps DEF Succeed, UserLeaves
    <3> QED
      BY <2>2, <2>3, <3>1, ShorterToClient DEF ClientSays
  <2> QED
    BY <1>3, <2>4, <2>5, <2>6, <2>7
<1>4. CASE ClientSeesClose
  <2>1. /\ BridgeKept /\ UNCHANGED toBridge /\ toClient' = <<>>
        /\ nextRequestId' = nextRequestId
    BY <1>4 DEF ClientSeesClose, BridgeKept
  <2> QED
    BY <2>1, SameCalls, ShorterToClient DEF ClientSays
<1> QED
  BY <1>1, <1>2, <1>3, <1>4 DEF ClientWorks, Arrivals, User

-----------------------------------------------------------------------------
(* What the bridge says.                                                   *)

LEMMA NothingSaid ==
  ASSUME TypeOK, UNCHANGED toClient
  PROVE  SaidAnew = {}
<1>1. Len(toClient) \in Nat
  BY LenProperties DEF TypeOK
<1>2. (Len(toClient) + 1)..Len(toClient') = {}
  BY <1>1
<1> QED
  BY <1>2 DEF SaidAnew

LEMMA SaidOf ==
  ASSUME TypeOK, NEW id, NEW messages \in Seq(ToClient), Send(messages),
         \A j \in 1..Len(messages) :
            /\ messages[j].id \in {id, None}
            /\ messages[j].type \in Last => messages[j].id = id
  PROVE  SaidAnew \subseteq {id} /\ over' \subseteq over \union {id}
<1> DEFINE s == toClient \o messages
<1>1. /\ s \in Seq(ToClient) /\ Len(s) = Len(toClient) + Len(messages)
      /\ Len(toClient) \in Nat /\ Len(messages) \in Nat
      /\ \A i \in 1..Len(s) :
           s[i] = IF i <= Len(toClient) THEN toClient[i] ELSE messages[i - Len(toClient)]
  BY ConcatProperties, LenProperties DEF TypeOK
<1>2. over' \subseteq over \union {id}
  <2>1. DOMAIN messages = 1..Len(messages)
    BY LenProperties
  <2> QED
    BY <2>1 DEF Send
<1>3. CASE UNCHANGED toClient
  BY <1>2, <1>3, NothingSaid
<1>4. CASE toClient' = s
  <2> HIDE DEF s
  <2>1. ASSUME NEW i \in (Len(toClient) + 1)..Len(toClient')
        PROVE  toClient'[i].id \in {id, None}
    <3>1. /\ i \in 1..Len(s) /\ ~(i <= Len(toClient))
          /\ i - Len(toClient) \in 1..Len(messages)
      BY <1>1, <1>4, <2>1
    <3>2. toClient'[i] = messages[i - Len(toClient)]
      BY <1>1, <1>4, <3>1
    <3> QED
      BY <3>1, <3>2
  <2> QED
    BY <1>2, <2>1 DEF SaidAnew
<1> QED
  BY <1>3, <1>4 DEF Send

LEMMA AnswerSays ==
  ASSUME TypeOK, NEW type \in Last, NEW id \in Ids, Answer(type, id)
  PROVE  SaidAnew \subseteq {id} /\ over' \subseteq over \union {id}
<1> DEFINE m == Message(type, id, 0)
<1>1. m \in ToClient /\ m.id = id
  BY MessageTypes DEF Message
<1>2. <<m>> \in Seq(ToClient)
  BY <1>1, OneMessage
<1> HIDE DEF m
<1>3. \A j \in 1..Len(<<m>>) : <<m>>[j].id = id
  BY <1>1
<1>4. Send(<<m>>)
  BY DEF Answer, m
<1> QED
  BY <1>2, <1>3, <1>4, SaidOf

\* A message that is no last answer.
LEMMA PartSays ==
  ASSUME TypeOK, NEW type \in {"fileStart", "data"}, NEW id \in Ids, NEW n \in Nat,
         Send(<<Message(type, id, n)>>)
  PROVE  SaidAnew \subseteq {id} /\ over' = over
<1> DEFINE m == Message(type, id, n)
<1>1. m \in ToClient /\ m.id = id /\ m.type \notin Last
  BY MessageTypes DEF Message, Last
<1>2. <<m>> \in Seq(ToClient)
  BY <1>1, OneMessage
<1> HIDE DEF m
<1>3. \A j \in 1..Len(<<m>>) : <<m>>[j].id = id
  BY <1>1
<1>4. Send(<<m>>)
  BY DEF m
<1>5. \A j \in DOMAIN <<m>> : <<m>>[j].type \notin Last
  BY <1>1
<1>6. over' = over
  BY <1>4, <1>5 DEF Send
<1> QED
  BY <1>2, <1>3, <1>4, <1>6, SaidOf

\* The end of a session is told to the download that dies with it, and to nobody
\* else.
LEMMA SessionEndSays ==
  ASSUME TypeOK, NEW after \in {<<>>, SshClosed}, Send(Disconnected \o after)
  PROVE  /\ SaidAnew \subseteq {download} \ {None}
         /\ over' \subseteq over \union ({download} \ {None})
<1> DEFINE c == Message("sshClosed", None, 0)
           e == Message("error", download, 0)
<1>1. c \in ToClient /\ c.id = None /\ c.type \notin Last
  BY MessageTypes DEF Message, Last
<1>2. download # None => e \in ToClient
  BY MessageTypes DEF TypeOK, Ids, Last
<1>3. e.id = download
  BY DEF Message
<1> HIDE DEF c, e
<1>4. after = <<>> \/ after = <<c>>
  BY DEF SshClosed, c
<1>5. CASE download = None
  <2>1. Disconnected = <<>>
    BY <1>5 DEF Disconnected
  <2>2. <<c>> \in Seq(ToClient) /\ <<>> \in Seq(ToClient)
    BY <1>1, OneMessage, EmptySeq
  <2>3. Disconnected \o after = after /\ after \in Seq(ToClient)
    BY <1>4, <2>1, <2>2, ConcatEmptySeq
  <2>4. \A j \in 1..Len(after) : after[j].id = None /\ after[j].type \notin Last
    BY <1>1, <1>4
  <2>5. Send(after)
    BY <2>3
  <2>6. SaidAnew \subseteq {None}
    BY <2>3, <2>4, <2>5, SaidOf
  <2>7. DOMAIN after = 1..Len(after)
    BY <2>3, LenProperties
  <2>8. over' = over
    BY <2>4, <2>5, <2>7 DEF Send
  <2> QED
    BY <1>5, <2>6, <2>8 DEF SaidAnew
<1>6. CASE download # None
  <2>1. Disconnected = <<e>>
    BY <1>6 DEF Disconnected, e
  <2>2. <<e>> \in Seq(ToClient) /\ <<c>> \in Seq(ToClient) /\ <<>> \in Seq(ToClient)
    BY <1>1, <1>2, <1>6, OneMessage, EmptySeq
  <2>3. CASE after = <<>>
    <3>1. <<e>> \o after = <<e>>
      BY <2>2, <2>3
    <3>2. \A j \in 1..Len(<<e>>) : <<e>>[j].id = download
      BY <1>3
    <3>3. Send(<<e>>)
      BY <2>1, <2>3, <3>1
    <3>4. SaidAnew \subseteq {download} /\ over' \subseteq over \union {download}
      BY <2>2, <3>2, <3>3, SaidOf
    <3> QED
      BY <1>6, <3>4
  <2>4. CASE after = <<c>>
    <3> DEFINE s == <<e>> \o <<c>>
    <3>1. s \in Seq(ToClient) /\ Len(s) = 2 /\ s[1] = e /\ s[2] = c
      BY <2>2, ConcatProperties
    <3>2. Send(s)
      BY <2>1, <2>4
    <3> HIDE DEF s
    <3>3. \A j \in 1..Len(s) : /\ s[j].id \in {download, None}
                               /\ s[j].type \in Last => s[j].id = download
      BY <1>1, <1>3, <3>1
    <3>4. SaidAnew \subseteq {download} /\ over' \subseteq over \union {download}
      BY <3>1, <3>2, <3>3, SaidOf
    <3> QED
      BY <1>6, <3>4
  <2> QED
    BY <1>4, <2>3, <2>4
<1> QED
  BY <1>5, <1>6

-----------------------------------------------------------------------------
(* Where a request is.                                                     *)

\* A step of the bridge moves at most one request, one that was not answered; what
\* the bridge says is about it.  It ends in one place, or nowhere.
Moves(id) ==
  /\ nextRequestId' = nextRequestId
  /\ id \in Nat /\ id < nextRequestId /\ id \notin over
  /\ CallsKept
  /\ \A i \in Nat : Asked(i)' => toBridge'[i].id # id
  /\ \A o \in operations' : o.id # id => o \in operations
  /\ \A o, p \in operations' : o.id = id /\ p.id = id => o = p
  /\ \A o \in operations' : o.id = id => id \notin over' /\ download' # id
  /\ over' \subseteq over \union {id}
  /\ download' \in {None, download, id}
  /\ download' = id => id \notin over'
  /\ SaidAnew \subseteq {id}

LEMMA CallKept ==
  ASSUME CallsKept, NEW i \in Nat, Asked(i)'
  PROVE  \E j \in Nat : Asked(j) /\ toBridge'[i] = toBridge[j]
BY DEF CallsKept, CallsMoved

\* Two calls of a wire that was left or taken from come from two calls.
LEMMA TwoCallsKept ==
  ASSUME CallsKept, NEW i \in Nat, NEW j \in Nat, Asked(i)', Asked(j)'
  PROVE  \E k, l \in Nat : /\ Asked(k) /\ toBridge'[i] = toBridge[k]
                           /\ Asked(l) /\ toBridge'[j] = toBridge[l]
                           /\ k = l => i = j
<1>1. PICK k \in {0, 1} : CallsMoved(k)
  BY DEF CallsKept
<1>2. /\ Asked(i + k) /\ toBridge'[i] = toBridge[i + k]
      /\ Asked(j + k) /\ toBridge'[j] = toBridge[j + k]
  BY <1>1 DEF CallsMoved
<1>3. i + k \in Nat /\ j + k \in Nat /\ (i + k = j + k => i = j)
  OBVIOUS
<1> QED
  BY <1>2, <1>3

LEMMA MovesKeepOwner ==
  ASSUME TypeOK, OneOwner, NEW id, Moves(id)
  PROVE  OneOwner'
<1>1. ASSUME NEW i \in Nat, Asked(i)'
      PROVE  /\ toBridge'[i].id < nextRequestId'
             /\ toBridge'[i].id \notin over' \union {download'}
             /\ \A operation \in operations' : operation.id # toBridge'[i].id
  <2>1. PICK j \in Nat : Asked(j) /\ toBridge'[i] = toBridge[j]
    BY <1>1, CallKept DEF Moves
  <2>2. toBridge[j].id # None
    BY <2>1, ElementOfSeq, LenProperties, CallHasId DEF TypeOK, Asked, Ids
  <2>3. toBridge'[i].id # id
    BY <1>1 DEF Moves
  <2>4. /\ toBridge[j].id < nextRequestId
        /\ toBridge[j].id \notin over \union {download}
        /\ \A operation \in operations : operation.id # toBridge[j].id
    BY <2>1 DEF OneOwner
  <2>5. toBridge'[i].id < nextRequestId'
    BY <2>1, <2>4 DEF Moves
  <2>6. toBridge'[i].id \notin over' \union {download'}
    BY <2>1, <2>2, <2>3, <2>4 DEF Moves
  <2>7. \A operation \in operations' : operation.id # toBridge'[i].id
    BY <2>1, <2>3, <2>4 DEF Moves
  <2> QED
    BY <2>5, <2>6, <2>7
<1>2. ASSUME NEW i \in Nat, NEW j \in Nat, Asked(i)', Asked(j)',
             toBridge'[i].id = toBridge'[j].id
      PROVE  i = j
  <2>1. PICK k, l \in Nat : /\ Asked(k) /\ toBridge'[i] = toBridge[k]
                            /\ Asked(l) /\ toBridge'[j] = toBridge[l]
                            /\ k = l => i = j
    BY <1>2, TwoCallsKept DEF Moves
  <2>2. k = l
    BY <1>2, <2>1 DEF OneOwner
  <2> QED
    BY <2>1, <2>2
<1>3. ASSUME NEW operation \in operations'
      PROVE  /\ operation.id < nextRequestId'
             /\ operation.id \notin over' \union {download'}
  <2>1. CASE operation.id = id
    BY <2>1 DEF Moves
  <2>2. CASE operation.id # id
    <3>1. operation \in operations /\ operation.id # None
      BY <2>2 DEF Moves, TypeOK, Ids
    <3>2. /\ operation.id < nextRequestId
          /\ operation.id \notin over \union {download}
      BY <3>1 DEF OneOwner
    <3> QED
      BY <2>2, <3>1, <3>2 DEF Moves
  <2> QED
    BY <2>1, <2>2
<1>4. ASSUME NEW o \in operations', NEW p \in operations', o.id = p.id
      PROVE  o = p
  <2>1. CASE o.id = id
    BY <1>4, <2>1 DEF Moves
  <2>2. CASE o.id # id
    BY <1>4, <2>2 DEF Moves, OneOwner
  <2> QED
    BY <2>1, <2>2
<1>5. download' < nextRequestId'
  BY DEF Moves, OneOwner, TypeOK, Ids, None
<1>6. download' \notin over'
  <2>1. None \notin over /\ download \notin over
    BY DEF TypeOK, Ids, OneOwner
  <2>2. CASE download' = id
    BY <2>2 DEF Moves
  <2>3. CASE download' # id
    BY <2>1, <2>3 DEF Moves
  <2> QED
    BY <2>2, <2>3
<1>7. ASSUME NEW x \in over'
      PROVE  x < nextRequestId'
  BY <1>7 DEF Moves, OneOwner
<1> QED
  BY <1>1, <1>2, <1>3, <1>4, <1>5, <1>6, <1>7 DEF OneOwner

\* Nothing moves, but for a download or a call that is dropped.
LEMMA NothingMoves ==
  ASSUME TypeOK, OneOwner, CallsKept, operations' \subseteq operations, over' = over,
         nextRequestId' = nextRequestId, download' \in {None, download}, SaidAnew = {}
  PROVE  Moves(None)
<1>1. None \in Nat /\ None < nextRequestId /\ None \notin over
  BY DEF TypeOK, Ids, None
<1>2. \A o \in operations' : o.id # None
  BY DEF TypeOK, Ids
<1>3. \A i \in Nat : Asked(i)' => toBridge'[i].id # None
  <2>1. ASSUME NEW i \in Nat, Asked(i)'
        PROVE  toBridge'[i].id # None
    <3>1. PICK j \in Nat : Asked(j) /\ toBridge'[i] = toBridge[j]
      BY <2>1, CallKept
    <3> QED
      BY <3>1, ElementOfSeq, LenProperties, CallHasId DEF TypeOK, Asked, Ids
  <2> QED
    BY <2>1
<1> QED
  BY <1>1, <1>2, <1>3 DEF Moves

\* Something is said of the download, or it ends.
LEMMA DownloadMoves ==
  ASSUME TypeOK, OneOwner, CallsKept, UNCHANGED <<operations, nextRequestId>>,
         over' \subseteq over \union {download}, SaidAnew \subseteq {download},
         download' = None \/ (download' = download /\ over' = over),
         download # None
  PROVE  Moves(download)
<1>1. download \in Nat /\ download < nextRequestId /\ download \notin over
  BY DEF TypeOK, OneOwner
<1>2. \A o \in operations' : o.id # download
  BY DEF OneOwner
<1>3. \A i \in Nat : Asked(i)' => toBridge'[i].id # download
  BY CallKept DEF OneOwner
<1> QED
  BY <1>1, <1>2, <1>3 DEF Moves

\* An answer of the SSH layer moves its request.
LEMMA OperationMoves ==
  ASSUME TypeOK, OneOwner, UNCHANGED <<toBridge, nextRequestId>>,
         NEW o \in operations, NEW next,
         operations' = (operations \ {o}) \union next,
         \A p \in next : p.id = o.id,
         \A p, q \in next : p = q,
         next # {} => over' = over /\ download' = download,
         over' \subseteq over \union {o.id}, SaidAnew \subseteq {o.id},
         download' = download \/ (download' = o.id /\ over' = over)
  PROVE  Moves(o.id)
<1>1. o.id \in Nat /\ o.id < nextRequestId /\ o.id \notin over /\ download # o.id
  BY DEF TypeOK, OneOwner, Ids
<1>2. CallsKept
  BY SameCalls
<1>3. \A i \in Nat : Asked(i)' => toBridge'[i].id # o.id
  BY <1>2, CallKept DEF OneOwner
<1>4. \A p \in operations' : p.id # o.id => p \in operations
  OBVIOUS
<1>5. \A p \in operations' : p.id = o.id => p \in next
  BY DEF OneOwner
<1>6. \A p, q \in operations' : p.id = o.id /\ q.id = o.id => p = q
  BY <1>5
<1>7. \A p \in operations' : p.id = o.id => o.id \notin over' /\ download' # o.id
  BY <1>1, <1>5
<1>8. download' = o.id => o.id \notin over'
  BY <1>1
<1> QED
  BY <1>1, <1>2, <1>3, <1>4, <1>6, <1>7, <1>8 DEF Moves

\* An answer that nothing is asked after.
LEMMA OperationEnds ==
  ASSUME TypeOK, OneOwner, UNCHANGED <<toBridge, nextRequestId>>,
         NEW o \in operations,
         operations' = operations \ {o},
         over' \subseteq over \union {o.id}, SaidAnew \subseteq {o.id},
         download' = download \/ (download' = o.id /\ over' = over)
  PROVE  Moves(o.id)
<1> DEFINE next == {}
<1>1. /\ operations' = (operations \ {o}) \union next
      /\ \A p \in next : p.id = o.id
      /\ \A p, q \in next : p = q
      /\ next # {} => over' = over /\ download' = download
  OBVIOUS
<1> HIDE DEF next
<1> QED
  BY <1>1, OperationMoves

\* A call that is received moves to the SSH layer or is answered.
LEMMA CallMoves ==
  ASSUME TypeOK, OneOwner, NEW type \in Calls, Receive(type),
         UNCHANGED <<nextRequestId, download>>,
         NEW kind,
         \/ Call(kind, Head(toBridge).id) /\ UNCHANGED <<toClient, over>>
         \/ Answer("error", Head(toBridge).id) /\ UNCHANGED operations
  PROVE  Moves(Head(toBridge).id)
<1> DEFINE id == Head(toBridge).id
<1>1. /\ CallsMoved(1) /\ \A i \in Nat : Asked(i)' => i # 0
      /\ 1 \in DOMAIN toBridge /\ Head(toBridge) = toBridge[1]
  BY CallTaken
<1>2. Asked(1) /\ toBridge[1].id = id
  BY <1>1 DEF Asked, Receive
<1>3. id \in Ids /\ id \in Nat
  BY ReceiveTypes
<1>4. /\ id < nextRequestId /\ id \notin over \union {download}
      /\ \A o \in operations : o.id # id
  BY <1>2 DEF OneOwner
<1>5. ASSUME NEW i \in Nat, Asked(i)'
      PROVE  toBridge'[i].id # id
  <2>1. Asked(i + 1) /\ toBridge'[i] = toBridge[i + 1] /\ i # 0
    BY <1>1, <1>5 DEF CallsMoved
  <2>2. i + 1 \in Nat /\ 1 \in Nat /\ i + 1 # 1
    BY <2>1
  <2> QED
    BY <1>2, <2>1, <2>2 DEF OneOwner
<1>6. CallsKept
  BY <1>1 DEF CallsKept
<1> HIDE DEF id
<1>7. CASE Call(kind, id) /\ UNCHANGED <<toClient, over>>
  <2>1. operations' = operations \union {[kind |-> kind, id |-> id]}
    BY <1>7 DEF Call
  <2>2. SaidAnew = {}
    BY <1>7, NothingSaid
  <2> QED
    BY <1>3, <1>4, <1>5, <1>6, <1>7, <2>1, <2>2 DEF Moves, id
<1>8. CASE Answer("error", id) /\ UNCHANGED operations
  <2>1. SaidAnew \subseteq {id} /\ over' \subseteq over \union {id}
    BY <1>3, <1>8, AnswerSays DEF Last
  <2> QED
    BY <1>3, <1>4, <1>5, <1>6, <1>8, <2>1 DEF Moves, id
<1> QED
  BY <1>7, <1>8 DEF id

LEMMA HandlerMoves ==
  ASSUME TypeOK, OneOwner, Handlers, UNCHANGED nextRequestId
  PROVE  \E id : Moves(id)
<1>c. Calls = {"connect", "list", "serverTime", "download"}
  BY DEF Calls
<1>1. CASE HandleConnect \/ HandleList \/ HandleServerTime \/ HandleDownload
  <2>1. \E type \in Calls : Receive(type)
    BY <1>1, <1>c DEF HandleConnect, HandleList, HandleServerTime, HandleDownload
  <2>2. UNCHANGED download
    BY <1>1 DEF HandleConnect, HandleList, HandleServerTime, HandleDownload, transfer
  <2>3. \E kind :
          \/ Call(kind, Head(toBridge).id) /\ UNCHANGED <<toClient, over>>
          \/ Answer("error", Head(toBridge).id) /\ UNCHANGED operations
    BY <1>1 DEF HandleConnect, HandleList, HandleServerTime, HandleDownload, CallSsh
  <2> QED
    BY <2>1, <2>2, <2>3, CallMoves
<1>2. CASE HandleAck \/ HandleCancel \/ HandleDisconnect
  <2>1. PICK type : Receive(type)
    BY <1>2 DEF HandleAck, HandleCancel, HandleDisconnect
  <2>2. CallsKept
    BY <2>1, CallTaken DEF CallsKept
  <2>3. operations' = operations
    BY <1>2 DEF HandleAck, HandleCancel, HandleDisconnect
  <2>4. CASE UNCHANGED <<toClient, over>> /\ UNCHANGED download
    BY <2>2, <2>3, <2>4, NothingMoves, NothingSaid
  <2>5. CASE Answer("canceled", download) /\ EndTransfer /\ download # None
    <3>1. SaidAnew \subseteq {download} /\ over' \subseteq over \union {download}
      BY <2>5, AnswerSays DEF Last, TypeOK, Ids
    <3> QED
      BY <2>2, <2>3, <2>5, <3>1, DownloadMoves DEF EndTransfer
  <2>6. HandleCancel /\ download = Head(toBridge).id => download # None
    BY ReceiveTypes DEF HandleCancel, Ids
  <2>7. \/ UNCHANGED <<toClient, over>> /\ UNCHANGED download
        \/ Answer("canceled", download) /\ EndTransfer /\ download # None
    BY <1>2, <2>6 DEF HandleAck, HandleCancel, HandleDisconnect, transfer
  <2> QED
    BY <2>4, <2>5, <2>7
<1> QED
  BY <1>1, <1>2 DEF Handlers

LEMMA SshAnswerMoves ==
  ASSUME TypeOK, OneOwner, SshAnswers, UNCHANGED nextRequestId
  PROVE  \E id : Moves(id)
<1>l. {"error", "connected", "list", "serverTime"} \subseteq Last
  BY DEF Last
<1>1. ASSUME NEW kind, NEW id, NEW type \in Last, Settle(kind, id), Answer(type, id),
             UNCHANGED download
      PROVE  Moves(id)
  <2> DEFINE o == [kind |-> kind, id |-> id]
  <2>1. o \in operations /\ o.id = id /\ id \in Ids
    BY <1>1, SettleTypes DEF Settle
  <2>2. operations' = operations \ {o} /\ UNCHANGED toBridge
    BY <1>1 DEF Settle
  <2> HIDE DEF o
  <2>3. SaidAnew \subseteq {id} /\ over' \subseteq over \union {id}
    BY <1>1, <2>1, AnswerSays
  <2>4. Moves(o.id)
    BY <1>1, <2>1, <2>2, <2>3, OperationEnds
  <2> QED
    BY <2>1, <2>4
<1>2. CASE \E id \in {operation.id : operation \in operations} :
             \/ ConnectRejects(id) \/ HomeSettles(id) \/ ListResolves(id)
             \/ ServerTimeResolves(id)
             \/ \E kind \in {"list", "serverTime", "fileSize"} : CallRejects(kind, id)
  <2>1. \E id, kind : \E type \in Last :
          Settle(kind, id) /\ Answer(type, id) /\ UNCHANGED transfer
    BY <1>2, <1>l
       DEF ConnectRejects, HomeSettles, ListResolves, ServerTimeResolves, CallRejects
  <2> QED
    BY <1>1, <2>1 DEF transfer
<1>3. CASE \E id \in {operation.id : operation \in operations} : ConnectResolves(id)
  <2>1. PICK id : ConnectResolves(id)
    BY <1>3
  <2> DEFINE o == [kind |-> "connect", id |-> id]
             next == IF destroyed THEN {} ELSE {[kind |-> "realpath", id |-> id]}
  <2>2. o \in operations /\ o.id = id
    BY <2>1 DEF ConnectResolves
  <2>3. operations' = (operations \ {o}) \union next
    BY <2>1 DEF ConnectResolves, Connected
  <2>4. UNCHANGED <<toBridge, toClient, over, download>>
    BY <2>1 DEF ConnectResolves, wires, transfer
  <2>5. SaidAnew = {}
    BY <2>4, NothingSaid
  <2>6. (\A p \in next : p.id = id) /\ (\A p, q \in next : p = q)
    OBVIOUS
  <2> HIDE DEF o, next
  <2>7. Moves(o.id)
    BY <2>2, <2>3, <2>4, <2>5, <2>6, OperationMoves
  <2> QED
    BY <2>7
<1>4. CASE \E id \in {operation.id : operation \in operations} : FileSizeResolves(id)
  <2>1. PICK id : FileSizeResolves(id)
    BY <1>4
  <2> DEFINE o == [kind |-> "fileSize", id |-> id]
  <2>2. o \in operations /\ o.id = id /\ id \in Ids
    BY <2>1, SettleTypes DEF FileSizeResolves, Settle
  <2>3. operations' = operations \ {o} /\ UNCHANGED toBridge
    BY <2>1 DEF FileSizeResolves, Settle
  <2>4. SaidAnew \subseteq {id} /\ over' = over /\ download' \in {download, id}
    <3>1. CASE destroyed
      BY <2>1, <3>1, NothingSaid DEF FileSizeResolves, transfer
    <3>2. CASE ~destroyed
      BY <2>1, <2>2, <3>2, PartSays DEF FileSizeResolves
    <3> QED
      BY <3>1, <3>2
  <2> HIDE DEF o
  <2>5. Moves(o.id)
    BY <2>2, <2>3, <2>4, OperationEnds
  <2> QED
    BY <2>5
<1> QED
  BY <1>2, <1>3, <1>4 DEF SshAnswers

LEMMA StreamMoves ==
  ASSUME TypeOK, OneOwner, Stream, UNCHANGED nextRequestId
  PROVE  Moves(download)
<1>1. /\ download # None /\ download \in Ids
      /\ UNCHANGED <<toBridge, operations>>
  BY DEF Stream, Data, StreamEnds, StreamFails, TypeOK, Ids
<1>2. CallsKept
  BY <1>1, SameCalls
<1>3. CASE Data
  <2>1. sent + 1 \in Nat
    BY DEF TypeOK
  <2>2. SaidAnew \subseteq {download} /\ over' = over
    BY <1>1, <1>3, <2>1, PartSays DEF Data
  <2>3. UNCHANGED download
    BY <1>3 DEF Data
  <2> QED
    BY <1>1, <1>2, <2>2, <2>3, DownloadMoves
<1>4. CASE StreamEnds \/ StreamFails
  <2>1. (Answer("fileEnd", download) \/ Answer("error", download)) /\ EndTransfer
    BY <1>4 DEF StreamEnds, StreamFails
  <2>2. SaidAnew \subseteq {download} /\ over' \subseteq over \union {download}
    BY <1>1, <2>1, AnswerSays DEF Last
  <2> QED
    BY <1>1, <1>2, <2>1, <2>2, DownloadMoves DEF EndTransfer
<1> QED
  BY <1>3, <1>4 DEF Stream

LEMMA EndMoves ==
  ASSUME TypeOK, OneOwner, BridgeSuffers \/ BridgeSeesClose, UNCHANGED nextRequestId
  PROVE  \E id : Moves(id)
<1>1. CallsKept /\ UNCHANGED operations
  <2>1. UNCHANGED toBridge \/ toBridge' = <<>>
    BY DEF BridgeSuffers, BridgeSeesClose, SshCloses, IdleTimeout, Kick, Destroy, LinkBreaks
  <2>2. UNCHANGED operations
    BY DEF BridgeSuffers, BridgeSeesClose, SshCloses, IdleTimeout, Kick, LinkBreaks
  <2> QED
    BY <2>1, <2>2, SameCalls, NoCalls
<1>2. CASE UNCHANGED <<toClient, over>> /\ download' \in {None, download}
  BY <1>1, <1>2, NothingMoves, NothingSaid
<1>3. CASE (\E after \in {<<>>, SshClosed} : Send(Disconnected \o after)) /\ EndTransfer
  <2>1. /\ SaidAnew \subseteq {download} \ {None}
        /\ over' \subseteq over \union ({download} \ {None})
        /\ download' = None
    BY <1>3, SessionEndSays DEF EndTransfer
  <2>2. CASE download = None
    <3>1. over' = over
      BY <1>3, <2>1, <2>2 DEF Send
    <3> QED
      BY <1>1, <2>1, <2>2, <3>1, NothingMoves
  <2>3. CASE download # None
    BY <1>1, <2>1, <2>3, DownloadMoves
  <2> QED
    BY <2>2, <2>3
<1>4. CASE \E s \in open \union ending : SshCloses(s)
  BY <1>2, <1>3, <1>4 DEF SshCloses, transfer
<1>5. CASE IdleTimeout
  BY <1>3, <1>5 DEF IdleTimeout
<1>6. CASE Kick \/ BridgeSeesClose \/ LinkBreaks
  BY <1>2, <1>6 DEF Kick, BridgeSeesClose, LinkBreaks, Destroy, EndTransfer, transfer
<1> QED
  BY <1>4, <1>5, <1>6 DEF BridgeSuffers

LEMMA BridgeMoves ==
  ASSUME TypeOK, OneOwner, Bridge
  PROVE  \E id : Moves(id)
BY HandlerMoves, SshAnswerMoves, StreamMoves, EndMoves
   DEF Bridge, BridgeNext, BridgeWorks, BridgeSuffers, client

\* The client adds a call that nobody has, or none.
LEMMA ClientKeepsOwner ==
  ASSUME TypeOK, OneOwner, ClientSays
  PROVE  OneOwner' /\ SaidAnew = {}
<1>1. UNCHANGED <<over, download, operations>>
  BY DEF ClientSays, BridgeKept, transfer
<1>2. SaidAnew = {}
  <2>1. Len(toClient) \in Nat /\ Len(toClient') <= Len(toClient)
    BY LenProperties DEF TypeOK, ClientSays
  <2>2. \A i \in (Len(toClient) + 1)..Len(toClient') : FALSE
    <3>1. TAKE i \in (Len(toClient) + 1)..Len(toClient')
    <3>2. i \in Int /\ Len(toClient) + 1 <= i /\ i <= Len(toClient')
      OBVIOUS
    <3> QED
      BY <2>1, <3>2
  <2> QED
    BY <2>2 DEF SaidAnew
<1>3. CASE CallsKept /\ nextRequestId' = nextRequestId
  <2>1. Moves(None)
    BY <1>1, <1>2, <1>3, NothingMoves
  <2> QED
    BY <1>2, <2>1, MovesKeepOwner
<1>4. CASE \E type \in Calls : CallAdded(type)
  <2>1. PICK type \in Calls : CallAdded(type)
    BY <1>4
  <2>2. nextRequestId \in Nat /\ nextRequestId # None /\ nextRequestId' = nextRequestId + 1
    BY <2>1 DEF CallAdded, TypeOK, Ids
  <2>3. \A i \in Nat : Asked(i)' =>
          \/ Asked(i) /\ toBridge'[i].id = toBridge[i].id
          \/ i = Len(toBridge) + 1 /\ toBridge'[i].id = nextRequestId
    BY <2>1 DEF CallAdded, Message
  <2>4. \A i \in Nat : Asked(i) => toBridge[i].id \in Nat /\ toBridge[i].id < nextRequestId
    BY ElementOfSeq, LenProperties, CallHasId DEF TypeOK, Asked, OneOwner
  <2>5. over \subseteq Nat /\ download \in Nat /\ \A o \in operations : o.id \in Nat
    BY DEF TypeOK, Ids
  <2>6. /\ \A x \in over \union {download} : x < nextRequestId
        /\ \A o \in operations : o.id < nextRequestId
    BY DEF OneOwner
  <2>7. ASSUME NEW i \in Nat, Asked(i)'
        PROVE  /\ toBridge'[i].id < nextRequestId'
               /\ toBridge'[i].id \notin over' \union {download'}
               /\ \A operation \in operations' : operation.id # toBridge'[i].id
    <3>1. CASE Asked(i) /\ toBridge'[i].id = toBridge[i].id
      BY <1>1, <2>2, <2>4, <3>1 DEF OneOwner
    <3>2. CASE toBridge'[i].id = nextRequestId
      BY <1>1, <2>2, <2>5, <2>6, <3>2
    <3> QED
      BY <2>3, <2>7, <3>1, <3>2
  <2>8. ASSUME NEW i \in Nat, NEW j \in Nat, Asked(i)', Asked(j)',
               toBridge'[i].id = toBridge'[j].id
        PROVE  i = j
    <3>1. CASE Asked(i) /\ Asked(j) /\ toBridge[i].id = toBridge[j].id
      BY <3>1 DEF OneOwner
    <3>2. ~(toBridge'[i].id = nextRequestId) => Asked(i) /\ toBridge'[i].id = toBridge[i].id
      BY <2>3, <2>8
    <3>3. ~(toBridge'[j].id = nextRequestId) => Asked(j) /\ toBridge'[j].id = toBridge[j].id
      BY <2>3, <2>8
    <3>4. toBridge'[i].id = nextRequestId => i = Len(toBridge) + 1
      BY <2>2, <2>3, <2>4, <2>8
    <3>5. toBridge'[j].id = nextRequestId => j = Len(toBridge) + 1
      BY <2>2, <2>3, <2>4, <2>8
    <3> QED
      BY <2>8, <3>1, <3>2, <3>3, <3>4, <3>5
  <2>9. /\ \A operation \in operations' :
             /\ operation.id < nextRequestId'
             /\ operation.id \notin over' \union {download'}
        /\ \A o, p \in operations' : o.id = p.id => o = p
        /\ download' \notin over'
    BY <1>1, <2>2, <2>5, <2>6 DEF OneOwner
  <2>10. download' < nextRequestId' /\ \A id \in over' : id < nextRequestId'
    BY <1>1, <2>2, <2>5, <2>6
  <2> QED
    BY <1>2, <2>7, <2>8, <2>9, <2>10 DEF OneOwner
<1> QED
  BY <1>3, <1>4 DEF ClientSays

LEMMA StepKeepsOwner ==
  ASSUME TypeOK, OneOwner, [Next]_vars
  PROVE  OneOwner' /\ SaidAnew \intersect over = {}
<1>1. CASE Bridge
  <2>1. PICK id : Moves(id)
    BY <1>1, BridgeMoves
  <2> QED
    BY <2>1, MovesKeepOwner DEF Moves
<1>2. CASE ClientWorks \/ User
  BY <1>2, ClientStepSays, ClientKeepsOwner
<1>3. CASE UNCHANGED vars
  <2>1. UNCHANGED <<toBridge, toClient, over, download, operations, nextRequestId>>
    BY <1>3 DEF vars, bridgeVars, wires, transfer, client
  <2>2. Moves(None)
    BY <2>1, SameCalls, NothingSaid, NothingMoves
  <2> QED
    BY <2>2, MovesKeepOwner DEF Moves
<1> QED
  BY <1>1, <1>2, <1>3 DEF Next

LEMMA InitOwner == Init => OneOwner
<1> SUFFICES ASSUME Init
             PROVE  OneOwner
  OBVIOUS
<1>1. /\ toBridge = <<>> /\ operations = {} /\ download = 0 /\ over = {}
      /\ nextRequestId = 1
  BY DEF Init, BridgeInit, None
<1>2. \A i \in Nat : ~Asked(i)
  BY <1>1 DEF Asked
<1> QED
  BY <1>1, <1>2 DEF OneOwner

\* No request is answered twice, and nothing is said of it after its last answer:
\* whatever is on its way, a request is in one place at a time.
THEOREM RequestsAnsweredOnce == Spec => AnswersOnce
<1>1. Init => TypeOK /\ OneOwner
  BY InitTypes, InitOwner
<1>2. TypeOK /\ OneOwner /\ [Next]_vars => TypeOK' /\ OneOwner'
  BY StepTypes, StepKeepsOwner
<1>3. TypeOK /\ OneOwner /\ [Next]_vars => [SaidAnew \intersect over = {}]_vars
  BY StepKeepsOwner
<1> QED
  BY <1>1, <1>2, <1>3, PTL DEF Spec, AnswersOnce

-----------------------------------------------------------------------------
(* The connection.                                                         *)

LEMMA ConnectKept ==
  ASSUME CallsKept, NEW i \in Nat, NEW j \in Nat, ConnectAsked(i)', ConnectAsked(j)'
  PROVE  \E k, l \in Nat : ConnectAsked(k) /\ ConnectAsked(l) /\ (k = l => i = j)
<1>1. Asked(i)' /\ Asked(j)'
  BY DEF ConnectAsked, Asked, Calls
<1>2. PICK k, l \in Nat : /\ Asked(k) /\ toBridge'[i] = toBridge[k]
                          /\ Asked(l) /\ toBridge'[j] = toBridge[l]
                          /\ k = l => i = j
  BY <1>1, TwoCallsKept
<1>3. ConnectAsked(k) /\ ConnectAsked(l)
  BY <1>2 DEF ConnectAsked, Asked
<1> QED
  BY <1>2, <1>3

\* A step that connects nothing: a session may end, nothing else.
LEMMA Winds ==
  ASSUME OneConnection, CallsKept, nextRequestId' = nextRequestId,
         \A o \in operations' : o.kind = "connect" => o \in operations,
         Unconnected => Unconnected',
         ending' # {} => ssh' = None,
         NoSessionLeak'
  PROVE  OneConnection'
<1>1. ASSUME NEW i \in Nat, ConnectAsked(i)'
      PROVE  /\ Unconnected' /\ nextRequestId' # 1
             /\ \A operation \in operations' : operation.kind # "connect"
             /\ \A j \in Nat : ConnectAsked(j)' => i = j
  <2>1. PICK k \in Nat : ConnectAsked(k)
    BY <1>1, ConnectKept
  <2>2. \A j \in Nat : ConnectAsked(j)' => i = j
    BY <1>1, ConnectKept DEF OneConnection
  <2> QED
    BY <2>1, <2>2 DEF OneConnection
<1>2. ASSUME NEW operation \in operations', operation.kind = "connect"
      PROVE  /\ Unconnected' /\ nextRequestId' # 1
             /\ \A o \in operations' : o.kind = "connect" => o = operation
  BY <1>2 DEF OneConnection
<1>3. nextRequestId' = 1 => Unconnected'
  BY DEF OneConnection
<1> QED
  BY <1>1, <1>2, <1>3 DEF OneConnection

\* The session is left alone.
LEMMA SessionKept ==
  ASSUME OneConnection, UNCHANGED <<ssh, open, ending, destroyed>>
  PROVE  /\ Unconnected => Unconnected'
         /\ ending' # {} => ssh' = None
         /\ NoSessionLeak'
BY DEF OneConnection, Unconnected, NoSessionLeak

\* The session is closed.
LEMMA SessionClosed ==
  ASSUME OneConnection, CloseSsh
  PROVE  /\ Unconnected => Unconnected'
         /\ ending' # {} => ssh' = None
         /\ NoSessionLeak'
BY DEF OneConnection, CloseSsh, Unconnected, NoSessionLeak

\* The session's end is noticed.
LEMMA SessionEnded ==
  ASSUME TypeOK, OneConnection, NEW s, SshCloses(s)
  PROVE  /\ Unconnected => Unconnected'
         /\ ending' # {} => ssh' = None
         /\ NoSessionLeak'
<1>1. /\ s \in open \union ending
      /\ open' = open \ {s} /\ ending' = ending \ {s} /\ destroyed' = destroyed
      /\ destroyed => ssh' = ssh
      /\ ~destroyed => ssh' = None
  BY DEF SshCloses
<1>2. /\ open \subseteq {ssh} /\ (destroyed => open = {})
      /\ ending # {} => ssh = None
      /\ None \notin open
  BY DEF OneConnection, NoSessionLeak, TypeOK, Ids
<1>3. open' = {}
  BY <1>1, <1>2
<1> QED
  BY <1>1, <1>2, <1>3 DEF Unconnected, NoSessionLeak

LEMMA HandlersConnect ==
  ASSUME TypeOK, OneConnection, Handlers, UNCHANGED nextRequestId
  PROVE  OneConnection'
<1>1. CASE HandleConnect
  <2>1. /\ CallsMoved(1) /\ \A i \in Nat : Asked(i)' => i # 0
        /\ 1 \in DOMAIN toBridge /\ toBridge[1].type = "connect"
    <3>1. Receive("connect")
      BY <1>1 DEF HandleConnect
    <3> QED
      BY <3>1, CallTaken DEF Receive
  <2>2. /\ Unconnected /\ nextRequestId # 1
        /\ \A operation \in operations : operation.kind # "connect"
        /\ \A j \in Nat : ConnectAsked(j) => 1 = j
    <3>1. 1 \in Nat /\ ConnectAsked(1)
      BY <2>1 DEF ConnectAsked
    <3> QED
      BY <3>1 DEF OneConnection
  <2>3. ASSUME NEW i \in Nat, ConnectAsked(i)'
        PROVE  FALSE
    <3>1. Asked(i)' /\ i # 0
      BY <2>1, <2>3 DEF ConnectAsked, Asked, Calls
    <3>2. Asked(i + 1) /\ toBridge'[i] = toBridge[i + 1]
      BY <2>1, <3>1 DEF CallsMoved
    <3>3. ConnectAsked(i + 1) /\ i + 1 \in Nat /\ i + 1 # 1
      BY <2>3, <3>1, <3>2 DEF ConnectAsked, Asked
    <3> QED
      BY <2>2, <3>3
  <2>4. operations' = operations \union {[kind |-> "connect", id |-> Head(toBridge).id]}
    BY <1>1 DEF HandleConnect, Call
  <2>5. \A o, p \in operations' : o.kind = "connect" /\ p.kind = "connect" => o = p
    BY <2>2, <2>4
  <2>6. Unconnected' /\ (ending' # {} => ssh' = None) /\ NoSessionLeak'
    BY <1>1, <2>2, SessionClosed DEF HandleConnect
  <2> QED
    BY <2>2, <2>3, <2>5, <2>6 DEF OneConnection
<1>2. CASE Handlers /\ ~HandleConnect
  <2>1. \E type : Receive(type)
    BY <1>2 DEF Handlers, HandleList, HandleServerTime, HandleDownload, HandleAck,
                HandleCancel, HandleDisconnect
  <2>2. CallsKept /\ destroyed' = destroyed
    BY <2>1, CallTaken DEF CallsKept, Receive
  <2>3. \A o \in operations' : o.kind = "connect" => o \in operations
    BY <1>2 DEF Handlers, HandleList, HandleServerTime, HandleDownload, HandleAck,
                HandleCancel, HandleDisconnect, CallSsh, Call
  <2>4. UNCHANGED <<ssh, open, ending>> \/ CloseSsh
    BY <1>2 DEF Handlers, HandleList, HandleServerTime, HandleDownload, HandleAck,
                HandleCancel, HandleDisconnect, session
  <2>5. /\ Unconnected => Unconnected'
        /\ ending' # {} => ssh' = None
        /\ NoSessionLeak'
    BY <2>2, <2>4, SessionKept, SessionClosed
  <2> QED
    BY <2>2, <2>3, <2>5, Winds
<1> QED
  BY <1>1, <1>2

LEMMA SshAnswersConnect ==
  ASSUME TypeOK, OneConnection, SshAnswers, UNCHANGED nextRequestId
  PROVE  OneConnection'
<1>0. CallsKept
  <2>1. UNCHANGED toBridge
    BY DEF SshAnswers, ConnectResolves, ConnectRejects, HomeSettles, ListResolves,
           ServerTimeResolves, FileSizeResolves, CallRejects, Settle, wires
  <2> QED
    BY <2>1, SameCalls
<1>1. CASE \E id \in {operation.id : operation \in operations} :
             ~destroyed /\ ConnectResolves(id)
  <2>1. PICK id : ~destroyed /\ ConnectResolves(id)
    BY <1>1
  <2> DEFINE o == [kind |-> "connect", id |-> id]
  <2>2. /\ o \in operations /\ o.kind = "connect"
        /\ operations' = (operations \ {o}) \union {[kind |-> "realpath", id |-> id]}
        /\ open' = open \union {id} /\ ssh' = id /\ ending' = ending
        /\ destroyed' = destroyed
    BY <2>1 DEF ConnectResolves, Connected
  <2> HIDE DEF o
  <2>3. /\ Unconnected /\ nextRequestId # 1
        /\ \A p \in operations : p.kind = "connect" => p = o
        /\ \A i \in Nat : ~ConnectAsked(i)
    BY <2>2 DEF OneConnection
  <2>4. \A i \in Nat : ~ConnectAsked(i)'
    BY <1>0, <2>3, ConnectKept
  <2>5. \A p \in operations' : p.kind # "connect"
    BY <2>2, <2>3
  <2>6. NoSessionLeak' /\ ending' = {}
    BY <2>1, <2>2, <2>3 DEF Unconnected, NoSessionLeak
  <2> QED
    BY <2>3, <2>4, <2>5, <2>6 DEF OneConnection
<1>2. CASE ~\E id \in {operation.id : operation \in operations} :
              ~destroyed /\ ConnectResolves(id)
  <2>1. UNCHANGED <<ssh, open, ending, destroyed>>
    BY <1>2 DEF SshAnswers, ConnectResolves, Connected, ConnectRejects, HomeSettles,
                ListResolves, ServerTimeResolves, FileSizeResolves, CallRejects, Settle,
                session
  <2>2. operations' \subseteq operations
    BY <1>2 DEF SshAnswers, ConnectResolves, Connected, ConnectRejects, HomeSettles,
                ListResolves, ServerTimeResolves, FileSizeResolves, CallRejects, Settle
  <2> QED
    BY <1>0, <2>1, <2>2, SessionKept, Winds
<1> QED
  BY <1>1, <1>2

LEMMA BridgeConnects ==
  ASSUME TypeOK, OneConnection, Bridge
  PROVE  OneConnection'
<1>0. UNCHANGED nextRequestId
  BY DEF Bridge, client
<1>1. CASE Handlers \/ SshAnswers
  BY <1>0, <1>1, HandlersConnect, SshAnswersConnect
<1>2. CASE Stream \/ BridgeSuffers \/ BridgeSeesClose
  <2>1. UNCHANGED toBridge \/ toBridge' = <<>>
    BY <1>2 DEF Stream, Data, StreamEnds, StreamFails, BridgeSuffers, BridgeSeesClose,
                SshCloses, IdleTimeout, Kick, Destroy, LinkBreaks
  <2>2. CallsKept
    BY <2>1, SameCalls, NoCalls
  <2>3. UNCHANGED operations
    BY <1>2 DEF Stream, Data, StreamEnds, StreamFails, BridgeSuffers, BridgeSeesClose,
                SshCloses, IdleTimeout, Kick, LinkBreaks
  <2>4. \/ UNCHANGED <<ssh, open, ending, destroyed>>
        \/ CloseSsh
        \/ \E s : SshCloses(s)
    BY <1>2 DEF Stream, Data, StreamEnds, StreamFails, BridgeSuffers, BridgeSeesClose,
                IdleTimeout, Kick, Destroy, LinkBreaks, session
  <2>5. /\ Unconnected => Unconnected'
        /\ ending' # {} => ssh' = None
        /\ NoSessionLeak'
    BY <2>4, SessionKept, SessionClosed, SessionEnded
  <2> QED
    BY <1>0, <2>2, <2>3, <2>5, Winds
<1> QED
  BY <1>1, <1>2 DEF Bridge, BridgeNext, BridgeWorks

LEMMA ClientConnects ==
  ASSUME TypeOK, OneConnection, ClientSays
  PROVE  OneConnection'
<1>1. UNCHANGED <<ssh, open, ending, destroyed, operations>>
  BY DEF ClientSays, BridgeKept, session
<1>2. CASE CallsKept /\ nextRequestId' = nextRequestId
  BY <1>1, <1>2, SessionKept, Winds
<1>3. CASE \E type \in Calls : CallAdded(type) /\ (type = "connect" => nextRequestId = 1)
  <2>1. PICK type \in Calls : CallAdded(type) /\ (type = "connect" => nextRequestId = 1)
    BY <1>3
  <2>2. nextRequestId' # 1
    BY <2>1 DEF CallAdded, TypeOK, Ids, None
  <2>3. \A i \in Nat : ConnectAsked(i)' =>
          ConnectAsked(i) \/ (i = Len(toBridge) + 1 /\ type = "connect")
    BY <2>1 DEF CallAdded, ConnectAsked, Asked, Calls, Message
  <2>4. CASE type = "connect"
    <3>1. /\ Unconnected /\ \A i \in Nat : ~ConnectAsked(i)
          /\ \A operation \in operations : operation.kind # "connect"
      BY <2>1, <2>4 DEF OneConnection
    <3>2. \A i \in Nat : ConnectAsked(i)' => i = Len(toBridge) + 1
      BY <2>3, <3>1
    <3>3. Unconnected' /\ (ending' # {} => ssh' = None) /\ NoSessionLeak'
      BY <1>1, <3>1, SessionKept
    <3> QED
      BY <1>1, <2>2, <3>1, <3>2, <3>3 DEF OneConnection
  <2>5. CASE type # "connect"
    <3>1. \A i \in Nat : ConnectAsked(i)' => ConnectAsked(i)
      BY <2>3, <2>5
    <3>2. /\ Unconnected => Unconnected'
          /\ ending' # {} => ssh' = None
          /\ NoSessionLeak'
      BY <1>1, SessionKept
    <3> QED
      BY <1>1, <2>2, <3>1, <3>2 DEF OneConnection
  <2> QED
    BY <2>4, <2>5
<1> QED
  BY <1>2, <1>3 DEF ClientSays

LEMMA StepConnects ==
  ASSUME TypeOK, OneConnection, [Next]_vars
  PROVE  OneConnection'
<1>1. CASE ClientWorks \/ User
  BY <1>1, ClientStepSays, ClientConnects
<1>2. CASE UNCHANGED vars
  <2>1. UNCHANGED <<toBridge, operations, nextRequestId, ssh, open, ending, destroyed>>
    BY <1>2 DEF vars, bridgeVars, wires, session, client
  <2> QED
    BY <2>1, SameCalls, SessionKept, Winds
<1> QED
  BY <1>1, <1>2, BridgeConnects DEF Next

LEMMA InitConnection == Init => OneConnection
<1> SUFFICES ASSUME Init
             PROVE  OneConnection
  OBVIOUS
<1>1. /\ toBridge = <<>> /\ operations = {} /\ ssh = None /\ open = {} /\ ending = {}
  BY DEF Init, BridgeInit
<1>2. \A i \in Nat : ~ConnectAsked(i)
  BY <1>1 DEF ConnectAsked
<1> QED
  BY <1>1, <1>2 DEF OneConnection, Unconnected, NoSessionLeak

\* No SSH session is open that the bridge does not hold: there is one connection in
\* a client's life, and one that is made when the client is gone is closed.
THEOREM SessionsDoNotLeak == Spec => []NoSessionLeak
<1>1. Init => TypeOK /\ OneConnection
  BY InitTypes, InitConnection
<1>2. TypeOK /\ OneConnection /\ [Next]_vars => TypeOK' /\ OneConnection'
  BY StepTypes, StepConnects
<1>3. OneConnection => NoSessionLeak
  BY DEF OneConnection
<1> QED
  BY <1>1, <1>2, <1>3, PTL DEF Spec

-----------------------------------------------------------------------------
(* One transfer at a time: the client asks for a download only when the    *)
(* bridge is done with the one before, or will be when it hears of it.     *)

\* What the client sends gets on its way.
Live == ws /\ link = "up"

\* A download the bridge is going to begin, and one it has to do with.
DownloadAsked(i, id) ==
  i \in DOMAIN toBridge /\ toBridge[i].type = "download" /\ toBridge[i].id = id
Queued(id) ==
  \/ \E i \in Nat : DownloadAsked(i, id)
  \/ [kind |-> "fileSize", id |-> id] \in operations
Held(id) == Queued(id) \/ download = id

Frame(i) == i \in DOMAIN toClient /\ toClient[i].type = "data"
Answered(i) == i \in DOMAIN toClient /\ toClient[i].type \in Last

\* The package was voided while the file came: the bridge reads the cancel before
\* the request of the retry.
Cancelled(i, id) ==
  i \in DOMAIN toBridge /\ toBridge[i].type = "cancel" /\ toBridge[i].id = id
Retried(i) == \E j \in Nat : i < j /\ Asked(j) /\ toBridge[j].id = request
Cancelling(id) ==
  /\ current = None /\ download = id /\ step \in {"voided", "clock"}
  /\ \E i \in Nat : Cancelled(i, id) /\ (step = "clock" => Retried(i))

\* The request whose answer ends the frames.
Awaited(id) == id = current \/ (step = "clock" /\ id = request)

Settled ==
  /\ current # None => step = "downloading" /\ draining = None
  /\ draining # None => step = "downloading"
  /\ writes # <<>> => current # None \/ draining # None
  /\ \A id \in Ids : Held(id) => current = id \/ Cancelling(id)
  /\ \A id \in Ids : Queued(id) => writes = <<>> /\ \A i \in Nat : ~Frame(i)
  /\ \A i \in Nat : Frame(i) => current # None \/ step \in {"voided", "clock"}
  /\ \A i, j \in Nat : Answered(i) /\ Frame(j) /\ Awaited(toClient[i].id) => j < i

OneDownload ==
  /\ \A id, other \in Ids : Held(id) /\ Held(other) => id = other
  /\ destroyed => link = "down"
  /\ \A i \in Nat : Answered(i) => toClient[i].id \in over
  /\ Live => Settled

\* Nothing of a download is left: neither with the bridge nor on its way.
Quiet ==
  /\ current = None /\ draining = None /\ writes = <<>>
  /\ \A id \in Ids : ~Held(id)
  /\ \A i \in Nat : ~Frame(i)

LEMMA QuietIsSettled == Quiet' => Settled'
BY DEF Quiet, Settled, Held

LEMMA RestIsQuiet ==
  ASSUME Settled, step \notin {"downloading", "voided", "clock"}
  PROVE  Quiet
<1>1. current = None /\ draining = None /\ writes = <<>>
  BY DEF Settled
<1>2. \A id \in Ids : ~Held(id)
  BY <1>1 DEF Settled, Cancelling, Ids
<1>3. \A i \in Nat : ~Frame(i)
  BY <1>1 DEF Settled
<1> QED
  BY <1>1, <1>2, <1>3 DEF Quiet

\* Where a request is answered nothing else of it is left.
LEMMA AnsweredIsOver ==
  ASSUME TypeOK, OneOwner, OneDownload, NEW i \in Nat, Answered(i)
  PROVE  /\ toClient[i].id \in Ids
         /\ ~Held(toClient[i].id)
         /\ \A j \in Nat : Asked(j) => toBridge[j].id # toClient[i].id
<1> DEFINE id == toClient[i].id
<1>1. id \in over /\ id \in Ids
  BY DEF OneDownload, TypeOK
<1>2. \A j \in Nat : Asked(j) => toBridge[j].id # id
  BY <1>1 DEF OneOwner
<1>3. ~\E j \in Nat : DownloadAsked(j, id)
  BY <1>2 DEF DownloadAsked, Asked, Calls
<1>4. [kind |-> "fileSize", id |-> id] \notin operations
  BY <1>1 DEF OneOwner
<1>5. download # id
  BY <1>1 DEF OneOwner
<1> QED
  BY <1>1, <1>2, <1>3, <1>4, <1>5 DEF Held, Queued

\* What is queued is not transferred.
LEMMA QueuedNotBegun ==
  ASSUME OneOwner, NEW id, Queued(id)
  PROVE  download # id
<1>1. CASE \E i \in Nat : DownloadAsked(i, id)
  BY <1>1 DEF DownloadAsked, Asked, Calls, OneOwner
<1>2. CASE [kind |-> "fileSize", id |-> id] \in operations
  BY <1>2 DEF OneOwner
<1> QED
  BY <1>1, <1>2 DEF Queued

\* Once the answer that is waited for is there, the bridge holds no download and
\* what comes before it are all the frames there are.
LEMMA AnswerEndsAll ==
  ASSUME TypeOK, OneOwner, OneDownload, Live, NEW i \in Nat, Answered(i),
         Awaited(toClient[i].id)
  PROVE  /\ \A id \in Ids : ~Held(id)
         /\ \A j \in Nat : Frame(j) => j < i
<1>1. Settled
  BY DEF OneDownload
<1>2. \A j \in Nat : Frame(j) => j < i
  BY <1>1 DEF Settled
<1>3. ASSUME NEW id \in Ids, Held(id)
      PROVE  FALSE
  <2>1. CASE current = id
    <3>1. step = "downloading"
      BY <1>1, <2>1 DEF Settled, Ids
    <3>2. toClient[i].id = current
      BY <3>1 DEF Awaited
    <3> QED
      BY <1>3, <2>1, <3>2, AnsweredIsOver
  <2>2. CASE Cancelling(id)
    <3>1. toClient[i].id # None
      BY AnsweredIsOver DEF Ids
    <3>2. step = "clock" /\ toClient[i].id = request
      BY <2>2, <3>1 DEF Awaited, Cancelling
    <3>3. \E j \in Nat : Asked(j) /\ toBridge[j].id = request
      BY <2>2, <3>2 DEF Cancelling, Retried
    <3> QED
      BY <3>2, <3>3, AnsweredIsOver
  <2> QED
    BY <1>1, <1>3, <2>1, <2>2 DEF Settled
<1> QED
  BY <1>2, <1>3

-----------------------------------------------------------------------------
(* The bridge's steps.                                                     *)

\* A download goes from the wire to the SSH layer, and from there to the transfer.
LEMMA BridgeHolds ==
  ASSUME TypeOK, OneOwner, Bridge
  PROVE  /\ \A id \in Ids : Held(id)' => Held(id)
         /\ \A id \in Ids : Queued(id)' => Queued(id)
<1>1. ASSUME NEW id \in Ids, \E i \in Nat : DownloadAsked(i, id)'
      PROVE  \E i \in Nat : DownloadAsked(i, id)
  <2>1. PICK i \in Nat : DownloadAsked(i, id)'
    BY <1>1
  <2>2. Asked(i)' /\ toBridge'[i].type = "download" /\ toBridge'[i].id = id
    BY <2>1 DEF DownloadAsked, Asked, Calls
  <2>3. CallsKept
    BY BridgeMoves DEF Moves
  <2>4. PICK j \in Nat : Asked(j) /\ toBridge'[i] = toBridge[j]
    BY <2>2, <2>3, CallKept
  <2> QED
    BY <2>2, <2>4 DEF DownloadAsked, Asked
<1>2. ASSUME NEW id \in Ids, [kind |-> "fileSize", id |-> id] \in operations'
      PROVE  Queued(id)
  <2>1. CASE HandleDownload
    <3>1. Receive("download")
      BY <2>1 DEF HandleDownload
    <3>2. 1 \in DOMAIN toBridge /\ toBridge[1] = Head(toBridge) /\ toBridge[1].type = "download"
      BY <3>1, CallTaken DEF Receive
    <3>3. \/ UNCHANGED operations
          \/ operations' = operations \union {[kind |-> "fileSize", id |-> toBridge[1].id]}
      BY <2>1, <3>2 DEF HandleDownload, CallSsh, Call
    <3> QED
      BY <1>2, <3>2, <3>3 DEF Queued, DownloadAsked
  <2>2. CASE ~HandleDownload
    <3>1. CASE Handlers
      <4>1. CASE HandleConnect \/ HandleList \/ HandleServerTime
        <5>1. \E kind \in {"connect", "list", "serverTime"}, other \in Ids :
                operations' \subseteq operations \union {[kind |-> kind, id |-> other]}
          <6>1. \E type \in {"connect", "list", "serverTime"} : Receive(type)
            BY <4>1 DEF HandleConnect, HandleList, HandleServerTime
          <6>2. Head(toBridge).id \in Ids
            BY <6>1, ReceiveTypes DEF Calls
          <6> QED
            BY <4>1, <6>2 DEF HandleConnect, HandleList, HandleServerTime, CallSsh, Call
        <5> QED
          BY <1>2, <5>1 DEF Queued
      <4>2. CASE HandleAck \/ HandleCancel \/ HandleDisconnect
        BY <1>2, <4>2 DEF HandleAck, HandleCancel, HandleDisconnect, Queued
      <4> QED
        BY <2>2, <3>1, <4>1, <4>2 DEF Handlers
    <3>2. CASE SshAnswers
      <4>1. CASE \E other : ConnectResolves(other)
        BY <1>2, <4>1 DEF ConnectResolves, Connected, Queued
      <4>2. CASE ~\E other : ConnectResolves(other)
        BY <1>2, <3>2, <4>2
           DEF SshAnswers, Settle, ConnectRejects, HomeSettles, ListResolves,
               ServerTimeResolves, FileSizeResolves, CallRejects, Queued
      <4> QED
        BY <4>1, <4>2
    <3>3. CASE Stream \/ BridgeSeesClose \/ BridgeSuffers
      BY <1>2, <3>3
         DEF Stream, Data, StreamEnds, StreamFails, BridgeSeesClose, BridgeSuffers,
             SshCloses, IdleTimeout, Kick, LinkBreaks, Queued
    <3> QED
      BY <3>1, <3>2, <3>3 DEF Bridge, BridgeNext, BridgeWorks
  <2> QED
    BY <2>1, <2>2
<1>3. download' \in {None, download} \/ [kind |-> "fileSize", id |-> download'] \in operations
  BY DEF Bridge, BridgeNext, BridgeWorks, BridgeSuffers, Handlers, SshAnswers, Stream,
         HandleConnect, HandleList, HandleServerTime, HandleDownload, HandleAck,
         HandleCancel, HandleDisconnect, Settle, ConnectResolves, ConnectRejects,
         HomeSettles, ListResolves, ServerTimeResolves, FileSizeResolves, CallRejects,
         Data, StreamEnds, StreamFails, SshCloses, IdleTimeout, Kick, BridgeSeesClose,
         LinkBreaks, EndTransfer, Destroy, transfer
<1>4. \A id \in Ids : Queued(id)' => Queued(id)
  BY <1>1, <1>2 DEF Queued
<1> QED
  BY <1>3, <1>4 DEF Held, Queued, Ids

\* What the bridge says comes last: a frame of the transfer, its end, answers of
\* requests that are then over.
NewData == Data /\ link = "up"
NewEnd == StreamEnds /\ link = "up"

Heard ==
  /\ over \subseteq over'
  /\ \A i \in Nat : i \in DOMAIN toClient =>
       i \in DOMAIN toClient' /\ toClient'[i] = toClient[i]
  /\ \A i \in Nat : Answered(i)' =>
       \/ Answered(i) /\ toClient'[i] = toClient[i]
       \/ ~(i <= Len(toClient)) /\ toClient'[i].id \in over'
  /\ \A i \in Nat : Frame(i)' =>
       \/ Frame(i) /\ toClient'[i] = toClient[i]
       \/ /\ ~(i <= Len(toClient)) /\ NewData
          /\ toClient'[i] = Message("data", download, sent + 1)
  /\ \A i \in Nat : Answered(i)' /\ toClient'[i].type = "fileEnd" =>
       \/ Answered(i) /\ toClient'[i] = toClient[i]
       \/ ~(i <= Len(toClient)) /\ NewEnd

LEMMA NothingHeard ==
  ASSUME UNCHANGED <<toClient, over>>
  PROVE  Heard
BY DEF Heard, Answered, Frame

LEMMA SendHeard ==
  ASSUME TypeOK, NEW messages \in Seq(ToClient), Send(messages),
         \A j \in 1..Len(messages) :
           /\ messages[j].type = "data" =>
                Data /\ messages[j] = Message("data", download, sent + 1)
           /\ messages[j].type = "fileEnd" => StreamEnds
  PROVE  Heard
<1> DEFINE s == toClient \o messages
<1>1. /\ s \in Seq(ToClient) /\ Len(s) = Len(toClient) + Len(messages)
      /\ Len(toClient) \in Nat /\ Len(messages) \in Nat
      /\ \A i \in 1..Len(s) :
           s[i] = IF i <= Len(toClient) THEN toClient[i] ELSE messages[i - Len(toClient)]
  BY ConcatProperties, LenProperties DEF TypeOK
<1>2. /\ DOMAIN messages = 1..Len(messages) /\ DOMAIN s = 1..Len(s)
      /\ DOMAIN toClient = 1..Len(toClient)
  BY <1>1, LenProperties DEF TypeOK
<1>3. /\ over \subseteq over'
      /\ \A j \in 1..Len(messages) : messages[j].type \in Last => messages[j].id \in over'
  BY <1>2 DEF Send
<1>4. CASE UNCHANGED toClient
  BY <1>3, <1>4 DEF Heard, Answered, Frame
<1>5. CASE toClient' = s /\ link = "up"
  <2> HIDE DEF s
  <2>1. ASSUME NEW i \in Nat, i \in DOMAIN toClient'
        PROVE  \/ i \in DOMAIN toClient /\ toClient'[i] = toClient[i]
               \/ /\ ~(i <= Len(toClient))
                  /\ \E j \in 1..Len(messages) : toClient'[i] = messages[j]
    <3>1. i \in 1..Len(s)
      BY <1>2, <1>5, <2>1
    <3>2. CASE i <= Len(toClient)
      BY <1>1, <1>2, <1>5, <3>1, <3>2
    <3>3. CASE ~(i <= Len(toClient))
      <4>1. i - Len(toClient) \in 1..Len(messages)
        BY <1>1, <3>1, <3>3
      <4>2. toClient'[i] = messages[i - Len(toClient)]
        BY <1>1, <1>5, <3>1, <3>3
      <4> QED
        BY <3>3, <4>1, <4>2
    <3> QED
      BY <3>2, <3>3
  <2>2. \A i \in Nat : i \in DOMAIN toClient =>
          i \in DOMAIN toClient' /\ toClient'[i] = toClient[i]
    <3>1. \A i \in Nat : i \in DOMAIN toClient => i \in 1..Len(s) /\ i <= Len(toClient)
      BY <1>1, <1>2
    <3> QED
      BY <1>1, <1>2, <1>5, <3>1
  <2> QED
    BY <1>3, <1>5, <2>1, <2>2 DEF Heard, Answered, Frame, NewData, NewEnd
<1> QED
  BY <1>4, <1>5 DEF Send

LEMMA AnswerHeard ==
  ASSUME TypeOK, NEW type \in Last, NEW id \in Ids, Answer(type, id),
         type = "fileEnd" => StreamEnds
  PROVE  Heard
<1> DEFINE m == Message(type, id, 0)
<1>1. m \in ToClient /\ m.type # "data" /\ (m.type = "fileEnd" => StreamEnds)
  BY MessageTypes DEF Message, Last
<1>2. <<m>> \in Seq(ToClient)
  BY <1>1, OneMessage
<1> HIDE DEF m
<1>3. \A j \in 1..Len(<<m>>) :
        <<m>>[j].type # "data" /\ (<<m>>[j].type = "fileEnd" => StreamEnds)
  BY <1>1
<1>4. Send(<<m>>)
  BY DEF Answer, m
<1> QED
  BY <1>2, <1>3, <1>4, SendHeard

LEMMA EndHeard ==
  ASSUME TypeOK, NEW after \in {<<>>, SshClosed}, Send(Disconnected \o after)
  PROVE  Heard
<1>1. Disconnected \o after \in Seq(ToClient)
  BY DisconnectedTypes
<1>2. /\ Disconnected \in Seq(ToClient) /\ after \in Seq(ToClient)
      /\ \A j \in 1..Len(Disconnected) : Disconnected[j].type \notin {"data", "fileEnd"}
      /\ \A j \in 1..Len(after) : after[j].type \notin {"data", "fileEnd"}
  <2>1. /\ \A j \in 1..Len(<<>>) : <<>>[j].type \notin {"data", "fileEnd"}
        /\ \A j \in 1..Len(<<Message("error", download, 0)>>) :
             <<Message("error", download, 0)>>[j].type \notin {"data", "fileEnd"}
        /\ \A j \in 1..Len(<<Message("sshClosed", None, 0)>>) :
             <<Message("sshClosed", None, 0)>>[j].type \notin {"data", "fileEnd"}
    BY DEF Message
  <2> QED
    BY <2>1, DisconnectedTypes, EmptySeq DEF Disconnected, SshClosed
<1>3. \A j \in 1..Len(Disconnected \o after) : (Disconnected \o after)[j].type \notin {"data", "fileEnd"}
  <2>1. /\ Len(Disconnected \o after) = Len(Disconnected) + Len(after)
        /\ Len(Disconnected) \in Nat /\ Len(after) \in Nat
        /\ \A j \in 1..(Len(Disconnected) + Len(after)) :
             (Disconnected \o after)[j] =
               IF j <= Len(Disconnected) THEN Disconnected[j] ELSE after[j - Len(Disconnected)]
    BY <1>2, ConcatProperties, LenProperties
  <2>2. TAKE j \in 1..Len(Disconnected \o after)
  <2>3. CASE j <= Len(Disconnected)
    BY <1>2, <2>1, <2>2, <2>3
  <2>4. CASE ~(j <= Len(Disconnected))
    <3>1. j - Len(Disconnected) \in 1..Len(after)
      BY <2>1, <2>2, <2>4
    <3> QED
      BY <1>2, <2>1, <2>2, <2>4, <3>1
  <2> QED
    BY <2>3, <2>4
<1> QED
  BY <1>1, <1>3, SendHeard

LEMMA BridgeHeard ==
  ASSUME TypeOK, Bridge
  PROVE  Heard
<1>l. {"error", "connected", "list", "serverTime", "canceled", "fileEnd"} \subseteq Last
  BY DEF Last
<1>1. CASE Handlers
  <2>1. CASE HandleConnect \/ HandleAck \/ HandleDisconnect
    BY <2>1, NothingHeard DEF HandleConnect, HandleAck, HandleDisconnect
  <2>2. CASE HandleList \/ HandleServerTime \/ HandleDownload \/ HandleCancel
    <3>1. \E type \in Calls \union {"cancel"} : Receive(type)
      BY <2>2 DEF HandleList, HandleServerTime, HandleDownload, HandleCancel, Calls
    <3>2. Head(toBridge).id \in Ids
      BY <3>1, ReceiveTypes
    <3>3. \/ UNCHANGED <<toClient, over>>
          \/ Answer("error", Head(toBridge).id) \/ Answer("canceled", Head(toBridge).id)
      BY <2>2 DEF HandleList, HandleServerTime, HandleDownload, HandleCancel, CallSsh
    <3> QED
      BY <1>l, <3>2, <3>3, NothingHeard, AnswerHeard
  <2> QED
    BY <1>1, <2>1, <2>2 DEF Handlers
<1>2. CASE SshAnswers
  <2>1. PICK id \in {operation.id : operation \in operations} :
          \/ ConnectResolves(id) \/ ConnectRejects(id) \/ HomeSettles(id)
          \/ ListResolves(id) \/ ServerTimeResolves(id) \/ FileSizeResolves(id)
          \/ \E kind \in {"list", "serverTime", "fileSize"} : CallRejects(kind, id)
    BY <1>2 DEF SshAnswers
  <2>2. id \in Ids
    BY DEF TypeOK
  <2>3. CASE FileSizeResolves(id)
    <3>1. CASE destroyed
      BY <2>3, <3>1, NothingHeard DEF FileSizeResolves
    <3>2. CASE ~destroyed
      <4> DEFINE m == Message("fileStart", id, 0)
      <4>1. m \in ToClient /\ m.type \notin {"data", "fileEnd"}
        BY <2>2, MessageTypes DEF Message
      <4>2. <<m>> \in Seq(ToClient)
        BY <4>1, OneMessage
      <4> HIDE DEF m
      <4>3. \A j \in 1..Len(<<m>>) : <<m>>[j].type \notin {"data", "fileEnd"}
        BY <4>1
      <4>4. Send(<<m>>)
        BY <2>3, <3>2 DEF FileSizeResolves, m
      <4> QED
        BY <4>2, <4>3, <4>4, SendHeard
    <3> QED
      BY <3>1, <3>2
  <2>4. CASE ConnectResolves(id)
    BY <2>4, NothingHeard DEF ConnectResolves, wires
  <2>5. CASE ~FileSizeResolves(id) /\ ~ConnectResolves(id)
    <3>1. \E type \in Last \ {"fileEnd"} : Answer(type, id)
      BY <1>l, <2>1, <2>5
         DEF ConnectRejects, HomeSettles, ListResolves, ServerTimeResolves, CallRejects
    <3> QED
      BY <2>2, <3>1, AnswerHeard
  <2> QED
    BY <2>3, <2>4, <2>5
<1>3. CASE Stream
  <2>1. download # None /\ download \in Ids
    BY <1>3 DEF Stream, Data, StreamEnds, StreamFails, TypeOK, Ids
  <2>2. CASE Data
    <3> DEFINE m == Message("data", download, sent + 1)
    <3>1. sent + 1 \in Nat
      BY DEF TypeOK
    <3>2. m \in ToClient
      BY <2>1, <3>1, MessageTypes
    <3>3. <<m>> \in Seq(ToClient)
      BY <3>2, OneMessage
    <3>4. Send(<<m>>)
      BY <2>2 DEF Data
    <3>5. m.type # "fileEnd"
      BY DEF Message
    <3> HIDE DEF m
    <3>6. \A j \in 1..Len(<<m>>) : <<m>>[j] = m
      OBVIOUS
    <3> QED
      BY <2>2, <3>3, <3>4, <3>5, <3>6, SendHeard DEF m
  <2>3. CASE StreamEnds \/ StreamFails
    BY <1>l, <2>1, <2>3, AnswerHeard DEF StreamEnds, StreamFails
  <2> QED
    BY <1>3, <2>2, <2>3 DEF Stream
<1>4. CASE BridgeSeesClose \/ BridgeSuffers
  <2>1. \/ UNCHANGED <<toClient, over>>
        \/ \E after \in {<<>>, SshClosed} : Send(Disconnected \o after)
    BY <1>4 DEF BridgeSeesClose, BridgeSuffers, SshCloses, IdleTimeout, Kick, LinkBreaks
  <2> QED
    BY <2>1, NothingHeard, EndHeard
<1> QED
  BY <1>1, <1>2, <1>3, <1>4 DEF Bridge, BridgeNext, BridgeWorks

\* While the WebSocket is up the bridge takes one message after the other, and
\* takes a cancel for what it says.
Read(k) ==
  /\ \A i \in Nat : i \in DOMAIN toBridge /\ ~(i <= k) =>
       i - k \in Nat /\ i - k \in DOMAIN toBridge' /\ toBridge'[i - k] = toBridge[i]
  /\ \A i \in Nat : i \in DOMAIN toBridge' =>
       i + k \in DOMAIN toBridge /\ toBridge'[i] = toBridge[i + k]
  /\ k = 1 => \A id \in Ids : Cancelled(1, id) /\ download = id => download' = None

LEMMA BridgeReads ==
  ASSUME TypeOK, Bridge
  PROVE  /\ link' = "up" => \E k \in {0, 1} : Read(k)
         /\ link' = "up" => link = "up"
         /\ destroyed' => destroyed \/ link' = "down"
         /\ destroyed' /\ destroyed /\ link = "down" => link' = "down"
<1>1. CASE Handlers
  <2>1. PICK type : Receive(type)
    BY <1>1 DEF Handlers, HandleConnect, HandleList, HandleServerTime, HandleDownload,
                HandleAck, HandleCancel, HandleDisconnect
  <2>2. /\ toBridge \in Seq(ToBridge) /\ toBridge # <<>> /\ toBridge' = Tail(toBridge)
        /\ Head(toBridge).type = type /\ UNCHANGED destroyed
    BY <2>1 DEF Receive, TypeOK
  <2>3. /\ toBridge' \in Seq(ToBridge) /\ Len(toBridge) \in Nat
        /\ Len(toBridge') = Len(toBridge) - 1 /\ Head(toBridge) = toBridge[1]
        /\ \A i \in 1..Len(toBridge') : toBridge'[i] = toBridge[i + 1]
    BY <2>2, TakeFirst
  <2>4. DOMAIN toBridge = 1..Len(toBridge) /\ DOMAIN toBridge' = 1..Len(toBridge')
    BY <2>2, <2>3, LenProperties
  <2>5. ASSUME NEW i \in Nat, i \in DOMAIN toBridge, ~(i <= 1)
        PROVE  i - 1 \in Nat /\ i - 1 \in DOMAIN toBridge' /\ toBridge'[i - 1] = toBridge[i]
    <3>1. i - 1 \in 1..Len(toBridge') /\ (i - 1) + 1 = i
      BY <2>3, <2>4, <2>5
    <3> QED
      BY <2>3, <2>4, <3>1
  <2>6. ASSUME NEW id \in Ids, Cancelled(1, id), download = id
        PROVE  download' = None
    <3>1. type = "cancel" /\ Head(toBridge).id = download
      BY <2>2, <2>3, <2>6 DEF Cancelled
    <3>2. HandleCancel
      BY <1>1, <2>2, <3>1
         DEF Handlers, HandleConnect, HandleList, HandleServerTime, HandleDownload,
             HandleAck, HandleDisconnect, Receive
    <3> QED
      BY <3>1, <3>2 DEF HandleCancel, EndTransfer
  <2>a. \A i \in Nat : i \in DOMAIN toBridge' =>
          i + 1 \in DOMAIN toBridge /\ toBridge'[i] = toBridge[i + 1]
    BY <2>3, <2>4
  <2>7. Read(1)
    BY <2>5, <2>6, <2>a DEF Read
  <2>8. link' = "up" => link = "up"
    BY <1>1 DEF Handlers, HandleConnect, HandleList, HandleServerTime, HandleDownload,
                HandleAck, HandleCancel, HandleDisconnect
  <2>9. link = "down" => link' = "down"
    BY <1>1 DEF Handlers, HandleConnect, HandleList, HandleServerTime, HandleDownload,
                HandleAck, HandleCancel, HandleDisconnect
  <2> QED
    BY <2>2, <2>7, <2>8, <2>9
<1>2. CASE SshAnswers \/ Stream \/ (\E s \in open \union ending : SshCloses(s))
           \/ IdleTimeout \/ LinkBreaks
  <2>1. UNCHANGED <<toBridge, destroyed>> /\ link' \in {link, "down"}
    BY <1>2 DEF SshAnswers, ConnectResolves, ConnectRejects, HomeSettles, ListResolves,
                ServerTimeResolves, FileSizeResolves, CallRejects, Settle, wires, Stream,
                Data, StreamEnds, StreamFails, SshCloses, IdleTimeout, LinkBreaks
  <2>2. \A i \in Nat : i - 0 = i /\ i + 0 = i
    OBVIOUS
  <2>3. Read(0)
    BY <2>1, <2>2 DEF Read
  <2> QED
    BY <2>1, <2>3
<1>3. CASE BridgeSeesClose \/ Kick
  <2>1. link' = "down"
    BY <1>3 DEF BridgeSeesClose, Kick
  <2> QED
    BY <2>1
<1> QED
  BY <1>1, <1>2, <1>3 DEF Bridge, BridgeNext, BridgeWorks, BridgeSuffers

LEMMA BridgeKeepsOne ==
  ASSUME TypeOK, OneOwner, OneOwner', OneDownload, Bridge
  PROVE  OneDownload'
<1>1. \A id, other \in Ids : Held(id)' /\ Held(other)' => id = other
  BY BridgeHolds DEF OneDownload
<1>2. destroyed' => link' = "down"
  BY BridgeReads DEF OneDownload
<1>3. \A i \in Nat : Answered(i)' => toClient'[i].id \in over'
  BY BridgeHeard DEF Heard, OneDownload
<1>4. ASSUME Live'
      PROVE  Settled'
  <2>1. /\ UNCHANGED <<current, draining, step, writes, request>>
        /\ Live /\ Settled
    BY <1>4, BridgeReads DEF Bridge, client, dialog, Live, OneDownload
  <2>2. Heard
    BY BridgeHeard
  <2>3. ASSUME NEW id \in Ids, Held(id)'
        PROVE  current' = id \/ Cancelling(id)'
    <3>1. CASE current = id
      BY <2>1, <3>1
    <3>2. CASE current # id
      <4>1. Cancelling(id)
        BY <2>1, <2>3, <3>2, BridgeHolds DEF Settled
      <4>2. download = id /\ ~Queued(id)
        BY <4>1, QueuedNotBegun DEF Cancelling
      <4>3. download' = id
        BY <2>3, <4>2, BridgeHolds DEF Held
      <4>4. PICK k \in {0, 1} : Read(k)
        BY <1>4, BridgeReads DEF Live
      <4>5. PICK i \in Nat : Cancelled(i, id) /\ (step = "clock" => Retried(i))
        BY <4>1 DEF Cancelling
      <4>6. ~(i <= k)
        <5>1. i # 0
          BY <4>5, LenProperties DEF Cancelled, TypeOK
        <5>2. k = 1 => i # 1
          BY <4>2, <4>3, <4>4, <4>5 DEF Read, Ids
        <5> QED
          BY <5>1, <5>2
      <4>7. i - k \in Nat /\ Cancelled(i - k, id)'
        BY <4>4, <4>5, <4>6 DEF Read, Cancelled
      <4>8. ASSUME step = "clock"
            PROVE  Retried(i - k)'
        <5>1. PICK j \in Nat : i < j /\ Asked(j) /\ toBridge[j].id = request
          BY <4>5, <4>8 DEF Retried
        <5>2. ~(j <= k) /\ i - k < j - k
          BY <4>6, <5>1
        <5>3. j - k \in Nat /\ j - k \in DOMAIN toBridge' /\ toBridge'[j - k] = toBridge[j]
          BY <4>4, <5>1, <5>2 DEF Read, Asked
        <5> QED
          BY <2>1, <5>1, <5>2, <5>3 DEF Retried, Asked
      <4> QED
        BY <2>1, <4>1, <4>3, <4>7, <4>8 DEF Cancelling
    <3> QED
      BY <3>1, <3>2
  <2>4. download # None => Held(download) /\ download \in Ids
    BY DEF Held, TypeOK, Ids
  <2>5. \A id \in Ids : Queued(id)' => writes' = <<>> /\ \A i \in Nat : ~Frame(i)'
    <3>1. ASSUME NEW id \in Ids, Queued(id)'
          PROVE  writes' = <<>> /\ \A i \in Nat : ~Frame(i)'
      <4>1. Queued(id)
        BY <3>1, BridgeHolds
      <4>2. writes = <<>> /\ \A i \in Nat : ~Frame(i)
        BY <2>1, <4>1 DEF Settled
      <4>3. download = None
        <5>1. download # None => download = id
          BY <2>4, <4>1 DEF OneDownload, Held
        <5> QED
          BY <4>1, <5>1, QueuedNotBegun
      <4> QED
        BY <2>1, <2>2, <4>2, <4>3 DEF Heard, NewData, Data
    <3> QED
      BY <3>1
  <2>6. ASSUME NEW i \in Nat, Frame(i)'
        PROVE  current' # None \/ step' \in {"voided", "clock"}
    <3>1. CASE Frame(i)
      BY <2>1, <3>1 DEF Settled
    <3>2. CASE ~Frame(i)
      <4>1. download # None
        BY <2>2, <2>6, <3>2 DEF Heard, NewData, Data
      <4>2. current = download \/ Cancelling(download)
        BY <2>1, <2>4, <4>1 DEF Settled
      <4> QED
        BY <2>1, <4>1, <4>2 DEF Cancelling
    <3> QED
      BY <3>1, <3>2
  <2>7. ASSUME NEW i \in Nat, NEW j \in Nat, Answered(i)', Frame(j)',
               Awaited(toClient[i].id)'
        PROVE  j < i
    <3>1. toClient'[i].id \in over'
      BY <1>3, <2>7
    <3>2. CASE Frame(j)
      <4>1. CASE Answered(i) /\ toClient'[i] = toClient[i]
        BY <2>1, <2>7, <3>2, <4>1 DEF Settled, Awaited
      <4>2. CASE ~(i <= Len(toClient))
        BY <3>2, <4>2, LenProperties DEF Frame, TypeOK
      <4> QED
        BY <2>2, <2>7, <4>1, <4>2 DEF Heard
    <3>3. CASE ~Frame(j)
      <4>1. download # None /\ download' = download
        BY <2>2, <2>7, <3>3 DEF Heard, NewData, Data
      <4>2. PICK id \in Ids : download' = id
        BY <2>4, <4>1
      <4>3. Held(id)' /\ id \notin over'
        BY <4>2 DEF Held, OneOwner
      <4>4. CASE current' = id
        <5>1. step' = "downloading"
          BY <2>1, <4>4 DEF Settled, Ids
        <5>2. toClient'[i].id = id
          BY <2>7, <4>4, <5>1 DEF Awaited
        <5> QED
          BY <3>1, <4>3, <5>2
      <4>5. CASE Cancelling(id)'
        <5>1. toClient'[i].id # None
          BY <3>1, StepTypes DEF TypeOK, Ids, Next
        <5>2. step' = "clock" /\ toClient'[i].id = request'
          BY <2>7, <4>5, <5>1 DEF Awaited, Cancelling
        <5>3. \E l \in Nat : Asked(l)' /\ toBridge'[l].id = request'
          BY <4>5, <5>2 DEF Cancelling, Retried
        <5> QED
          BY <3>1, <5>2, <5>3 DEF OneOwner
      <4> QED
        BY <2>3, <4>3, <4>4, <4>5
    <3> QED
      BY <3>2, <3>3
  <2> QED
    BY <2>1, <2>3, <2>5, <2>6, <2>7 DEF Settled
<1> QED
  BY <1>1, <1>2, <1>3, <1>4 DEF OneDownload

-----------------------------------------------------------------------------
(* The client's steps.                                                     *)

LEMMA ClientHolds ==
  ASSUME TypeOK, OneOwner, ClientWorks \/ User
  PROVE  \A id \in Ids : /\ Queued(id)' => \/ Queued(id)
                                           \/ DownloadNext /\ Live /\ id = nextRequestId
                         /\ Held(id)' => \/ Held(id)
                                         \/ DownloadNext /\ Live /\ id = nextRequestId
<1>1. UNCHANGED <<operations, download>>
  BY ClientStepSays DEF ClientSays, BridgeKept, transfer
<1>2. ASSUME NEW id \in Ids, NEW i \in Nat, DownloadAsked(i, id)'
      PROVE  \/ \E j \in Nat : DownloadAsked(j, id)
             \/ DownloadNext /\ Live /\ id = nextRequestId
  <2>1. Asked(i)' /\ toBridge'[i].type = "download" /\ toBridge'[i].id = id
    BY <1>2 DEF DownloadAsked, Asked, Calls
  <2>2. ASSUME NEW j \in Nat, Asked(j), toBridge'[i] = toBridge[j]
        PROVE  DownloadAsked(j, id)
    BY <2>1, <2>2 DEF DownloadAsked, Asked
  <2>3. CASE CallsKept
    BY <2>1, <2>2, <2>3, CallKept
  <2>4. CASE DownloadNext
    <3>1. CASE Live
      <4>1. CallAdded("download")
        BY <2>4, OneCallPosted DEF DownloadNext, Calls
      <4> QED
        BY <2>1, <2>2, <2>4, <3>1, <4>1 DEF CallAdded, Message
    <3>2. CASE ~Live
      BY <2>3, <2>4, <3>2, SameCalls DEF DownloadNext, Post, Live
    <3> QED
      BY <3>1, <3>2
  <2>5. CASE Connect \/ ConnectedArrives \/ ClockArrives \/ UserRetries
    <3>1. \E type \in Calls : CallAdded(type) /\ type # "download"
      <4>1. \E type \in {"connect", "serverTime", "list"} : Ask(type)
        BY <2>5 DEF Connect, ConnectedArrives, ClockArrives, UserRetries
      <4> QED
        BY <4>1, AskAdds DEF Calls
    <3> QED
      BY <2>1, <2>2, <3>1 DEF CallAdded, Message
  <2>6. CASE UNCHANGED nextRequestId
    <3>1. nextRequestId # nextRequestId + 1
      BY DEF TypeOK, Ids
    <3> QED
      BY <2>3, <2>6, <3>1, ClientStepSays DEF ClientSays, CallAdded
  <2>7. \/ DownloadNext \/ Connect \/ ConnectedArrives \/ ClockArrives \/ UserRetries
        \/ UNCHANGED nextRequestId
    BY DEF ClientWorks, Arrivals, User, ListingArrives, RequestFails, FrameArrives,
           FileEndArrives, DownloadFails, SshClosedArrives, OtherArrives, ExportStops,
           Succeed, Written, WriteFails, Completed, ClientSeesClose, Start, UserCancels,
           UserLeaves, client
  <2> QED
    BY <2>4, <2>5, <2>6, <2>7
<1>3. \A id \in Ids : Queued(id)' => \/ Queued(id)
                                     \/ DownloadNext /\ Live /\ id = nextRequestId
  BY <1>1, <1>2 DEF Queued
<1> QED
  BY <1>1, <1>3 DEF Held

\* What the client has not read stays as it was.
Left(k) ==
  \A i \in Nat : /\ Answered(i)' => Answered(i + k) /\ toClient'[i] = toClient[i + k]
                 /\ Frame(i)' => Frame(i + k) /\ toClient'[i] = toClient[i + k]

LEMMA ClientReads ==
  ASSUME TypeOK, ClientWorks \/ User
  PROVE  /\ over' = over /\ download' = download /\ destroyed' = destroyed
         /\ Live' => Live
         /\ link = "down" => link' = "down"
         /\ \E k \in {0, 1} : Left(k)
         /\ \A i \in Nat : i \in DOMAIN toBridge =>
              i \in DOMAIN toBridge' /\ toBridge'[i] = toBridge[i]
<1>1. over' = over /\ download' = download /\ destroyed' = destroyed
  BY ClientStepSays DEF ClientSays, BridgeKept, transfer
<1>2. \/ UNCHANGED toClient
      \/ toClient # <<>> /\ toClient' = Tail(toClient)
      \/ toClient' = <<>>
  BY DEF ClientWorks, Arrivals, User, ConnectedArrives, ClockArrives, ListingArrives,
         RequestFails, FrameArrives, FileEndArrives, DownloadFails, SshClosedArrives,
         OtherArrives, DownloadNext, ExportStops, Succeed, Written, WriteFails, Completed,
         ClientSeesClose, Connect, Start, UserCancels, UserRetries, UserLeaves, Arrives,
         NoMessageTaken
<1>3. \E k \in {0, 1} : Left(k)
  <2>1. CASE UNCHANGED toClient
    <3>1. \A i \in Nat : i + 0 = i
      OBVIOUS
    <3>2. Left(0)
      BY <2>1, <3>1 DEF Left, Answered, Frame
    <3> QED
      BY <3>2
  <2>2. CASE toClient # <<>> /\ toClient' = Tail(toClient)
    <3>1. /\ toClient \in Seq(ToClient) /\ toClient' \in Seq(ToClient)
          /\ Len(toClient) \in Nat /\ Len(toClient') = Len(toClient) - 1
          /\ \A i \in 1..Len(toClient') : toClient'[i] = toClient[i + 1]
      BY <2>2, TakeFirst DEF TypeOK
    <3>2. DOMAIN toClient = 1..Len(toClient) /\ DOMAIN toClient' = 1..Len(toClient')
      BY <3>1, LenProperties
    <3>3. \A i \in Nat : i \in DOMAIN toClient' => i + 1 \in DOMAIN toClient
      BY <3>1, <3>2
    <3>4. Left(1)
      BY <3>1, <3>2, <3>3 DEF Left, Answered, Frame
    <3> QED
      BY <3>4
  <2>3. CASE toClient' = <<>>
    <3>1. \A i \in Nat : ~Answered(i)' /\ ~Frame(i)'
      BY <2>3, EmptySeq DEF Answered, Frame
    <3> QED
      BY <3>1 DEF Left
  <2> QED
    BY <1>2, <2>1, <2>2, <2>3
<1>4. (ws' => ws) /\ (link' = "up" => link = "up") /\ (link = "down" => link' = "down")
  BY DEF ClientWorks, Arrivals, User, ConnectedArrives, ClockArrives, ListingArrives,
         RequestFails, FrameArrives, FileEndArrives, DownloadFails, SshClosedArrives,
         OtherArrives, DownloadNext, ExportStops, Succeed, Written, WriteFails, Completed,
         ClientSeesClose, Connect, Start, UserCancels, UserRetries, UserLeaves, client,
         Disconnect
<1>5. \/ UNCHANGED toBridge
      \/ \E messages \in Seq(ToBridge) : Post(messages)
  <2>1. CASE Connect \/ ConnectedArrives \/ ClockArrives \/ UserRetries \/ DownloadNext
    <3>1. PICK type \in Calls : Post(<<Message(type, nextRequestId, 0)>>)
      BY <2>1 DEF Connect, ConnectedArrives, ClockArrives, UserRetries, DownloadNext, Ask, Calls
    <3>2. Message(type, nextRequestId, 0) \in ToBridge
      BY MessageTypes DEF TypeOK
    <3>3. <<Message(type, nextRequestId, 0)>> \in Seq(ToBridge)
      BY <3>2, OneMessage
    <3> QED
      BY <3>1, <3>3
  <2>2. CASE WriteFails \/ UserCancels
    BY <2>2, CancelTypes DEF WriteFails, UserCancels
  <2>3. CASE Succeed \/ UserLeaves \/ RequestFails
    <3>1. \/ UNCHANGED toBridge
          \/ \E before \in {<<>>, IF current # None THEN Cancel ELSE <<>>} :
               Post(before \o <<Message("disconnect", None, 0)>>)
      BY <2>3 DEF Succeed, UserLeaves, RequestFails, Disconnect
    <3>2. Message("disconnect", None, 0) \in ToBridge
      BY MessageTypes DEF Notices, None
    <3>3. <<Message("disconnect", None, 0)>> \in Seq(ToBridge)
      BY <3>2, OneMessage
    <3>4. \A before \in {<<>>, IF current # None THEN Cancel ELSE <<>>} :
            before \o <<Message("disconnect", None, 0)>> \in Seq(ToBridge)
      BY <3>3, CancelTypes, ConcatProperties, EmptySeq
    <3> QED
      BY <3>1, <3>4
  <2>4. CASE Written
    <3>1. Head(writes) \in ToClient
      BY <2>4, TakeFirst DEF TypeOK, Written
    <3>2. Len(written') \in Nat
      BY <2>4, <3>1, AppendProperties, LenProperties DEF TypeOK, Written
    <3>3. PICK id, n \in Nat : Post(<<Message("ack", id, n)>>)
      BY <2>4, <3>2 DEF TypeOK, Written
    <3>4. Message("ack", id, n) \in ToBridge
      BY MessageTypes DEF Notices
    <3>5. <<Message("ack", id, n)>> \in Seq(ToBridge)
      BY <3>4, OneMessage
    <3> QED
      BY <3>3, <3>5
  <2>5. \/ Connect \/ ConnectedArrives \/ ClockArrives \/ UserRetries \/ DownloadNext
        \/ WriteFails \/ UserCancels \/ Succeed \/ UserLeaves \/ RequestFails \/ Written
        \/ UNCHANGED toBridge
    BY DEF ClientWorks, Arrivals, User, ListingArrives, FrameArrives, FileEndArrives,
           DownloadFails, SshClosedArrives, OtherArrives, ExportStops, Completed,
           ClientSeesClose, Start
  <2> QED
    BY <2>1, <2>2, <2>3, <2>4, <2>5
<1>6. \A i \in Nat : i \in DOMAIN toBridge =>
        i \in DOMAIN toBridge' /\ toBridge'[i] = toBridge[i]
  <2>1. ASSUME NEW messages \in Seq(ToBridge), Post(messages),
               NEW i \in Nat, i \in DOMAIN toBridge
        PROVE  i \in DOMAIN toBridge' /\ toBridge'[i] = toBridge[i]
    <3> DEFINE s == toBridge \o messages
    <3>1. /\ s \in Seq(ToBridge) /\ Len(s) = Len(toBridge) + Len(messages)
          /\ Len(toBridge) \in Nat /\ Len(messages) \in Nat
          /\ DOMAIN toBridge = 1..Len(toBridge) /\ DOMAIN s = 1..Len(s)
          /\ \A j \in 1..Len(s) :
               s[j] = IF j <= Len(toBridge) THEN toBridge[j] ELSE messages[j - Len(toBridge)]
      BY ConcatProperties, LenProperties DEF TypeOK
    <3>2. toBridge' \in {toBridge, s}
      BY <2>1 DEF Post
    <3> HIDE DEF s
    <3>3. i \in DOMAIN s /\ s[i] = toBridge[i]
      BY <2>1, <3>1
    <3> QED
      BY <2>1, <3>2, <3>3
  <2> QED
    BY <1>5, <2>1
<1> QED
  BY <1>1, <1>3, <1>4, <1>6 DEF Live

\* The first message is the answer that is waited for: nothing is left behind it.
LEMMA NothingBehind ==
  ASSUME TypeOK, OneOwner, OneDownload, Live, NEW types, NEW id, Arrives(types, id),
         types \subseteq Last, Awaited(id), ClientWorks \/ User
  PROVE  /\ \A other \in Ids : ~Held(other)
         /\ \A i \in Nat : ~Frame(i)'
<1>1. Answered(1) /\ toClient[1].id = id
  BY TakeFirst, LenProperties DEF Arrives, Answered, TypeOK
<1>2. /\ \A other \in Ids : ~Held(other)
      /\ \A j \in Nat : Frame(j) => j < 1
  BY <1>1, AnswerEndsAll
<1>3. \A j \in Nat : ~Frame(j)
  BY <1>2, LenProperties DEF Frame, TypeOK
<1>4. \A i \in Nat, k \in {0, 1} : i + k \in Nat
  OBVIOUS
<1> QED
  BY <1>2, <1>3, <1>4, ClientReads DEF Left

LEMMA BecomesQuiet ==
  ASSUME TypeOK, OneOwner, ClientWorks \/ User, step' # "downloading",
         \A id \in Ids : ~Held(id), \A i \in Nat : ~Frame(i)',
         current' = None, draining' = None, writes' = <<>>
  PROVE  Settled'
<1>1. ~DownloadNext
  BY DEF DownloadNext
<1>2. \A id \in Ids : ~Held(id)'
  BY <1>1, ClientHolds
<1> QED
  BY <1>2, QuietIsSettled DEF Quiet

LEMMA QuietStays ==
  ASSUME TypeOK, OneOwner, ClientWorks \/ User, step' # "downloading", Quiet,
         UNCHANGED <<current, draining, writes>> \/ Void
  PROVE  Settled'
<1>1. \A i \in Nat, k \in {0, 1} : i + k \in Nat
  OBVIOUS
<1>2. \A i \in Nat : ~Frame(i)'
  BY <1>1, ClientReads DEF Left, Quiet
<1> QED
  BY <1>2, BecomesQuiet DEF Quiet, Void

\* What is read or posted changes nothing for the download that runs.
LEMMA RunningStays ==
  ASSUME TypeOK, OneOwner, OneDownload, Live', ClientWorks \/ User,
         UNCHANGED <<current, draining, step, request>>,
         writes' # <<>> => \/ writes # <<>>
                           \/ current # None /\ \E i \in Nat : Frame(i)
  PROVE  Settled'
<1>0. Live /\ Settled
  BY ClientReads DEF OneDownload
<1>1. ~DownloadNext
  BY DEF DownloadNext
<1>2. \A id \in Ids : (Held(id)' => Held(id)) /\ (Queued(id)' => Queued(id))
  BY <1>1, ClientHolds
<1>3. PICK k \in {0, 1} : Left(k)
  BY ClientReads
<1>4. \A i \in Nat : i + k \in Nat
  OBVIOUS
<1>5. \A i \in Nat : i \in DOMAIN toBridge =>
        i \in DOMAIN toBridge' /\ toBridge'[i] = toBridge[i]
  BY ClientReads
<1>6. ASSUME NEW id \in Ids, Held(id)'
      PROVE  current' = id \/ Cancelling(id)'
  <2>1. CASE Cancelling(id)
    <3>1. \A i \in Nat : Cancelled(i, id) => Cancelled(i, id)'
      BY <1>5 DEF Cancelled
    <3>2. \A i \in Nat : Retried(i) => Retried(i)'
      BY <1>5 DEF Retried, Asked
    <3>3. download' = download
      BY ClientReads
    <3> QED
      BY <2>1, <3>1, <3>2, <3>3 DEF Cancelling
  <2>2. CASE current = id
    BY <2>2
  <2> QED
    BY <1>0, <1>2, <1>6, <2>1, <2>2 DEF Settled
<1>7. ASSUME NEW id \in Ids, Queued(id)'
      PROVE  writes' = <<>> /\ \A i \in Nat : ~Frame(i)'
  BY <1>0, <1>2, <1>3, <1>4, <1>7 DEF Settled, Left
<1>8. \A i \in Nat : Frame(i)' => current' # None \/ step' \in {"voided", "clock"}
  BY <1>0, <1>3, <1>4 DEF Settled, Left
<1>9. ASSUME NEW i \in Nat, NEW j \in Nat, Answered(i)', Frame(j)', Awaited(toClient[i].id)'
      PROVE  j < i
  <2>1. /\ Answered(i + k) /\ toClient'[i] = toClient[i + k] /\ Frame(j + k)
        /\ i + k \in Nat /\ j + k \in Nat
    BY <1>3, <1>9 DEF Left
  <2>2. Awaited(toClient[i + k].id)
    BY <1>9, <2>1 DEF Awaited
  <2>3. j + k < i + k
    BY <1>0, <2>1, <2>2 DEF Settled
  <2> QED
    BY <2>3
<1> QED
  BY <1>0, <1>6, <1>7, <1>8, <1>9 DEF Settled

\* A message that is posted while the WebSocket is up is the last one.
LEMMA PostedLast ==
  ASSUME TypeOK, Live, NEW m \in ToBridge, Post(<<m>>)
  PROVE  /\ Len(toBridge) + 1 \in Nat
         /\ Len(toBridge) + 1 \in DOMAIN toBridge'
         /\ toBridge'[Len(toBridge) + 1] = m
         /\ \A i \in Nat : i \in DOMAIN toBridge => i < Len(toBridge) + 1
<1>1. toBridge \in Seq(ToBridge) /\ <<m>> \in Seq(ToBridge) /\ Len(<<m>>) = 1 /\ <<m>>[1] = m
  BY OneMessage DEF TypeOK
<1> DEFINE s == toBridge \o <<m>>
<1>2. /\ s \in Seq(ToBridge) /\ Len(s) = Len(toBridge) + 1 /\ Len(toBridge) \in Nat
      /\ DOMAIN toBridge = 1..Len(toBridge) /\ DOMAIN s = 1..Len(s)
      /\ s[Len(toBridge) + 1] = m
  BY <1>1, ConcatProperties, LenProperties
<1>3. toBridge' = s
  BY DEF Post, Live
<1> HIDE DEF s
<1> QED
  BY <1>2, <1>3

LEMMA RetrySettles ==
  ASSUME TypeOK, OneOwner, OneDownload, Live', UserRetries
  PROVE  Settled'
<1>u. ClientWorks \/ User
  BY DEF User
<1>0. Live /\ Settled /\ step = "voided" /\ step' = "clock"
  BY <1>u, ClientReads DEF OneDownload, UserRetries
<1>1. /\ UNCHANGED <<current, draining, writes>> /\ request' = nextRequestId
      /\ Post(<<Message("serverTime", nextRequestId, 0)>>)
      /\ ~DownloadNext
  BY <1>0 DEF UserRetries, Ask, DownloadNext
<1>2. current = None /\ draining = None /\ writes = <<>>
  BY <1>0 DEF Settled
<1>3. \A id \in Ids : (Held(id)' => Held(id)) /\ (Queued(id)' => Queued(id))
  BY <1>u, <1>1, ClientHolds
<1>4. PICK k \in {0, 1} : Left(k)
  BY <1>u, ClientReads
<1>5. \A i \in Nat : i + k \in Nat
  OBVIOUS
<1> DEFINE m == Message("serverTime", nextRequestId, 0)
<1>6. m \in ToBridge /\ m.type \in Calls /\ m.id = nextRequestId
  BY MessageTypes DEF TypeOK, Calls, Message
<1> HIDE DEF m
<1>7. /\ Len(toBridge) + 1 \in Nat
      /\ Len(toBridge) + 1 \in DOMAIN toBridge'
      /\ toBridge'[Len(toBridge) + 1] = m
      /\ \A i \in Nat : i \in DOMAIN toBridge => i < Len(toBridge) + 1
  BY <1>0, <1>1, <1>6, PostedLast DEF m
<1>8. ASSUME NEW id \in Ids, Held(id)'
      PROVE  Cancelling(id)'
  <2>1. Cancelling(id)
    BY <1>0, <1>2, <1>3, <1>8 DEF Settled, Ids
  <2>2. PICK i \in Nat : Cancelled(i, id)
    BY <2>1 DEF Cancelling
  <2>3. Cancelled(i, id)'
    BY <1>u, <2>2, ClientReads DEF Cancelled
  <2>4. Retried(i)'
    BY <1>1, <1>6, <1>7, <2>2 DEF Retried, Asked, Cancelled
  <2>5. download' = download
    BY <1>u, ClientReads
  <2> QED
    BY <1>0, <1>1, <2>1, <2>3, <2>4, <2>5 DEF Cancelling
<1>9. \A id \in Ids : Queued(id)' => writes' = <<>> /\ \A i \in Nat : ~Frame(i)'
  BY <1>0, <1>1, <1>3, <1>4, <1>5 DEF Settled, Left
<1>10. \A i \in Nat : Answered(i)' => ~Awaited(toClient[i].id)'
  <2>1. ASSUME NEW i \in Nat, Answered(i)'
        PROVE  ~Awaited(toClient[i].id)'
    <3>1. Answered(i + k) /\ toClient'[i] = toClient[i + k] /\ i + k \in Nat
      BY <1>4, <1>5, <2>1 DEF Left
    <3>2. toClient'[i].id \in over
      BY <3>1 DEF OneDownload
    <3>3. toClient'[i].id # None /\ toClient'[i].id < nextRequestId /\ nextRequestId \in Nat
      BY <3>2 DEF OneOwner, TypeOK, Ids
    <3> QED
      BY <1>1, <1>2, <3>3 DEF Awaited
  <2> QED
    BY <2>1
<1> QED
  BY <1>0, <1>1, <1>2, <1>8, <1>9, <1>10 DEF Settled

LEMMA WriteFailsSettles ==
  ASSUME TypeOK, OneOwner, OneDownload, Live', WriteFails
  PROVE  Settled'
<1>u. ClientWorks \/ User
  BY DEF ClientWorks
<1>0. Live /\ Settled
  BY <1>u, ClientReads DEF OneDownload
<1>1. /\ current' = None /\ draining' = None /\ writes' = <<>> /\ step' = "voided"
      /\ writes # <<>> /\ ~DownloadNext
      /\ Post(IF current # None THEN Cancel ELSE <<>>)
  BY DEF WriteFails, Void, DownloadNext
<1>2. \A id \in Ids : ~Queued(id)
  BY <1>0, <1>1 DEF Settled
<1>3. \A id \in Ids : (Held(id)' => Held(id)) /\ ~Queued(id)'
  BY <1>u, <1>1, <1>2, ClientHolds
<1>4. ASSUME NEW id \in Ids, Held(id)'
      PROVE  Cancelling(id)'
  <2>1. Held(id) /\ download = id
    BY <1>2, <1>3, <1>4 DEF Held
  <2>2. step = "downloading"
    BY <1>0, <1>1 DEF Settled
  <2>3. current = id
    BY <1>0, <2>1, <2>2 DEF Settled, Cancelling
  <2>4. Post(<<Message("cancel", id, 0)>>)
    BY <1>1, <2>3 DEF Cancel, Ids
  <2> DEFINE m == Message("cancel", id, 0)
  <2>5. m \in ToBridge /\ m.type = "cancel" /\ m.id = id
    BY MessageTypes DEF Message
  <2> HIDE DEF m
  <2>6. PICK i \in Nat : i \in DOMAIN toBridge' /\ toBridge'[i] = m
    BY <1>0, <2>4, <2>5, PostedLast DEF m
  <2>7. Cancelled(i, id)'
    BY <2>5, <2>6 DEF Cancelled
  <2>8. download' = id
    BY <1>u, <2>1, ClientReads
  <2> QED
    BY <1>1, <2>6, <2>7, <2>8 DEF Cancelling
<1>5. \A i \in Nat : Answered(i)' => ~Awaited(toClient[i].id)'
  <2>1. TypeOK'
    BY <1>u, StepTypes DEF Next
  <2>2. \A i \in Nat : Answered(i)' => toClient'[i].id # None
    <3>1. toClient' \in Seq(ToClient)
      BY <2>1 DEF TypeOK
    <3>2. \A i \in Nat : Answered(i)' => toClient'[i] \in ToClient /\ toClient'[i].type \in Last
      BY <3>1, ElementOfSeq, LenProperties DEF Answered
    <3> QED
      BY <3>2, AnswerHasId DEF Ids
  <2> QED
    BY <1>1, <2>2 DEF Awaited
<1> QED
  BY <1>1, <1>3, <1>4, <1>5 DEF Settled

LEMMA DownloadNextSettles ==
  ASSUME TypeOK, OneOwner, OneDownload, Live, DownloadNext
  PROVE  /\ Settled'
         /\ \A id \in Ids : ~Held(id)
<1>u. ClientWorks \/ User
  BY DEF ClientWorks
<1>1. /\ step = "between" /\ step' = "downloading" /\ current' = nextRequestId
      /\ UNCHANGED <<draining, writes>>
  BY DEF DownloadNext
<1>2. Quiet
  BY <1>1, RestIsQuiet DEF OneDownload
<1>3. draining' = None /\ writes' = <<>> /\ current' # None
  BY <1>1, <1>2 DEF Quiet, TypeOK, Ids
<1>4. \A id \in Ids : Held(id)' => id = current'
  BY <1>u, <1>1, <1>2, ClientHolds DEF Quiet
<1>5. \A i \in Nat, k \in {0, 1} : i + k \in Nat
  OBVIOUS
<1>6. \A i \in Nat : ~Frame(i)'
  BY <1>u, <1>2, <1>5, ClientReads DEF Left, Quiet
<1> QED
  BY <1>1, <1>2, <1>3, <1>4, <1>6 DEF Settled, Quiet

LEMMA FileEndSettles ==
  ASSUME TypeOK, OneOwner, OneDownload, Live, FileEndArrives
  PROVE  Settled'
<1>u. ClientWorks \/ User
  BY DEF ClientWorks, Arrivals
<1>1. /\ current # None /\ Arrives({"fileEnd"}, current)
      /\ current' = None /\ draining' = current /\ UNCHANGED <<step, writes>>
      /\ ~DownloadNext
  BY DEF FileEndArrives, DownloadNext, dialog
<1>2. step = "downloading"
  BY <1>1 DEF OneDownload, Settled
<1>3. /\ \A id \in Ids : ~Held(id)
      /\ \A i \in Nat : ~Frame(i)'
  BY <1>u, <1>1, NothingBehind DEF Last, Awaited
<1>4. \A id \in Ids : ~Held(id)'
  BY <1>u, <1>1, <1>3, ClientHolds
<1> QED
  BY <1>1, <1>2, <1>3, <1>4 DEF Settled, Held

LEMMA ClientKeepsOne ==
  ASSUME TypeOK, OneOwner, OneDownload, ClientWorks \/ User
  PROVE  OneDownload'
<1>1. \A id, other \in Ids : Held(id)' /\ Held(other)' => id = other
  <2>1. CASE DownloadNext /\ Live
    BY <2>1, DownloadNextSettles, ClientHolds
  <2>2. CASE ~(DownloadNext /\ Live)
    BY <2>2, ClientHolds DEF OneDownload
  <2> QED
    BY <2>1, <2>2
<1>2. destroyed' => link' = "down"
  BY ClientReads DEF OneDownload
<1>3. \A i \in Nat : Answered(i)' => toClient'[i].id \in over'
  <2>1. \A i \in Nat, k \in {0, 1} : i + k \in Nat
    OBVIOUS
  <2> QED
    BY <2>1, ClientReads DEF Left, OneDownload
<1>4. ASSUME Live'
      PROVE  Settled'
  <2>1. Live /\ Settled
    BY <1>4, ClientReads DEF OneDownload
  <2>2. CASE DownloadNext
    BY <2>1, <2>2, DownloadNextSettles
  <2>3. CASE FileEndArrives
    BY <2>1, <2>3, FileEndSettles
  <2>4. CASE WriteFails
    BY <1>4, <2>4, WriteFailsSettles
  <2>5. CASE UserRetries
    BY <1>4, <2>5, RetrySettles
  <2>6. CASE Succeed \/ UserLeaves \/ ClientSeesClose
    BY <1>4, <2>6 DEF Succeed, UserLeaves, ClientSeesClose, Disconnect, Live
  <2>7. CASE SshClosedArrives \/ OtherArrives \/ UserCancels
    <3>1. UNCHANGED <<current, draining, step, request, writes>>
      BY <2>7 DEF SshClosedArrives, OtherArrives, UserCancels, client, dialog
    <3> QED
      BY <1>4, <3>1, RunningStays
  <2>8. CASE FrameArrives
    <3>1. UNCHANGED <<current, draining, step, request>>
      BY <2>8 DEF FrameArrives, dialog
    <3>2. Frame(1)
      BY <2>8, TakeFirst, LenProperties DEF FrameArrives, Frame, TypeOK
    <3>3. writes' # <<>> => writes # <<>> \/ current # None
      BY <2>8 DEF FrameArrives
    <3> QED
      BY <1>4, <3>1, <3>2, <3>3, RunningStays
  <2>9. CASE Written
    <3>1. UNCHANGED <<current, draining, step, request>> /\ writes # <<>>
      BY <2>9 DEF Written
    <3> QED
      BY <1>4, <3>1, RunningStays
  <2>10. CASE Completed
    <3>1. /\ draining # None /\ writes = <<>> /\ step' = "between"
          /\ draining' = None /\ UNCHANGED <<current, writes>>
      BY <2>10 DEF Completed
    <3>2. step = "downloading" /\ current = None
      BY <2>1, <3>1 DEF Settled
    <3>3. /\ \A id \in Ids : ~Held(id)
          /\ \A i \in Nat : ~Frame(i)
      BY <2>1, <3>2 DEF Settled, Cancelling, Ids
    <3>4. \A i \in Nat, k \in {0, 1} : i + k \in Nat
      OBVIOUS
    <3>5. \A i \in Nat : ~Frame(i)'
      BY <3>3, <3>4, ClientReads DEF Left
    <3> QED
      BY <3>1, <3>2, <3>3, <3>5, BecomesQuiet
  <2>11. CASE DownloadFails
    <3>1. current # None /\ Arrives({"canceled", "error"}, current) /\ Void
      BY <2>11 DEF DownloadFails
    <3>2. /\ \A id \in Ids : ~Held(id)
          /\ \A i \in Nat : ~Frame(i)'
      BY <2>1, <3>1, NothingBehind DEF Last, Awaited
    <3> QED
      BY <3>1, <3>2, BecomesQuiet DEF Void
  <2>12. CASE step = "clock" /\ (ClockArrives \/ RequestFails)
    <3>1. /\ Arrives({"serverTime", "error"}, request)
          /\ step' \in {"listing", "form"} /\ UNCHANGED <<draining, writes>>
          /\ UNCHANGED current \/ Disconnect(<<>>)
      BY <2>12 DEF ClockArrives, RequestFails
    <3>2. UNCHANGED current
      BY <1>4, <2>1, <3>1 DEF Disconnect, Live
    <3>3. current = None /\ draining = None /\ writes = <<>>
      BY <2>1, <2>12 DEF Settled
    <3>4. /\ \A id \in Ids : ~Held(id)
          /\ \A i \in Nat : ~Frame(i)'
      BY <2>1, <2>12, <3>1, NothingBehind DEF Last, Awaited
    <3> QED
      BY <3>1, <3>2, <3>3, <3>4, BecomesQuiet
  <2>13. CASE /\ step # "clock"
              /\ \/ Connect \/ ConnectedArrives \/ ClockArrives \/ ListingArrives
                 \/ RequestFails \/ Start \/ ExportStops
    <3>1. /\ step \in {"form", "connecting", "listing", "preview", "between"}
          /\ step' # "downloading"
      BY <2>13 DEF Connect, ConnectedArrives, ClockArrives, ListingArrives, RequestFails,
                   Start, ExportStops, Void
    <3>2. \/ UNCHANGED <<current, draining, writes>> \/ Void \/ Disconnect(<<>>)
      BY <2>13 DEF Connect, ConnectedArrives, ClockArrives, ListingArrives, RequestFails,
                   Start, ExportStops, client
    <3>3. UNCHANGED <<current, draining, writes>> \/ Void
      BY <1>4, <2>1, <3>2 DEF Disconnect, Live
    <3>4. Quiet
      BY <2>1, <3>1, RestIsQuiet
    <3> QED
      BY <3>1, <3>3, <3>4, QuietStays
  <2>14. Connect \/ ConnectedArrives \/ ListingArrives \/ Start \/ ExportStops
           => step # "clock"
    BY DEF Connect, ConnectedArrives, ListingArrives, Start, ExportStops
  <2> QED
    BY <2>2, <2>3, <2>4, <2>5, <2>6, <2>7, <2>8, <2>9, <2>10, <2>11, <2>12, <2>13, <2>14
       DEF ClientWorks, Arrivals, User
<1> QED
  BY <1>1, <1>2, <1>3, <1>4 DEF OneDownload

LEMMA StepKeepsOne ==
  ASSUME TypeOK, OneOwner, OneOwner', OneDownload, [Next]_vars
  PROVE  OneDownload'
<1>1. CASE UNCHANGED vars
  BY <1>1
     DEF vars, bridgeVars, wires, transfer, client, dialog, OneDownload, Settled, Held,
         Queued, DownloadAsked, Live, Frame, Answered, Cancelling, Cancelled, Retried,
         Asked, Awaited
<1> QED
  BY <1>1, BridgeKeepsOne, ClientKeepsOne DEF Next

LEMMA InitOne == Init => OneDownload
<1> SUFFICES ASSUME Init
             PROVE  OneDownload
  OBVIOUS
<1>1. /\ toBridge = <<>> /\ toClient = <<>> /\ operations = {} /\ download = None
      /\ current = None /\ draining = None /\ writes = <<>> /\ ~destroyed
  BY DEF Init, BridgeInit
<1>2. /\ \A i \in Nat : ~Frame(i) /\ ~Answered(i)
      /\ \A id \in Ids : ~Held(id) /\ ~Queued(id)
  BY <1>1 DEF Frame, Answered, Held, Queued, DownloadAsked, Ids
<1> QED
  BY <1>1, <1>2 DEF OneDownload, Settled

\* Whatever the bridge has to do with downloads is about one: its size is asked or
\* its file is sent.
LEMMA OneIsEnough ==
  ASSUME TypeOK, OneOwner, OneDownload
  PROVE  OneTransfer
<1> DEFINE sizes == {operation \in operations : operation.kind = "fileSize"}
<1>1. ASSUME NEW o \in sizes
      PROVE  o.id \in Ids /\ Held(o.id) /\ download # o.id
  <2>1. o = [kind |-> "fileSize", id |-> o.id] /\ o.id \in Ids
    BY DEF TypeOK
  <2> QED
    BY <2>1, QueuedNotBegun DEF Held, Queued
<1>2. \A o, p \in sizes : o = p
  BY <1>1 DEF OneDownload, OneOwner
<1>3. download # None => sizes = {}
  BY <1>1 DEF OneDownload, Held, TypeOK, Ids
<1>4. sizes = {} \/ \E o : sizes = {o}
  BY <1>2
<1> HIDE DEF sizes
<1>5. /\ Cardinality(sizes) \in {0, 1}
      /\ sizes = {} => Cardinality(sizes) = 0
  BY <1>4, FS_EmptySet, FS_Singleton
<1> QED
  BY <1>3, <1>5 DEF OneTransfer, sizes

\* The bridge transfers one file at a time, though it looks for another transfer
\* before it asks for the file's size and starts when that has come: the client
\* asks for a file when nothing is left of the one before, or after its cancel.
THEOREM TransfersOneAtATime == Spec => []OneTransfer
<1>1. Init => TypeOK /\ OneOwner /\ OneDownload
  BY InitTypes, InitOwner, InitOne
<1>2. TypeOK /\ OneOwner /\ OneDownload /\ [Next]_vars
        => TypeOK' /\ OneOwner' /\ OneDownload'
  BY StepTypes, StepKeepsOwner, StepKeepsOne
<1>3. TypeOK /\ OneOwner /\ OneDownload => OneTransfer
  BY OneIsEnough
<1> QED
  BY <1>1, <1>2, <1>3, PTL DEF Spec

-----------------------------------------------------------------------------
(* The file on its way.                                                    *)

\* Requests and the download take turns.
Orderly ==
  /\ request # None => step \in {"connecting", "clock", "listing"}
  /\ current # None => step = "downloading" /\ draining = None
  /\ draining # None => step = "downloading"
  /\ writes # <<>> => current # None \/ draining # None
  /\ current < nextRequestId /\ draining < nextRequestId

LEMMA ClientKeepsOrder ==
  ASSUME TypeOK, Orderly, ClientWorks \/ User
  PROVE  Orderly'
<1>0. /\ nextRequestId \in Nat /\ nextRequestId > 0 /\ nextRequestId + 1 \in Nat
      /\ nextRequestId < nextRequestId + 1
      /\ current \in Nat /\ draining \in Nat
      /\ \A n \in Nat : n < nextRequestId => n < nextRequestId + 1
  BY DEF TypeOK, Ids, None
<1>1. CASE Connect \/ ConnectedArrives \/ ClockArrives \/ UserRetries
  <2>1. /\ step \in {"form", "connecting", "clock", "voided"}
        /\ step' \in {"connecting", "clock", "listing"}
        /\ UNCHANGED <<current, draining, writes>> /\ nextRequestId' = nextRequestId + 1
    BY <1>1 DEF Connect, ConnectedArrives, ClockArrives, UserRetries, Ask
  <2> QED
    BY <1>0, <2>1 DEF Orderly
<1>2. CASE ListingArrives \/ RequestFails \/ Start \/ Succeed
  <2>1. /\ step # "downloading"
        /\ \/ request' = None
           \/ step \in {"preview", "between"} /\ UNCHANGED request
        /\ current' \in {current, None} /\ UNCHANGED <<draining, writes, nextRequestId>>
    BY <1>2 DEF ListingArrives, RequestFails, Start, Succeed, Disconnect, client
  <2> QED
    BY <1>0, <2>1 DEF Orderly, None
<1>3. CASE DownloadNext
  BY <1>0, <1>3 DEF Orderly, DownloadNext, None
<1>4. CASE ExportStops \/ WriteFails \/ DownloadFails \/ (ClientSeesClose /\ current # None)
  <2>1. step \in {"between", "downloading"}
    BY <1>4 DEF ExportStops, WriteFails, DownloadFails, Orderly
  <2>2. /\ request' \in {request, None} /\ current' = None /\ draining' = None /\ writes' = <<>>
        /\ UNCHANGED nextRequestId
    BY <1>4 DEF ExportStops, WriteFails, DownloadFails, ClientSeesClose, Void
  <2> QED
    BY <1>0, <2>1, <2>2 DEF Orderly, None
<1>5. CASE ClientSeesClose /\ current = None
  BY <1>0, <1>5 DEF Orderly, ClientSeesClose
<1>6. CASE FrameArrives \/ SshClosedArrives \/ OtherArrives \/ UserCancels
  <2>1. /\ UNCHANGED <<request, current, draining, step, nextRequestId>>
        /\ writes' # <<>> => writes # <<>> \/ current # None
    BY <1>6 DEF FrameArrives, SshClosedArrives, OtherArrives, UserCancels, client, dialog
  <2> QED
    BY <2>1 DEF Orderly
<1>7. CASE FileEndArrives
  BY <1>0, <1>7 DEF Orderly, FileEndArrives, dialog, None
<1>8. CASE Written
  BY <1>8 DEF Orderly, Written
<1>9. CASE Completed
  BY <1>0, <1>9 DEF Orderly, Completed, None
<1>10. CASE UserLeaves
  BY <1>0, <1>10 DEF Orderly, UserLeaves, Disconnect, None
<1> QED
  BY <1>1, <1>2, <1>3, <1>4, <1>5, <1>6, <1>7, <1>8, <1>9, <1>10
     DEF ClientWorks, Arrivals, User

LEMMA StepKeepsOrder ==
  ASSUME TypeOK, Orderly, [Next]_vars
  PROVE  Orderly'
<1>1. CASE Bridge \/ UNCHANGED vars
  BY <1>1 DEF Bridge, vars, client, dialog, Orderly
<1> QED
  BY <1>1, ClientKeepsOrder DEF Next

\* Frames are on their way to a download, or to one that was voided; the answer
\* that is waited for comes after them.
FramesOwned ==
  /\ ws \/ link = "down"
  /\ \A i \in Nat : Frame(i) =>
       IF ws THEN current # None \/ step \in {"voided", "clock"}
             ELSE step \in {"form", "succeeded", "left"}
  /\ ws => \A i, j \in Nat : Answered(i) /\ Frame(j) /\ Awaited(toClient[i].id) => j < i

LEMMA BridgeKeepsFramesOwned ==
  ASSUME TypeOK, OneDownload', FramesOwned, Bridge
  PROVE  FramesOwned'
<1>0. UNCHANGED <<ws, current, step, request>>
  BY DEF Bridge, client, dialog
<1>1. CASE Live'
  BY <1>0, <1>1 DEF OneDownload, Settled, FramesOwned, Live
<1>2. CASE ~Live'
  <2>1. ws' \/ link' = "down"
    <3>1. link' \in {"up", "down"}
      BY StepTypes DEF Next, TypeOK
    <3> QED
      BY <1>0, <3>1, BridgeReads DEF FramesOwned
  <2>2. link' # "up"
    BY <1>2, <2>1 DEF Live
  <2>3. Heard
    BY BridgeHeard
  <2>4. \A i \in Nat : Frame(i)' => Frame(i)
    BY <2>2, <2>3 DEF Heard, NewData, Data
  <2>5. ASSUME NEW i \in Nat, NEW j \in Nat, ws', Answered(i)', Frame(j)',
               Awaited(toClient[i].id)'
        PROVE  j < i
    <3>1. CASE Answered(i) /\ toClient'[i] = toClient[i]
      BY <1>0, <2>4, <2>5, <3>1 DEF FramesOwned, Awaited
    <3>2. CASE ~(i <= Len(toClient))
      BY <2>4, <2>5, <3>2, LenProperties DEF Frame, TypeOK
    <3> QED
      BY <2>3, <2>5, <3>1, <3>2 DEF Heard
  <2> QED
    BY <1>0, <2>1, <2>4, <2>5 DEF FramesOwned
<1> QED
  BY <1>1, <1>2

\* What the client reads of the frames.
Kept(k) ==
  /\ Left(k)
  /\ \A i \in Nat : Frame(i) /\ ~(i <= k) =>
       i - k \in Nat /\ Frame(i - k)' /\ toClient'[i - k] = toClient[i]
  /\ k = 1 /\ Frame(1) => FrameArrives
  /\ FrameArrives => k = 1 /\ Frame(1)

LEMMA ClientKeepsFrames ==
  ASSUME TypeOK, ClientWorks \/ User, ws'
  PROVE  \E k \in {0, 1} : Kept(k)
<1>1. \/ UNCHANGED toClient /\ ~FrameArrives
      \/ /\ toClient # <<>> /\ toClient' = Tail(toClient)
         /\ Head(toClient).type # "data" \/ FrameArrives
  <2>1. CASE FrameArrives
    BY <2>1 DEF FrameArrives
  <2>2. CASE ConnectedArrives \/ ClockArrives \/ ListingArrives \/ RequestFails
             \/ FileEndArrives \/ DownloadFails \/ SshClosedArrives
    <3>1. \E types, id : Arrives(types, id) /\ types \subseteq Last \union {"sshClosed"}
      BY <2>2 DEF ConnectedArrives, ClockArrives, ListingArrives, RequestFails,
                  FileEndArrives, DownloadFails, SshClosedArrives, Last
    <3> QED
      BY <3>1 DEF Arrives, Last
  <2>3. CASE OtherArrives
    BY <2>3 DEF OtherArrives, Last
  <2>4. CASE Connect \/ Start \/ UserCancels \/ UserRetries \/ UserLeaves \/ DownloadNext
             \/ ExportStops \/ Succeed \/ Written \/ WriteFails \/ Completed
    <3>1. UNCHANGED toClient
      BY <2>4 DEF Connect, Start, UserCancels, UserRetries, UserLeaves, DownloadNext,
                  ExportStops, Succeed, Written, WriteFails, Completed, NoMessageTaken
    <3>2. FrameArrives => toClient # <<>> /\ toClient' = Tail(toClient)
      BY DEF FrameArrives
    <3> QED
      BY <3>1, <3>2
  <2>5. ~ClientSeesClose
    BY DEF ClientSeesClose
  <2> QED
    BY <2>1, <2>2, <2>3, <2>4, <2>5 DEF ClientWorks, Arrivals, User
<1>2. CASE UNCHANGED toClient /\ ~FrameArrives
  <2>1. \A i \in Nat : i + 0 = i /\ i - 0 = i
    OBVIOUS
  <2>2. Kept(0)
    BY <1>2, <2>1 DEF Kept, Left, Answered, Frame
  <2> QED
    BY <2>2
<1>3. CASE /\ toClient # <<>> /\ toClient' = Tail(toClient)
           /\ Head(toClient).type # "data" \/ FrameArrives
  <2>1. /\ toClient \in Seq(ToClient) /\ toClient' \in Seq(ToClient)
        /\ Len(toClient) \in Nat /\ Len(toClient') = Len(toClient) - 1
        /\ Head(toClient) = toClient[1]
        /\ \A i \in 1..Len(toClient') : toClient'[i] = toClient[i + 1]
    BY <1>3, TakeFirst DEF TypeOK
  <2>2. DOMAIN toClient = 1..Len(toClient) /\ DOMAIN toClient' = 1..Len(toClient')
    BY <2>1, LenProperties
  <2>3. \A i \in Nat : i \in DOMAIN toClient' => i + 1 \in DOMAIN toClient
    BY <2>1, <2>2
  <2>4. Left(1)
    BY <2>1, <2>2, <2>3 DEF Left, Answered, Frame
  <2>5. ASSUME NEW i \in Nat, Frame(i), ~(i <= 1)
        PROVE  i - 1 \in Nat /\ Frame(i - 1)' /\ toClient'[i - 1] = toClient[i]
    <3>1. i - 1 \in 1..Len(toClient') /\ (i - 1) + 1 = i
      BY <2>1, <2>2, <2>5 DEF Frame
    <3> QED
      BY <2>1, <2>2, <2>5, <3>1 DEF Frame
  <2>6. FrameArrives <=> Frame(1)
    <3>1. Len(toClient) # 0
      BY <1>3, <2>1, EmptySeq
    <3>2. 1 \in DOMAIN toClient
      BY <2>1, <2>2, <3>1
    <3> QED
      BY <1>3, <2>1, <3>2 DEF Frame, FrameArrives
  <2>7. Kept(1)
    BY <2>4, <2>5, <2>6 DEF Kept
  <2> QED
    BY <2>7
<1> QED
  BY <1>1, <1>2, <1>3

LEMMA AwaitedEndsFrames ==
  ASSUME TypeOK, FramesOwned, NEW types, NEW id, Arrives(types, id), types \subseteq Last,
         Awaited(id), ClientWorks \/ User
  PROVE  \A i \in Nat : ~Frame(i)'
<1>1. Answered(1) /\ toClient[1].id = id /\ ws
  BY TakeFirst, LenProperties DEF Arrives, Answered, TypeOK
<1>2. \A j \in Nat : Frame(j) => j < 1
  BY <1>1 DEF FramesOwned
<1>3. \A j \in Nat : ~Frame(j)
  BY <1>2, LenProperties DEF Frame, TypeOK
<1>4. \A i \in Nat, k \in {0, 1} : i + k \in Nat
  OBVIOUS
<1> QED
  BY <1>3, <1>4, ClientReads DEF Left

\* No answer on its way is that of a request that is new.
LEMMA NewIsUnanswered ==
  ASSUME TypeOK, OneOwner, OneDownload, ClientWorks \/ User, NEW i \in Nat, Answered(i)'
  PROVE  toClient'[i].id # nextRequestId /\ toClient'[i].id # None
<1>1. PICK k \in {0, 1} : Left(k)
  BY ClientReads
<1>2. Answered(i + k) /\ toClient'[i] = toClient[i + k] /\ i + k \in Nat
  BY <1>1 DEF Left
<1>3. toClient'[i].id \in over
  BY <1>2 DEF OneDownload
<1>4. toClient'[i].id \in Ids /\ toClient'[i].id < nextRequestId
  BY <1>3 DEF OneOwner, TypeOK
<1>5. nextRequestId \in Nat
  BY DEF TypeOK, Ids
<1> QED
  BY <1>4, <1>5 DEF Ids

LEMMA ClientKeepsFramesOwned ==
  ASSUME TypeOK, OneOwner, OneDownload, Orderly, FramesOwned, ClientWorks \/ User
  PROVE  FramesOwned'
<1> DEFINE Owned == IF ws THEN current # None \/ step \in {"voided", "clock"}
                          ELSE step \in {"form", "succeeded", "left"}
<1>0. PICK k \in {0, 1} : Left(k)
  BY ClientReads
<1>1. \A i \in Nat : i + k \in Nat
  OBVIOUS
\* Nobody else becomes the owner, nor is anything else waited for.
<1>2. ASSUME ws' \/ link' = "down",
             \A i \in Nat : Frame(i)' => Owned',
             ws' => ws /\ \A i \in Nat : Answered(i)' /\ Awaited(toClient[i].id)'
                                           => Awaited(toClient'[i].id)
      PROVE  FramesOwned'
  <2>1. ASSUME NEW i \in Nat, NEW j \in Nat, ws', Answered(i)', Frame(j)',
               Awaited(toClient[i].id)'
        PROVE  j < i
    <3>1. /\ Answered(i + k) /\ toClient'[i] = toClient[i + k] /\ Frame(j + k)
          /\ i + k \in Nat /\ j + k \in Nat
      BY <1>0, <2>1 DEF Left
    <3>2. j + k < i + k
      BY <1>2, <2>1, <3>1 DEF FramesOwned
    <3> QED
      BY <3>2
  <2> QED
    BY <1>2, <2>1 DEF FramesOwned
<1>u. ws' \/ link' = "down"
  <2>1. CASE \E before : Disconnect(before)
    BY <2>1 DEF Disconnect, FramesOwned
  <2>2. CASE UNCHANGED <<ws, link>>
    BY <2>2 DEF FramesOwned
  <2>3. CASE ClientSeesClose
    BY <2>3 DEF ClientSeesClose
  <2> QED
    BY <2>1, <2>2, <2>3
       DEF ClientWorks, Arrivals, User, ConnectedArrives, ClockArrives, ListingArrives,
           RequestFails, FrameArrives, FileEndArrives, DownloadFails, SshClosedArrives,
           OtherArrives, DownloadNext, ExportStops, Succeed, Written, WriteFails, Completed,
           Connect, Start, UserCancels, UserRetries, UserLeaves, client
<1>3. CASE FrameArrives \/ SshClosedArrives \/ OtherArrives \/ UserCancels \/ Written
  <2>1. UNCHANGED <<ws, link, current, step, request>>
    BY <1>3 DEF FrameArrives, SshClosedArrives, OtherArrives, UserCancels, Written, client,
                dialog
  <2> QED
    BY <1>0, <1>1, <1>2, <2>1 DEF FramesOwned, Left, Awaited
<1>4. CASE Connect \/ ConnectedArrives \/ UserRetries \/ DownloadNext
  <2>1. /\ UNCHANGED <<ws, link>>
        /\ step \in {"form", "connecting", "voided", "between"}
        /\ step = "form" => ws
        /\ step = "voided" => ws /\ step' = "clock"
        /\ \/ UNCHANGED current /\ request' = nextRequestId
           \/ current' = nextRequestId /\ step' = "downloading"
    BY <1>4 DEF Connect, ConnectedArrives, UserRetries, DownloadNext, Ask
  <2>2. current = None
    BY <2>1 DEF Orderly
  <2>3. \A i \in Nat : Frame(i)' => Owned'
    BY <1>0, <1>1, <2>1, <2>2 DEF FramesOwned, Left
  <2>4. \A i \in Nat : Answered(i)' => ~Awaited(toClient[i].id)'
    BY <2>1, <2>2, NewIsUnanswered DEF Awaited
  <2> QED
    BY <1>2, <2>1, <2>3, <2>4 DEF FramesOwned
<1>5. CASE ClockArrives \/ FileEndArrives \/ DownloadFails \/ (RequestFails /\ step = "clock")
  <2>1. \E types, id : Arrives(types, id) /\ types \subseteq Last /\ Awaited(id)
    <3>1. CASE ClockArrives \/ (RequestFails /\ step = "clock")
      BY <3>1 DEF ClockArrives, RequestFails, Last, Awaited
    <3>2. CASE FileEndArrives \/ DownloadFails
      BY <3>2 DEF FileEndArrives, DownloadFails, Last, Awaited
    <3> QED
      BY <1>5, <3>1, <3>2
  <2>2. \A i \in Nat : ~Frame(i)'
    BY <2>1, AwaitedEndsFrames
  <2> QED
    BY <1>u, <2>2 DEF FramesOwned
<1>6. CASE ListingArrives \/ (RequestFails /\ step # "clock") \/ Start \/ ExportStops
           \/ Completed \/ Succeed
  <2>1. step \in {"connecting", "listing", "preview", "between"} \/ draining # None
    BY <1>6 DEF ListingArrives, RequestFails, Start, ExportStops, Completed, Succeed
  <2>2. current = None /\ step \notin {"voided", "clock", "form", "succeeded", "left"}
    BY <2>1 DEF Orderly
  <2>3. \A i \in Nat : ~Frame(i)'
    BY <1>0, <1>1, <2>2 DEF FramesOwned, Left
  <2> QED
    BY <1>u, <2>3 DEF FramesOwned
<1>7. CASE WriteFails
  <2>1. /\ step = "downloading" /\ step' = "voided" /\ current' = None /\ ws' = ws
    BY <1>7 DEF WriteFails, Void, Orderly
  <2>2. \A i \in Nat : Frame(i)' => Owned'
    BY <1>0, <1>1, <2>1 DEF FramesOwned, Left
  <2>3. \A i \in Nat : Answered(i)' => ~Awaited(toClient[i].id)'
    BY <2>1, NewIsUnanswered DEF Awaited
  <2> QED
    BY <1>u, <1>2, <2>1, <2>2, <2>3
<1>8. CASE UserLeaves
  <2>1. ~ws' /\ step' = "left"
    BY <1>8 DEF UserLeaves, Disconnect
  <2> QED
    BY <1>u, <2>1 DEF FramesOwned
<1>9. CASE ClientSeesClose
  <2>1. \A i \in Nat : ~Frame(i)'
    BY <1>9, EmptySeq DEF ClientSeesClose, Frame
  <2>2. ~ws'
    BY <1>9 DEF ClientSeesClose
  <2> QED
    BY <1>u, <2>1, <2>2 DEF FramesOwned
<1> QED
  BY <1>3, <1>4, <1>5, <1>6, <1>7, <1>8, <1>9 DEF ClientWorks, Arrivals, User

-----------------------------------------------------------------------------
(* What the client has in hand of the file.                                *)

Owner == IF current # None THEN current ELSE draining
InHand == Len(written) + Len(writes)
Ended(i) == i \in DOMAIN toClient /\ toClient[i].type = "fileEnd"
AckSent(i) == i \in DOMAIN toBridge /\ toBridge[i].type = "ack"

\* The chunks written and to be written are the first of one file.
InPackage ==
  /\ \A i \in 1..Len(written) :
       /\ written[i].n = i /\ written[i].id = written[1].id
       /\ Owner # None => written[i].id = Owner
  /\ \A i \in 1..Len(writes) : writes[i].n = Len(written) + i /\ writes[i].id = Owner
  /\ draining # None => InHand = FileFrames
  /\ current # None => InHand <= FileFrames
  /\ step \in {"between", "succeeded"} /\ file > 0 => Len(written) = FileFrames

\* The frames on their way are those that follow, as far as the window allows; a
\* file's end comes after all of them.
FramesFollow ==
  /\ Len(writes) <= Window
  /\ \A i \in Nat : Frame(i) => InHand < toClient[i].n /\ toClient[i].n <= Len(written) + Window
  /\ \A i, j \in Nat : Frame(i) /\ Frame(j) /\ i < j => toClient[i].n < toClient[j].n
  /\ ws /\ current # None =>
       /\ \A i \in Nat : Frame(i) =>
            /\ toClient[i].id = current /\ toClient[i].n <= FileFrames
            /\ \A m \in (InHand + 1)..toClient[i].n :
                 \E j \in Nat : j <= i /\ Frame(j) /\ toClient[j].n = m
       /\ \A i \in Nat : Ended(i) /\ toClient[i].id = current =>
            \A m \in (InHand + 1)..FileFrames :
              \E j \in Nat : j < i /\ Frame(j) /\ toClient[j].n = m

\* What the bridge has sent is on its way or in hand; what it knows to be written
\* is.
TransferFollows ==
  /\ download # None =>
       /\ acked <= Len(written) /\ sent <= acked + Window
       /\ InHand <= sent /\ sent <= FileFrames
       /\ \A i \in Nat : Frame(i) => toClient[i].n <= sent
       /\ current = download =>
            \A m \in (InHand + 1)..sent : \E j \in Nat : Frame(j) /\ toClient[j].n = m
  /\ \A id \in Ids : Queued(id) => written = <<>>
  /\ \A id \in Ids, i \in Nat :
       Held(id) /\ AckSent(i) /\ toBridge[i].id = id => toBridge[i].n <= Len(written)

InTransit ==
  /\ InPackage /\ FramesFollow
  /\ \A i \in Nat : AckSent(i) => toBridge[i].id < nextRequestId
  /\ Live => TransferFollows

LEMMA TransitTypes ==
  ASSUME TypeOK
  PROVE  /\ Len(written) \in Nat /\ Len(writes) \in Nat /\ InHand \in Nat
         /\ sent \in Nat /\ acked \in Nat /\ Window \in Nat /\ FileFrames \in Nat
         /\ current \in Nat /\ draining \in Nat /\ download \in Nat /\ nextRequestId \in Nat
         /\ \A i \in Nat : i \in DOMAIN toClient => toClient[i] \in ToClient /\ toClient[i].n \in Nat
                                                    /\ i <= Len(toClient) /\ 1 <= i
         /\ \A i \in Nat : i \in DOMAIN toBridge => toBridge[i] \in ToBridge /\ toBridge[i].id \in Nat
                                                    /\ toBridge[i].n \in Nat
<1>1. /\ Len(written) \in Nat /\ Len(writes) \in Nat /\ Len(toClient) \in Nat
      /\ DOMAIN toClient = 1..Len(toClient) /\ DOMAIN toBridge = 1..Len(toBridge)
  BY LenProperties DEF TypeOK
<1>2. \A i \in Nat : i \in DOMAIN toClient => toClient[i] \in ToClient
  BY <1>1, ElementOfSeq DEF TypeOK
<1>3. \A i \in Nat : i \in DOMAIN toBridge => toBridge[i] \in ToBridge
  BY <1>1, ElementOfSeq DEF TypeOK
<1>4. \A i \in Nat : i \in DOMAIN toClient => i <= Len(toClient) /\ 1 <= i
  BY <1>1
<1>5. /\ sent \in Nat /\ acked \in Nat /\ Window \in Nat /\ FileFrames \in Nat
      /\ current \in Nat /\ draining \in Nat /\ download \in Nat /\ nextRequestId \in Nat
  BY BridgeAssumption DEF TypeOK, Ids
<1>6. InHand \in Nat
  BY <1>1 DEF InHand
<1> QED
  BY <1>1, <1>2, <1>3, <1>4, <1>5, <1>6, AnswerHasId, CallHasId

-----------------------------------------------------------------------------
(* The bridge's steps.                                                     *)

LEMMA NewDataIsLast ==
  ASSUME TypeOK, OneDownload, NewData
  PROVE  /\ Len(toClient) + 1 \in Nat /\ Len(toClient) + 1 \in DOMAIN toClient'
         /\ toClient'[Len(toClient) + 1] = Message("data", download, sent + 1)
         /\ \A i \in Nat : i \in DOMAIN toClient' => i <= Len(toClient) + 1
<1> DEFINE m == Message("data", download, sent + 1)
<1>1. m \in ToClient
  <2>1. sent + 1 \in Nat /\ download \in Ids
    BY DEF NewData, Data, TypeOK, Ids
  <2> QED
    BY <2>1, MessageTypes
<1>2. ~destroyed /\ link = "up"
  BY DEF OneDownload, NewData
<1>3. toClient' = toClient \o <<m>>
  BY <1>2 DEF NewData, Data, Send
<1> HIDE DEF m
<1>4. toClient \in Seq(ToClient) /\ <<m>> \in Seq(ToClient) /\ Len(<<m>>) = 1 /\ <<m>>[1] = m
  BY <1>1, OneMessage DEF TypeOK
<1> DEFINE s == toClient \o <<m>>
<1>5. /\ s \in Seq(ToClient) /\ Len(s) = Len(toClient) + 1 /\ Len(toClient) \in Nat
      /\ DOMAIN s = 1..Len(s) /\ s[Len(toClient) + 1] = m
  BY <1>4, ConcatProperties, LenProperties
<1> HIDE DEF s
<1>6. toClient' = s
  BY <1>3 DEF s
<1> QED
  BY <1>5, <1>6 DEF m

\* What becomes of the transfer.
LEMMA BridgeTransfer ==
  ASSUME TypeOK, Bridge
  PROVE  \/ Data
         \/ HandleAck
         \/ \E id \in Ids : FileSizeResolves(id) /\ ~destroyed
         \/ UNCHANGED transfer
         \/ download' = None
<1>1. CASE SshAnswers
  <2>1. CASE \E id \in {operation.id : operation \in operations} : FileSizeResolves(id)
    BY <2>1 DEF FileSizeResolves, TypeOK
  <2>2. CASE ~\E id \in {operation.id : operation \in operations} : FileSizeResolves(id)
    BY <1>1, <2>2 DEF SshAnswers, ConnectResolves, ConnectRejects, HomeSettles, ListResolves,
                      ServerTimeResolves, CallRejects
  <2> QED
    BY <2>1, <2>2
<1>2. CASE Handlers
  BY <1>2 DEF Handlers, HandleConnect, HandleList, HandleServerTime, HandleDownload,
              HandleCancel, HandleDisconnect, EndTransfer
<1>3. CASE Stream
  BY <1>3 DEF Stream, StreamEnds, StreamFails, EndTransfer
<1>4. CASE BridgeSeesClose \/ BridgeSuffers
  BY <1>4 DEF BridgeSeesClose, BridgeSuffers, SshCloses, IdleTimeout, Kick, LinkBreaks,
              Destroy, EndTransfer
<1> QED
  BY <1>1, <1>2, <1>3, <1>4 DEF Bridge, BridgeNext, BridgeWorks

\* While there is one, the client runs it or has cancelled it.
LEMMA TransferKnown ==
  ASSUME TypeOK, OneDownload, Live, download # None
  PROVE  /\ current # None => current = download
         /\ current = None => step \in {"voided", "clock"}
<1>1. Held(download) /\ download \in Ids
  BY DEF Held, TypeOK, Ids
<1>2. current = download \/ Cancelling(download)
  BY <1>1 DEF OneDownload, Settled
<1> QED
  BY <1>2 DEF Cancelling

LEMMA BridgeKeepsFrames ==
  ASSUME TypeOK, OneOwner, OneDownload, FramesOwned, InTransit, Bridge
  PROVE  InPackage' /\ FramesFollow'
<1>0. UNCHANGED <<ws, current, draining, writes, written, step, file>>
  BY DEF Bridge, client, dialog
<1>t. /\ InHand \in Nat /\ sent \in Nat /\ acked \in Nat /\ Window \in Nat /\ FileFrames \in Nat
      /\ Len(written) \in Nat /\ Len(toClient) \in Nat /\ Len(writes) \in Nat
      /\ \A i \in Nat : i \in DOMAIN toClient =>
           toClient[i].n \in Nat /\ i <= Len(toClient)
  BY TransitTypes, LenProperties DEF TypeOK
<1>1. InPackage' /\ InHand' = InHand /\ Len(written') = Len(written)
  BY <1>0 DEF InTransit, InPackage, Owner, InHand
<1>2. Heard
  BY BridgeHeard
<1>4. \A i \in Nat : Frame(i) => Frame(i)' /\ toClient'[i] = toClient[i]
  BY <1>2 DEF Heard, Frame
\* A new frame is the next one of the download that runs, within the window.
<1>5. ASSUME NEW i \in Nat, Frame(i)', ~(Frame(i) /\ toClient'[i] = toClient[i])
      PROVE  /\ NewData /\ i = Len(toClient) + 1
             /\ toClient'[i].n = sent + 1 /\ toClient'[i].id = download
             /\ Live /\ TransferFollows /\ download # None
             /\ sent < FileFrames /\ sent + 1 <= Len(written) + Window
  <2>1. /\ ~(i <= Len(toClient)) /\ NewData
        /\ toClient'[i] = Message("data", download, sent + 1)
    BY <1>2, <1>5 DEF Heard
  <2>2. i <= Len(toClient) + 1
    BY <1>5, <2>1, NewDataIsLast DEF Frame
  <2>3. i = Len(toClient) + 1
    BY <1>t, <2>1, <2>2
  <2>4. Live
    BY <2>1 DEF NewData, FramesOwned, Live
  <2>5. TransferFollows /\ download # None /\ sent < FileFrames /\ ~(sent - acked >= Window)
    BY <2>1, <2>4 DEF InTransit, NewData, Data, Paused
  <2>6. acked <= Len(written)
    BY <2>5 DEF TransferFollows
  <2>7. sent + 1 <= Len(written) + Window
    BY <1>t, <2>5, <2>6
  <2> QED
    BY <2>1, <2>3, <2>4, <2>5, <2>7 DEF Message
<1>6. \A i \in Nat : Frame(i)' =>
        InHand < toClient'[i].n /\ toClient'[i].n <= Len(written) + Window
  <2>1. TAKE i \in Nat
  <2>2. CASE Frame(i) /\ toClient'[i] = toClient[i]
    BY <2>2 DEF InTransit, FramesFollow
  <2>3. CASE Frame(i)' /\ ~(Frame(i) /\ toClient'[i] = toClient[i])
    <3>1. /\ toClient'[i].n = sent + 1 /\ sent + 1 <= Len(written) + Window
          /\ InHand <= sent
      BY <1>5, <2>3 DEF TransferFollows
    <3> QED
      BY <1>t, <3>1
  <2> QED
    BY <2>2, <2>3
<1>7. ASSUME NEW i \in Nat, NEW j \in Nat, Frame(i)', Frame(j)', i < j
      PROVE  toClient'[i].n < toClient'[j].n
  <2>1. CASE Frame(j) /\ toClient'[j] = toClient[j]
    <3>1. j <= Len(toClient)
      BY <1>t, <2>1 DEF Frame
    <3>2. i # Len(toClient) + 1
      BY <1>t, <1>7, <3>1
    <3>3. Frame(i) /\ toClient'[i] = toClient[i]
      BY <1>5, <1>7, <3>2
    <3> QED
      BY <1>7, <2>1, <3>3 DEF InTransit, FramesFollow
  <2>2. CASE ~(Frame(j) /\ toClient'[j] = toClient[j])
    <3>1. toClient'[j].n = sent + 1 /\ j = Len(toClient) + 1 /\ TransferFollows /\ download # None
      BY <1>5, <1>7, <2>2
    <3>2. i # Len(toClient) + 1
      BY <1>t, <1>7, <3>1
    <3>3. Frame(i) /\ toClient'[i] = toClient[i]
      BY <1>5, <1>7, <3>2
    <3>4. toClient[i].n <= sent /\ toClient[i].n \in Nat
      BY <1>t, <3>1, <3>3 DEF TransferFollows, Frame
    <3> QED
      BY <1>t, <3>1, <3>3, <3>4
  <2> QED
    BY <2>1, <2>2
<1>8. ASSUME ws, current # None, NEW i \in Nat, Frame(i)'
      PROVE  /\ toClient'[i].id = current /\ toClient'[i].n <= FileFrames
             /\ \A m \in (InHand + 1)..toClient'[i].n :
                  \E j \in Nat : j <= i /\ Frame(j)' /\ toClient'[j].n = m
  <2>1. CASE Frame(i) /\ toClient'[i] = toClient[i]
    <3>1. /\ toClient[i].id = current /\ toClient[i].n <= FileFrames
          /\ \A m \in (InHand + 1)..toClient[i].n :
               \E j \in Nat : j <= i /\ Frame(j) /\ toClient[j].n = m
      BY <1>8, <2>1 DEF InTransit, FramesFollow
    <3> QED
      BY <1>4, <2>1, <3>1
  <2>2. CASE ~(Frame(i) /\ toClient'[i] = toClient[i])
    <3>1. /\ i = Len(toClient) + 1
          /\ toClient'[i].n = sent + 1 /\ toClient'[i].id = download
          /\ Live /\ TransferFollows /\ download # None /\ sent < FileFrames
      BY <1>5, <1>8, <2>2
    <3>2. current = download
      BY <1>8, <3>1, TransferKnown
    <3>3. ASSUME NEW m \in (InHand + 1)..(sent + 1)
          PROVE  \E j \in Nat : j <= i /\ Frame(j)' /\ toClient'[j].n = m
      <4>1. CASE m = sent + 1
        <5>1. i <= i
          BY <1>8
        <5> QED
          BY <1>8, <3>1, <4>1, <5>1
      <4>2. CASE m # sent + 1
        <5>1. m \in (InHand + 1)..sent
          BY <1>t, <3>3, <4>2
        <5>2. PICK j \in Nat : Frame(j) /\ toClient[j].n = m
          BY <3>1, <3>2, <5>1 DEF TransferFollows
        <5>3. j <= Len(toClient)
          BY <1>t, <5>2 DEF Frame
        <5>4. j <= i
          BY <1>t, <3>1, <5>3
        <5> QED
          BY <1>4, <5>2, <5>4
      <4> QED
        BY <4>1, <4>2
    <3>4. sent + 1 <= FileFrames
      BY <1>t, <3>1
    <3> QED
      BY <3>1, <3>2, <3>3, <3>4
  <2> QED
    BY <2>1, <2>2
<1>9. ASSUME ws, current # None, NEW i \in Nat, Ended(i)', toClient'[i].id = current
      PROVE  \A m \in (InHand + 1)..FileFrames :
               \E j \in Nat : j < i /\ Frame(j)' /\ toClient'[j].n = m
  <2>1. CASE Answered(i) /\ toClient'[i] = toClient[i]
    <3>1. Ended(i) /\ toClient[i].id = current
      BY <1>9, <2>1 DEF Ended, Answered
    <3>2. \A m \in (InHand + 1)..FileFrames :
            \E j \in Nat : j < i /\ Frame(j) /\ toClient[j].n = m
      BY <1>9, <3>1 DEF InTransit, FramesFollow
    <3> QED
      BY <1>4, <3>2
  <2>2. CASE ~(Answered(i) /\ toClient'[i] = toClient[i])
    <3>1. ~(i <= Len(toClient)) /\ NewEnd
      BY <1>2, <1>9, <2>2 DEF Heard, Ended, Answered, Last
    <3>2. Live /\ download # None /\ sent = FileFrames /\ TransferFollows
      BY <3>1 DEF NewEnd, StreamEnds, FramesOwned, Live, InTransit
    <3>3. current = download
      BY <1>9, <3>2, TransferKnown
    <3>4. ASSUME NEW m \in (InHand + 1)..FileFrames
          PROVE  \E j \in Nat : j < i /\ Frame(j)' /\ toClient'[j].n = m
      <4>1. PICK j \in Nat : Frame(j) /\ toClient[j].n = m
        BY <3>2, <3>3, <3>4 DEF TransferFollows
      <4>2. j <= Len(toClient)
        BY <1>t, <4>1 DEF Frame
      <4>3. j < i
        BY <1>t, <1>9, <3>1, <4>2
      <4> QED
        BY <1>4, <4>1, <4>3
    <3> QED
      BY <3>4
  <2> QED
    BY <2>1, <2>2
<1>10. Len(writes') <= Window
  BY <1>0 DEF InTransit, FramesFollow
<1> QED
  BY <1>0, <1>1, <1>6, <1>7, <1>8, <1>9, <1>10 DEF FramesFollow

LEMMA BridgeKeepsAcks ==
  ASSUME TypeOK, OneOwner, InTransit, Bridge, NEW i \in Nat, AckSent(i)'
  PROVE  /\ toBridge'[i].id < nextRequestId
         /\ Live' => \A id \in Ids : Held(id)' /\ toBridge'[i].id = id
                                      => toBridge'[i].n <= Len(written)
<1>1. CASE toBridge' = <<>>
  BY <1>1, EmptySeq DEF AckSent
<1>2. CASE toBridge' # <<>>
  <2>1. \E k \in {0, 1} : i + k \in DOMAIN toBridge /\ toBridge'[i] = toBridge[i + k]
    <3>1. CASE link' = "up"
      BY <3>1, BridgeReads DEF Read, AckSent
    <3>2. CASE UNCHANGED toBridge
      <4>1. i + 0 = i
        OBVIOUS
      <4> QED
        BY <3>2, <4>1 DEF AckSent
    <3>3. CASE toBridge # <<>> /\ toBridge' = Tail(toBridge)
      <4>1. /\ toBridge \in Seq(ToBridge) /\ toBridge' \in Seq(ToBridge)
            /\ Len(toBridge) \in Nat /\ Len(toBridge') = Len(toBridge) - 1
            /\ \A j \in 1..Len(toBridge') : toBridge'[j] = toBridge[j + 1]
        BY <3>3, TakeFirst DEF TypeOK
      <4>2. DOMAIN toBridge = 1..Len(toBridge) /\ DOMAIN toBridge' = 1..Len(toBridge')
        BY <4>1, LenProperties
      <4>3. i + 1 \in DOMAIN toBridge /\ toBridge'[i] = toBridge[i + 1]
        BY <4>1, <4>2 DEF AckSent
      <4> QED
        BY <4>3
    <3>4. \/ link' = "up" \/ UNCHANGED toBridge
          \/ toBridge # <<>> /\ toBridge' = Tail(toBridge)
      BY <1>2 DEF Bridge, BridgeNext, BridgeWorks, BridgeSuffers, Handlers, SshAnswers, Stream,
             HandleConnect, HandleList, HandleServerTime, HandleDownload, HandleAck,
             HandleCancel, HandleDisconnect, Receive, Settle, ConnectResolves,
             ConnectRejects, HomeSettles, ListResolves, ServerTimeResolves,
             FileSizeResolves, CallRejects, Data, StreamEnds, StreamFails, SshCloses,
             IdleTimeout, Kick, BridgeSeesClose, LinkBreaks, Destroy, wires
    <3> QED
      BY <3>1, <3>2, <3>3, <3>4
  <2>2. PICK k \in {0, 1} : i + k \in DOMAIN toBridge /\ toBridge'[i] = toBridge[i + k]
    BY <2>1
  <2>3. i + k \in Nat /\ AckSent(i + k)
    BY <2>2 DEF AckSent
  <2>4. toBridge'[i].id < nextRequestId
    BY <2>2, <2>3 DEF InTransit
  <2>5. ASSUME Live', NEW id \in Ids, Held(id)', toBridge'[i].id = id
        PROVE  toBridge'[i].n <= Len(written)
    <3>1. Live
      BY <2>5, BridgeReads DEF Bridge, client, Live
    <3>2. Held(id)
      BY <2>5, BridgeHolds
    <3> QED
      BY <2>2, <2>3, <2>5, <3>1, <3>2 DEF InTransit, TransferFollows
  <2> QED
    BY <2>4, <2>5
<1> QED
  BY <1>1, <1>2

LEMMA BridgeKeepsTransit ==
  ASSUME TypeOK, OneOwner, OneDownload, FramesOwned, InTransit, Bridge
  PROVE  InTransit'
<1>0. UNCHANGED <<ws, current, draining, writes, written, step, file, nextRequestId>>
  BY DEF Bridge, client, dialog
<1>t. /\ InHand \in Nat /\ sent \in Nat /\ acked \in Nat /\ Window \in Nat /\ FileFrames \in Nat
      /\ Len(written) \in Nat /\ Len(toClient) \in Nat
      /\ \A i \in Nat : i \in DOMAIN toClient => toClient[i].n \in Nat
      /\ \A i \in Nat : i \in DOMAIN toBridge => toBridge[i].n \in Nat
  BY TransitTypes, LenProperties DEF TypeOK
<1>1. InHand' = InHand /\ Len(written') = Len(written)
  BY <1>0 DEF InHand
<1>2. Heard
  BY BridgeHeard
<1>3. \A i \in Nat : Frame(i) => Frame(i)' /\ toClient'[i] = toClient[i]
  BY <1>2 DEF Heard, Frame
<1>4. ASSUME Live'
      PROVE  TransferFollows'
  <2>1. Live /\ TransferFollows
    BY <1>0, <1>4, BridgeReads DEF Live, InTransit
  <2>2. \A id \in Ids : Queued(id)' => written' = <<>>
    BY <1>0, <2>1, BridgeHolds DEF TransferFollows
  <2>3. \A id \in Ids, i \in Nat :
          Held(id)' /\ AckSent(i)' /\ toBridge'[i].id = id => toBridge'[i].n <= Len(written')
    BY <1>1, <1>4, BridgeKeepsAcks
  <2> DEFINE Bounds == /\ acked <= Len(written) /\ sent <= acked + Window
                       /\ InHand <= sent /\ sent <= FileFrames
                       /\ \A i \in Nat : Frame(i) => toClient[i].n <= sent
                       /\ current = download =>
                            \A m \in (InHand + 1)..sent :
                              \E j \in Nat : Frame(j) /\ toClient[j].n = m
  <2>4. ASSUME download' # None
        PROVE  Bounds'
    <3>1. CASE Data
      <4>1. /\ download # None /\ sent < FileFrames /\ ~(sent - acked >= Window)
            /\ sent' = sent + 1 /\ UNCHANGED <<download, acked>> /\ NewData
        BY <2>1, <3>1 DEF Data, Paused, NewData, Live
      <4>2. Bounds
        BY <2>1, <4>1 DEF TransferFollows
      <4>3. PICK n \in Nat : n \in DOMAIN toClient'
                            /\ toClient'[n] = Message("data", download, sent + 1)
        BY <4>1, NewDataIsLast
      <4>4. Frame(n)' /\ toClient'[n].n = sent + 1
        BY <4>3 DEF Frame, Message
      <4>5. ASSUME NEW i \in Nat, Frame(i)'
            PROVE  toClient'[i].n <= sent + 1
        <5>1. CASE Frame(i) /\ toClient'[i] = toClient[i]
          <6>1. toClient[i].n <= sent /\ toClient[i].n \in Nat
            BY <1>t, <4>2, <5>1 DEF Frame
          <6> QED
            BY <1>t, <5>1, <6>1
        <5>2. CASE toClient'[i] = Message("data", download, sent + 1)
          BY <1>t, <5>2 DEF Message
        <5> QED
          BY <1>2, <4>5, <5>1, <5>2 DEF Heard
      <4>6. ASSUME current = download, NEW m \in (InHand + 1)..(sent + 1)
            PROVE  \E j \in Nat : Frame(j)' /\ toClient'[j].n = m
        <5>1. CASE m = sent + 1
          BY <4>4, <5>1
        <5>2. CASE m # sent + 1
          <6>1. m \in (InHand + 1)..sent
            BY <1>t, <4>6, <5>2
          <6>2. PICK j \in Nat : Frame(j) /\ toClient[j].n = m
            BY <4>2, <4>6, <6>1
          <6> QED
            BY <1>3, <6>2
        <5> QED
          BY <5>1, <5>2
      <4>7. /\ acked <= Len(written) /\ sent + 1 <= acked + Window
            /\ InHand <= sent + 1 /\ sent + 1 <= FileFrames
        BY <1>t, <4>1, <4>2
      <4> QED
        BY <1>0, <1>1, <4>1, <4>5, <4>6, <4>7
    <3>2. CASE \E id \in Ids : FileSizeResolves(id) /\ ~destroyed
      <4>1. PICK id \in Ids : FileSizeResolves(id) /\ ~destroyed
        BY <3>2
      <4>2. Queued(id)
        BY <4>1 DEF FileSizeResolves, Settle, Queued
      <4>3. sent' = 0 /\ acked' = 0
        BY <4>1 DEF FileSizeResolves
      <4>4. writes = <<>> /\ written = <<>> /\ \A i \in Nat : ~Frame(i)
        BY <2>1, <4>2 DEF OneDownload, Settled, TransferFollows
      <4>5. InHand = 0 /\ Len(written) = 0
        BY <4>4, EmptySeq DEF InHand
      <4>6. ~NewData
        BY <1>t, <4>3 DEF NewData, Data
      <4>7. \A i \in Nat : ~Frame(i)'
        BY <1>2, <4>4, <4>6 DEF Heard
      <4>8. \A m \in 1..0 : FALSE
        OBVIOUS
      <4> QED
        BY <1>t, <1>1, <4>3, <4>5, <4>7, <4>8
    <3>3. CASE UNCHANGED <<download, sent>> /\ (acked' = acked \/ HandleAck)
      <4>1. Bounds
        BY <2>1, <2>4, <3>3 DEF TransferFollows
      <4>2. ~NewData
        BY <1>t, <3>3 DEF NewData, Data
      <4>3. \A i \in Nat : Frame(i)' => Frame(i) /\ toClient'[i] = toClient[i]
        BY <1>2, <4>2 DEF Heard
      <4>4. acked' <= Len(written) /\ acked <= acked' /\ acked' \in Nat
        <5>1. CASE acked' = acked
          BY <1>t, <4>1, <5>1
        <5>2. CASE HandleAck /\ acked' # acked
          <6>1. /\ download = Head(toBridge).id /\ acked' = AckedAfter(Head(toBridge))
                /\ Receive("ack")
            BY <5>2 DEF HandleAck
          <6>2. 1 \in DOMAIN toBridge /\ Head(toBridge) = toBridge[1]
            BY <6>1, CallTaken
          <6>3. AckSent(1) /\ toBridge[1].id = download
            BY <6>1, <6>2 DEF AckSent, Receive
          <6>4. download \in Ids /\ Held(download)
            BY <2>4, <3>3 DEF Held, TypeOK, Ids
          <6>5. toBridge[1].n <= Len(written) /\ toBridge[1].n \in Nat
            BY <1>t, <2>1, <6>2, <6>3, <6>4 DEF TransferFollows
          <6>6. acked' = toBridge[1].n /\ toBridge[1].n > acked
            BY <5>2, <6>1, <6>2 DEF AckedAfter
          <6> QED
            BY <1>t, <6>5, <6>6
        <5> QED
          BY <3>3, <5>1, <5>2
      <4>5. sent <= acked' + Window
        <5>1. sent <= acked + Window
          BY <4>1
        <5>2. \A a, b, c, d \in Nat : a <= b + c /\ b <= d => a <= d + c
          OBVIOUS
        <5> HIDE DEF Bounds
        <5> QED
          BY <1>t, <4>4, <5>1, <5>2
      <4> QED
        BY <1>0, <1>1, <1>3, <3>3, <4>1, <4>3, <4>4, <4>5
    <3> QED
      BY <2>4, <3>1, <3>2, <3>3, BridgeTransfer DEF transfer, HandleAck
  <2> QED
    BY <2>2, <2>3, <2>4 DEF TransferFollows
<1> QED
  BY <1>0, <1>4, BridgeKeepsFrames, BridgeKeepsAcks DEF InTransit

-----------------------------------------------------------------------------
(* The client's steps.                                                     *)

\* Only what is written is acknowledged.
LEMMA ClientAcks ==
  ASSUME TypeOK, ClientWorks \/ User, NEW i \in Nat, AckSent(i)'
  PROVE  \/ AckSent(i) /\ toBridge'[i] = toBridge[i]
         \/ Written /\ toBridge'[i] = Message("ack", Owner, Len(written'))
<1>1. ASSUME NEW messages \in Seq(ToBridge), Post(messages)
      PROVE  \/ AckSent(i) /\ toBridge'[i] = toBridge[i]
             \/ \E j \in 1..Len(messages) :
                  toBridge'[i] = messages[j] /\ messages[j].type = "ack"
  <2> DEFINE s == toBridge \o messages
  <2>1. /\ s \in Seq(ToBridge) /\ Len(s) = Len(toBridge) + Len(messages)
        /\ Len(toBridge) \in Nat /\ Len(messages) \in Nat
        /\ DOMAIN toBridge = 1..Len(toBridge) /\ DOMAIN s = 1..Len(s)
        /\ \A j \in 1..Len(s) :
             s[j] = IF j <= Len(toBridge) THEN toBridge[j] ELSE messages[j - Len(toBridge)]
    BY ConcatProperties, LenProperties DEF TypeOK
  <2>2. toBridge' \in {toBridge, s}
    BY <1>1 DEF Post
  <2> HIDE DEF s
  <2>3. CASE toBridge' = toBridge
    BY <2>3 DEF AckSent
  <2>4. CASE toBridge' = s
    <3>1. i \in 1..Len(s) /\ s[i].type = "ack"
      BY <2>1, <2>4 DEF AckSent
    <3>2. CASE i <= Len(toBridge)
      BY <2>1, <2>4, <3>1, <3>2 DEF AckSent
    <3>3. CASE ~(i <= Len(toBridge))
      <4>1. i - Len(toBridge) \in 1..Len(messages)
        BY <2>1, <3>1, <3>3
      <4>2. s[i] = messages[i - Len(toBridge)]
        BY <2>1, <3>1, <3>3
      <4> QED
        BY <2>4, <3>1, <4>1, <4>2
    <3> QED
      BY <3>2, <3>3
  <2> QED
    BY <2>2, <2>3, <2>4
<1>2. CASE Written
  <2>1. Head(writes) \in ToClient
    BY <1>2, TakeFirst DEF TypeOK, Written
  <2>2. Len(written') \in Nat
    BY <1>2, <2>1, AppendProperties, LenProperties DEF TypeOK, Written
  <2>3. PICK n \in Nat : n = Len(written')
    BY <2>2
  <2> DEFINE m == Message("ack", Owner, n)
  <2>4. m \in ToBridge
    BY <2>3, MessageTypes DEF TypeOK, Owner, Notices
  <2>5. Post(<<m>>)
    BY <1>2, <2>3 DEF Written, Owner
  <2> HIDE DEF m
  <2>6. <<m>> \in Seq(ToBridge) /\ \A j \in 1..Len(<<m>>) : <<m>>[j] = m
    BY <2>4, OneMessage
  <2>7. (AckSent(i) /\ toBridge'[i] = toBridge[i]) \/ toBridge'[i] = m
    BY <1>1, <2>5, <2>6
  <2> QED
    BY <1>2, <2>3, <2>7 DEF m
<1>3. CASE Connect \/ ConnectedArrives \/ ClockArrives \/ UserRetries \/ DownloadNext
  <2>1. PICK type \in Calls : Post(<<Message(type, nextRequestId, 0)>>)
    BY <1>3 DEF Connect, ConnectedArrives, ClockArrives, UserRetries, DownloadNext, Ask, Calls
  <2> DEFINE m == Message(type, nextRequestId, 0)
  <2>2. m \in ToBridge /\ m.type # "ack"
    BY MessageTypes DEF TypeOK, Message, Calls
  <2>3. Post(<<m>>)
    BY <2>1
  <2> HIDE DEF m
  <2>4. <<m>> \in Seq(ToBridge) /\ \A j \in 1..Len(<<m>>) : <<m>>[j] = m
    BY <2>2, OneMessage
  <2> QED
    BY <1>1, <2>2, <2>3, <2>4
<1>4. CASE WriteFails \/ UserCancels
  <2>1. \A j \in 1..Len(IF current # None THEN Cancel ELSE <<>>) :
          (IF current # None THEN Cancel ELSE <<>>)[j].type # "ack"
    BY DEF Cancel, Message
  <2> QED
    BY <1>1, <1>4, <2>1, CancelTypes DEF WriteFails, UserCancels
<1>5. CASE \E before \in {<<>>, IF current # None THEN Cancel ELSE <<>>} : Disconnect(before)
  <2> DEFINE c == Message("cancel", current, 0)
             d == Message("disconnect", None, 0)
  <2>1. d \in ToBridge /\ d.type # "ack" /\ c.type # "ack"
    BY MessageTypes DEF Notices, None, Message
  <2>2. current # None => c \in ToBridge
    BY MessageTypes DEF TypeOK, Ids
  <2>3. \/ Post(<<>> \o <<d>>)
        \/ current # None /\ Post(<<c>> \o <<d>>)
    BY <1>5 DEF Disconnect, Cancel
  <2> HIDE DEF c, d
  <2>4. <<d>> \in Seq(ToBridge) /\ <<>> \in Seq(ToBridge)
    BY <2>1, OneMessage, EmptySeq
  <2>5. CASE Post(<<>> \o <<d>>)
    <3>1. <<>> \o <<d>> = <<d>>
      BY <2>4, ConcatEmptySeq
    <3>2. \A j \in 1..Len(<<d>>) : <<d>>[j] = d
      OBVIOUS
    <3>3. Post(<<d>>)
      BY <2>5, <3>1
    <3> QED
      BY <1>1, <2>1, <2>4, <3>2, <3>3
  <2>6. CASE current # None /\ Post(<<c>> \o <<d>>)
    <3> DEFINE s == <<c>> \o <<d>>
    <3>1. <<c>> \in Seq(ToBridge)
      BY <2>2, <2>6, OneMessage
    <3>2. s \in Seq(ToBridge) /\ Len(s) = 2 /\ s[1] = c /\ s[2] = d
      BY <2>4, <3>1, ConcatProperties
    <3>3. Post(s)
      BY <2>6
    <3> HIDE DEF s
    <3>4. \A j \in 1..Len(s) : s[j].type # "ack"
      BY <2>1, <3>2
    <3> QED
      BY <1>1, <3>2, <3>3, <3>4
  <2> QED
    BY <2>3, <2>5, <2>6
<1>6. CASE UNCHANGED toBridge
  BY <1>6 DEF AckSent
<1>7. \/ Written \/ Connect \/ ConnectedArrives \/ ClockArrives \/ UserRetries \/ DownloadNext
      \/ WriteFails \/ UserCancels \/ UNCHANGED toBridge
      \/ \E before \in {<<>>, IF current # None THEN Cancel ELSE <<>>} : Disconnect(before)
  BY DEF ClientWorks, Arrivals, User, ListingArrives, FrameArrives, FileEndArrives,
         DownloadFails, SshClosedArrives, OtherArrives, ExportStops, Completed,
         ClientSeesClose, Start, Succeed, UserLeaves, RequestFails
<1> QED
  BY <1>2, <1>3, <1>4, <1>5, <1>6, <1>7

\* What comes of the frames when none is taken.
LEMMA FramesStay ==
  ASSUME TypeOK, InTransit, ClientWorks \/ User, ~FrameArrives, TypeOK',
         InHand' <= InHand, Len(written) <= Len(written'), Len(writes') <= Len(writes),
         ws' /\ current' # None => current' = current /\ InHand' = InHand
  PROVE  FramesFollow'
<1>t. /\ InHand \in Nat /\ InHand' \in Nat /\ Window \in Nat
      /\ Len(written) \in Nat /\ Len(written') \in Nat
      /\ Len(writes) \in Nat /\ Len(writes') \in Nat
      /\ \A i \in Nat : i \in DOMAIN toClient => toClient[i].n \in Nat
  <2>1. written' \in Seq(ToClient) /\ writes' \in Seq(ToClient)
    BY DEF TypeOK
  <2>2. Len(written') \in Nat /\ Len(writes') \in Nat
    BY <2>1, LenProperties
  <2>3. InHand' \in Nat
    BY <2>2 DEF InHand
  <2> QED
    BY <2>2, <2>3, TransitTypes
<1>0. FramesFollow
  BY DEF InTransit
<1>1. PICK k \in {0, 1} : Left(k) /\ (ws' => Kept(k))
  BY ClientReads, ClientKeepsFrames DEF Kept
<1>2. \A i \in Nat : i + k \in Nat
  OBVIOUS
<1>3. \A i \in Nat : Frame(i)' => Frame(i + k) /\ toClient'[i] = toClient[i + k]
  BY <1>1 DEF Left
<1>4. ASSUME NEW i \in Nat, Frame(i)'
      PROVE  InHand' < toClient'[i].n /\ toClient'[i].n <= Len(written') + Window
  <2>1. /\ InHand < toClient[i + k].n /\ toClient[i + k].n <= Len(written) + Window
        /\ toClient'[i] = toClient[i + k] /\ toClient[i + k].n \in Nat
    BY <1>0, <1>2, <1>3, <1>4, <1>t DEF FramesFollow, Frame
  <2>2. PICK a, b \in Nat : a = InHand' /\ b = Len(written')
    BY <1>t
  <2>3. \A h, w, n, l \in Nat : /\ a <= h /\ h < n => a < n
                                /\ l <= b /\ n <= l + w => n <= b + w
    BY <2>2
  <2> QED
    BY <1>t, <2>1, <2>2, <2>3
<1>5. ASSUME NEW i \in Nat, NEW j \in Nat, Frame(i)', Frame(j)', i < j
      PROVE  toClient'[i].n < toClient'[j].n
  <2>1. i + k < j + k
    BY <1>5
  <2> QED
    BY <1>0, <1>2, <1>3, <1>5, <2>1 DEF FramesFollow
<1>6. ASSUME ws', current' # None
      PROVE  /\ \A i \in Nat : Frame(i)' =>
                  /\ toClient'[i].id = current' /\ toClient'[i].n <= FileFrames
                  /\ \A m \in (InHand' + 1)..toClient'[i].n :
                       \E j \in Nat : j <= i /\ Frame(j)' /\ toClient'[j].n = m
             /\ \A i \in Nat : Ended(i)' /\ toClient'[i].id = current' =>
                  \A m \in (InHand' + 1)..FileFrames :
                    \E j \in Nat : j < i /\ Frame(j)' /\ toClient'[j].n = m
  <2>1. ws /\ current' = current /\ InHand' = InHand /\ current # None
    <3>1. ws' => ws
      BY DEF ClientWorks, Arrivals, User, ConnectedArrives, ClockArrives, ListingArrives,
             RequestFails, FrameArrives, FileEndArrives, DownloadFails, SshClosedArrives,
             OtherArrives, DownloadNext, ExportStops, Succeed, Written, WriteFails,
             Completed, ClientSeesClose, Connect, Start, UserCancels, UserRetries,
             UserLeaves, client, Disconnect
    <3> QED
      BY <1>6, <3>1
  <2>2. Kept(k)
    BY <1>1, <1>6
  <2>3. \A j \in Nat : Frame(j) => ~(j <= k)
    <3>1. \A j \in Nat : Frame(j) => 1 <= j
      BY TransitTypes DEF Frame
    <3>2. k = 1 => ~Frame(1)
      BY <2>2 DEF Kept
    <3> QED
      BY <3>1, <3>2
  <2>4. \A j \in Nat : Frame(j) =>
          j - k \in Nat /\ Frame(j - k)' /\ toClient'[j - k] = toClient[j]
    BY <2>2, <2>3 DEF Kept
  <2>5. ASSUME NEW i \in Nat, Frame(i)'
        PROVE  /\ toClient'[i].id = current /\ toClient'[i].n <= FileFrames
               /\ \A m \in (InHand + 1)..toClient'[i].n :
                    \E j \in Nat : j <= i /\ Frame(j)' /\ toClient'[j].n = m
    <3>1. Frame(i + k) /\ toClient'[i] = toClient[i + k] /\ i + k \in Nat
      BY <1>2, <1>3, <2>5
    <3>2. /\ toClient[i + k].id = current /\ toClient[i + k].n <= FileFrames
          /\ \A m \in (InHand + 1)..toClient[i + k].n :
               \E j \in Nat : j <= i + k /\ Frame(j) /\ toClient[j].n = m
      BY <1>0, <2>1, <3>1 DEF FramesFollow
    <3>3. \A j \in Nat : j <= i + k => j - k <= i
      OBVIOUS
    <3> QED
      BY <2>4, <3>1, <3>2, <3>3
  <2>6. ASSUME NEW i \in Nat, Ended(i)', toClient'[i].id = current
        PROVE  \A m \in (InHand + 1)..FileFrames :
                 \E j \in Nat : j < i /\ Frame(j)' /\ toClient'[j].n = m
    <3>1. Answered(i)'
      BY <2>6 DEF Ended, Answered, Last
    <3>2. Answered(i + k) /\ toClient'[i] = toClient[i + k] /\ i + k \in Nat
      BY <1>1, <1>2, <3>1 DEF Left
    <3>3. Ended(i + k) /\ toClient[i + k].id = current
      BY <2>6, <3>2 DEF Ended, Answered
    <3>4. \A m \in (InHand + 1)..FileFrames :
            \E j \in Nat : j < i + k /\ Frame(j) /\ toClient[j].n = m
      BY <1>0, <2>1, <3>2, <3>3 DEF FramesFollow
    <3>5. \A j \in Nat : j < i + k => j - k < i
      OBVIOUS
    <3> QED
      BY <2>4, <3>4, <3>5
  <2> QED
    BY <2>1, <2>5, <2>6
<1>7. Len(writes') <= Window
  <2>1. PICK a \in Nat : a = Len(writes')
    BY <1>t
  <2>2. \A b, w \in Nat : a <= b /\ b <= w => a <= w
    OBVIOUS
  <2> QED
    BY <1>0, <1>t, <2>1, <2>2 DEF FramesFollow
<1> QED
  BY <1>4, <1>5, <1>6, <1>7 DEF FramesFollow

\* Only requests that were made are acknowledged.
LEMMA AcksKnown ==
  ASSUME TypeOK, Orderly, InTransit, ClientWorks \/ User, NEW i \in Nat, AckSent(i)'
  PROVE  toBridge'[i].id < nextRequestId'
<1>1. nextRequestId' \in {nextRequestId, nextRequestId + 1}
  BY ClientStepSays DEF ClientSays, CallAdded
<1>2. nextRequestId \in Nat /\ \A n \in Nat : n < nextRequestId => n < nextRequestId + 1
  BY DEF TypeOK, Ids
<1>3. CASE AckSent(i) /\ toBridge'[i] = toBridge[i]
  <2>1. toBridge[i].id \in Nat
    BY <1>3, TransitTypes DEF AckSent
  <2>2. toBridge[i].id < nextRequestId
    BY <1>3 DEF InTransit
  <2> QED
    BY <1>1, <1>2, <1>3, <2>1, <2>2
<1>4. CASE Written /\ toBridge'[i] = Message("ack", Owner, Len(written'))
  <2>1. toBridge'[i].id = Owner /\ nextRequestId' = nextRequestId
    BY <1>4 DEF Message, Written
  <2> QED
    BY <2>1 DEF Orderly, Owner
<1> QED
  BY <1>3, <1>4, ClientAcks

\* What comes of the transfer when no frame is taken and no download asked for.
LEMMA TransferStays ==
  ASSUME TypeOK, TypeOK', OneOwner, OneDownload, InTransit, ClientWorks \/ User,
         ~FrameArrives, ~DownloadNext, Live',
         InHand' <= InHand, Len(written) <= Len(written'),
         ws' /\ current' # None => current' = current /\ InHand' = InHand,
         written' = written \/ Written
  PROVE  TransferFollows'
<1>t. /\ InHand \in Nat /\ InHand' \in Nat /\ Window \in Nat /\ FileFrames \in Nat
      /\ Len(written) \in Nat /\ Len(written') \in Nat
      /\ sent \in Nat /\ acked \in Nat
      /\ \A i \in Nat : i \in DOMAIN toBridge => toBridge[i].n \in Nat
  <2>1. written' \in Seq(ToClient) /\ writes' \in Seq(ToClient)
    BY DEF TypeOK
  <2>2. Len(written') \in Nat /\ Len(writes') \in Nat
    BY <2>1, LenProperties
  <2>3. InHand' \in Nat
    BY <2>2 DEF InHand
  <2> QED
    BY <2>2, <2>3, TransitTypes
<1>0. Live /\ TransferFollows /\ UNCHANGED <<download, sent, acked>>
  BY ClientReads, ClientStepSays DEF InTransit, ClientSays, BridgeKept, transfer
<1>1. PICK k \in {0, 1} : Kept(k)
  BY ClientKeepsFrames DEF Live
<1>2. \A i \in Nat : i + k \in Nat
  OBVIOUS
<1>3. \A i \in Nat : Frame(i)' => Frame(i + k) /\ toClient'[i] = toClient[i + k]
  BY <1>1 DEF Kept, Left
<1>4. ASSUME download' # None
      PROVE  /\ acked' <= Len(written') /\ sent' <= acked' + Window
             /\ InHand' <= sent' /\ sent' <= FileFrames
             /\ \A i \in Nat : Frame(i)' => toClient'[i].n <= sent'
             /\ current' = download' =>
                  \A m \in (InHand' + 1)..sent' :
                    \E j \in Nat : Frame(j)' /\ toClient'[j].n = m
  <2>1. /\ acked <= Len(written) /\ sent <= acked + Window
        /\ InHand <= sent /\ sent <= FileFrames
        /\ \A i \in Nat : Frame(i) => toClient[i].n <= sent
        /\ current = download =>
             \A m \in (InHand + 1)..sent : \E j \in Nat : Frame(j) /\ toClient[j].n = m
    BY <1>0, <1>4 DEF TransferFollows
  <2>2. \A a, b, c \in Nat : a <= b /\ b <= c => a <= c
    OBVIOUS
  <2>3. acked <= Len(written') /\ InHand' <= sent
    BY <1>t, <2>1, <2>2
  <2>4. ASSUME NEW i \in Nat, Frame(i)'
        PROVE  toClient'[i].n <= sent
    BY <1>2, <1>3, <2>1, <2>4
  <2>5. ASSUME current' = download, NEW m \in (InHand' + 1)..sent
        PROVE  \E j \in Nat : Frame(j)' /\ toClient'[j].n = m
    <3>1. current = download /\ InHand' = InHand
      BY <1>0, <1>4, <2>5 DEF Live
    <3>2. PICK j \in Nat : Frame(j) /\ toClient[j].n = m
      BY <2>1, <2>5, <3>1
    <3>3. ~(j <= k)
      <4>1. 1 <= j
        BY <3>2, TransitTypes DEF Frame
      <4>2. k = 1 => ~Frame(1)
        BY <1>1 DEF Kept
      <4> QED
        BY <3>2, <4>1, <4>2
    <3> QED
      BY <1>1, <3>2, <3>3 DEF Kept
  <2> QED
    BY <1>0, <2>1, <2>3, <2>4, <2>5
<1>5. ASSUME NEW id \in Ids, Queued(id)'
      PROVE  written' = <<>>
  <2>1. Queued(id)
    BY <1>5, ClientHolds
  <2>2. written = <<>> /\ writes = <<>>
    BY <1>0, <2>1 DEF TransferFollows, OneDownload, Settled
  <2> QED
    BY <2>2 DEF Written
<1>6. ASSUME NEW id \in Ids, NEW i \in Nat, Held(id)', AckSent(i)', toBridge'[i].id = id
      PROVE  toBridge'[i].n <= Len(written')
  <2>1. Held(id)
    BY <1>6, ClientHolds
  <2>2. CASE AckSent(i) /\ toBridge'[i] = toBridge[i]
    <3>1. toBridge[i].n <= Len(written) /\ toBridge[i].n \in Nat
      BY <1>0, <1>6, <1>t, <2>1, <2>2 DEF TransferFollows, AckSent
    <3>2. PICK a, b, c \in Nat : a = toBridge[i].n /\ b = Len(written) /\ c = Len(written')
      BY <1>t, <3>1
    <3> QED
      BY <2>2, <3>1, <3>2
  <2>3. CASE toBridge'[i] = Message("ack", Owner, Len(written'))
    BY <1>t, <2>3 DEF Message
  <2> QED
    BY <1>6, <2>2, <2>3, ClientAcks
<1> QED
  BY <1>4, <1>5, <1>6 DEF TransferFollows

\* Both, when the package stays what it has to be.
LEMMA TransitStays ==
  ASSUME TypeOK, TypeOK', OneOwner, OneDownload, Orderly, InTransit, ClientWorks \/ User,
         ~FrameArrives, ~DownloadNext, InPackage',
         InHand' <= InHand, Len(written) <= Len(written'), Len(writes') <= Len(writes),
         ws' /\ current' # None => current' = current /\ InHand' = InHand,
         written' = written \/ Written
  PROVE  InTransit'
<1>1. FramesFollow'
  BY FramesStay
<1>2. Live' => TransferFollows'
  BY TransferStays
<1>3. \A i \in Nat : AckSent(i)' => toBridge'[i].id < nextRequestId'
  BY AcksKnown
<1> QED
  BY <1>1, <1>2, <1>3 DEF InTransit

\* Nothing the client has of the file changes.
LEMMA SameTransit ==
  ASSUME TypeOK, TypeOK', OneOwner, OneDownload, Orderly, InTransit, ClientWorks \/ User,
         ~FrameArrives, ~DownloadNext,
         UNCHANGED <<current, draining, writes, written>>,
         step' \in {"between", "succeeded"} /\ file' > 0
           => step \in {"between", "succeeded"} /\ file' = file
  PROVE  InTransit'
<1>1. InHand' = InHand
  BY DEF InHand
<1>2. InPackage'
  BY <1>1 DEF InTransit, InPackage, Owner
<1>3. /\ Len(written) \in Nat /\ Len(writes) \in Nat /\ InHand \in Nat
  BY TransitTypes
<1> QED
  BY <1>1, <1>2, <1>3, TransitStays

\* The package is voided, or left.
LEMMA VoidTransit ==
  ASSUME TypeOK, TypeOK', OneOwner, OneDownload, Orderly, InTransit, ClientWorks \/ User,
         ~FrameArrives, ~DownloadNext,
         current' = None, draining' = None, writes' = <<>>, written' = written,
         step' \in {"voided", "left"}
  PROVE  InTransit'
<1>1. /\ Len(written) \in Nat /\ Len(writes) \in Nat /\ InHand \in Nat
  BY TransitTypes
<1>2. Len(writes') = 0 /\ Owner' = None
  BY EmptySeq DEF Owner
<1>3. InHand' <= InHand /\ Len(writes') <= Len(writes) /\ Len(written) <= Len(written')
  BY <1>1, <1>2 DEF InHand
<1>4. InPackage'
  BY <1>2 DEF InTransit, InPackage
<1> QED
  BY <1>3, <1>4, TransitStays

\* A chunk is written: it was in hand before.
LEMMA WrittenTransit ==
  ASSUME TypeOK, TypeOK', OneOwner, OneDownload, Orderly, InTransit, Written
  PROVE  InTransit'
<1>1. ClientWorks /\ ~FrameArrives /\ ~DownloadNext /\ UNCHANGED <<current, draining, step>>
  BY DEF ClientWorks, Written, FrameArrives, DownloadNext
<1>2. /\ writes \in Seq(ToClient) /\ written \in Seq(ToClient) /\ writes # <<>>
      /\ writes' = Tail(writes) /\ written' = Append(written, Head(writes))
  BY DEF TypeOK, Written
<1>3. /\ Len(writes) \in Nat /\ Len(writes') = Len(writes) - 1 /\ Head(writes) = writes[1]
      /\ \A i \in 1..Len(writes') : writes'[i] = writes[i + 1]
      /\ Head(writes) \in ToClient /\ Len(writes) # 0
  BY <1>2, TakeFirst, EmptySeq
<1>4. /\ Len(written) \in Nat /\ Len(written') = Len(written) + 1
      /\ written'[Len(written) + 1] = Head(writes)
      /\ \A i \in 1..Len(written) : written'[i] = written[i]
  BY <1>2, <1>3, AppendProperties, LenProperties
<1>5. InHand' = InHand /\ Len(written) <= Len(written') /\ Len(writes') <= Len(writes)
  BY <1>3, <1>4 DEF InHand
<1>t. InHand \in Nat
  BY TransitTypes
<1>6. Owner' = Owner /\ Owner # None /\ step = "downloading"
  BY <1>1, <1>2 DEF Owner, Orderly
<1>7. InPackage
  BY DEF InTransit
<1>8. Head(writes).n = Len(written) + 1 /\ Head(writes).id = Owner
  <2>1. 1 \in 1..Len(writes)
    BY <1>3
  <2> QED
    BY <1>3, <1>7, <2>1 DEF InPackage
<1>9. \A i \in 1..Len(written') : written'[i].n = i /\ written'[i].id = Owner
  <2>1. TAKE i \in 1..Len(written')
  <2>2. CASE i = Len(written) + 1
    BY <1>4, <1>8, <2>2
  <2>3. CASE i # Len(written) + 1
    <3>1. i \in 1..Len(written)
      BY <1>4, <2>1, <2>3
    <3> QED
      BY <1>4, <1>6, <1>7, <3>1 DEF InPackage
  <2> QED
    BY <2>2, <2>3
<1>10. 1 \in 1..Len(written')
  BY <1>4
<1>11. \A i \in 1..Len(writes') : writes'[i].n = Len(written') + i /\ writes'[i].id = Owner
  <2>1. TAKE i \in 1..Len(writes')
  <2>2. i + 1 \in 1..Len(writes)
    BY <1>3, <2>1
  <2>3. writes[i + 1].n = Len(written) + (i + 1) /\ writes[i + 1].id = Owner
    BY <1>7, <2>2 DEF InPackage
  <2>4. writes'[i] = writes[i + 1]
    BY <1>3, <2>1
  <2>5. Len(written) + (i + 1) = Len(written') + i
    <3>1. i \in Int
      BY <2>1
    <3> QED
      BY <1>4, <3>1
  <2> QED
    BY <2>3, <2>4, <2>5
<1>12. InPackage'
  BY <1>1, <1>5, <1>6, <1>7, <1>9, <1>10, <1>11 DEF InPackage
<1>13. ws' /\ current' # None => current' = current /\ InHand' = InHand
  BY <1>1, <1>5
<1>14. /\ written' = written \/ Written
       /\ ClientWorks \/ User
       /\ ~FrameArrives
       /\ ~DownloadNext
  BY <1>1
<1>15. /\ InHand' <= InHand /\ Len(written) <= Len(written') /\ Len(writes') <= Len(writes)
  BY <1>5, <1>t
<1> QED
  BY <1>12, <1>13, <1>14, <1>15, TransitStays

\* The file's end comes after all of its frames.
LEMMA FileEndTransit ==
  ASSUME TypeOK, TypeOK', OneOwner, OneDownload, Orderly, InTransit, FileEndArrives
  PROVE  InTransit'
<1>1. /\ ClientWorks /\ ~FrameArrives /\ ~DownloadNext /\ ws /\ current # None
      /\ current' = None /\ draining' = current
      /\ UNCHANGED <<writes, written, step, file>>
  BY DEF ClientWorks, Arrivals, FileEndArrives, Arrives, FrameArrives, DownloadNext, dialog
<1>2. /\ InHand \in Nat /\ FileFrames \in Nat /\ Len(written) \in Nat /\ Len(writes) \in Nat
  BY TransitTypes
<1>3. Ended(1) /\ toClient[1].id = current
  <2>1. /\ toClient \in Seq(ToClient) /\ toClient # <<>>
        /\ Head(toClient).type = "fileEnd" /\ Head(toClient).id = current
    BY DEF TypeOK, FileEndArrives, Arrives
  <2>2. Head(toClient) = toClient[1] /\ 1 \in DOMAIN toClient
    BY <2>1, TakeFirst, LenProperties, EmptySeq
  <2> QED
    BY <2>1, <2>2 DEF Ended
<1>4. InHand = FileFrames
  <2>1. InHand <= FileFrames
    BY <1>1 DEF InTransit, InPackage
  <2>2. \A m \in (InHand + 1)..FileFrames : \E j \in Nat : j < 1 /\ Frame(j)
    BY <1>1, <1>3 DEF InTransit, FramesFollow
  <2>3. \A j \in Nat : Frame(j) => 1 <= j
    BY TransitTypes DEF Frame
  <2>4. \A j \in Nat : ~(j < 1 /\ 1 <= j)
    OBVIOUS
  <2>5. ~(InHand + 1 \in (InHand + 1)..FileFrames)
    BY <2>2, <2>3, <2>4
  <2> QED
    BY <1>2, <2>1, <2>5
<1>5. InHand' = InHand /\ Owner' = Owner
  BY <1>1 DEF InHand, Owner
<1>6. InPackage'
  BY <1>1, <1>4, <1>5 DEF InTransit, InPackage
<1> QED
  BY <1>1, <1>2, <1>5, <1>6, TransitStays

\* The download completes when its last chunk is written.
LEMMA CompletedTransit ==
  ASSUME TypeOK, TypeOK', OneOwner, OneDownload, Orderly, InTransit, Completed
  PROVE  InTransit'
<1>1. /\ ClientWorks /\ ~FrameArrives /\ ~DownloadNext /\ draining # None /\ writes = <<>>
      /\ draining' = None /\ UNCHANGED <<current, writes, written>>
  BY DEF ClientWorks, Completed, FrameArrives, DownloadNext
<1>2. current = None
  BY <1>1 DEF Orderly
<1>3. /\ Len(written) \in Nat /\ Len(writes) = 0 /\ InHand' = InHand /\ InHand = FileFrames
      /\ InHand \in Nat
  BY <1>1, TransitTypes, EmptySeq DEF InHand, InTransit, InPackage
<1>4. Len(written) = FileFrames
  BY <1>3 DEF InHand
<1>5. Owner' = None
  BY <1>1, <1>2 DEF Owner
<1>6. InPackage'
  BY <1>1, <1>2, <1>3, <1>4, <1>5 DEF InTransit, InPackage
<1> QED
  BY <1>1, <1>3, <1>6, TransitStays

\* A frame is taken for the download that runs: it is the next one of its file.
LEMMA FrameTransit ==
  ASSUME TypeOK, TypeOK', OneOwner, OneDownload, Orderly, InTransit, FrameArrives
  PROVE  InTransit'
<1>1. /\ ClientWorks /\ ~DownloadNext /\ ws /\ toClient # <<>>
      /\ toClient' = Tail(toClient) /\ Head(toClient).type = "data"
      /\ UNCHANGED <<ws, current, draining, written, step, file, nextRequestId, toBridge>>
      /\ toClient \in Seq(ToClient)
  BY DEF ClientWorks, Arrivals, FrameArrives, DownloadNext, dialog, TypeOK
<1>2. /\ Frame(1) /\ Head(toClient) = toClient[1]
      /\ toClient[1] \in ToClient /\ toClient[1].n \in Nat
  BY <1>1, TakeFirst, LenProperties, EmptySeq, AnswerHasId DEF Frame
<1>t. /\ InHand \in Nat /\ Window \in Nat /\ FileFrames \in Nat /\ sent \in Nat
      /\ Len(written) \in Nat /\ Len(writes) \in Nat
      /\ \A i \in Nat : i \in DOMAIN toClient => toClient[i].n \in Nat
      /\ \A i \in Nat : Frame(i) => 1 <= i
  BY TransitTypes DEF Frame
<1>3. PICK k \in {0, 1} : Kept(k)
  BY <1>1, ClientKeepsFrames
<1>4. k = 1
  BY <1>3 DEF Kept
<1>5. \A i \in Nat : /\ i + 1 \in Nat
                     /\ Frame(i)' => Frame(i + 1) /\ toClient'[i] = toClient[i + 1]
                     /\ Answered(i)' => Answered(i + 1) /\ toClient'[i] = toClient[i + 1]
  BY <1>3, <1>4 DEF Kept, Left
<1>6. \A i \in Nat : Frame(i) /\ i # 1 =>
        i - 1 \in Nat /\ Frame(i - 1)' /\ toClient'[i - 1] = toClient[i]
  BY <1>3, <1>4, <1>t DEF Kept
<1>7. Live' => Live /\ TransferFollows /\ UNCHANGED <<download, sent, acked>>
  BY <1>1, ClientReads, ClientStepSays DEF InTransit, ClientSays, BridgeKept, transfer
<1>8. \A i \in Nat : AckSent(i)' => AckSent(i) /\ toBridge'[i] = toBridge[i]
  BY <1>1 DEF AckSent
<1>9. \A id \in Ids : (Queued(id)' => Queued(id)) /\ (Held(id)' => Held(id))
  BY <1>1, ClientHolds
<1>10. InPackage /\ FramesFollow
  BY DEF InTransit
\* It goes nowhere if there is none.
<1>11. CASE current = None
  <2>1. writes' = writes
    BY <1>11 DEF FrameArrives
  <2>2. InHand' = InHand /\ current' = None /\ written' = written
    BY <1>1, <1>11, <2>1 DEF InHand
  <2>3. InPackage'
    BY <1>1, <1>10, <2>1, <2>2 DEF InPackage, Owner
  <2>4. ASSUME NEW i \in Nat, NEW j \in Nat, Frame(i)', Frame(j)', i < j
        PROVE  toClient'[i].n < toClient'[j].n
    <3>1. i + 1 < j + 1
      BY <2>4
    <3> QED
      BY <1>5, <1>10, <2>4, <3>1 DEF FramesFollow
  <2>5. FramesFollow'
    BY <1>5, <1>10, <2>1, <2>2, <2>4 DEF FramesFollow
  <2>6. ASSUME Live'
        PROVE  TransferFollows'
    <3>1. download' # None => current' # download'
      BY <2>2
    <3>2. \A i \in Nat : Frame(i)' => toClient'[i].n = toClient[i + 1].n
      BY <1>5
    <3>3. download # None => \A i \in Nat : Frame(i)' => toClient'[i].n <= sent
      BY <1>5, <1>7, <2>6, <3>2 DEF TransferFollows
    <3> QED
      BY <1>7, <1>8, <1>9, <2>2, <2>6, <3>1, <3>3 DEF TransferFollows
  <2> QED
    BY <1>1, <1>8, <2>3, <2>5, <2>6 DEF InTransit
<1>12. CASE current # None
  <2>1. writes' = Append(writes, toClient[1]) /\ writes \in Seq(ToClient)
    BY <1>2, <1>12 DEF FrameArrives, TypeOK
  <2>2. /\ Len(writes') = Len(writes) + 1 /\ writes'[Len(writes) + 1] = toClient[1]
        /\ \A i \in 1..Len(writes) : writes'[i] = writes[i]
    BY <1>2, <2>1, AppendProperties
  <2>3. InHand' = InHand + 1 /\ Owner' = current /\ Owner = current /\ draining = None
        /\ step = "downloading"
    BY <1>1, <1>12, <1>t, <2>2 DEF InHand, Owner, Orderly
  <2>4. toClient[1].n = InHand + 1 /\ toClient[1].id = current /\ InHand + 1 <= FileFrames
    <3>1. /\ InHand < toClient[1].n
          /\ toClient[1].id = current /\ toClient[1].n <= FileFrames
          /\ \A m \in (InHand + 1)..toClient[1].n :
               \E j \in Nat : j <= 1 /\ Frame(j) /\ toClient[j].n = m
      BY <1>1, <1>2, <1>10, <1>12 DEF FramesFollow
    <3>2. InHand + 1 \in (InHand + 1)..toClient[1].n
      BY <1>2, <1>t, <3>1
    <3>3. PICK j \in Nat : j <= 1 /\ Frame(j) /\ toClient[j].n = InHand + 1
      BY <3>1, <3>2
    <3>4. j = 1
      BY <1>t, <3>3
    <3> QED
      BY <3>1, <3>3, <3>4
  <2>5. \A i \in 1..Len(writes') : writes'[i].n = Len(written) + i /\ writes'[i].id = current
    <3>1. TAKE i \in 1..Len(writes')
    <3>2. CASE i = Len(writes) + 1
      <4>1. InHand + 1 = Len(written) + i
        BY <1>t, <3>2 DEF InHand
      <4> QED
        BY <2>2, <2>4, <3>2, <4>1
    <3>3. CASE i # Len(writes) + 1
      <4>1. i \in 1..Len(writes)
        BY <1>t, <2>2, <3>1, <3>3
      <4> QED
        BY <1>10, <2>2, <2>3, <4>1 DEF InPackage
    <3> QED
      BY <3>2, <3>3
  <2>6. InPackage'
    BY <1>1, <1>10, <1>12, <2>3, <2>4, <2>5 DEF InPackage
  <2>7. Len(writes') <= Window
    <3>1. InHand + 1 <= Len(written) + Window
      BY <1>2, <1>10, <2>4 DEF FramesFollow
    <3> QED
      BY <1>t, <2>2, <3>1 DEF InHand
  <2>8. ASSUME NEW i \in Nat, NEW j \in Nat, Frame(i)', Frame(j)', i < j
        PROVE  toClient'[i].n < toClient'[j].n
    <3>1. i + 1 < j + 1
      BY <2>8
    <3> QED
      BY <1>5, <1>10, <2>8, <3>1 DEF FramesFollow
  <2>9. ASSUME NEW i \in Nat, Frame(i)'
        PROVE  /\ InHand' < toClient'[i].n /\ toClient'[i].n <= Len(written) + Window
               /\ toClient'[i].id = current /\ toClient'[i].n <= FileFrames
               /\ \A m \in (InHand' + 1)..toClient'[i].n :
                    \E j \in Nat : j <= i /\ Frame(j)' /\ toClient'[j].n = m
    <3>1. Frame(i + 1) /\ toClient'[i] = toClient[i + 1] /\ i + 1 \in Nat /\ 1 < i + 1
      <4>1. Frame(i + 1) /\ toClient'[i] = toClient[i + 1] /\ i + 1 \in Nat
        BY <1>5, <2>9
      <4>2. 1 <= i
        <5>1. i \in DOMAIN toClient' /\ toClient' \in Seq(ToClient)
          BY <2>9 DEF Frame, TypeOK
        <5> QED
          BY <5>1, LenProperties
      <4> QED
        BY <4>1, <4>2
    <3>2. toClient[1].n < toClient[i + 1].n /\ toClient[i + 1].n <= Len(written) + Window
      BY <1>2, <1>10, <3>1 DEF FramesFollow
    <3>3. /\ toClient[i + 1].id = current /\ toClient[i + 1].n <= FileFrames
          /\ \A m \in (InHand + 1)..toClient[i + 1].n :
               \E j \in Nat : j <= i + 1 /\ Frame(j) /\ toClient[j].n = m
      BY <1>1, <1>10, <1>12, <3>1 DEF FramesFollow
    <3>4. ASSUME NEW m \in (InHand' + 1)..toClient'[i].n
          PROVE  \E j \in Nat : j <= i /\ Frame(j)' /\ toClient'[j].n = m
      <4>1. toClient[i + 1].n \in Nat
        BY <1>t, <3>1 DEF Frame
      <4>2. m \in (InHand + 1)..toClient[i + 1].n /\ m # InHand + 1
        BY <1>t, <2>3, <3>1, <3>4, <4>1
      <4>3. PICK j \in Nat : j <= i + 1 /\ Frame(j) /\ toClient[j].n = m
        BY <3>3, <4>2
      <4>4. j # 1
        BY <2>4, <4>2, <4>3
      <4>5. j - 1 \in Nat /\ Frame(j - 1)' /\ toClient'[j - 1].n = m
        BY <1>6, <4>3, <4>4
      <4>6. j - 1 <= i
        BY <4>3
      <4> QED
        BY <4>5, <4>6
    <3> QED
      BY <2>3, <2>4, <3>1, <3>2, <3>3, <3>4
  <2>10. ASSUME NEW i \in Nat, Ended(i)', toClient'[i].id = current
         PROVE  \A m \in (InHand' + 1)..FileFrames :
                  \E j \in Nat : j < i /\ Frame(j)' /\ toClient'[j].n = m
    <3>1. Answered(i)'
      BY <2>10 DEF Ended, Answered, Last
    <3>2. Answered(i + 1) /\ toClient'[i] = toClient[i + 1] /\ i + 1 \in Nat
      BY <1>5, <3>1
    <3>3. Ended(i + 1) /\ toClient[i + 1].id = current
      BY <2>10, <3>2 DEF Ended, Answered
    <3>4. \A m \in (InHand + 1)..FileFrames :
            \E j \in Nat : j < i + 1 /\ Frame(j) /\ toClient[j].n = m
      BY <1>1, <1>10, <1>12, <3>2, <3>3 DEF FramesFollow
    <3>5. ASSUME NEW m \in (InHand' + 1)..FileFrames
          PROVE  \E j \in Nat : j < i /\ Frame(j)' /\ toClient'[j].n = m
      <4>1. m \in (InHand + 1)..FileFrames /\ m # InHand + 1
        BY <1>t, <2>3, <3>5
      <4>2. PICK j \in Nat : j < i + 1 /\ Frame(j) /\ toClient[j].n = m
        BY <3>4, <4>1
      <4>3. j # 1
        BY <2>4, <4>1, <4>2
      <4>4. j - 1 \in Nat /\ Frame(j - 1)' /\ toClient'[j - 1].n = m
        BY <1>6, <4>2, <4>3
      <4>5. j - 1 < i
        BY <4>2
      <4> QED
        BY <4>4, <4>5
    <3> QED
      BY <3>5
  <2>11. FramesFollow'
    BY <1>1, <2>7, <2>8, <2>9, <2>10 DEF FramesFollow
  <2>12. ASSUME Live', download' # None
         PROVE  /\ acked' <= Len(written') /\ sent' <= acked' + Window
                /\ InHand' <= sent' /\ sent' <= FileFrames
                /\ \A i \in Nat : Frame(i)' => toClient'[i].n <= sent'
                /\ current' = download' =>
                     \A m \in (InHand' + 1)..sent' :
                       \E j \in Nat : Frame(j)' /\ toClient'[j].n = m
    <3>1. /\ download # None /\ TransferFollows /\ Live /\ UNCHANGED <<download, sent, acked>>
      BY <1>7, <2>12
    <3>2. /\ acked <= Len(written) /\ sent <= acked + Window /\ sent <= FileFrames
          /\ \A i \in Nat : Frame(i) => toClient[i].n <= sent
          /\ current = download =>
               \A m \in (InHand + 1)..sent : \E j \in Nat : Frame(j) /\ toClient[j].n = m
      BY <3>1 DEF TransferFollows
    <3>3. InHand' <= sent
      BY <1>2, <2>3, <2>4, <3>2
    <3>4. \A i \in Nat : Frame(i)' => toClient'[i].n <= sent
      BY <1>5, <3>2
    <3>5. ASSUME current' = download, NEW m \in (InHand' + 1)..sent
          PROVE  \E j \in Nat : Frame(j)' /\ toClient'[j].n = m
      <4>1. m \in (InHand + 1)..sent /\ m # InHand + 1 /\ current = download
        BY <1>1, <1>t, <2>3, <3>5
      <4>2. PICK j \in Nat : Frame(j) /\ toClient[j].n = m
        BY <3>2, <4>1
      <4>3. j # 1
        BY <2>4, <4>1, <4>2
      <4> QED
        BY <1>6, <4>2, <4>3
    <3> QED
      BY <1>1, <3>1, <3>2, <3>3, <3>4, <3>5
  <2>13. Live' => TransferFollows'
    BY <1>1, <1>7, <1>8, <1>9, <2>12 DEF TransferFollows
  <2> QED
    BY <1>1, <1>8, <2>6, <2>11, <2>13 DEF InTransit
<1> QED
  BY <1>11, <1>12

\* A download begins with nothing of the last one on its way.
LEMMA DownloadNextTransit ==
  ASSUME TypeOK, TypeOK', OneOwner, OneDownload, Orderly, FramesOwned, InTransit, DownloadNext
  PROVE  InTransit'
<1>1. /\ ClientWorks /\ ~Written /\ step = "between" /\ step' = "downloading"
      /\ written' = <<>> /\ current' = nextRequestId /\ nextRequestId' = nextRequestId + 1
      /\ UNCHANGED <<ws, draining, writes, toClient>>
  BY DEF ClientWorks, Written, DownloadNext, NoMessageTaken
<1>2. current = None /\ draining = None /\ writes = <<>>
  BY <1>1 DEF Orderly
<1>3. /\ nextRequestId \in Nat /\ nextRequestId # None /\ Window \in Nat /\ FileFrames \in Nat
      /\ \A i \in Nat : i \in DOMAIN toBridge => toBridge[i].id \in Nat
  BY TransitTypes DEF TypeOK, Ids
<1>4. Len(written') = 0 /\ Len(writes') = 0 /\ InHand' = 0
  BY <1>1, <1>2, EmptySeq DEF InHand
<1>5. \A i \in Nat : ~Frame(i)'
  <2>1. \A i \in Nat : ~Frame(i)
    BY <1>1, <1>2 DEF FramesOwned
  <2> QED
    BY <1>1, <2>1 DEF Frame
<1>6. InPackage'
  BY <1>1, <1>2, <1>3, <1>4 DEF InPackage
<1>7. \A i \in Nat : Ended(i)' => toClient'[i].id # current'
  <2>1. \A i \in Nat : Ended(i)' => Answered(i)'
    BY DEF Ended, Answered, Last
  <2> QED
    BY <1>1, <2>1, NewIsUnanswered
<1>8. FramesFollow'
  BY <1>3, <1>4, <1>5, <1>7 DEF FramesFollow
<1>9. \A i \in Nat : AckSent(i)' => AckSent(i) /\ toBridge'[i] = toBridge[i]
  BY <1>1, ClientAcks
<1>10. \A i \in Nat : AckSent(i)' => toBridge'[i].id < nextRequestId
  BY <1>9 DEF InTransit
<1>11. ASSUME Live'
       PROVE  TransferFollows'
  <2>1. Live
    BY <1>1, <1>11, ClientReads
  <2>2. \A id \in Ids : ~Held(id)
    BY <2>1, DownloadNextSettles
  <2>3. \A id \in Ids : Held(id)' => id = nextRequestId
    BY <1>1, <2>2, ClientHolds
  <2>4. download' = None
    <3>1. download \in Nat /\ download' = download
      BY <1>1, ClientReads DEF TypeOK
    <3> QED
      BY <2>2, <3>1 DEF Held, Ids
  <2>5. ASSUME NEW id \in Ids, NEW i \in Nat, Held(id)', AckSent(i)'
        PROVE  toBridge'[i].id # id
    <3>1. toBridge'[i].id < nextRequestId /\ toBridge'[i].id \in Nat
      BY <1>3, <1>9, <1>10, <2>5 DEF AckSent
    <3> QED
      BY <1>3, <2>3, <2>5, <3>1
  <2> QED
    BY <1>1, <2>4, <2>5 DEF TransferFollows
<1>12. \A i \in Nat : AckSent(i)' => toBridge'[i].id < nextRequestId'
  BY <1>1, AcksKnown
<1> QED
  BY <1>6, <1>8, <1>11, <1>12 DEF InTransit

\* Each of the client's steps.
LEMMA ClientKeepsTransit ==
  ASSUME TypeOK, TypeOK', OneOwner, OneDownload, Orderly, FramesOwned, InTransit,
         ClientWorks \/ User
  PROVE  InTransit'
<1>1. CASE Connect \/ ConnectedArrives \/ ClockArrives \/ ListingArrives \/ Start \/ Succeed
           \/ RequestFails \/ SshClosedArrives \/ OtherArrives \/ UserCancels \/ UserRetries
           \/ (ClientSeesClose /\ current = None)
  <2>1. UNCHANGED <<draining, writes, written>> /\ current' \in {current, None}
    BY <1>1 DEF Connect, ConnectedArrives, ClockArrives, ListingArrives, Start, Succeed,
                RequestFails, SshClosedArrives, OtherArrives, UserCancels, UserRetries,
                ClientSeesClose, Disconnect, client, dialog
  <2>2. current' = current
    <3>1. CASE Succeed \/ RequestFails
      <4>1. step # "downloading"
        BY <3>1 DEF Succeed, RequestFails
      <4>2. current = None
        BY <4>1 DEF Orderly
      <4> QED
        BY <2>1, <4>2
    <3>2. CASE ~(Succeed \/ RequestFails)
      BY <1>1, <3>2
         DEF Connect, ConnectedArrives, ClockArrives, ListingArrives, Start,
             SshClosedArrives, OtherArrives, UserCancels, UserRetries, ClientSeesClose,
             client, dialog
    <3> QED
      BY <3>1, <3>2
  <2>3. step' \in {"between", "succeeded"} /\ file' > 0
          => step \in {"between", "succeeded"} /\ file' = file
    <3>1. CASE Start
      BY <3>1 DEF Start
    <3>2. CASE Connect \/ ConnectedArrives \/ ClockArrives \/ ListingArrives \/ RequestFails
               \/ UserRetries
      BY <3>2 DEF Connect, ConnectedArrives, ClockArrives, ListingArrives, RequestFails,
                  UserRetries
    <3>3. CASE Succeed \/ SshClosedArrives \/ OtherArrives \/ UserCancels \/ ClientSeesClose
      <4>1. file' = file
        BY <3>3 DEF Succeed, SshClosedArrives, OtherArrives, UserCancels, ClientSeesClose,
                    dialog
      <4>2. step' \in {"between", "succeeded"} => step \in {"between", "succeeded"}
        BY <3>3 DEF Succeed, SshClosedArrives, OtherArrives, UserCancels, ClientSeesClose,
                    dialog, Void
      <4> QED
        BY <4>1, <4>2
    <3> QED
      BY <1>1, <3>1, <3>2, <3>3
  <2>4. ~FrameArrives /\ ~DownloadNext
    <3>1. ~DownloadNext
      <4>1. current' = current \/ ~DownloadNext
        BY <2>2
      <4>2. DownloadNext => current' = nextRequestId /\ step = "between" /\ nextRequestId # None
        BY DEF DownloadNext, TypeOK, Ids
      <4> QED
        BY <2>2, <4>2 DEF Orderly
    <3>2. ~FrameArrives
      <4>1. CASE Connect \/ Start \/ Succeed \/ UserCancels \/ UserRetries
        <5>1. UNCHANGED toClient
          BY <4>1 DEF Connect, Start, Succeed, UserCancels, UserRetries, NoMessageTaken
        <5>2. FrameArrives => toClient # <<>> /\ toClient' = Tail(toClient)
          BY DEF FrameArrives
        <5>3. toClient # <<>> => Tail(toClient) # toClient
          <6>1. toClient \in Seq(ToClient) /\ Len(toClient) \in Nat
            BY LenProperties DEF TypeOK
          <6>2. toClient # <<>> => Len(Tail(toClient)) = Len(toClient) - 1
            BY <6>1, TakeFirst
          <6> QED
            BY <6>1, <6>2
        <5> QED
          BY <5>1, <5>2, <5>3
      <4>2. CASE ConnectedArrives \/ ClockArrives \/ ListingArrives \/ RequestFails
                 \/ SshClosedArrives
        BY <4>2 DEF ConnectedArrives, ClockArrives, ListingArrives, RequestFails,
                    SshClosedArrives, Arrives, FrameArrives
      <4>3. CASE OtherArrives \/ ClientSeesClose
        BY <4>3 DEF OtherArrives, Last, ClientSeesClose, FrameArrives
      <4> QED
        BY <1>1, <4>1, <4>2, <4>3
    <3> QED
      BY <3>1, <3>2
  <2> QED
    BY <2>1, <2>2, <2>3, <2>4, SameTransit
<1>2. CASE ExportStops \/ WriteFails \/ DownloadFails \/ UserLeaves
           \/ (ClientSeesClose /\ current # None)
  <2>1. /\ current' = None /\ draining' = None /\ writes' = <<>> /\ written' = written
        /\ step' \in {"voided", "left"}
    BY <1>2 DEF ExportStops, WriteFails, DownloadFails, UserLeaves, ClientSeesClose, Void,
                Disconnect
  <2>2. ~FrameArrives /\ ~DownloadNext
    BY <1>2 DEF ExportStops, WriteFails, DownloadFails, UserLeaves, ClientSeesClose, Void,
                FrameArrives, DownloadNext, dialog
  <2> QED
    BY <2>1, <2>2, VoidTransit
<1> QED
  BY <1>1, <1>2, WrittenTransit, FileEndTransit, CompletedTransit, FrameTransit,
     DownloadNextTransit
     DEF ClientWorks, Arrivals, User

\* All that is known of a file on its way.
Intact == /\ TypeOK /\ OneOwner /\ OneDownload
          /\ Orderly /\ FramesOwned /\ InTransit

LEMMA InitIntact == Init => Intact
<1> SUFFICES ASSUME Init
             PROVE  Intact
  OBVIOUS
<1>1. TypeOK /\ OneOwner /\ OneDownload
  BY InitTypes, InitOwner, InitOne
<1>2. /\ toBridge = <<>> /\ toClient = <<>> /\ download = None
      /\ current = None /\ draining = None /\ writes = <<>> /\ written = <<>>
      /\ ws /\ request = None /\ nextRequestId = 1 /\ step = "form"
  BY DEF Init, BridgeInit
<1>3. Len(writes) = 0 /\ Len(written) = 0 /\ InHand = 0 /\ 0 <= Window
  BY <1>2, EmptySeq, TransitTypes, <1>1 DEF InHand
<1>4. /\ \A i \in Nat : ~Frame(i) /\ ~Answered(i) /\ ~Ended(i) /\ ~AckSent(i)
  BY <1>2 DEF Frame, Answered, Ended, AckSent
<1>5. Orderly /\ FramesOwned
  BY <1>2, <1>4 DEF Orderly, FramesOwned, None
<1>6. InPackage
  BY <1>2, <1>3 DEF InPackage
<1>7. FramesFollow
  BY <1>2, <1>3, <1>4 DEF FramesFollow
<1>8. TransferFollows
  BY <1>2, <1>4 DEF TransferFollows
<1> QED
  BY <1>1, <1>4, <1>5, <1>6, <1>7, <1>8 DEF Intact, InTransit

LEMMA StepKeepsIntact ==
  ASSUME Intact, [Next]_vars
  PROVE  Intact'
<1>1. TypeOK' /\ OneOwner' /\ OneDownload' /\ Orderly'
  BY StepTypes, StepKeepsOwner, StepKeepsOne, StepKeepsOrder DEF Intact
<1>2. CASE Bridge
  BY <1>1, <1>2, BridgeKeepsFramesOwned, BridgeKeepsTransit DEF Intact
<1>3. CASE ClientWorks \/ User
  BY <1>1, <1>3, ClientKeepsFramesOwned, ClientKeepsTransit DEF Intact
<1>4. CASE UNCHANGED vars
  <2>1. UNCHANGED <<toBridge, toClient, link, download, sent, acked, operations, ws,
                    nextRequestId, request, current, draining, writes, written, step, file>>
    BY <1>4 DEF vars, bridgeVars, wires, transfer, client, dialog
  <2>2. FramesOwned'
    BY <2>1 DEF Intact, FramesOwned, Frame, Answered, Awaited
  <2>3. InPackage'
    BY <2>1 DEF Intact, InTransit, InPackage, Owner, InHand
  <2>4. FramesFollow'
    BY <2>1 DEF Intact, InTransit, FramesFollow, InHand, Frame, Ended
  <2>5. TransferFollows' = TransferFollows
    BY <2>1 DEF TransferFollows, InHand, Frame, AckSent, Held, Queued, DownloadAsked
  <2>6. InTransit'
    BY <2>1, <2>3, <2>4, <2>5 DEF Intact, InTransit, AckSent, Live
  <2> QED
    BY <1>1, <2>2, <2>6 DEF Intact
<1> QED
  BY <1>2, <1>3, <1>4 DEF Next

\* Frames do not say which download they are sent for, and the client takes them for
\* the one that runs: the package gets those of its file all the same, in order and
\* each once, and it has them all when the next file is begun or the package is
\* completed.
THEOREM FileStaysIntact == Spec => []FileIntact
<1>1. Intact => FileIntact
  <2> SUFFICES ASSUME Intact
               PROVE  FileIntact
    OBVIOUS
  <2>1. DOMAIN written = 1..Len(written)
    BY LenProperties DEF Intact, TypeOK
  <2> QED
    BY <2>1 DEF Intact, InTransit, InPackage, FileIntact, Owner
<1>2. Intact /\ [Next]_vars => Intact'
  BY StepKeepsIntact
<1> QED
  BY <1>1, <1>2, InitIntact, PTL DEF Spec

\* The frames on their way have numbers of their own among those that the window
\* allows after the ones in hand.
LEMMA WindowBounds ==
  ASSUME Intact
  PROVE  WithinWindow
<1>t. /\ InHand \in Nat /\ Window \in Nat /\ Len(written) \in Nat /\ Len(writes) \in Nat
      /\ \A i \in Nat : i \in DOMAIN toClient => toClient[i].n \in Nat
      /\ DOMAIN toClient \subseteq Nat
  BY TransitTypes, LenProperties DEF Intact, TypeOK
<1>1. FramesFollow
  BY DEF Intact, InTransit
<1> DEFINE S == FramesOut
           a == InHand + 1
           b == Len(written) + Window
           T == a..b
           f == [i \in S |-> toClient[i].n]
<1>2. \A i \in S : i \in Nat /\ Frame(i) /\ toClient[i].n \in Nat
  BY <1>t DEF FramesOut, Frame
<1>3. f \in [S -> T]
  <2>1. ASSUME NEW i \in S
        PROVE  toClient[i].n \in T
    <3>1. InHand < toClient[i].n /\ toClient[i].n <= b /\ toClient[i].n \in Nat
      BY <1>1, <1>2, <2>1 DEF FramesFollow
    <3> QED
      BY <1>t, <3>1
  <2> QED
    BY <2>1
<1>4. \A i, j \in S : f[i] = f[j] => i = j
  <2>1. TAKE i, j \in S
  <2>2. HAVE f[i] = f[j]
  <2>3. i \in Nat /\ j \in Nat /\ Frame(i) /\ Frame(j) /\ toClient[i].n \in Nat
        /\ toClient[i].n = toClient[j].n
    BY <1>2, <2>1, <2>2
  <2>4. ~(i < j)
    BY <1>1, <2>3 DEF FramesFollow
  <2>5. ~(j < i)
    BY <1>1, <2>3 DEF FramesFollow
  <2> QED
    BY <2>3, <2>4, <2>5
<1>5. a \in Int /\ b \in Int
  BY <1>t
<1> HIDE DEF f, S
<1>6. f \in Injection(S, T)
  <2>1. DOMAIN f = S
    BY <1>3
  <2> QED
    BY <1>3, <1>4, <2>1 DEF Injection, IsInjective
<1> HIDE DEF a, b
<1>7. IsFiniteSet(T) /\ Cardinality(T) = IF a > b THEN 0 ELSE b - a + 1
  BY <1>5, FS_Interval
<1>8. IsFiniteSet(S) /\ Cardinality(S) <= Cardinality(T)
  BY <1>6, <1>7, FS_Injection
<1>9. Cardinality(S) \in Nat
  BY <1>8, FS_CardinalityType
<1>10. Len(writes) <= Window
  BY <1>1 DEF FramesFollow
<1>11. Cardinality(S) + Len(writes) <= Window
  <2>1. CASE a > b
    BY <1>t, <1>7, <1>8, <1>9, <1>10, <2>1
  <2>2. CASE ~(a > b)
    <3>1. Cardinality(T) = b - a + 1
      BY <1>7, <2>2
    <3>2. b - a + 1 = Window - Len(writes)
      BY <1>t DEF a, b, InHand
    <3> QED
      BY <1>t, <1>8, <1>9, <3>1, <3>2
  <2> QED
    BY <2>1, <2>2
<1> QED
  BY <1>11 DEF S, WithinWindow

\* What the client has not written stays within the window, over retries too: the
\* frames a voided download has left on their way are gone before the bridge counts
\* those of the next one.
THEOREM FramesWithinWindow == Spec => []WithinWindow
<1>1. Intact => WithinWindow
  BY WindowBounds
<1>2. Intact /\ [Next]_vars => Intact'
  BY StepKeepsIntact
<1> QED
  BY <1>1, <1>2, InitIntact, PTL DEF Spec

-----------------------------------------------------------------------------
(* Nothing stalls.                                                         *)

\* The call a step of the dialog has made, and what the SSH layer is asked for it.
CallOf ==
  [connecting |-> "connect", clock |-> "serverTime", listing |-> "list",
   downloading |-> "download"]
KindsOf ==
  [connecting |-> {"connect", "realpath"}, clock |-> {"serverTime"}, listing |-> {"list"},
   downloading |-> {"fileSize"}]
WaitingSteps == {"connecting", "clock", "listing", "downloading"}

\* A request is somewhere, as InGoodHands has it.
Somewhere(id) ==
  \/ \E i \in Nat : Asked(i) /\ toBridge[i].id = id
  \/ \E o \in operations : o.id = id
  \/ download = id
  \/ \E i \in Nat : Answered(i) /\ toClient[i].id = id

\* And wherever it is, it is what step s has asked for.
Tracked(id, s) ==
  /\ \A i \in Nat : Asked(i) /\ toBridge[i].id = id => toBridge[i].type = CallOf[s]
  /\ \A o \in operations : o.id = id => o.kind \in KindsOf[s]
  /\ download = id => s = "downloading"
  /\ \A i \in Nat : Answered(i) /\ toClient[i].id = id => toClient[i].type \in Answers[s]
  /\ Somewhere(id)

\* The last chunk written of the file that is transferred is known to the bridge, or
\* its ack is on its way.
Acknowledged ==
  download # None /\ current = download /\ acked < Len(written) =>
    \E i \in Nat : AckSent(i) /\ toBridge[i].id = download /\ toBridge[i].n = Len(written)

\* A dialog that waits has asked for something, which is kept track of.
WaitsFor ==
  /\ step \in {"connecting", "clock", "listing"} => request # None
  /\ step = "downloading" => current # None \/ draining # None
  /\ Live => Acknowledged
  /\ Live /\ Waiting /\ Expected # None => Tracked(Expected, step)

\* The steps, by what they ask for and what they understand.
LEMMA StepsAre ==
  ASSUME NEW s \in WaitingSteps
  PROVE  /\ CallOf[s] = "connect" => s = "connecting"
         /\ CallOf[s] = "serverTime" => s = "clock"
         /\ CallOf[s] = "list" => s = "listing"
         /\ CallOf[s] = "download" => s = "downloading"
         /\ "connect" \in KindsOf[s] => s = "connecting"
         /\ "realpath" \in KindsOf[s] => s = "connecting"
         /\ "serverTime" \in KindsOf[s] => s = "clock"
         /\ "list" \in KindsOf[s] => s = "listing"
         /\ "fileSize" \in KindsOf[s] => s = "downloading"
         /\ "error" \in Answers[s]
BY DEF WaitingSteps, CallOf, KindsOf, Answers

LEMMA StepsAsk ==
  /\ KindsOf["connecting"] = {"connect", "realpath"}
  /\ KindsOf["clock"] = {"serverTime"}
  /\ KindsOf["listing"] = {"list"}
  /\ KindsOf["downloading"] = {"fileSize"}
  /\ {"connected"} \subseteq Answers["connecting"]
  /\ {"serverTime"} \subseteq Answers["clock"]
  /\ {"list"} \subseteq Answers["listing"]
  /\ {"fileEnd", "canceled"} \subseteq Answers["downloading"]
BY DEF KindsOf, Answers

\* A request is still tracked after a step that gives it nothing new but what its
\* step asks for and understands.
LEMMA TrackedStep ==
  ASSUME NEW id, NEW s, Tracked(id, s),
         \A i \in Nat : Asked(i)' /\ toBridge'[i].id = id =>
           \E j \in Nat : Asked(j) /\ toBridge'[i] = toBridge[j],
         \A o \in operations' : o.id = id => o \in operations \/ o.kind \in KindsOf[s],
         download' = id => download = id \/ s = "downloading",
         \A i \in Nat : Answered(i)' /\ toClient'[i].id = id =>
           \/ \E j \in Nat : Answered(j) /\ toClient'[i] = toClient[j]
           \/ toClient'[i].type \in Answers[s],
         Somewhere(id)'
  PROVE  Tracked(id, s)'
<1>1. \A i \in Nat : Asked(i)' /\ toBridge'[i].id = id => toBridge'[i].type = CallOf[s]
  BY DEF Tracked
<1>2. \A o \in operations' : o.id = id => o.kind \in KindsOf[s]
  BY DEF Tracked
<1>3. download' = id => s = "downloading"
  BY DEF Tracked
<1>4. \A i \in Nat : Answered(i)' /\ toClient'[i].id = id => toClient'[i].type \in Answers[s]
  BY DEF Tracked
<1>5. Tracked(id, s)' <=>
        /\ \A i \in Nat : Asked(i)' /\ toBridge'[i].id = id => toBridge'[i].type = CallOf[s]
        /\ \A o \in operations' : o.id = id => o.kind \in KindsOf[s]
        /\ download' = id => s = "downloading"
        /\ \A i \in Nat : Answered(i)' /\ toClient'[i].id = id => toClient'[i].type \in Answers[s]
        /\ Somewhere(id)'
  BY DEF Tracked, CallOf, KindsOf, Answers
<1> QED
  BY <1>1, <1>2, <1>3, <1>4, <1>5

\* What a step says to the client: one last answer, or nothing but frames and the
\* like.
Tells(type, id) ==
  /\ \E n \in Nat : Answered(n)' /\ toClient'[n].id = id
  /\ \A i \in Nat : Answered(i)' =>
       \/ Answered(i) /\ toClient'[i] = toClient[i]
       \/ toClient'[i].id = id /\ toClient'[i].type = type
TellsNothing == \A i \in Nat : Answered(i)' => Answered(i) /\ toClient'[i] = toClient[i]

\* What a message adds to the wire.
LEMMA SendAdds ==
  ASSUME TypeOK, link = "up", ~destroyed, NEW m \in ToClient, Send(<<m>>)
  PROVE  /\ Len(toClient) + 1 \in Nat /\ Len(toClient) + 1 \in DOMAIN toClient'
         /\ toClient'[Len(toClient) + 1] = m
         /\ \A i \in Nat : i \in DOMAIN toClient' =>
              \/ i \in DOMAIN toClient /\ toClient'[i] = toClient[i]
              \/ i = Len(toClient) + 1
<1>1. toClient' = toClient \o <<m>>
  BY DEF Send
<1>2. toClient \in Seq(ToClient) /\ <<m>> \in Seq(ToClient) /\ Len(<<m>>) = 1 /\ <<m>>[1] = m
  BY OneMessage DEF TypeOK
<1> DEFINE s == toClient \o <<m>>
<1>3. /\ s \in Seq(ToClient) /\ Len(s) = Len(toClient) + 1 /\ Len(toClient) \in Nat
      /\ DOMAIN toClient = 1..Len(toClient) /\ DOMAIN s = 1..Len(s)
      /\ s[Len(toClient) + 1] = m
      /\ \A i \in 1..Len(toClient) : s[i] = toClient[i]
  BY <1>2, ConcatProperties, LenProperties
<1>4. toClient' = s
  BY <1>1
<1> HIDE DEF s
<1> QED
  BY <1>3, <1>4

LEMMA AnswerTells ==
  ASSUME TypeOK, link = "up", ~destroyed, NEW type \in Last, NEW id \in Ids, Answer(type, id)
  PROVE  Tells(type, id)
<1> DEFINE m == Message(type, id, 0)
<1>1. m \in ToClient /\ m.type = type /\ m.id = id
  BY MessageTypes DEF Message
<1>2. Send(<<m>>)
  BY DEF Answer
<1> HIDE DEF m
<1> QED
  BY <1>1, <1>2, SendAdds DEF Tells, Answered

LEMMA PartTells ==
  ASSUME TypeOK, link = "up", ~destroyed, NEW type \in {"fileStart", "data"}, NEW id \in Ids,
         NEW n \in Nat, Send(<<Message(type, id, n)>>)
  PROVE  TellsNothing
<1> DEFINE m == Message(type, id, n)
<1>1. m \in ToClient /\ m.type \notin Last
  BY MessageTypes DEF Message, Last
<1> HIDE DEF m
<1>2. Send(<<m>>)
  BY DEF m
<1> QED
  BY <1>1, <1>2, SendAdds DEF TellsNothing, Answered

\* The end of a session is an error to the download, and no answer to others.
LEMMA EndTells ==
  ASSUME TypeOK, link = "up", ~destroyed, NEW after \in {<<>>, SshClosed},
         Send(Disconnected \o after)
  PROVE  IF download = None THEN TellsNothing ELSE Tells("error", download)
<1> DEFINE t == Disconnected \o after
           s == toClient \o t
<1>1. /\ t \in Seq(ToClient) /\ Disconnected \in Seq(ToClient) /\ after \in Seq(ToClient)
      /\ toClient \in Seq(ToClient)
  BY DisconnectedTypes, EmptySeq DEF TypeOK
<1>2. toClient' = s
  BY DEF Send
<1>3. /\ s \in Seq(ToClient) /\ Len(s) = Len(toClient) + Len(t)
      /\ Len(toClient) \in Nat /\ Len(t) \in Nat
      /\ DOMAIN toClient = 1..Len(toClient) /\ DOMAIN s = 1..Len(s)
      /\ \A i \in 1..Len(s) :
           s[i] = IF i <= Len(toClient) THEN toClient[i] ELSE t[i - Len(toClient)]
  <2> HIDE DEF t
  <2> QED
    BY <1>1, ConcatProperties, LenProperties
<1>4. /\ Len(t) = Len(Disconnected) + Len(after)
      /\ Len(Disconnected) \in Nat /\ Len(after) \in Nat
      /\ \A i \in 1..Len(t) :
           t[i] = IF i <= Len(Disconnected) THEN Disconnected[i]
                                            ELSE after[i - Len(Disconnected)]
  BY <1>1, ConcatProperties, LenProperties
<1>5. \A i \in 1..Len(after) : after[i].type \notin Last
  BY DEF SshClosed, Message, Last
<1>6. download = None => Len(Disconnected) = 0
  BY DEF Disconnected
<1>7. download # None =>
        /\ Len(Disconnected) = 1 /\ Disconnected[1].id = download
        /\ Disconnected[1].type = "error"
  BY DEF Disconnected, Message
<1> HIDE DEF t, s
<1>8. \A i \in 1..Len(t) : t[i].type \in Last =>
        /\ download # None /\ t[i].id = download /\ t[i].type = "error"
  <2>1. TAKE i \in 1..Len(t)
  <2>2. CASE i <= Len(Disconnected)
    <3>1. download # None /\ i = 1
      BY <1>4, <1>6, <1>7, <2>1, <2>2
    <3> QED
      BY <1>4, <1>7, <2>1, <2>2, <3>1
  <2>3. CASE ~(i <= Len(Disconnected))
    <3>1. i - Len(Disconnected) \in 1..Len(after)
      BY <1>4, <2>1, <2>3
    <3> QED
      BY <1>4, <1>5, <2>1, <2>3, <3>1
  <2> QED
    BY <2>2, <2>3
<1>9. ASSUME NEW i \in Nat, Answered(i)'
      PROVE  \/ Answered(i) /\ toClient'[i] = toClient[i]
             \/ download # None /\ toClient'[i].id = download /\ toClient'[i].type = "error"
  <2>1. i \in 1..Len(s) /\ toClient'[i] = s[i] /\ s[i].type \in Last
    BY <1>2, <1>3, <1>9 DEF Answered
  <2>2. CASE i <= Len(toClient)
    BY <1>2, <1>3, <2>1, <2>2 DEF Answered
  <2>3. CASE ~(i <= Len(toClient))
    <3>1. i - Len(toClient) \in 1..Len(t) /\ s[i] = t[i - Len(toClient)]
      BY <1>3, <2>1, <2>3
    <3> QED
      BY <1>8, <2>1, <3>1
  <2> QED
    BY <2>2, <2>3
<1>10. ASSUME download # None
       PROVE  \E n \in Nat : Answered(n)' /\ toClient'[n].id = download
  <2>a. Len(Disconnected) = 1
    BY <1>7, <1>10
  <2>b. 1 \in 1..Len(t) /\ 1 <= Len(Disconnected)
    BY <1>4, <2>a
  <2>1. 1 \in 1..Len(t) /\ t[1] = Disconnected[1]
    <3> HIDE DEF Disconnected
    <3> QED
      BY <1>4, <2>b
  <2>2. /\ Len(toClient) + 1 \in 1..Len(s) /\ Len(toClient) + 1 \in Nat
        /\ s[Len(toClient) + 1] = t[1]
    BY <1>3, <2>1
  <2>3. t[1].type \in Last /\ t[1].id = download
    BY <1>7, <1>10, <2>1 DEF Last
  <2> QED
    BY <1>2, <1>3, <2>2, <2>3 DEF Answered
<1> QED
  BY <1>9, <1>10 DEF Tells, TellsNothing

-----------------------------------------------------------------------------
(* The bridge's steps.                                                     *)

\* While the connection lasts calls stay on the wire until they are taken, answers
\* stay on theirs, and a request is lost only by the step that deals with it.
LEMMA BridgePlaces ==
  ASSUME TypeOK, OneDownload, Bridge, Live', NEW id \in Ids
  PROVE  /\ Live /\ link = "up" /\ ~destroyed
         /\ \A i \in Nat : Asked(i)' => \E j \in Nat : Asked(j) /\ toBridge'[i] = toBridge[j]
         /\ Somewhere(id) =>
              \/ Somewhere(id)'
              \/ Handlers /\ Asked(1) /\ toBridge[1].id = id
              \/ \E o \in operations \ operations' : o.id = id
              \/ download = id /\ download' # id
<1>0. Live /\ link = "up" /\ link' = "up"
  BY BridgeReads DEF Live, Bridge, client
<1>1. ~destroyed
  BY <1>0 DEF OneDownload
<1>2. PICK k \in {0, 1} : Read(k)
  BY <1>0, BridgeReads
<1>3. \A i \in Nat : Asked(i)' => \E j \in Nat : Asked(j) /\ toBridge'[i] = toBridge[j]
  <2>1. ASSUME NEW i \in Nat, Asked(i)'
        PROVE  \E j \in Nat : Asked(j) /\ toBridge'[i] = toBridge[j]
    <3>1. i + k \in DOMAIN toBridge /\ toBridge'[i] = toBridge[i + k] /\ i + k \in Nat
      BY <1>2, <2>1 DEF Read, Asked
    <3> QED
      BY <2>1, <3>1 DEF Asked
  <2> QED
    BY <2>1
<1>4. Handlers \/ UNCHANGED toBridge
  BY <1>0
     DEF Bridge, BridgeNext, BridgeWorks, BridgeSuffers, SshAnswers, ConnectResolves,
         ConnectRejects, HomeSettles, ListResolves, ServerTimeResolves, FileSizeResolves,
         CallRejects, Settle, wires, Stream, Data, StreamEnds, StreamFails, SshCloses,
         IdleTimeout, LinkBreaks, BridgeSeesClose, Kick
<1>5. ASSUME NEW i \in Nat, Asked(i), toBridge[i].id = id
      PROVE  Somewhere(id)' \/ (Handlers /\ Asked(1) /\ toBridge[1].id = id)
  <2>1. CASE UNCHANGED toBridge
    BY <1>5, <2>1 DEF Somewhere, Asked
  <2>2. CASE Handlers /\ i <= k
    <3>1. i = 1
      <4>1. i \in 1..Len(toBridge)
        BY <1>5, LenProperties DEF TypeOK, Asked
      <4> QED
        BY <2>2, <4>1
    <3> QED
      BY <1>5, <2>2, <3>1
  <2>3. CASE ~(i <= k)
    <3>1. i - k \in Nat /\ i - k \in DOMAIN toBridge' /\ toBridge'[i - k] = toBridge[i]
      BY <1>2, <1>5, <2>3 DEF Read, Asked
    <3>2. Asked(i - k)' /\ toBridge'[i - k].id = id
      BY <1>5, <3>1 DEF Asked
    <3> QED
      BY <3>1, <3>2 DEF Somewhere
  <2> QED
    BY <1>4, <2>1, <2>2, <2>3
<1>6. ASSUME NEW i \in Nat, Answered(i), toClient[i].id = id
      PROVE  Somewhere(id)'
  <2>1. Answered(i)' /\ toClient'[i] = toClient[i]
    BY <1>6, BridgeHeard DEF Heard, Answered
  <2> QED
    BY <1>6, <2>1 DEF Somewhere
<1>7. ASSUME NEW o \in operations, o.id = id, o \in operations'
      PROVE  Somewhere(id)'
  BY <1>7 DEF Somewhere
<1>8. download' = id => Somewhere(id)'
  BY DEF Somewhere
<1> QED
  BY <1>0, <1>1, <1>3, <1>5, <1>6, <1>7, <1>8 DEF Somewhere

\* A call that is taken is with the SSH layer, or answered.
LEMMA CallTracked ==
  ASSUME TypeOK, OneDownload, Bridge, Live', NEW id \in Ids, NEW s \in WaitingSteps,
         Tracked(id, s), NEW type \in Calls, Receive(type), NEW kind,
         CallOf[s] = type => kind \in KindsOf[s],
         \/ Call(kind, Head(toBridge).id) /\ UNCHANGED <<toClient, over>>
         \/ Answer("error", Head(toBridge).id) /\ UNCHANGED operations,
         UNCHANGED download
  PROVE  Tracked(id, s)'
<1> DEFINE x == Head(toBridge).id
<1>1. /\ 1 \in DOMAIN toBridge /\ Head(toBridge) = toBridge[1]
      /\ x \in Ids /\ toBridge[1].type = type
  BY CallTaken, ReceiveTypes DEF Receive
<1>2. Asked(1) /\ toBridge[1].id = x
  BY <1>1 DEF Asked
<1>3. /\ link = "up" /\ ~destroyed
      /\ \A i \in Nat : Asked(i)' => \E j \in Nat : Asked(j) /\ toBridge'[i] = toBridge[j]
      /\ Somewhere(id) =>
              \/ Somewhere(id)'
              \/ toBridge[1].id = id
              \/ \E o \in operations \ operations' : o.id = id
              \/ download = id /\ download' # id
  BY BridgePlaces
<1>4. x = id => kind \in KindsOf[s]
  BY <1>1, <1>2 DEF Tracked
<1>5. "error" \in Answers[s] /\ "error" \in Last
  BY StepsAre DEF Last
<1>s. Somewhere(id)
  BY DEF Tracked
<1> HIDE DEF x
<1>6. CASE Call(kind, x) /\ UNCHANGED toClient
  <2>1. operations' = operations \union {[kind |-> kind, id |-> x]}
    BY <1>6 DEF Call
  <2>2. Somewhere(id)'
    <3>1. CASE x = id
      <4>1. [kind |-> kind, id |-> x] \in operations' /\ [kind |-> kind, id |-> x].id = id
        BY <2>1, <3>1
      <4> QED
        BY <4>1 DEF Somewhere
    <3>2. CASE x # id
      <4>2. toBridge[1].id # id /\ download' = download
        BY <1>2, <3>2
      <4>3. operations \subseteq operations'
        BY <2>1
      <4> QED
        BY <1>3, <1>s, <4>2, <4>3
    <3> QED
      BY <3>1, <3>2
  <2>3. \A i \in Nat : Answered(i)' => Answered(i) /\ toClient'[i] = toClient[i]
    BY <1>6 DEF Answered
  <2>4. \A o \in operations' : o.id = id => o \in operations \/ o.kind \in KindsOf[s]
    BY <1>4, <2>1
  <2> QED
    BY <1>3, <2>2, <2>3, <2>4, TrackedStep
<1>7. CASE Answer("error", x) /\ UNCHANGED operations
  <2>1. Tells("error", x)
    BY <1>1, <1>3, <1>5, <1>7, AnswerTells DEF x
  <2>2. Somewhere(id)'
    BY <1>2, <1>3, <1>7, <1>s, <2>1 DEF Somewhere, Tells
  <2>3. \A i \in Nat : Answered(i)' =>
          \/ \E j \in Nat : Answered(j) /\ toClient'[i] = toClient[j]
          \/ toClient'[i].type \in Answers[s]
    BY <1>5, <2>1 DEF Tells
  <2> QED
    BY <1>3, <1>7, <2>2, <2>3, TrackedStep
<1> QED
  BY <1>6, <1>7 DEF x

\* The SSH layer has answered, and so does the bridge.
LEMMA SettleTracked ==
  ASSUME TypeOK, OneOwner, OneDownload, Bridge, Live', NEW id \in Ids,
         NEW s \in WaitingSteps, Tracked(id, s), NEW o \in operations,
         operations' = operations \ {o}, UNCHANGED <<toBridge, download>>,
         NEW type \in Last, Answer(type, o.id), o.kind \in KindsOf[s] => type \in Answers[s]
  PROVE  Tracked(id, s)'
<1>1. /\ link = "up" /\ ~destroyed
      /\ \A i \in Nat : Asked(i)' => \E j \in Nat : Asked(j) /\ toBridge'[i] = toBridge[j]
  BY BridgePlaces
<1>2. o.id \in Ids
  BY DEF TypeOK
<1>3. Tells(type, o.id)
  BY <1>1, <1>2, AnswerTells
<1>4. Somewhere(id)'
  <2>1. CASE o.id = id
    BY <1>3, <2>1 DEF Tells, Somewhere
  <2>2. CASE o.id # id
    <3>1. ~\E p \in operations \ operations' : p.id = id
      BY <2>2
    <3>2. Somewhere(id)
      BY DEF Tracked
    <3>3. \A i \in Nat : Asked(i) => Asked(i)'
      BY DEF Asked
    <3>4. \A i \in Nat : Answered(i) => Answered(i)' /\ toClient'[i] = toClient[i]
      BY BridgeHeard DEF Heard, Answered
    <3> QED
      BY <3>1, <3>2, <3>3, <3>4 DEF Somewhere
  <2> QED
    BY <2>1, <2>2
<1>5. o.id = id => o.kind \in KindsOf[s]
  BY DEF Tracked
<1>6. \A i \in Nat : Answered(i)' /\ toClient'[i].id = id =>
        \/ \E j \in Nat : Answered(j) /\ toClient'[i] = toClient[j]
        \/ toClient'[i].type \in Answers[s]
  BY <1>3, <1>5 DEF Tells
<1> QED
  BY <1>1, <1>4, <1>6, TrackedStep

\* A transfer ends and the client is told, or nothing becomes of any request.
LEMMA EndTracked ==
  ASSUME TypeOK, OneOwner, OneDownload, Bridge, Live', NEW id \in Ids,
         NEW s \in WaitingSteps, Tracked(id, s),
         ~(Handlers /\ Asked(1)), UNCHANGED operations,
         \/ download' = download /\ TellsNothing
         \/ /\ download' = None /\ download # None
            /\ \E type \in {"fileEnd", "canceled", "error"} : Tells(type, download)
  PROVE  Tracked(id, s)'
<1>1. /\ \A i \in Nat : Asked(i)' => \E j \in Nat : Asked(j) /\ toBridge'[i] = toBridge[j]
      /\ Somewhere(id) => Somewhere(id)' \/ (download = id /\ download' # id)
  BY BridgePlaces
<1>2. Somewhere(id)
  BY DEF Tracked
<1>3. CASE download' = download /\ TellsNothing
  BY <1>1, <1>2, <1>3, TrackedStep DEF TellsNothing
<1>4. CASE /\ download' = None /\ download # None
           /\ \E type \in {"fileEnd", "canceled", "error"} : Tells(type, download)
  <2>1. PICK type \in {"fileEnd", "canceled", "error"} : Tells(type, download)
    BY <1>4
  <2>2. Somewhere(id)'
    BY <1>1, <1>2, <2>1 DEF Tells, Somewhere
  <2>3. download = id => type \in Answers[s]
    BY StepsAsk, StepsAre DEF Tracked
  <2>4. \A i \in Nat : Answered(i)' /\ toClient'[i].id = id =>
          \/ \E j \in Nat : Answered(j) /\ toClient'[i] = toClient[j]
          \/ toClient'[i].type \in Answers[s]
    BY <2>1, <2>3 DEF Tells
  <2>5. download' # id
    BY <1>4 DEF Ids
  <2> QED
    BY <1>1, <2>2, <2>4, <2>5, TrackedStep
<1> QED
  BY <1>3, <1>4

\* The four calls and the three notices.
LEMMA HandlersTrack ==
  ASSUME TypeOK, OneOwner, OneDownload, Bridge, Handlers, Live', NEW id \in Ids,
         NEW s \in WaitingSteps, Tracked(id, s)
  PROVE  Tracked(id, s)'
<1>0. link = "up" /\ ~destroyed /\ link' = "up"
  BY BridgePlaces DEF Live
<1>1. CASE HandleConnect
  <2>1. Receive("connect") /\ Call("connect", Head(toBridge).id)
        /\ UNCHANGED <<toClient, over, download>>
    BY <1>1 DEF HandleConnect, transfer
  <2>2. CallOf[s] = "connect" => "connect" \in KindsOf[s]
    BY StepsAre, StepsAsk
  <2> QED
    BY <2>1, <2>2, CallTracked DEF Calls
<1>2. CASE HandleList
  <2>1. /\ Receive("list") /\ UNCHANGED download
        /\ \/ Call("list", Head(toBridge).id) /\ UNCHANGED <<toClient, over>>
           \/ Answer("error", Head(toBridge).id) /\ UNCHANGED operations
    BY <1>2 DEF HandleList, CallSsh, transfer
  <2>2. CallOf[s] = "list" => "list" \in KindsOf[s]
    BY StepsAre, StepsAsk
  <2> QED
    BY <2>1, <2>2, CallTracked DEF Calls
<1>3. CASE HandleServerTime
  <2>1. /\ Receive("serverTime") /\ UNCHANGED download
        /\ \/ Call("serverTime", Head(toBridge).id) /\ UNCHANGED <<toClient, over>>
           \/ Answer("error", Head(toBridge).id) /\ UNCHANGED operations
    BY <1>3 DEF HandleServerTime, CallSsh, transfer
  <2>2. CallOf[s] = "serverTime" => "serverTime" \in KindsOf[s]
    BY StepsAre, StepsAsk
  <2> QED
    BY <2>1, <2>2, CallTracked DEF Calls
<1>4. CASE HandleDownload
  <2>1. /\ Receive("download") /\ UNCHANGED download
        /\ \/ Call("fileSize", Head(toBridge).id) /\ UNCHANGED <<toClient, over>>
           \/ Answer("error", Head(toBridge).id) /\ UNCHANGED operations
    BY <1>4 DEF HandleDownload, CallSsh, transfer
  <2>2. CallOf[s] = "download" => "fileSize" \in KindsOf[s]
    BY StepsAre, StepsAsk
  <2> QED
    BY <2>1, <2>2, CallTracked DEF Calls
<1>5. CASE HandleAck \/ HandleCancel
  <2>1. PICK type \in {"ack", "cancel"} : Receive(type)
    BY <1>5 DEF HandleAck, HandleCancel
  <2>2. ~Asked(1)
    BY <2>1, CallTaken DEF Asked, Receive, Calls
  <2>3. \/ UNCHANGED <<toClient, download>>
        \/ Answer("canceled", download) /\ EndTransfer /\ download = Head(toBridge).id
    BY <1>5 DEF HandleAck, HandleCancel, transfer
  <2>4. UNCHANGED operations
    BY <1>5 DEF HandleAck, HandleCancel
  <2>5. CASE UNCHANGED <<toClient, download>>
    BY <2>2, <2>4, <2>5, EndTracked DEF TellsNothing, Answered
  <2>6. CASE HandleCancel /\ Answer("canceled", download) /\ EndTransfer
             /\ download = Head(toBridge).id
    <3>1. download \in Ids
      BY <2>6, ReceiveTypes DEF HandleCancel
    <3>2. Tells("canceled", download)
      BY <1>0, <2>6, <3>1, AnswerTells DEF Last
    <3>3. download' = None /\ download # None
      BY <2>6, <3>1 DEF EndTransfer, Ids
    <3> QED
      BY <2>2, <2>4, <3>2, <3>3, EndTracked
  <2> QED
    BY <1>5, <2>3, <2>5, <2>6 DEF HandleAck, HandleCancel
<1>6. ~HandleDisconnect
  BY <1>0 DEF HandleDisconnect
<1> QED
  BY <1>1, <1>2, <1>3, <1>4, <1>5, <1>6 DEF Handlers

\* The answers of the SSH layer.
LEMMA SshAnswersTrack ==
  ASSUME TypeOK, OneOwner, OneDownload, Bridge, SshAnswers, Live', NEW id \in Ids,
         NEW s \in WaitingSteps, Tracked(id, s)
  PROVE  Tracked(id, s)'
<1>0. /\ link = "up" /\ ~destroyed
      /\ \A i \in Nat : Asked(i)' => \E j \in Nat : Asked(j) /\ toBridge'[i] = toBridge[j]
  BY BridgePlaces
<1>1. PICK x \in {operation.id : operation \in operations} :
          \/ ConnectResolves(x) \/ ConnectRejects(x) \/ HomeSettles(x)
          \/ ListResolves(x) \/ ServerTimeResolves(x) \/ FileSizeResolves(x)
          \/ \E kind \in {"list", "serverTime", "fileSize"} : CallRejects(kind, x)
  BY DEF SshAnswers
<1>2. x \in Ids
  BY DEF TypeOK
<1>h. \A i \in Nat : Answered(i) => Answered(i)' /\ toClient'[i] = toClient[i]
  BY BridgeHeard DEF Heard, Answered
<1>s. Somewhere(id)
  BY DEF Tracked
<1>3. ASSUME NEW kind, NEW type \in Last, Settle(kind, x), Answer(type, x), UNCHANGED transfer,
             kind \in KindsOf[s] => type \in Answers[s]
      PROVE  Tracked(id, s)'
  <2> DEFINE o == [kind |-> kind, id |-> x]
  <2>1. o \in operations /\ o.id = x /\ o.kind = kind /\ operations' = operations \ {o}
    BY <1>3 DEF Settle
  <2>2. UNCHANGED <<toBridge, download>>
    BY <1>3 DEF Settle, transfer
  <2> HIDE DEF o
  <2>3. Answer(type, o.id) /\ (o.kind \in KindsOf[s] => type \in Answers[s])
    BY <1>3, <2>1
  <2> QED
    BY <2>1, <2>2, <2>3, SettleTracked
<1>4. CASE ConnectRejects(x)
  BY <1>3, <1>4, StepsAre DEF ConnectRejects, Last
<1>5. CASE HomeSettles(x)
  BY <1>3, <1>5, StepsAre, StepsAsk DEF HomeSettles, Last
<1>6. CASE ListResolves(x)
  BY <1>3, <1>6, StepsAre, StepsAsk DEF ListResolves, Last
<1>7. CASE ServerTimeResolves(x)
  BY <1>3, <1>7, StepsAre, StepsAsk DEF ServerTimeResolves, Last
<1>8. CASE \E kind \in {"list", "serverTime", "fileSize"} : CallRejects(kind, x)
  BY <1>3, <1>8, StepsAre DEF CallRejects, Last
<1>9. CASE ConnectResolves(x)
  <2> DEFINE o == [kind |-> "connect", id |-> x]
             p == [kind |-> "realpath", id |-> x]
  <2>1. /\ o \in operations /\ operations' = (operations \ {o}) \union {p}
        /\ UNCHANGED <<toBridge, toClient, download>>
    BY <1>0, <1>9 DEF ConnectResolves, Connected, wires, transfer
  <2>2. o.id = x /\ o.kind = "connect" /\ p.id = x /\ p.kind = "realpath"
    OBVIOUS
  <2> HIDE DEF o, p
  <2>3. x = id => p.kind \in KindsOf[s]
    BY <2>1, <2>2, StepsAre, StepsAsk DEF Tracked
  <2>4. \A q \in operations' : q.id = id => q \in operations \/ q.kind \in KindsOf[s]
    BY <2>1, <2>2, <2>3
  <2>5. Somewhere(id)'
    <3>1. ASSUME NEW q \in operations, q.id = id
          PROVE  Somewhere(id)'
      <4>1. CASE q = o
        BY <2>1, <2>2, <3>1, <4>1 DEF Somewhere
      <4>2. CASE q # o
        BY <2>1, <3>1, <4>2 DEF Somewhere
      <4> QED
        BY <4>1, <4>2
    <3>2. \A i \in Nat : Asked(i) => Asked(i)' /\ toBridge'[i] = toBridge[i]
      BY <2>1 DEF Asked
    <3> QED
      BY <1>h, <1>s, <2>1, <3>1, <3>2 DEF Somewhere
  <2>6. \A i \in Nat : Answered(i)' => Answered(i) /\ toClient'[i] = toClient[i]
    BY <2>1 DEF Answered
  <2> QED
    BY <1>0, <2>1, <2>4, <2>5, <2>6, TrackedStep
<1>10. CASE FileSizeResolves(x)
  <2> DEFINE o == [kind |-> "fileSize", id |-> x]
  <2>1. /\ o \in operations /\ operations' = operations \ {o} /\ UNCHANGED toBridge
        /\ Send(<<Message("fileStart", x, 0)>>) /\ download' = x
    BY <1>0, <1>10 DEF FileSizeResolves, Settle
  <2>2. o.id = x /\ o.kind = "fileSize"
    OBVIOUS
  <2>3. download # x /\ Held(x)
    <3>1. Queued(x)
      BY <2>1 DEF Queued
    <3>2. download # x
      BY <2>1, <2>2 DEF OneOwner
    <3> QED
      BY <3>1, <3>2 DEF Held
  <2>4. download = None
    <3>1. download # None => download \in Ids /\ Held(download)
      BY DEF TypeOK, Ids, Held
    <3> QED
      BY <1>2, <2>3, <3>1 DEF OneDownload
  <2> HIDE DEF o
  <2>5. TellsNothing
    BY <1>0, <1>2, <2>1, PartTells
  <2>6. x = id => s = "downloading"
    BY <2>1, <2>2, StepsAre DEF Tracked
  <2>7. Somewhere(id)'
    <3>1. ASSUME NEW q \in operations, q.id = id
          PROVE  Somewhere(id)'
      <4>1. CASE q = o
        BY <2>1, <2>2, <3>1, <4>1 DEF Somewhere
      <4>2. CASE q # o
        BY <2>1, <3>1, <4>2 DEF Somewhere
      <4> QED
        BY <4>1, <4>2
    <3>2. \A i \in Nat : Asked(i) => Asked(i)' /\ toBridge'[i] = toBridge[i]
      BY <2>1 DEF Asked
    <3>3. download # id
      BY <2>4 DEF Ids
    <3> QED
      BY <1>h, <1>s, <3>1, <3>2, <3>3 DEF Somewhere
  <2>8. \A q \in operations' : q \in operations
    BY <2>1
  <2>9. download' = id => s = "downloading"
    BY <2>1, <2>6
  <2> QED
    BY <1>0, <2>5, <2>7, <2>8, <2>9, TrackedStep DEF TellsNothing
<1> QED
  BY <1>1, <1>4, <1>5, <1>6, <1>7, <1>8, <1>9, <1>10

\* The transfer, and the end of a session.
LEMMA TransferTracks ==
  ASSUME TypeOK, OneOwner, OneDownload, Bridge,
         Stream \/ BridgeSeesClose \/ BridgeSuffers, Live', NEW id \in Ids,
         NEW s \in WaitingSteps, Tracked(id, s)
  PROVE  Tracked(id, s)'
<1>0. link = "up" /\ ~destroyed /\ link' = "up"
  BY BridgePlaces DEF Live
<1>1. ASSUME UNCHANGED <<toBridge, operations>>,
             \/ download' = download /\ TellsNothing
             \/ /\ download' = None /\ download # None
                /\ \E type \in {"fileEnd", "canceled", "error"} : Tells(type, download)
      PROVE  Tracked(id, s)'
  <2>1. ~Handlers
    <3>1. ASSUME NEW type, Receive(type)
          PROVE  FALSE
      <4>1. /\ toBridge # <<>> /\ toBridge' = Tail(toBridge) /\ toBridge \in Seq(ToBridge)
        BY <3>1 DEF Receive, TypeOK
      <4>2. Len(toBridge) \in Nat /\ Len(toBridge') = Len(toBridge) - 1
        BY <4>1, TakeFirst
      <4> QED
        BY <1>1, <4>2
    <3> QED
      BY <3>1 DEF Handlers, HandleConnect, HandleList, HandleServerTime, HandleDownload,
                  HandleAck, HandleCancel, HandleDisconnect
  <2> QED
    BY <1>1, <2>1, EndTracked
<1>2. CASE Data
  <2>1. /\ download \in Ids /\ sent + 1 \in Nat
        /\ Send(<<Message("data", download, sent + 1)>>)
        /\ UNCHANGED <<toBridge, operations, download>>
    BY <1>2 DEF Data, TypeOK, Ids
  <2>2. TellsNothing
    BY <1>0, <2>1, PartTells
  <2> QED
    BY <1>1, <2>1, <2>2
<1>3. CASE StreamEnds \/ StreamFails
  <2>1. PICK type \in {"fileEnd", "error"} : Answer(type, download)
    BY <1>3 DEF StreamEnds, StreamFails
  <2>2. /\ download \in Ids /\ download # None /\ download' = None
        /\ UNCHANGED <<toBridge, operations>>
    BY <1>3 DEF StreamEnds, StreamFails, EndTransfer, TypeOK, Ids
  <2>3. Tells(type, download)
    BY <1>0, <2>1, <2>2, AnswerTells DEF Last
  <2> QED
    BY <1>1, <2>2, <2>3
<1>4. CASE IdleTimeout \/ \E x \in open \union ending : SshCloses(x)
  <2>1. PICK after \in {<<>>, SshClosed} : Send(Disconnected \o after)
    BY <1>0, <1>4 DEF IdleTimeout, SshCloses
  <2>2. download' = None /\ UNCHANGED <<toBridge, operations>>
    BY <1>0, <1>4 DEF IdleTimeout, SshCloses, EndTransfer
  <2>3. IF download = None THEN TellsNothing ELSE Tells("error", download)
    BY <1>0, <2>1, EndTells
  <2> QED
    BY <1>1, <2>2, <2>3
<1>5. ~Kick /\ ~LinkBreaks /\ ~BridgeSeesClose
  BY <1>0 DEF Kick, LinkBreaks, BridgeSeesClose
<1> QED
  BY <1>2, <1>3, <1>4, <1>5 DEF Stream, BridgeSuffers

\* Whatever the bridge does, a request is kept track of.
LEMMA BridgeTracks ==
  ASSUME TypeOK, OneOwner, OneDownload, Bridge, Live', NEW id \in Ids,
         NEW s \in WaitingSteps, Tracked(id, s)
  PROVE  Tracked(id, s)'
BY HandlersTrack, SshAnswersTrack, TransferTracks DEF Bridge, BridgeNext, BridgeWorks


-----------------------------------------------------------------------------
(* The client's steps.                                                     *)

\* An answer behind the one that is taken comes one place nearer.
LEMMA ReadOther ==
  ASSUME TypeOK, toClient # <<>>, toClient' = Tail(toClient), NEW i \in Nat, Answered(i),
         toClient[i] # Head(toClient)
  PROVE  \E j \in Nat : Answered(j)' /\ toClient'[j] = toClient[i]
<1>1. /\ toClient \in Seq(ToClient) /\ toClient' \in Seq(ToClient)
      /\ Len(toClient) \in Nat /\ Len(toClient') = Len(toClient) - 1
      /\ Head(toClient) = toClient[1]
      /\ \A j \in 1..Len(toClient') : toClient'[j] = toClient[j + 1]
  BY TakeFirst DEF TypeOK
<1>2. DOMAIN toClient = 1..Len(toClient) /\ DOMAIN toClient' = 1..Len(toClient')
  BY <1>1, LenProperties
<1>3. i \in 1..Len(toClient) /\ i # 1
  BY <1>1, <1>2 DEF Answered
<1>4. i - 1 \in Nat /\ i - 1 \in 1..Len(toClient') /\ (i - 1) + 1 = i
  BY <1>1, <1>3
<1>5. toClient'[i - 1] = toClient[i]
  BY <1>1, <1>4
<1> QED
  BY <1>2, <1>4, <1>5 DEF Answered

\* What is tracked is not new.
LEMMA TrackedIsOld ==
  ASSUME TypeOK, OneOwner, OneDownload, NEW id \in Ids, Somewhere(id)
  PROVE  id # nextRequestId
<1>1. nextRequestId \in Nat
  BY DEF TypeOK, Ids
<1>2. \A i \in Nat : Answered(i) => toClient[i].id < nextRequestId
  BY DEF OneDownload, OneOwner
<1> QED
  BY <1>1, <1>2 DEF Somewhere, OneOwner, Ids

\* As long as its answer is not read a request stays where it is.
LEMMA ClientTracks ==
  ASSUME TypeOK, OneOwner, OneDownload, ClientWorks \/ User, NEW id \in Ids,
         NEW s \in WaitingSteps, Tracked(id, s),
         \/ UNCHANGED toClient
         \/ /\ toClient # <<>> /\ toClient' = Tail(toClient)
            /\ ~(Head(toClient).type \in Last /\ Head(toClient).id = id)
  PROVE  Tracked(id, s)'
<1>1. /\ UNCHANGED <<operations, download>>
      /\ \A i \in Nat : Asked(i) => Asked(i)' /\ toBridge'[i] = toBridge[i]
  BY ClientReads, ClientStepSays DEF ClientSays, BridgeKept, Asked
<1>2. Somewhere(id) /\ id # nextRequestId
  BY TrackedIsOld DEF Tracked
<1>3. ASSUME NEW i \in Nat, Asked(i)', toBridge'[i].id = id
      PROVE  \E j \in Nat : Asked(j) /\ toBridge'[i] = toBridge[j]
  <2>1. CASE CallsKept
    BY <1>3, <2>1, CallKept
  <2>2. CASE \E type \in Calls : CallAdded(type)
    <3>1. PICK type \in Calls : CallAdded(type)
      BY <2>2
    <3>2. Message(type, nextRequestId, 0).id = nextRequestId
      BY DEF Message
    <3> QED
      BY <1>2, <1>3, <3>1, <3>2 DEF CallAdded
  <2> QED
    BY <2>1, <2>2, ClientStepSays DEF ClientSays
<1>4. \A i \in Nat : Answered(i)' => \E j \in Nat : Answered(j) /\ toClient'[i] = toClient[j]
  <2>1. \A i \in Nat, k \in {0, 1} : i + k \in Nat
    OBVIOUS
  <2> QED
    BY <2>1, ClientReads DEF Left
<1>5. ASSUME NEW i \in Nat, Answered(i), toClient[i].id = id
      PROVE  \E j \in Nat : Answered(j)' /\ toClient'[j].id = id
  <2>1. CASE UNCHANGED toClient
    BY <1>5, <2>1 DEF Answered
  <2>2. CASE /\ toClient # <<>> /\ toClient' = Tail(toClient)
             /\ ~(Head(toClient).type \in Last /\ Head(toClient).id = id)
    <3>1. toClient[i] # Head(toClient)
      BY <1>5, <2>2 DEF Answered
    <3> QED
      BY <1>5, <2>2, <3>1, ReadOther
  <2> QED
    BY <2>1, <2>2
<1>6. Somewhere(id)'
  BY <1>1, <1>2, <1>5 DEF Somewhere
<1> QED
  BY <1>1, <1>3, <1>4, <1>6, TrackedStep

\* A new request is on its way to the bridge, and nowhere else.
LEMMA NewTracked ==
  ASSUME TypeOK, OneOwner, OneDownload, ClientWorks \/ User, Live',
         NEW s \in WaitingSteps, NEW type \in Calls, CallOf[s] = type,
         Post(<<Message(type, nextRequestId, 0)>>), nextRequestId' = nextRequestId + 1,
         NEW id, id = nextRequestId
  PROVE  Tracked(id, s)'
<1> DEFINE m == Message(type, nextRequestId, 0)
<1>1. m \in ToBridge /\ m.type = type /\ m.id = id
  BY MessageTypes DEF TypeOK, Message
<1>2. /\ Live /\ UNCHANGED <<operations, download>>
  BY ClientReads, ClientStepSays DEF ClientSays, BridgeKept
<1>3. id \in Nat
  BY DEF TypeOK, Ids
<1>4. Post(<<m>>)
  OBVIOUS
<1>5. \A i \in Nat : Asked(i)' => (Asked(i) /\ toBridge'[i] = toBridge[i]) \/ toBridge'[i] = m
  BY OneCallPosted DEF CallAdded
<1> HIDE DEF m
<1>6. Somewhere(id)'
  <2>1. PICK n \in Nat : n \in DOMAIN toBridge' /\ toBridge'[n] = m
    BY <1>1, <1>2, <1>4, PostedLast
  <2>2. Asked(n)' /\ toBridge'[n].id = id
    BY <1>1, <2>1 DEF Asked
  <2> QED
    BY <2>2 DEF Somewhere
<1>7. \A i \in Nat : Asked(i)' /\ toBridge'[i].id = id => toBridge'[i].type = type
  <2>1. \A i \in Nat : Asked(i) => toBridge[i].id # id
    BY <1>3 DEF OneOwner
  <2> QED
    BY <1>1, <1>5, <2>1
<1>8. \A o \in operations' : o.id # id
  BY <1>2, <1>3 DEF OneOwner
<1>9. download' # id
  BY <1>2, <1>3 DEF OneOwner
<1>10. \A i \in Nat : Answered(i)' => toClient'[i].id # id
  BY NewIsUnanswered
<1>11. Tracked(id, s)' <=>
         /\ \A i \in Nat : Asked(i)' /\ toBridge'[i].id = id => toBridge'[i].type = CallOf[s]
         /\ \A o \in operations' : o.id = id => o.kind \in KindsOf[s]
         /\ download' = id => s = "downloading"
         /\ \A i \in Nat : Answered(i)' /\ toClient'[i].id = id => toClient'[i].type \in Answers[s]
         /\ Somewhere(id)'
  BY DEF Tracked, CallOf, KindsOf, Answers
<1> QED
  BY <1>6, <1>7, <1>8, <1>9, <1>10, <1>11

\* What the dialog waits for after a step.
LEMMA ClientTracksExpected ==
  ASSUME Intact, WaitsFor, ClientWorks \/ User, Live', Waiting', Expected' # None
  PROVE  Tracked(Expected, step)'
<1>0. /\ TypeOK /\ OneOwner /\ OneDownload /\ Orderly /\ Live
      /\ request \in Nat /\ current \in Nat /\ nextRequestId \in Ids
  BY ClientReads DEF Intact, TypeOK
<1>s. /\ CallOf["connecting"] = "connect" /\ CallOf["clock"] = "serverTime"
      /\ CallOf["listing"] = "list" /\ CallOf["downloading"] = "download"
      /\ {"connecting", "clock", "listing", "downloading"} = WaitingSteps
      /\ {"connect", "serverTime", "list", "download"} = Calls
  BY DEF CallOf, WaitingSteps, Calls
<1>p. ASSUME NEW id, NEW s, id = Expected', s = step', Tracked(id, s)'
      PROVE  Tracked(Expected, step)'
  BY <1>p DEF Tracked, Somewhere
<1>1. ASSUME NEW s \in WaitingSteps, NEW type \in Calls, CallOf[s] = type,
             Post(<<Message(type, nextRequestId, 0)>>), nextRequestId' = nextRequestId + 1,
             Expected' = nextRequestId, step' = s
      PROVE  Tracked(Expected, step)'
  <2>1. PICK id : id = nextRequestId
    OBVIOUS
  <2>2. Tracked(id, s)'
    BY <1>0, <1>1, <2>1, NewTracked
  <2> QED
    BY <1>1, <1>p, <2>1, <2>2
<1>2. CASE Connect
  <2>1. /\ Ask("connect") /\ step' = "connecting"
    BY <1>2 DEF Connect
  <2>2. Expected' = nextRequestId
    BY <2>1 DEF Expected, Ask
  <2> QED
    BY <1>1, <1>s, <2>1, <2>2 DEF Ask
<1>3. CASE ConnectedArrives \/ UserRetries
  <2>1. /\ Ask("serverTime") /\ step' = "clock"
    BY <1>3 DEF ConnectedArrives, UserRetries
  <2>2. Expected' = nextRequestId
    BY <2>1 DEF Expected, Ask
  <2> QED
    BY <1>1, <1>s, <2>1, <2>2 DEF Ask
<1>4. CASE ClockArrives
  <2>1. /\ Ask("list") /\ step' = "listing"
    BY <1>4 DEF ClockArrives
  <2>2. Expected' = nextRequestId
    BY <2>1 DEF Expected, Ask
  <2> QED
    BY <1>1, <1>s, <2>1, <2>2 DEF Ask
<1>5. CASE DownloadNext
  <2>1. /\ Post(<<Message("download", nextRequestId, 0)>>) /\ step' = "downloading"
        /\ current' = nextRequestId /\ nextRequestId' = nextRequestId + 1
    BY <1>5 DEF DownloadNext
  <2>2. Expected' = nextRequestId
    BY <2>1 DEF Expected
  <2> QED
    BY <1>1, <1>s, <2>1, <2>2
<1>6. CASE FrameArrives \/ Written \/ UserCancels \/ SshClosedArrives \/ OtherArrives
  <2>1. UNCHANGED <<step, request, current>>
    BY <1>6 DEF FrameArrives, Written, UserCancels, SshClosedArrives, OtherArrives, client,
                dialog
  <2>2. Expected' = Expected /\ Waiting
    BY <2>1 DEF Expected, Waiting
  <2>3. PICK id, s : id = Expected /\ s = step
    OBVIOUS
  <2>4. id \in Ids /\ s \in WaitingSteps /\ Expected \in {request, current}
    BY <1>0, <1>s, <2>2, <2>3 DEF Expected, Waiting, Ids
  <2>5. Tracked(id, s)
    <3>1. Tracked(Expected, step)
      BY <1>0, <2>2 DEF WaitsFor
    <3> QED
      BY <2>3, <3>1
  <2>6. \/ UNCHANGED toClient
        \/ /\ toClient # <<>> /\ toClient' = Tail(toClient)
           /\ ~(Head(toClient).type \in Last /\ Head(toClient).id = id)
    <3>1. CASE Written \/ UserCancels
      BY <3>1 DEF Written, UserCancels, NoMessageTaken
    <3>2. CASE FrameArrives
      BY <3>2 DEF FrameArrives, Last
    <3>3. CASE SshClosedArrives
      BY <3>3 DEF SshClosedArrives, Arrives, Last
    <3>4. CASE OtherArrives
      BY <2>3, <2>4, <3>4 DEF OtherArrives, Last
    <3> QED
      BY <1>6, <3>1, <3>2, <3>3, <3>4
  <2>7. Tracked(id, s)'
    BY <1>0, <2>4, <2>5, <2>6, ClientTracks
  <2> QED
    BY <1>p, <2>1, <2>2, <2>3, <2>7
<1>7. ~(ListingArrives \/ RequestFails \/ Start \/ ExportStops \/ WriteFails \/ DownloadFails
        \/ Completed)
  BY DEF ListingArrives, RequestFails, Start, ExportStops, WriteFails, DownloadFails,
         Completed, Void, Waiting
<1>8. ~(Succeed \/ UserLeaves \/ ClientSeesClose)
  BY DEF Succeed, UserLeaves, ClientSeesClose, Disconnect, Live
<1>9. ~FileEndArrives
  <2>1. CASE FileEndArrives
    <3>1. step' = "downloading" /\ current' = None
      BY <1>0, <2>1 DEF FileEndArrives, dialog, Orderly
    <3> QED
      BY <3>1 DEF Expected
  <2> QED
    BY <2>1
<1> QED
  BY <1>2, <1>3, <1>4, <1>5, <1>6, <1>7, <1>8, <1>9 DEF ClientWorks, Arrivals, User

\* A dialog that waits has asked.
LEMMA ClientAsks ==
  ASSUME TypeOK, Orderly, WaitsFor, ClientWorks \/ User
  PROVE  /\ step' \in {"connecting", "clock", "listing"} => request' # None
         /\ step' = "downloading" => current' # None \/ draining' # None
<1>0. nextRequestId # None
  BY DEF TypeOK, Ids
<1>1. CASE Connect \/ ConnectedArrives \/ ClockArrives \/ UserRetries
  <2>1. step' \in {"connecting", "clock", "listing"} /\ request' = nextRequestId
    BY <1>1 DEF Connect, ConnectedArrives, ClockArrives, UserRetries, Ask
  <2> QED
    BY <1>0, <2>1
<1>2. CASE DownloadNext
  BY <1>0, <1>2 DEF DownloadNext
<1>3. CASE FrameArrives \/ Written \/ UserCancels \/ SshClosedArrives \/ OtherArrives
  <2>1. UNCHANGED <<step, request, current, draining>>
    BY <1>3 DEF FrameArrives, Written, UserCancels, SshClosedArrives, OtherArrives, client,
                dialog
  <2> QED
    BY <2>1 DEF WaitsFor
<1>4. CASE \/ ListingArrives \/ RequestFails \/ Start \/ ExportStops \/ WriteFails
           \/ DownloadFails \/ Completed \/ Succeed \/ UserLeaves
  <2>1. step' \in {"preview", "form", "between", "voided", "succeeded", "left"}
    BY <1>4 DEF ListingArrives, RequestFails, Start, ExportStops, WriteFails, DownloadFails,
                Completed, Succeed, UserLeaves, Void
  <2> QED
    BY <2>1
<1>5. CASE FileEndArrives
  <2>1. step' = step /\ step = "downloading" /\ draining' # None
    BY <1>5 DEF FileEndArrives, dialog, Orderly
  <2> QED
    BY <2>1
<1>6. CASE ClientSeesClose
  <2>1. CASE current # None
    BY <1>6, <2>1 DEF ClientSeesClose, Void
  <2>2. CASE current = None
    <3>1. /\ step' = IF request # None THEN "form" ELSE step
          /\ UNCHANGED <<current, draining>>
      BY <1>6, <2>2 DEF ClientSeesClose
    <3> QED
      BY <3>1 DEF WaitsFor
  <2> QED
    BY <2>1, <2>2
<1> QED
  BY <1>1, <1>2, <1>3, <1>4, <1>5, <1>6 DEF ClientWorks, Arrivals, User

-----------------------------------------------------------------------------
(* The last acknowledgement.                                               *)

\* It reaches the bridge.
LEMMA BridgeAcknowledges ==
  ASSUME Intact, Acknowledged, Bridge, Live'
  PROVE  Acknowledged'
<1>0. /\ TypeOK /\ OneOwner /\ OneDownload /\ Live /\ ~destroyed
      /\ UNCHANGED <<current, written>>
      /\ Len(written) \in Nat /\ acked \in Nat
  <2>1. Live
    BY BridgeReads DEF Bridge, client, Live, Intact
  <2> QED
    BY <2>1, TransitTypes DEF Intact, OneDownload, Live, Bridge, client, dialog
<1>1. PICK k \in {0, 1} : Read(k)
  BY <1>0, BridgeReads DEF Live
<1>2. SUFFICES ASSUME download' # None, current = download', acked' < Len(written)
               PROVE  \E i \in Nat : AckSent(i)' /\ toBridge'[i].id = download'
                                                /\ toBridge'[i].n = Len(written)
  BY <1>0 DEF Acknowledged
\* The ack there was is still there, unless it was taken.
<1>3. ASSUME download' = download, acked < Len(written)
      PROVE  \E i \in Nat : /\ AckSent(i)
                            /\ toBridge[i].id = download /\ toBridge[i].n = Len(written)
                            /\ i = 1 \/ \E j \in Nat : AckSent(j)' /\ toBridge'[j] = toBridge[i]
  <2>1. PICK i \in Nat : /\ AckSent(i)
                         /\ toBridge[i].id = download /\ toBridge[i].n = Len(written)
    BY <1>0, <1>2, <1>3 DEF Acknowledged
  <2>2. i = 1 \/ ~(i <= k)
    <3>1. i \in 1..Len(toBridge)
      BY <1>0, <2>1, LenProperties DEF TypeOK, AckSent
    <3> QED
      BY <3>1
  <2>3. CASE ~(i <= k)
    <3>1. PICK j \in Nat : j \in DOMAIN toBridge' /\ toBridge'[j] = toBridge[i]
      BY <1>1, <2>1, <2>3 DEF Read, AckSent
    <3>2. AckSent(j)'
      BY <2>1, <3>1 DEF AckSent
    <3> QED
      BY <2>1, <3>1, <3>2
  <2> QED
    BY <2>1, <2>2, <2>3
<1>4. CASE HandleAck
  <2>1. /\ download' = download
        /\ acked' = IF download = toBridge[1].id THEN AckedAfter(toBridge[1]) ELSE acked
    BY <1>0, <1>4, CallTaken DEF HandleAck
  <2>2. toBridge[1].n \in Nat
    <3>1. 1 \in DOMAIN toBridge
      BY <1>0, <1>4, CallTaken DEF HandleAck
    <3> QED
      BY <1>0, <3>1, TransitTypes
  <2>3. acked < Len(written)
    BY <1>0, <1>2, <2>1, <2>2 DEF AckedAfter
  <2>4. toBridge[1].id = download => toBridge[1].n # Len(written)
    BY <1>0, <1>2, <2>1, <2>2 DEF AckedAfter
  <2> QED
    BY <1>3, <2>1, <2>3, <2>4
<1>5. CASE Handlers /\ ~HandleAck /\ UNCHANGED transfer
  <2>1. acked < Len(written) /\ download' = download
    BY <1>2, <1>5 DEF transfer
  <2>2. ~AckSent(1)
    <3>1. PICK type \in Calls \union {"cancel", "disconnect"} : Receive(type)
      BY <1>5 DEF Handlers, HandleConnect, HandleList, HandleServerTime, HandleDownload,
                  HandleCancel, HandleDisconnect, Calls
    <3>2. toBridge[1].type = type
      BY <1>0, <3>1, CallTaken DEF Receive
    <3> QED
      BY <3>1, <3>2 DEF AckSent, Calls
  <2> QED
    BY <1>3, <2>1, <2>2
<1>6. CASE UNCHANGED toBridge /\ UNCHANGED <<download, acked>>
  BY <1>0, <1>2, <1>6 DEF Acknowledged, AckSent
<1>7. ~\E id \in Ids : FileSizeResolves(id) /\ ~destroyed
  <2>1. ASSUME NEW id \in Ids, FileSizeResolves(id)
        PROVE  FALSE
    <3>1. acked' = 0 /\ Queued(id)
      BY <1>0, <2>1 DEF FileSizeResolves, Settle, Queued
    <3>2. written = <<>>
      BY <1>0, <3>1 DEF Intact, InTransit, TransferFollows
    <3>3. Len(written) = 0
      BY <3>2
    <3> QED
      BY <1>2, <3>1, <3>3
  <2> QED
    BY <2>1
<1>8. Handlers \/ UNCHANGED toBridge
  BY <1>0
     DEF Bridge, BridgeNext, BridgeWorks, BridgeSuffers, SshAnswers, ConnectResolves,
         ConnectRejects, HomeSettles, ListResolves, ServerTimeResolves, FileSizeResolves,
         CallRejects, Settle, wires, Stream, Data, StreamEnds, StreamFails, SshCloses,
         IdleTimeout, LinkBreaks, BridgeSeesClose, Kick, Live
<1>9. HandleAck \/ UNCHANGED transfer \/ (Data /\ UNCHANGED <<toBridge, download, acked>>)
  <2>1. Data => UNCHANGED <<toBridge, download, acked>>
    BY DEF Data
  <2> QED
    BY <1>0, <1>2, <1>7, <2>1, BridgeTransfer
<1> QED
  BY <1>4, <1>5, <1>6, <1>8, <1>9 DEF transfer

\* It is posted when the chunk is written.
LEMMA ClientAcknowledges ==
  ASSUME Intact, Acknowledged, ClientWorks \/ User, Live'
  PROVE  Acknowledged'
<1>0. /\ TypeOK /\ OneOwner /\ Orderly /\ Live /\ UNCHANGED <<download, acked>>
      /\ \A i \in Nat : i \in DOMAIN toBridge =>
           i \in DOMAIN toBridge' /\ toBridge'[i] = toBridge[i]
  BY ClientReads, ClientStepSays DEF Intact, ClientSays, BridgeKept, transfer
<1>1. CASE DownloadNext
  <2>1. current' = nextRequestId /\ nextRequestId \in Nat
    BY <1>0, <1>1 DEF DownloadNext, TypeOK, Ids
  <2>2. download' # nextRequestId
    <3>1. download < nextRequestId /\ download \in Nat
      BY <1>0 DEF OneOwner, TypeOK
    <3> QED
      BY <1>0, <2>1, <3>1
  <2> QED
    BY <2>1, <2>2 DEF Acknowledged
<1>2. CASE Written
  <2>1. CASE current # None
    <3> DEFINE m == Message("ack", current, Len(written'))
    <3>1. Post(<<m>>) /\ current' = current
      BY <1>2, <2>1 DEF Written
    <3>2. Len(written') \in Nat
      <4>1. Head(writes) \in ToClient
        BY <1>0, <1>2, TakeFirst DEF TypeOK, Written
      <4> QED
        BY <1>0, <1>2, <4>1, AppendProperties, LenProperties DEF TypeOK, Written
    <3>3. /\ m \in ToBridge /\ m.type = "ack" /\ m.id = current /\ m.n = Len(written')
      BY <1>0, <3>2, MessageTypes DEF TypeOK, Notices, Message
    <3> HIDE DEF m
    <3>4. PICK i \in Nat : i \in DOMAIN toBridge' /\ toBridge'[i] = m
      BY <1>0, <3>1, <3>3, PostedLast
    <3>5. /\ AckSent(i)' /\ toBridge'[i].id = current'
          /\ toBridge'[i].n = Len(written')
      BY <3>1, <3>3, <3>4 DEF AckSent
    <3> QED
      BY <3>5 DEF Acknowledged
  <2>2. CASE current = None
    BY <1>2, <2>2 DEF Acknowledged, Written
  <2> QED
    BY <2>1, <2>2
<1>3. CASE ~DownloadNext /\ ~Written
  <2>1. written' = written /\ current' \in {current, None}
    BY <1>3
       DEF ClientWorks, Arrivals, User, ConnectedArrives, ClockArrives, ListingArrives,
           RequestFails, FrameArrives, FileEndArrives, DownloadFails, SshClosedArrives,
           OtherArrives, ExportStops, Succeed, WriteFails, Completed, ClientSeesClose, Connect,
           Start, UserCancels, UserRetries, UserLeaves, Void, Disconnect, client, dialog
  <2> QED
    BY <1>0, <2>1 DEF Acknowledged, AckSent
<1> QED
  BY <1>1, <1>2, <1>3

-----------------------------------------------------------------------------
LEMMA StepKeepsWaiting ==
  ASSUME Intact, WaitsFor, [Next]_vars
  PROVE  WaitsFor'
<1>0. TypeOK /\ OneOwner /\ OneDownload /\ Orderly
  BY DEF Intact
<1>1. CASE Bridge
  <2>1. UNCHANGED <<ws, step, request, current, draining>>
    BY <1>1 DEF Bridge, client, dialog
  <2>2. ASSUME Live'
        PROVE  Live /\ Acknowledged'
    <3>1. Live
      BY <1>0, <1>1, <2>1, <2>2, BridgeReads DEF Live
    <3> QED
      BY <1>1, <2>2, <3>1, BridgeAcknowledges DEF WaitsFor
  <2>3. ASSUME Live', Waiting', Expected' # None
        PROVE  Tracked(Expected, step)'
    <3>1. PICK id, s : id = Expected /\ s = step
      OBVIOUS
    <3>2. Waiting /\ Expected' = Expected /\ Expected \in {request, current}
      BY <2>1, <2>3 DEF Waiting, Expected
    <3>3. Tracked(Expected, step)
      BY <2>2, <2>3, <3>2 DEF WaitsFor
    <3>4. Tracked(id, s)
      BY <3>1, <3>3
    <3>5. id \in Ids /\ s \in WaitingSteps
      BY <1>0, <2>3, <3>1, <3>2 DEF TypeOK, Ids, Waiting, WaitingSteps
    <3>6. Tracked(id, s)'
      BY <1>0, <1>1, <2>3, <3>4, <3>5, BridgeTracks
    <3>7. id = Expected' /\ s = step'
      BY <2>1, <3>1, <3>2
    <3> QED
      BY <3>6, <3>7 DEF Tracked, Somewhere
  <2> QED
    BY <2>1, <2>2, <2>3 DEF WaitsFor
<1>2. CASE ClientWorks \/ User
  <2>1. Live' => Live
    BY <1>0, <1>2, ClientReads
  <2>2. Live' => Acknowledged'
    BY <1>2, <2>1, ClientAcknowledges DEF WaitsFor
  <2>3. Live' /\ Waiting' /\ Expected' # None => Tracked(Expected, step)'
    BY <1>2, ClientTracksExpected
  <2> QED
    BY <1>0, <1>2, <2>2, <2>3, ClientAsks DEF WaitsFor
<1>3. CASE UNCHANGED vars
  <2>1. UNCHANGED <<toBridge, toClient, link, operations, download, acked, ws, step, request,
                    current, draining, written>>
    BY <1>3 DEF vars, bridgeVars, wires, transfer, client, dialog
  <2>2. Acknowledged' = Acknowledged
    BY <2>1 DEF Acknowledged, AckSent
  <2>3. /\ Live' = Live /\ Waiting' = Waiting /\ Expected' = Expected
        /\ Tracked(Expected, step)' = Tracked(Expected, step)
    BY <2>1 DEF Live, Waiting, Expected, Tracked, Somewhere, Asked, Answered
  <2> QED
    BY <2>1, <2>2, <2>3 DEF WaitsFor
<1> QED
  BY <1>1, <1>2, <1>3 DEF Next

LEMMA InitWaits == Init => WaitsFor
BY DEF Init, BridgeInit, WaitsFor, Waiting, Acknowledged

LEMMA WaitingGoesOn ==
  ASSUME Intact, WaitsFor
  PROVE  NothingStalls
<1> SUFFICES ASSUME ws, link = "up"
             PROVE  /\ ~destroyed
                    /\ Waiting =>
                         /\ IF draining # None THEN Expected = None ELSE InGoodHands(Expected)
                         /\ \A i \in DOMAIN toClient :
                              toClient[i].type \in Last /\ toClient[i].id = Expected =>
                                toClient[i].type \in Answers[step]
                    /\ download # None /\ Paused =>
                         \/ FramesOut # {} \/ writes # <<>>
                         \/ \E i \in DOMAIN toBridge : toBridge[i].type \in {"ack", "cancel"}
                                                      /\ toBridge[i].id = download
  BY DEF NothingStalls
<1>0. /\ TypeOK /\ OneDownload /\ Orderly /\ Live /\ Settled /\ Acknowledged /\ TransferFollows
      /\ DOMAIN toClient = 1..Len(toClient) /\ Len(toClient) \in Nat
  BY LenProperties DEF Intact, OneDownload, Live, WaitsFor, InTransit, TypeOK
<1>1. ~destroyed
  BY <1>0 DEF OneDownload
<1>2. ASSUME Waiting, draining # None
      PROVE  Expected = None
  BY <1>0, <1>2 DEF Orderly, Expected
<1>3. ASSUME Waiting, draining = None
      PROVE  InGoodHands(Expected)
  <2>1. Expected # None
    BY <1>3 DEF Waiting, Expected, WaitsFor
  <2>2. Somewhere(Expected)
    BY <1>0, <1>3, <2>1 DEF WaitsFor, Tracked
  <2> QED
    BY <2>2 DEF Somewhere, InGoodHands, Asked, Answered
<1>4. ASSUME Waiting, NEW i \in DOMAIN toClient, toClient[i].type \in Last,
             toClient[i].id = Expected
      PROVE  toClient[i].type \in Answers[step]
  <2>1. i \in Nat /\ Answered(i)
    BY <1>0, <1>4 DEF Answered
  <2>2. toClient[i] \in ToClient
    BY <1>0, <2>1, TransitTypes DEF Answered
  <2>3. Expected # None
    BY <1>4, <2>2, AnswerHasId DEF Ids
  <2>4. Tracked(Expected, step)
    BY <1>0, <1>4, <2>3 DEF WaitsFor
  <2> QED
    BY <1>4, <2>1, <2>4 DEF Tracked
<1>5. ASSUME download # None, Paused, FramesOut = {}, writes = <<>>
      PROVE  \E i \in DOMAIN toBridge : toBridge[i].type \in {"ack", "cancel"}
                                       /\ toBridge[i].id = download
  <2>1. CASE current = download
    <3>1. \A i \in Nat : ~Frame(i)
      BY <1>0, <1>5 DEF FramesOut, Frame
    <3>2. /\ InHand = Len(written) /\ Len(written) \in Nat /\ sent \in Nat /\ acked \in Nat
          /\ Window \in Nat /\ Window > 0 /\ InHand <= sent
      BY <1>0, <1>5, TransitTypes, BridgeAssumption DEF InHand, TransferFollows
    <3>3. \A m \in (InHand + 1)..sent : FALSE
      BY <1>0, <1>5, <2>1, <3>1 DEF TransferFollows
    <3>4. sent <= InHand
      BY <3>2, <3>3
    <3>5. acked < Len(written)
      BY <1>5, <3>2, <3>4 DEF Paused
    <3>6. PICK i \in Nat : AckSent(i) /\ toBridge[i].id = download
      BY <1>0, <1>5, <2>1, <3>5 DEF Acknowledged
    <3> QED
      BY <3>6 DEF AckSent
  <2>2. CASE current # download
    <3>1. Held(download) /\ download \in Ids
      BY <1>0, <1>5 DEF Held, TypeOK, Ids
    <3>2. PICK i \in Nat : Cancelled(i, download)
      BY <1>0, <2>2, <3>1 DEF Settled, Cancelling
    <3> QED
      BY <3>2 DEF Cancelled
  <2> QED
    BY <2>1, <2>2
<1> QED
  BY <1>1, <1>2, <1>3, <1>4, <1>5

\* While the WebSocket is there no answer, acknowledgement or cancel the other side
\* needs is missing: what the dialog waits for is on its way to the bridge, with the
\* SSH layer, being transferred or answered, in terms the dialog understands; and a
\* full window is emptied by something that is on its way.  WaitEnds adds to this
\* that what is on its way arrives.
THEOREM ExportNeverStalls == Spec => []NothingStalls
<1>1. Init => Intact /\ WaitsFor
  BY InitIntact, InitWaits
<1>2. Intact /\ WaitsFor /\ [Next]_vars => (Intact /\ WaitsFor)'
  BY StepKeepsIntact, StepKeepsWaiting
<1>3. Intact /\ WaitsFor => NothingStalls
  BY WaitingGoesOn
<1> QED
  BY <1>1, <1>2, <1>3, PTL DEF Spec
=============================================================================
