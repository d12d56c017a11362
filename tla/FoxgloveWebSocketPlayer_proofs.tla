--------------------- MODULE FoxgloveWebSocketPlayer_proofs ---------------------
(***************************************************************************)
(* What holds of FoxgloveWebSocketPlayer for all topics, channels and      *)
(* times and for every number of calls and events, however the             *)
(* connection is lost and made anew: once what was sent has arrived, the   *)
(* server sends exactly what is wanted, frames do not mix times, and no    *)
(* asset or service call is lost on its way.                               *)
(*                                                                         *)
(* The argument is about the wire.  What the server sends of a channel     *)
(* alternates between "advertise" and "unadvertise", the last of it tells  *)
(* whether the server has the channel, and the first, if the player has    *)
(* the channel, is that it is withdrawn.  So the player's view of a        *)
(* channel of which nothing is on the wire is the server's.                *)
(***************************************************************************)
EXTENDS FoxgloveWebSocketPlayer, SequenceTheorems, FiniteSetTheorems, TLAPS

\* A message is about a channel.
About(m, c) ==
  \/ m.op = "advertise" /\ c \in m.channels
  \/ m.op = "unadvertise" /\ m.channel = c

\* Nothing is on its way about the channel.
Silent(s, c) == \A k \in 1..Len(s) : ~About(s[k], c)

\* The last that is on its way about the channel tells whether the server has it.
LastTells(s, c, has) ==
  \A k \in 1..Len(s) :
    About(s[k], c) /\ (\A j \in 1..Len(s) : j > k => ~About(s[j], c)) =>
      (has <=> s[k].op = "advertise")

\* What is on its way about the channel alternates.
Alternates(s, c) ==
  \A i, k \in 1..Len(s) :
    /\ i < k /\ About(s[i], c) /\ About(s[k], c)
    /\ \A j \in 1..Len(s) : i < j /\ j < k => ~About(s[j], c)
    => s[i].op # s[k].op

\* The first that is on its way about the channel is that it is withdrawn.
WithdrawnFirst(s, c) ==
  \A k \in 1..Len(s) :
    About(s[k], c) /\ (\A j \in 1..Len(s) : j < k => ~About(s[j], c)) =>
      s[k].op = "unadvertise"

-----------------------------------------------------------------------------
(* Lemmas about what is on the wire.                                       *)

\* Messages have the fields of their kind.
LEMMA WireFields ==
  ASSUME NEW m \in Wire
  PROVE  /\ m.op = "advertise" => m.channels \subseteq Channels
         /\ m.op = "unadvertise" => m.channel \in Channels
         /\ m.op = "time" => m.time \in Times
         /\ m.op = "serverInfo" => m.session \in Nat
         /\ m.op \in {"call", "fetch"} => m.request \in Nat
BY DEF Wire

\* A message that is not about the channel may be sent.
LEMMA SendOther ==
  ASSUME NEW s \in Seq(Wire), NEW m \in Wire, NEW c, NEW has, ~About(m, c)
  PROVE  /\ LastTells(s, c, has) => LastTells(Append(s, m), c, has)
         /\ Alternates(s, c) => Alternates(Append(s, m), c)
         /\ WithdrawnFirst(s, c) => WithdrawnFirst(Append(s, m), c)
         /\ Silent(Append(s, m), c) <=> Silent(s, c)
<1> DEFINE t == Append(s, m)
           n == Len(s)
<1>1. n \in Nat /\ Len(t) = n + 1 /\ t[n + 1] = m /\ \A k \in 1..n : t[k] = s[k]
  BY AppendProperties
<1> HIDE DEF t, n
<1>2. ~About(t[n + 1], c) /\ \A k \in 1..n : About(t[k], c) <=> About(s[k], c)
  BY <1>1
<1>3. Silent(t, c) <=> Silent(s, c)
  BY <1>1, <1>2 DEF Silent, n
<1>4. LastTells(s, c, has) => LastTells(t, c, has)
  BY <1>1, <1>2 DEF LastTells, n
<1>5. Alternates(s, c) => Alternates(t, c)
  BY <1>1, <1>2 DEF Alternates, n
<1>6. WithdrawnFirst(s, c) => WithdrawnFirst(t, c)
  BY <1>1, <1>2 DEF WithdrawnFirst, n
<1> QED
  BY <1>3, <1>4, <1>5, <1>6 DEF t

\* A message that is about the channel is sent, and contradicts the last one.
LEMMA SendAbout ==
  ASSUME NEW s \in Seq(Wire), NEW m \in Wire, NEW c, NEW has \in BOOLEAN, About(m, c),
         LastTells(s, c, has), Alternates(s, c), m.op = "advertise" <=> ~has
  PROVE  /\ LastTells(Append(s, m), c, ~has)
         /\ Alternates(Append(s, m), c)
         /\ ~Silent(Append(s, m), c)
         /\ WithdrawnFirst(s, c) /\ (Silent(s, c) => has) => WithdrawnFirst(Append(s, m), c)
<1> DEFINE t == Append(s, m)
           n == Len(s)
<1>1. n \in Nat /\ Len(t) = n + 1 /\ t[n + 1] = m /\ \A k \in 1..n : t[k] = s[k]
  BY AppendProperties
<1> HIDE DEF t, n
<1>2. About(t[n + 1], c) /\ \A k \in 1..n : About(t[k], c) <=> About(s[k], c)
  BY <1>1
<1>3. ~Silent(t, c)
  BY <1>1, <1>2 DEF Silent
<1>4. LastTells(t, c, ~has)
  BY <1>1, <1>2 DEF LastTells
<1>5. Alternates(t, c)
  <2> SUFFICES ASSUME NEW i \in 1..(n + 1), NEW k \in 1..(n + 1),
                      i < k, About(t[i], c), About(t[k], c),
                      \A j \in 1..(n + 1) : i < j /\ j < k => ~About(t[j], c)
               PROVE  t[i].op # t[k].op
    BY <1>1 DEF Alternates
  <2>1. CASE k \in 1..n
    BY <1>1, <1>2, <2>1 DEF Alternates, n
  <2>2. CASE k = n + 1
    <3>1. i \in 1..n
      BY <1>1, <2>2
    <3>2. \A j \in 1..n : j > i => ~About(s[j], c)
      BY <1>1, <1>2, <2>2
    <3>3. has <=> s[i].op = "advertise"
      BY <1>2, <3>1, <3>2 DEF LastTells, n
    <3> QED
      BY <1>1, <2>2, <3>1, <3>3
  <2> QED
    BY <1>1, <2>1, <2>2
<1>6. WithdrawnFirst(s, c) /\ (Silent(s, c) => has) => WithdrawnFirst(t, c)
  <2> SUFFICES ASSUME WithdrawnFirst(s, c), Silent(s, c) => has, NEW k \in 1..(n + 1),
                      About(t[k], c), \A j \in 1..(n + 1) : j < k => ~About(t[j], c)
               PROVE  t[k].op = "unadvertise"
    BY <1>1 DEF WithdrawnFirst
  <2>1. CASE k \in 1..n
    BY <1>1, <1>2, <2>1 DEF WithdrawnFirst, n
  <2>2. CASE k = n + 1
    <3>1. Silent(s, c)
      BY <1>1, <1>2, <2>2 DEF Silent, n
    <3> QED
      BY <1>1, <2>2, <3>1 DEF About
  <2> QED
    BY <1>1, <2>1, <2>2
<1> QED
  BY <1>3, <1>4, <1>5, <1>6 DEF t

\* The first message arrives.
LEMMA Arrives ==
  ASSUME NEW s \in Seq(Wire), s # <<>>, NEW c, NEW has \in BOOLEAN,
         LastTells(s, c, has), Alternates(s, c)
  PROVE  /\ LastTells(Tail(s), c, has)
         /\ Alternates(Tail(s), c)
         /\ ~About(Head(s), c) =>
              /\ Silent(Tail(s), c) <=> Silent(s, c)
              /\ WithdrawnFirst(s, c) => WithdrawnFirst(Tail(s), c)
         /\ About(Head(s), c) =>
              /\ Silent(Tail(s), c) => (has <=> Head(s).op = "advertise")
              /\ WithdrawnFirst(s, c) => Head(s).op = "unadvertise"
              /\ Head(s).op = "advertise" => WithdrawnFirst(Tail(s), c)
<1> DEFINE t == Tail(s)
           n == Len(t)
<1>1. /\ n \in Nat /\ Len(s) = n + 1 /\ Head(s) = s[1]
      /\ \A k \in 1..n : t[k] = s[k + 1]
  BY HeadTailProperties, LenProperties, EmptySeq
<1> HIDE DEF t, n
<1>2. \A k \in 1..n : About(t[k], c) <=> About(s[k + 1], c)
  BY <1>1
<1>3. \A k \in 2..(n + 1) : k - 1 \in 1..n /\ s[k] = t[k - 1] /\ (About(s[k], c) <=> About(t[k - 1], c))
  BY <1>1
<1>4. LastTells(t, c, has)
  <2> SUFFICES ASSUME NEW k \in 1..n, About(t[k], c), \A j \in 1..n : j > k => ~About(t[j], c)
               PROVE  has <=> t[k].op = "advertise"
    BY DEF LastTells, n
  <2>1. \A j \in 1..(n + 1) : j > k + 1 => ~About(s[j], c)
    BY <1>1, <1>3
  <2>2. k + 1 \in 1..(n + 1) /\ About(s[k + 1], c) /\ s[k + 1] = t[k]
    BY <1>1, <1>2
  <2> QED
    BY <1>1, <2>1, <2>2 DEF LastTells
<1>5. Alternates(t, c)
  <2> SUFFICES ASSUME NEW i \in 1..n, NEW k \in 1..n, i < k, About(t[i], c), About(t[k], c),
                      \A j \in 1..n : i < j /\ j < k => ~About(t[j], c)
               PROVE  t[i].op # t[k].op
    BY DEF Alternates, n
  <2>1. \A j \in 1..(n + 1) : i + 1 < j /\ j < k + 1 => ~About(s[j], c)
    BY <1>1, <1>3
  <2>2. /\ i + 1 \in 1..(n + 1) /\ About(s[i + 1], c) /\ s[i + 1] = t[i]
        /\ k + 1 \in 1..(n + 1) /\ About(s[k + 1], c) /\ s[k + 1] = t[k]
        /\ i + 1 < k + 1
    BY <1>1, <1>2
  <2> QED
    BY <1>1, <2>1, <2>2 DEF Alternates
<1>6. ASSUME ~About(s[1], c)
      PROVE  /\ Silent(t, c) <=> Silent(s, c)
             /\ WithdrawnFirst(s, c) => WithdrawnFirst(t, c)
  <2>1. Silent(s, c) => Silent(t, c)
    BY <1>1, <1>2 DEF Silent, n
  <2>2. Silent(t, c) => Silent(s, c)
    BY <1>1, <1>3, <1>6 DEF Silent, n
  <2>3. ASSUME WithdrawnFirst(s, c), NEW k \in 1..n, About(t[k], c),
               \A j \in 1..n : j < k => ~About(t[j], c)
        PROVE  t[k].op = "unadvertise"
    <3>1. \A j \in 1..(n + 1) : j < k + 1 => ~About(s[j], c)
      BY <1>1, <1>3, <1>6, <2>3
    <3>2. k + 1 \in 1..(n + 1) /\ About(s[k + 1], c) /\ s[k + 1] = t[k]
      BY <1>1, <1>2, <2>3
    <3> QED
      BY <1>1, <2>3, <3>1, <3>2 DEF WithdrawnFirst
  <2> QED
    BY <2>1, <2>2, <2>3 DEF WithdrawnFirst, n
<1>7. ASSUME About(s[1], c)
      PROVE  /\ Silent(t, c) => (has <=> s[1].op = "advertise")
             /\ WithdrawnFirst(s, c) => s[1].op = "unadvertise"
             /\ s[1].op = "advertise" => WithdrawnFirst(t, c)
  <2>1. 1 \in 1..Len(s)
    BY <1>1
  <2>2. ASSUME Silent(t, c)
        PROVE  has <=> s[1].op = "advertise"
    <3>1. \A j \in 1..Len(s) : j > 1 => ~About(s[j], c)
      BY <1>1, <1>3, <2>2 DEF Silent, n
    <3> QED
      BY <1>7, <2>1, <3>1 DEF LastTells
  <2>3. WithdrawnFirst(s, c) => s[1].op = "unadvertise"
    BY <1>1, <1>7, <2>1 DEF WithdrawnFirst
  <2>4. ASSUME s[1].op = "advertise", NEW k \in 1..n, About(t[k], c),
               \A j \in 1..n : j < k => ~About(t[j], c)
        PROVE  t[k].op = "unadvertise"
    <3>1. \A j \in 1..Len(s) : 1 < j /\ j < k + 1 => ~About(s[j], c)
      BY <1>1, <1>3, <2>4
    <3>2. k + 1 \in 1..Len(s) /\ 1 < k + 1 /\ About(s[k + 1], c) /\ s[k + 1] = t[k]
      BY <1>1, <1>2, <2>4
    <3>3. s[1].op # s[k + 1].op
      BY <1>7, <2>1, <3>1, <3>2 DEF Alternates
    <3> QED
      BY <2>4, <3>2, <3>3 DEF About
  <2> QED
    BY <2>2, <2>3, <2>4 DEF WithdrawnFirst, n
<1> QED
  BY <1>1, <1>4, <1>5, <1>6, <1>7 DEF t
-----------------------------------------------------------------------------
(* The invariant.                                                          *)

\* Topics with a subscription.
Resolved == {t \in Topics : byTopic[t] # 0}

\* Subscription ids are given once on a connection.
IdsAreFresh ==
  /\ nextSub >= 1
  /\ Connected =>
       \A t \in Topics : byTopic[t] < nextSub /\
         \A u \in Topics : byTopic[t] = byTopic[u] /\ byTopic[t] # 0 => t = u

\* A topic's channel is on the topic, a subscription is to the topic's channel, and a topic
\* that has a channel does not wait for one.
ChannelsAreKnown ==
  Connected =>
    \A t \in Topics : /\ channels[t] # 0 => TopicOf[channels[t]] = t
                      /\ byTopic[t] # 0 => channels[t] # 0
                      /\ t \in unresolved => channels[t] = 0

\* What is wanted is subscribed to or waits, and nothing else but what was revived.
WantedIsKept ==
  /\ unresolved \subseteq wanted \cup revived
  /\ wanted \subseteq unresolved \cup Resolved
  /\ Connected => Resolved \subseteq wanted \cup revived

\* The server's subscriptions are the player's.
ServedIsHeld ==
  /\ served \subseteq byId
  /\ ~Connected => served = {} /\ toClient = <<>>

\* The player's view of a channel, and what is on the wire about it, agree with the server.
ChannelAgrees(c) ==
  /\ LastTells(toClient, c, c \in offered)
  /\ Alternates(toClient, c)
  /\ channels[TopicOf[c]] = c => WithdrawnFirst(toClient, c)
  /\ Silent(toClient, c) =>
       /\ channels[TopicOf[c]] = c => c \in offered
       /\ c \in offered /\ TopicOf[c] \notin shadowed => channels[TopicOf[c]] = c

\* So do its subscriptions to channels that are not about to be withdrawn.
WireAgrees ==
  Connected =>
    /\ \A c \in Channels : ChannelAgrees(c)
    /\ \A r \in byId : Silent(toClient, r[2]) => r \in served

SubscriptionsAgree ==
  /\ IdsAreFresh /\ ChannelsAreKnown /\ WantedIsKept /\ ServedIsHeld /\ WireAgrees

\* What panels publish is advertised to the server.
PublishedAgrees == Connected => published = publications

\* A connection begins with the server's greeting, and no message waits before it.
GreetingIsFirst ==
  \A k \in 1..Len(toClient) : toClient[k].op = "serverInfo" => k = 1 /\ messages = <<>>

\* The inductive invariant.
IInv == TypeOK /\ SubscriptionsAgree /\ PublishedAgrees /\ GreetingIsFirst /\ FramesAreOfOneTime

-----------------------------------------------------------------------------
(* Lemmas about the operators of the model.                                *)

\* A state that is emitted takes all messages, or none.
LEMMA Emits ==
  ASSUME TypeOK, NEW n \in Nat, NEW msgs \in Seq(Message), Emit(n, msgs)
  PROVE  /\ messages' \in Seq(Message) /\ messages' \in {msgs, <<>>}
         /\ emitting' \in BOOLEAN /\ again' \in BOOLEAN
<1>1. <<>> \in Seq(Message)
  BY EmptySeq
<1>2. CASE emitting
  <2>1. messages' = msgs /\ again' = TRUE /\ emitting' = emitting
    BY <1>2 DEF Emit
  <2> QED
    BY <1>2, <2>1
<1>3. CASE ~emitting
  <2>1. messages' = Left(msgs) /\ again' = (n > 1) /\ emitting' = TRUE
    BY <1>3 DEF Emit
  <2>2. messages' \in {msgs, <<>>}
    BY <2>1 DEF Left
  <2>3. (n > 1) \in BOOLEAN
    OBVIOUS
  <2>4. again' \in BOOLEAN
    BY <2>1, <2>3, Zenon
  <2>5. messages' \in Seq(Message)
    BY <1>1, <2>2
  <2> QED
    BY <2>1, <2>2, <2>4, <2>5, Zenon
<1> QED
  BY <1>2, <1>3

\* Frames stay in order if messages are kept while time goes on, or dropped.
LEMMA FramesKept ==
  ASSUME TypeOK, FramesAreOfOneTime, clock' \in Nat,
         messages' = <<>> \/ (messages' = messages /\ clock' >= clock)
  PROVE  FramesAreOfOneTime'
<1>1. messages \in Seq(Message) /\ clock \in Nat
  BY DEF TypeOK
<1>2. \A k \in DOMAIN messages : messages[k].time \in Nat
  <2>1. DOMAIN messages = 1..Len(messages)
    BY <1>1, LenProperties
  <2>2. \A k \in 1..Len(messages) : messages[k] \in Message
    BY <1>1, ElementOfSeq
  <2>3. \A m \in Message : m.time \in Nat
    BY DEF Message
  <2> QED
    BY <2>1, <2>2, <2>3
<1>3. CASE messages' = <<>>
  BY <1>3, EmptySeq DEF FramesAreOfOneTime
<1>4. CASE messages' = messages /\ clock' >= clock
  BY <1>1, <1>2, <1>4 DEF FramesAreOfOneTime
<1> QED
  BY <1>3, <1>4

\* Subscribing gives every topic that has a channel an id of its own.
LEMMA SubscribeTypes ==
  ASSUME TypeOK, NEW todo \in SUBSET Topics, NEW cs \in [Topics -> Channels \cup {0}],
         NEW byT \in [Topics -> Nat], NEW byI \in SUBSET (Nat \X Channels),
         NEW onServer \in SUBSET (Nat \X Channels),
         Subscribe(todo, cs, byT, byI, onServer)
  PROVE  /\ nextSub' \in Nat /\ nextSub' >= nextSub
         /\ unresolved' = {t \in todo : cs[t] = 0}
         /\ byTopic' \in [Topics -> Nat]
         /\ byId' \subseteq Nat \X Channels
         /\ served' \subseteq Nat \X Channels
         /\ ~Connected => served' = onServer
         /\ nextSub >= 1 => {t \in Topics : byTopic'[t] # 0}
                              = {t \in Topics : byT[t] # 0 \/ (t \in todo /\ cs[t] # 0)}
<1> DEFINE found == {t \in todo : cs[t] # 0}
           size == Cardinality(found)
<1>1. size \in Nat
  BY PlayerAssumption, FS_Subset, FS_CardinalityType
<1>2. nextSub \in Nat
  BY DEF TypeOK
<1> HIDE DEF size
<1>3. PICK n \in [found -> nextSub..(nextSub + size - 1)] :
         /\ nextSub' = nextSub + size
         /\ unresolved' = todo \ found
         /\ byTopic' = [t \in Topics |-> IF t \in found THEN n[t] ELSE byT[t]]
         /\ byId' = {r \in byI : \A t \in found : r[1] # n[t]}
                      \cup {<<n[t], cs[t]>> : t \in found}
         /\ served' = IF Connected
                      THEN onServer \cup {<<n[t], cs[t]>> : t \in {u \in found : cs[u] \in offered}}
                      ELSE onServer
  BY DEF Subscribe, size
<1>4. \A t \in found : n[t] \in Nat /\ n[t] >= nextSub /\ cs[t] \in Channels
  BY <1>1, <1>2, <1>3
<1>5. byTopic' \in [Topics -> Nat]
  BY <1>3, <1>4
<1>6. byId' \subseteq Nat \X Channels /\ served' \subseteq Nat \X Channels
  BY <1>3, <1>4
<1>7. nextSub >= 1 => {t \in Topics : byTopic'[t] # 0}
                        = {t \in Topics : byT[t] # 0 \/ (t \in todo /\ cs[t] # 0)}
  BY <1>2, <1>3, <1>4
<1> QED
  BY <1>1, <1>2, <1>3, <1>5, <1>6, <1>7

\* Ids have been given, once.
Distinct(byT, n) ==
  \A t \in Topics : byT[t] < n /\ \A u \in Topics : byT[t] = byT[u] /\ byT[t] # 0 => t = u

\* What is subscribed to by topic is by id.
SameById(byT, cs, byI) == byI = {<<byT[t], cs[t]>> : t \in {u \in Topics : byT[u] # 0}}

\* There may be subscribed to topics that have no subscription.
Ready(todo, cs, byT, byI, onServer) ==
  /\ todo \in SUBSET Topics /\ cs \in [Topics -> Channels \cup {0}]
  /\ byT \in [Topics -> Nat] /\ byI \in SUBSET (Nat \X Channels)
  /\ onServer \in SUBSET byI
  /\ Distinct(byT, nextSub) /\ SameById(byT, cs, byI)
  /\ \A t \in todo : byT[t] = 0

\* On a connection it keeps ids and channels in agreement, and the server has what is new
\* of the channels it has.
LEMMA SubscribeAgrees ==
  ASSUME TypeOK, Connected, nextSub >= 1, NEW todo, NEW cs, NEW byT, NEW byI, NEW onServer,
         Ready(todo, cs, byT, byI, onServer), Subscribe(todo, cs, byT, byI, onServer)
  PROVE  /\ Distinct(byTopic', nextSub') /\ SameById(byTopic', cs, byId')
         /\ served' \subseteq byId' /\ onServer \subseteq served'
         /\ \A r \in byId' : r \in byI \/ (r[2] \in offered => r \in served')
<1> USE DEF Distinct, SameById, Ready
<1> DEFINE found == {t \in todo : cs[t] # 0}
           size == Cardinality(found)
<1>1. size \in Nat
  BY PlayerAssumption, FS_Subset, FS_CardinalityType
<1>2. nextSub \in Nat
  BY DEF TypeOK
<1> HIDE DEF size
<1>3. PICK n \in [found -> nextSub..(nextSub + size - 1)] :
         /\ \A t, u \in found : n[t] = n[u] => t = u
         /\ nextSub' = nextSub + size
         /\ byTopic' = [t \in Topics |-> IF t \in found THEN n[t] ELSE byT[t]]
         /\ byId' = {r \in byI : \A t \in found : r[1] # n[t]}
                      \cup {<<n[t], cs[t]>> : t \in found}
         /\ served' = onServer \cup {<<n[t], cs[t]>> : t \in {u \in found : cs[u] \in offered}}
  BY DEF Subscribe, size
<1>4. \A t \in found : /\ n[t] \in Nat /\ n[t] >= nextSub /\ n[t] < nextSub + size
                       /\ cs[t] \in Channels /\ t \in Topics /\ byT[t] = 0
  BY <1>1, <1>2, <1>3
<1>5. \A t \in Topics : byTopic'[t] = IF t \in found THEN n[t] ELSE byT[t]
  BY <1>3
<1>6. \A t \in Topics : byTopic'[t] < nextSub'
  BY <1>1, <1>2, <1>3, <1>4, <1>5
<1>7. ASSUME NEW t \in Topics, NEW u \in Topics, byTopic'[t] = byTopic'[u], byTopic'[t] # 0
      PROVE  t = u
  BY <1>2, <1>3, <1>4, <1>5, <1>7
<1>8. \A r \in byI : \A t \in found : r[1] # n[t]
  BY <1>2, <1>4
<1>9. byId' = byI \cup {<<n[t], cs[t]>> : t \in found}
  BY <1>3, <1>8
<1>10. \A r \in byId' : r \in {<<byTopic'[t], cs[t]>> : t \in {u \in Topics : byTopic'[u] # 0}}
  <2>1. ASSUME NEW r \in byI
        PROVE  r \in {<<byTopic'[t], cs[t]>> : t \in {u \in Topics : byTopic'[u] # 0}}
    <3>1. PICK t \in Topics : byT[t] # 0 /\ r = <<byT[t], cs[t]>>
      BY <2>1
    <3>2. byTopic'[t] = byT[t]
      BY <1>4, <1>5, <3>1
    <3> QED
      BY <3>1, <3>2
  <2>2. ASSUME NEW t \in found
        PROVE  <<n[t], cs[t]>> \in {<<byTopic'[u], cs[u]>> : u \in {v \in Topics : byTopic'[v] # 0}}
    BY <1>2, <1>4, <1>5, <2>2
  <2> QED
    BY <1>9, <2>1, <2>2
<1>11. ASSUME NEW t \in Topics, byTopic'[t] # 0
       PROVE  <<byTopic'[t], cs[t]>> \in byId'
  BY <1>5, <1>9, <1>11
<1>12. byId' = {<<byTopic'[t], cs[t]>> : t \in {u \in Topics : byTopic'[u] # 0}}
  BY <1>10, <1>11
<1>13. served' \subseteq byId' /\ onServer \subseteq served'
  BY <1>3, <1>9
<1>14. \A r \in byId' : r \in byI \/ (r[2] \in offered => r \in served')
  BY <1>3, <1>9
<1> QED
  BY <1>6, <1>7, <1>12, <1>13, <1>14

-----------------------------------------------------------------------------
(* Types.                                                                  *)

\* TypeOK, but for what is true or false, and for the player's subscriptions.
Shapes ==
  /\ offered \subseteq Channels
  /\ served \subseteq Nat \X Channels /\ byId \subseteq Nat \X Channels
  /\ published \subseteq Topics /\ publications \subseteq Topics /\ toPublish \subseteq Topics
  /\ owed \subseteq {"call", "fetch"} \X Nat /\ settled \subseteq {"call", "fetch"} \X Nat
  /\ toClient \in Seq(Wire)
  /\ client \in {"none", "connecting", "open"}
  /\ unresolved \subseteq Topics /\ wanted \subseteq Topics /\ revived \subseteq Topics
  /\ byTopic \in [Topics -> Nat] /\ channels \in [Topics -> Channels \cup {0}]
  /\ callbacks \subseteq Nat /\ forgotten \subseteq Nat /\ fetches \subseteq Nat
  /\ fetched \in [Uris -> Nat]
  /\ messages \in Seq(Message)
  /\ {id, serverSession, nextSub, nextCall, nextFetch, clock, seeks, calls, events} \subseteq Nat

Flags ==
  /\ known \in BOOLEAN /\ mayPublish \in BOOLEAN /\ mayCall \in BOOLEAN
  /\ emitting \in BOOLEAN /\ again \in BOOLEAN

\* On a connection the player has a subscription under its id and under its topic.
Filed == Connected => byId = {<<byTopic[t], channels[t]>> : t \in {u \in Topics : byTopic[u] # 0}}

LEMMA TypesSplit == TypeOK <=> Shapes /\ Flags /\ Filed
BY DEF TypeOK, Shapes, Flags, Filed

\* What a session leaves unsettled are fetches.
LEMMA RejectsTypes ==
  ASSUME TypeOK
  PROVE  RejectFetches \subseteq {"call", "fetch"} \X Nat
<1>1. settled \subseteq {"call", "fetch"} \X Nat /\ fetches \subseteq Nat
  BY DEF TypeOK
<1>2. {<<"fetch", n>> : n \in fetches} \subseteq {"call", "fetch"} \X Nat
  BY <1>1
<1> QED
  BY <1>1, <1>2 DEF RejectFetches

\* What arrives is the rest of what was sent.
LEMMA Received ==
  ASSUME TypeOK, NEW op, Receive(op)
  PROVE  /\ toClient' \in Seq(Wire) /\ toClient # <<>> /\ toClient' = Tail(toClient)
         /\ Head(toClient) \in Wire /\ Head(toClient).op = op
         /\ Connected /\ Connected'
<1>1. toClient \in Seq(Wire) /\ toClient # <<>> /\ toClient' = Tail(toClient)
  BY DEF TypeOK, Receive
<1>2. Head(toClient) \in Wire /\ Tail(toClient) \in Seq(Wire)
  BY <1>1, HeadTailProperties
<1> QED
  BY <1>1, <1>2 DEF Receive, Connected

\* What is sent is added to what is on its way.
LEMMA Sent ==
  ASSUME TypeOK, NEW m \in Wire, Sends(m)
  PROVE  toClient' \in Seq(Wire)
BY AppendProperties DEF TypeOK, Sends

LEMMA ConnectionTypes ==
  ASSUME TypeOK,
         Open \/ Opened \/ (\E restart \in BOOLEAN : ConnectionCloses(restart)) \/ ListenerResolves
  PROVE  Shapes'
<1>1. CASE Open
  <2>1. UNCHANGED <<offered, served, published, owed, serverSession, toClient, events>>
    BY <1>1 DEF Open, server
  <2>2. UNCHANGED <<unresolved, byTopic, byId, wanted, revived, channels, toPublish, publications>>
    BY <1>1 DEF Open, topics, publishing
  <2>3. UNCHANGED <<callbacks, nextCall, forgotten, fetches, nextFetch, fetched, settled>>
    BY <1>1 DEF Open, services, assets
  <2>4. UNCHANGED <<messages, clock, seeks, id, calls>> /\ client' = "connecting" /\ nextSub' = 1
    BY <1>1 DEF Open, emission, time
  <2> QED
    BY <2>1, <2>2, <2>3, <2>4, TypesSplit DEF Shapes
<1>2. CASE Opened
  <2>1. RejectFetches \subseteq {"call", "fetch"} \X Nat
    BY RejectsTypes
  <2>2. Resubscribed \subseteq Topics
    BY DEF Resubscribed, TypeOK
  <2>3. <<[op |-> "serverInfo", session |-> serverSession],
          [op |-> "advertise", channels |-> offered]>> \in Seq(Wire)
    BY DEF TypeOK, Wire
  <2>4. <<>> \in Seq(Message)
    BY EmptySeq
  <2> QED
    BY <1>2, <2>1, <2>2, <2>3, <2>4
       DEF Opened, ResetSessionState, TypeOK, Shapes
<1>3. ASSUME NEW restart \in BOOLEAN, ConnectionCloses(restart)
      PROVE  Shapes'
  <2>1. Emit(1, messages)
    BY <1>3 DEF ConnectionCloses
  <2>2. messages' \in Seq(Message) /\ emitting' \in BOOLEAN /\ again' \in BOOLEAN
    BY <2>1, Emits DEF TypeOK
  <2>3. toClient' \in Seq(Wire)
    BY <1>3, EmptySeq DEF ConnectionCloses
  <2>4. UNCHANGED <<unresolved, byTopic, byId, nextSub, wanted, revived, channels, toPublish,
                    publications, id, calls>>
    BY <1>3 DEF ConnectionCloses, subscriptions, publishing
  <2>5. UNCHANGED <<callbacks, nextCall, forgotten, fetches, nextFetch, fetched, settled, clock, seeks>>
    BY <1>3 DEF ConnectionCloses, services, assets, time
  <2>6. /\ served' = {} /\ published' = {} /\ owed' = {} /\ client' = "none"
        /\ offered' \subseteq Channels /\ events' \in Nat /\ serverSession' \in Nat
    <3>1. offered \subseteq Channels /\ events \in Nat /\ serverSession \in Nat
      BY DEF TypeOK
    <3>2. events + 1 \in Nat /\ serverSession + 1 \in Nat
      BY <3>1
    <3> QED
      BY <1>3, <3>1, <3>2, PlayerAssumption DEF ConnectionCloses
  <2> QED
    BY <2>2, <2>3, <2>4, <2>5, <2>6, TypesSplit DEF Shapes
<1>4. CASE ListenerResolves
  <2>1. messages' \in Seq(Message)
    BY <1>4, EmptySeq DEF ListenerResolves, Left, TypeOK
  <2> QED
    BY <1>4, <2>1
       DEF ListenerResolves, TypeOK, Shapes, server, subscriptions, topics, publishing, services,
           assets, time, connection
<1> QED
  BY <1>1, <1>2, <1>3, <1>4

LEMMA CallTypes ==
  ASSUME TypeOK,
         \/ \E ts \in Selections : SetSubscriptions(ts)
         \/ \E ts \in Published : SetPublishers(ts)
         \/ CallService
         \/ \E u \in Uris : FetchAsset(u)
  PROVE  Shapes'
<1>1. ASSUME NEW ts \in Selections, SetSubscriptions(ts)
      PROVE  Shapes'
  <2>1. ts \subseteq Topics
    BY PlayerAssumption
  <2>2. /\ nextSub' \in Nat /\ unresolved' \subseteq Topics /\ byTopic' \in [Topics -> Nat]
        /\ byId' \subseteq Nat \X Channels /\ served' \subseteq Nat \X Channels
    <3>1. CASE client = "none"
      BY <1>1, <2>1, <3>1 DEF SetSubscriptions, TypeOK
    <3>2. CASE client # "none"
      <4> DEFINE ended == {byTopic[t] : t \in Dropped(ts)}
                 todo == (unresolved \cap ts) \cup {t \in ts : byTopic[t] = 0}
                 byT == [t \in Topics |-> IF t \in Dropped(ts) THEN 0 ELSE byTopic[t]]
                 byI == {r \in byId : r[1] \notin ended}
                 onServer == {r \in served : r[1] \notin ended}
      <4>1. Subscribe(todo, channels, byT, byI, onServer)
        BY <1>1, <3>2 DEF SetSubscriptions
      <4>2. /\ todo \in SUBSET Topics /\ byT \in [Topics -> Nat] /\ byI \in SUBSET (Nat \X Channels)
            /\ onServer \in SUBSET (Nat \X Channels) /\ channels \in [Topics -> Channels \cup {0}]
        BY <2>1 DEF TypeOK
      <4> HIDE DEF todo, byT, byI, onServer
      <4> QED
        BY <4>1, <4>2, SubscribeTypes
    <3> QED
      BY <3>1, <3>2
  <2> QED
    BY <1>1, <2>1, <2>2
       DEF SetSubscriptions, TypeOK, Shapes, topics, publishing, services, assets, emission, time,
           connection
<1>2. ASSUME NEW ts \in Published, SetPublishers(ts)
      PROVE  Shapes'
  <2>1. ts \subseteq Topics
    BY PlayerAssumption
  <2>2. Emit(1, messages) \/ UNCHANGED emission
    BY <1>2 DEF SetPublishers
  <2>3. messages' \in Seq(Message) /\ emitting' \in BOOLEAN /\ again' \in BOOLEAN
    BY <2>2, Emits DEF TypeOK, emission
  <2>4. published' \subseteq Topics /\ publications' \subseteq Topics /\ toPublish' \subseteq Topics
    BY <1>2, <2>1 DEF SetPublishers, TypeOK
  <2>5. UNCHANGED <<offered, served, owed, serverSession, toClient, events, unresolved, byTopic, byId,
                    nextSub, wanted, revived, channels>>
    BY <1>2 DEF SetPublishers, subscriptions
  <2>6. UNCHANGED <<callbacks, nextCall, forgotten, fetches, nextFetch, fetched, settled, clock, seeks,
                    client, id>>
    BY <1>2 DEF SetPublishers, services, assets, time
  <2>7. calls' \in Nat
    <3>1. calls \in Nat
      BY DEF TypeOK
    <3> QED
      BY <1>2, <3>1 DEF SetPublishers
  <2> QED
    BY <2>3, <2>4, <2>5, <2>6, <2>7, TypesSplit DEF Shapes
<1>3. CASE CallService
  <2>1. UNCHANGED <<offered, served, published, serverSession, toClient, events, unresolved, byTopic,
                    byId, nextSub, wanted, revived, channels, toPublish, publications>>
    BY <1>3 DEF CallService, subscriptions, topics, publishing
  <2>2. UNCHANGED <<forgotten, fetches, nextFetch, fetched, settled, messages, clock, seeks, client, id>>
    BY <1>3 DEF CallService, assets, emission, time, connection
  <2>3. /\ owed' \subseteq {"call", "fetch"} \X Nat /\ callbacks' \subseteq Nat
        /\ nextCall' \in Nat /\ calls' \in Nat
    <3>1. /\ owed \subseteq {"call", "fetch"} \X Nat /\ callbacks \subseteq Nat
          /\ nextCall \in Nat /\ calls \in Nat
      BY DEF TypeOK
    <3>2. nextCall' \in Nat /\ calls' \in Nat
      BY <1>3, <3>1 DEF CallService
    <3>3. callbacks' = callbacks \cup {nextCall'} /\ owed' \subseteq owed \cup {<<"call", nextCall'>>}
      BY <1>3 DEF CallService
    <3> QED
      BY <3>1, <3>2, <3>3
  <2> QED
    BY <2>1, <2>2, <2>3, TypesSplit DEF Shapes
<1>4. ASSUME NEW u \in Uris, FetchAsset(u)
      PROVE  Shapes'
  <2>1. UNCHANGED <<offered, served, published, serverSession, toClient, events, unresolved, byTopic,
                    byId, nextSub, wanted, revived, channels, toPublish, publications>>
    BY <1>4 DEF FetchAsset, subscriptions, topics, publishing
  <2>2. UNCHANGED <<callbacks, nextCall, forgotten, settled, messages, clock, seeks, client, id>>
    BY <1>4 DEF FetchAsset, services, emission, time, connection
  <2>3. /\ owed' \subseteq {"call", "fetch"} \X Nat /\ fetches' \subseteq Nat
        /\ fetched' \in [Uris -> Nat] /\ nextFetch' \in Nat /\ calls' \in Nat
    <3>1. /\ owed \subseteq {"call", "fetch"} \X Nat /\ fetches \subseteq Nat
          /\ fetched \in [Uris -> Nat] /\ nextFetch \in Nat /\ calls \in Nat
      BY DEF TypeOK
    <3>2. nextFetch' \in Nat /\ calls' \in Nat
      BY <1>4, <3>1 DEF FetchAsset
    <3>3. /\ fetches' = fetches \cup {nextFetch'} /\ owed' \subseteq owed \cup {<<"fetch", nextFetch'>>}
          /\ fetched' = [fetched EXCEPT ![u] = nextFetch']
      BY <1>4 DEF FetchAsset
    <3>4. <<"fetch", nextFetch'>> \in {"call", "fetch"} \X Nat
      BY <3>2
    <3>5. owed' \subseteq {"call", "fetch"} \X Nat
      BY <3>1, <3>3, <3>4
    <3>6. fetches' \subseteq Nat /\ fetched' \in [Uris -> Nat]
      BY <3>1, <3>2, <3>3
    <3> QED
      BY <3>2, <3>5, <3>6
  <2> QED
    BY <2>1, <2>2, <2>3, TypesSplit DEF Shapes
<1> QED
  BY <1>1, <1>2, <1>3, <1>4

LEMMA ArrivalTypes ==
  ASSUME TypeOK, Handle
  PROVE  Shapes'
<1>1. CASE HandleServerInfo
  <2>1. Receive("serverInfo")
    BY <1>1 DEF HandleServerInfo
  <2>2. toClient' \in Seq(Wire) /\ Head(toClient).session \in Nat
    BY <2>1, Received, WireFields
  <2>3. /\ settled' \subseteq {"call", "fetch"} \X Nat /\ fetches' \subseteq Nat
        /\ fetched' \in [Uris -> Nat] /\ clock' = 0 /\ id' \in Nat /\ seeks' = seeks
    <3>1. /\ settled \subseteq {"call", "fetch"} \X Nat /\ fetches \subseteq Nat
          /\ fetched \in [Uris -> Nat]
      BY DEF TypeOK
    <3>2. /\ id' = Head(toClient).session /\ seeks' = seeks /\ clock' = 0
          /\ \/ settled' = RejectFetches /\ fetches' = {} /\ fetched' = [u \in Uris |-> 0]
             \/ UNCHANGED <<settled, fetches, fetched>>
      BY <1>1 DEF HandleServerInfo, ResetSessionState
    <3>3. fetched' \in [Uris -> Nat] /\ fetches' \subseteq Nat
      <4>1. CASE fetches' = {} /\ fetched' = [u \in Uris |-> 0]
        BY <4>1
      <4>2. CASE UNCHANGED <<settled, fetches, fetched>>
        BY <3>1, <4>2
      <4> QED
        BY <3>2, <4>1, <4>2
    <3>4. settled' \subseteq {"call", "fetch"} \X Nat
      BY <3>1, <3>2, RejectsTypes
    <3> QED
      BY <2>2, <3>2, <3>3, <3>4
  <2>4. PICK n \in Nat, msgs \in Seq(Message) : Emit(n, msgs)
    BY <1>1, EmptySeq DEF HandleServerInfo, TypeOK
  <2>5. messages' \in Seq(Message)
    BY <2>4, Emits
  <2>6. /\ toPublish' \subseteq Topics /\ publications' \subseteq Topics /\ published' \subseteq Topics
    BY <1>1 DEF HandleServerInfo, Advertise, TypeOK
  <2>7. UNCHANGED <<served, unresolved, byTopic, byId, nextSub, channels, callbacks, forgotten,
                    offered, owed, serverSession, events, client, wanted, revived, nextCall,
                    nextFetch, calls>>
    BY <1>1, <2>1 DEF HandleServerInfo, Receive
  <2>8. clock' \in Nat /\ seeks' \in Nat
    BY <2>3 DEF TypeOK
  <2> QED
    BY <2>2, <2>3, <2>5, <2>6, <2>7, <2>8, TypesSplit DEF Shapes
<1>2. CASE HandleAdvertise
  <2>1. Receive("advertise")
    BY <1>2 DEF HandleAdvertise
  <2>2. toClient' \in Seq(Wire)
    BY <2>1, Received
  <2>3. PICK had \in [Topics -> Channels \cup {0}] :
          channels' = had /\ Subscribe(unresolved, had, byTopic, byId, served)
    BY <1>2 DEF HandleAdvertise
  <2>4. /\ nextSub' \in Nat /\ unresolved' \subseteq Topics /\ byTopic' \in [Topics -> Nat]
        /\ byId' \subseteq Nat \X Channels /\ served' \subseteq Nat \X Channels
    <3>1. /\ unresolved \in SUBSET Topics /\ byTopic \in [Topics -> Nat]
          /\ byId \in SUBSET (Nat \X Channels) /\ served \in SUBSET (Nat \X Channels)
      BY DEF TypeOK
    <3> QED
      BY <2>3, <3>1, SubscribeTypes
  <2>5. messages' \in Seq(Message)
    BY <1>2, Emits DEF HandleAdvertise, TypeOK
  <2>6. UNCHANGED <<published, id, toPublish, publications, callbacks, forgotten, fetches, fetched,
                    settled, clock, seeks, offered, owed, serverSession, events, client, wanted,
                    revived, nextCall, nextFetch, calls>>
    BY <1>2, <2>1 DEF HandleAdvertise, Receive, publishing, time
  <2> QED
    BY <2>2, <2>3, <2>4, <2>5, <2>6, TypesSplit DEF Shapes
<1>3. CASE HandleUnadvertise
  <2>1. Receive("unadvertise")
    BY <1>3 DEF HandleUnadvertise
  <2>2. toClient' \in Seq(Wire) /\ Head(toClient).channel \in Channels
    BY <2>1, Received, WireFields
  <2>3. TopicOf[Head(toClient).channel] \in Topics
    BY <2>2, PlayerAssumption
  <2>4. /\ unresolved' \subseteq Topics /\ byTopic' \in [Topics -> Nat]
        /\ byId' \subseteq Nat \X Channels /\ served' \subseteq Nat \X Channels
        /\ channels' \in [Topics -> Channels \cup {0}]
    <3> DEFINE c == Head(toClient).channel
               t == TopicOf[c]
               ended == {r \in byId : r[2] = c}
    <3>1. /\ unresolved \subseteq Topics /\ byTopic \in [Topics -> Nat]
          /\ byId \subseteq Nat \X Channels /\ served \subseteq Nat \X Channels
          /\ channels \in [Topics -> Channels \cup {0}]
      BY DEF TypeOK
    <3>2. CASE channels[t] # c
      BY <1>3, <3>1, <3>2 DEF HandleUnadvertise
    <3>3. CASE channels[t] = c
      <4>1. /\ channels' = [channels EXCEPT ![t] = 0]
            /\ byId' = byId \ ended
            /\ byTopic' = IF ended = {} THEN byTopic ELSE [byTopic EXCEPT ![t] = 0]
            /\ unresolved' = IF ended = {} THEN unresolved ELSE unresolved \cup {t}
            /\ served' = {r \in served : \A e \in ended : e[1] # r[1]}
        BY <1>3, <3>3 DEF HandleUnadvertise
      <4> HIDE DEF ended
      <4> QED
        BY <2>3, <3>1, <4>1
    <3> QED
      BY <3>2, <3>3
  <2>5. messages' \in Seq(Message)
    BY <1>3, Emits DEF HandleUnadvertise, TypeOK
  <2>6. UNCHANGED <<published, id, nextSub, toPublish, publications, callbacks, forgotten, fetches,
                    fetched, settled, clock, seeks, offered, owed, serverSession, events, client,
                    wanted, revived, nextCall, nextFetch, calls>>
    BY <1>3, <2>1 DEF HandleUnadvertise, Receive, publishing, time
  <2> QED
    BY <2>2, <2>4, <2>5, <2>6, TypesSplit DEF Shapes
<1>4. CASE HandleMessage
  <2>1. Receive("message")
    BY <1>4 DEF HandleMessage
  <2>2. toClient' \in Seq(Wire)
    BY <2>1, Received
  <2>3. messages' \in Seq(Message)
    <3>1. CASE UNCHANGED emission
      BY <3>1 DEF emission, TypeOK
    <3>2. CASE Emit(1, messages)
      BY <3>2, Emits DEF TypeOK
    <3>3. ASSUME NEW r \in byId, Emit(1, Append(messages, [topic |-> TopicOf[r[2]], time |-> clock]))
          PROVE  messages' \in Seq(Message)
      <4>1. [topic |-> TopicOf[r[2]], time |-> clock] \in Message
        BY PlayerAssumption DEF TypeOK, Message
      <4>2. Append(messages, [topic |-> TopicOf[r[2]], time |-> clock]) \in Seq(Message)
        BY <4>1, AppendProperties DEF TypeOK
      <4> QED
        BY <3>3, <4>2, Emits
    <3> QED
      BY <1>4, <3>1, <3>2, <3>3 DEF HandleMessage
  <2>4. UNCHANGED <<served, published, id, unresolved, byTopic, byId, nextSub, channels, toPublish,
                    publications, callbacks, forgotten, fetches, fetched, settled, clock, seeks>>
    BY <1>4 DEF HandleMessage, publishing, time
  <2>5. UNCHANGED <<offered, owed, serverSession, events, client, wanted, revived, nextCall,
                    nextFetch, calls>>
    BY <2>1 DEF Receive
  <2> QED
    BY <2>2, <2>3, <2>4, <2>5, TypesSplit DEF Shapes
<1>5. CASE HandleTime
  <2>1. Receive("time")
    BY <1>5 DEF HandleTime
  <2>2. toClient' \in Seq(Wire) /\ Head(toClient).time \in Nat
    BY <2>1, Received, WireFields, PlayerAssumption
  <2>3. PICK msgs \in {messages, <<>>} : Emit(1, msgs)
    BY <1>5 DEF HandleTime, BeforeSeek
  <2>4. messages' \in Seq(Message)
    BY <2>3, Emits, EmptySeq DEF TypeOK
  <2>5. clock' \in Nat /\ seeks' \in Nat
    BY <1>5, <2>2 DEF HandleTime, TypeOK
  <2>6. UNCHANGED <<served, published, id, unresolved, byTopic, byId, nextSub, channels, toPublish,
                    publications, callbacks, forgotten, fetches, fetched, settled>>
    BY <1>5 DEF HandleTime, publishing
  <2>7. UNCHANGED <<offered, owed, serverSession, events, client, wanted, revived, nextCall,
                    nextFetch, calls>>
    BY <2>1 DEF Receive
  <2> QED
    BY <2>2, <2>4, <2>5, <2>6, <2>7, TypesSplit DEF Shapes
<1>6. CASE HandleServiceCallResponse
  <2>1. Receive("call")
    BY <1>6 DEF HandleServiceCallResponse
  <2>2. toClient' \in Seq(Wire) /\ Head(toClient).request \in Nat
    BY <2>1, Received, WireFields
  <2>3. settled' \subseteq {"call", "fetch"} \X Nat /\ callbacks' \subseteq Nat
    <3>1. settled \subseteq {"call", "fetch"} \X Nat /\ callbacks \subseteq Nat
      BY DEF TypeOK
    <3>2. \E n \in Nat : /\ settled' \in {settled, settled \cup {<<"call", n>>}}
                        /\ callbacks' = callbacks \ {n}
      BY <1>6, <2>2 DEF HandleServiceCallResponse
    <3> QED
      BY <3>1, <3>2
  <2>4. UNCHANGED <<served, published, id, unresolved, byTopic, byId, nextSub, channels, toPublish,
                    publications, forgotten, fetches, fetched, messages, clock, seeks>>
    BY <1>6 DEF HandleServiceCallResponse, topics, publishing, emission, time
  <2>5. UNCHANGED <<offered, owed, serverSession, events, client, wanted, revived, nextCall,
                    nextFetch, calls>>
    BY <2>1 DEF Receive
  <2> QED
    BY <2>2, <2>3, <2>4, <2>5, TypesSplit DEF Shapes
<1>7. CASE HandleFetchAssetResponse
  <2>1. Receive("fetch")
    BY <1>7 DEF HandleFetchAssetResponse
  <2>2. toClient' \in Seq(Wire) /\ Head(toClient).request \in Nat
    BY <2>1, Received, WireFields
  <2>3. /\ settled' \subseteq {"call", "fetch"} \X Nat /\ callbacks' \subseteq Nat
        /\ forgotten' \subseteq Nat
    <3>1. /\ settled \subseteq {"call", "fetch"} \X Nat /\ callbacks \subseteq Nat
          /\ forgotten \subseteq Nat
      BY DEF TypeOK
    <3>2. \E n \in Nat : /\ settled' \in {settled, settled \cup {<<"fetch", n>>}}
                        /\ callbacks' \in {callbacks, callbacks \ {n}}
                        /\ forgotten' \in {forgotten, forgotten \cup (callbacks \cap {n})}
      BY <1>7, <2>2 DEF HandleFetchAssetResponse
    <3> QED
      BY <3>1, <3>2
  <2>4. UNCHANGED <<served, published, id, unresolved, byTopic, byId, nextSub, channels, toPublish,
                    publications, fetches, fetched, messages, clock, seeks>>
    BY <1>7 DEF HandleFetchAssetResponse, topics, publishing, emission, time
  <2>5. UNCHANGED <<offered, owed, serverSession, events, client, wanted, revived, nextCall,
                    nextFetch, calls>>
    BY <2>1 DEF Receive
  <2> QED
    BY <2>2, <2>3, <2>4, <2>5, TypesSplit DEF Shapes
<1> QED
  BY <1>1, <1>2, <1>3, <1>4, <1>5, <1>6, <1>7 DEF Handle

\* The steps of the server.
ServerStep ==
  \/ Answers
  \/ \E c \in Channels : ServerAdvertises(c) \/ ServerUnadvertises(c)
  \/ \E r \in served : ServerSendsMessage(r)
  \/ \E t \in Times : ServerPublishesTime(t)

\* What the server's steps that are about no channel do.
LEMMA ServerTalks ==
  ASSUME TypeOK,
         Answers \/ (\E r \in served : ServerSendsMessage(r)) \/ (\E t \in Times : ServerPublishesTime(t))
  PROVE  /\ \E m \in Wire : m.op \in {"call", "fetch", "message", "time"} /\ Sends(m)
         /\ UNCHANGED <<offered, served>>
<1>1. ASSUME NEW r \in owed, ServerAnswers(r)
      PROVE  /\ \E m \in Wire : m.op \in {"call", "fetch", "message", "time"} /\ Sends(m)
             /\ UNCHANGED <<offered, served>>
  <2>1. [op |-> r[1], request |-> r[2]] \in Wire /\ r[1] \in {"call", "fetch"}
    BY DEF TypeOK, Wire
  <2> QED
    BY <1>1, <2>1 DEF ServerAnswers
<1>2. ASSUME NEW r \in served, ServerSendsMessage(r)
      PROVE  /\ \E m \in Wire : m.op \in {"call", "fetch", "message", "time"} /\ Sends(m)
             /\ UNCHANGED <<offered, served>>
  <2>1. [op |-> "message", sub |-> r[1]] \in Wire
    BY DEF TypeOK, Wire
  <2> QED
    BY <1>2, <2>1 DEF ServerSendsMessage
<1>3. ASSUME NEW t \in Times, ServerPublishesTime(t)
      PROVE  /\ \E m \in Wire : m.op \in {"call", "fetch", "message", "time"} /\ Sends(m)
             /\ UNCHANGED <<offered, served>>
  <2>1. [op |-> "time", time |-> t] \in Wire
    BY DEF Wire
  <2> QED
    BY <1>3, <2>1 DEF ServerPublishesTime
<1> QED
  BY <1>1, <1>2, <1>3 DEF Answers

\* A step of the server's touches nothing of the player's.
LEMMA ServerTouches ==
  ASSUME TypeOK, ServerStep
  PROVE  /\ UNCHANGED <<published, serverSession>>
         /\ UNCHANGED <<subscriptions, topics, publishing, services>>
         /\ UNCHANGED <<assets, settled, emission, time, connection, calls>>
         /\ owed' \subseteq owed /\ events' \in Nat
<1>1. ASSUME NEW r \in owed, ServerAnswers(r)
      PROVE  /\ UNCHANGED <<published, serverSession>>
             /\ UNCHANGED <<subscriptions, topics, publishing, services>>
             /\ UNCHANGED <<assets, settled, emission, time, connection, calls>>
             /\ owed' \subseteq owed /\ events' = events
  BY <1>1 DEF ServerAnswers
<1>2. ServerEvent =>
             /\ UNCHANGED <<published, serverSession>>
             /\ UNCHANGED <<subscriptions, topics, publishing, services>>
             /\ UNCHANGED <<assets, settled, emission, time, connection, calls>>
             /\ owed' \subseteq owed /\ events' = events + 1
  BY DEF ServerEvent
<1>3. (\E r \in owed : ServerAnswers(r)) \/ ServerEvent
  BY DEF ServerStep, Answers, ServerAdvertises, ServerUnadvertises, ServerSendsMessage,
         ServerPublishesTime
<1>4. events \in Nat
  BY DEF TypeOK
<1> QED
  BY <1>1, <1>2, <1>3, <1>4

LEMMA ServerTypes ==
  ASSUME TypeOK, ServerStep
  PROVE  Shapes'
<1>1. offered' \subseteq Channels /\ served' \subseteq Nat \X Channels /\ toClient' \in Seq(Wire)
  <2>1. CASE Answers \/ (\E r \in served : ServerSendsMessage(r)) \/ (\E t \in Times : ServerPublishesTime(t))
    BY <2>1, ServerTalks, Sent DEF TypeOK
  <2>2. ASSUME NEW c \in Channels, ServerAdvertises(c)
        PROVE  offered' \subseteq Channels /\ served' \subseteq Nat \X Channels /\ toClient' \in Seq(Wire)
    <3>1. [op |-> "advertise", channels |-> {c}] \in Wire
      BY DEF Wire
    <3> QED
      BY <2>2, <3>1, Sent DEF ServerAdvertises, TypeOK
  <2>3. ASSUME NEW c \in Channels, ServerUnadvertises(c)
        PROVE  offered' \subseteq Channels /\ served' \subseteq Nat \X Channels /\ toClient' \in Seq(Wire)
    <3>1. [op |-> "unadvertise", channel |-> c] \in Wire
      BY DEF Wire
    <3> QED
      BY <2>3, <3>1, Sent DEF ServerUnadvertises, TypeOK
  <2> QED
    BY <2>1, <2>2, <2>3 DEF ServerStep
<1>2. UNCHANGED <<published, serverSession, unresolved, byTopic, byId, nextSub, wanted, revived,
                  channels, toPublish, publications>>
  BY ServerTouches DEF subscriptions, topics, publishing
<1>3. UNCHANGED <<callbacks, nextCall, forgotten, fetches, nextFetch, fetched, settled, messages,
                  clock, seeks, client, id, calls>>
  BY ServerTouches DEF services, assets, emission, time, connection
<1>4. owed' \subseteq owed /\ events' \in Nat
  BY ServerTouches
<1> QED
  BY <1>1, <1>2, <1>3, <1>4, TypesSplit DEF Shapes

LEMMA StepShapes ==
  ASSUME TypeOK, [Next]_vars
  PROVE  Shapes'
<1>1. CASE UNCHANGED vars
  <2>1. UNCHANGED <<offered, served, published, owed, serverSession, toClient, events, unresolved,
                    byTopic, byId, nextSub, wanted, revived, channels, toPublish, publications>>
    BY <1>1 DEF vars, server, subscriptions, topics, publishing
  <2>2. UNCHANGED <<callbacks, nextCall, forgotten, fetches, nextFetch, fetched, settled, messages,
                    clock, seeks, client, id, calls>>
    BY <1>1 DEF vars, services, assets, emission, time, connection
  <2> QED
    BY <2>1, <2>2, TypesSplit DEF Shapes
<1> QED
  BY <1>1, ConnectionTypes, CallTypes, ArrivalTypes, ServerTypes DEF Next, ServerStep

LEMMA StepFlags ==
  ASSUME TypeOK, [Next]_vars
  PROVE  Flags'
<1> USE DEF Next, vars, ServerStep, Open, Opened, ConnectionCloses, ListenerResolves,
            SetSubscriptions, SetPublishers, CallService, FetchAsset, Handle, HandleServerInfo,
            HandleAdvertise, HandleUnadvertise, HandleMessage, HandleTime, HandleServiceCallResponse,
            HandleFetchAssetResponse
<1>1. mayPublish' = mayPublish \/ mayPublish' = TRUE
  BY Zenon, ServerTouches DEF publishing
<1>2. mayCall' = mayCall \/ mayCall' = TRUE \/ mayCall' = FALSE
  BY Zenon, ServerTouches DEF services
<1>3. known' = known \/ known' = TRUE
  BY Zenon, ServerTouches DEF topics
<1>4. \/ UNCHANGED <<emitting, again>>
      \/ emitting' = again /\ again' = FALSE
      \/ \E n \in Nat : \E msgs : Emit(n, msgs)
  BY Zenon, ServerTouches DEF emission
<1>5. known \in BOOLEAN /\ mayPublish \in BOOLEAN /\ mayCall \in BOOLEAN
        /\ emitting \in BOOLEAN /\ again \in BOOLEAN
  BY DEF TypeOK
<1>6. ASSUME NEW n \in Nat, NEW msgs, Emit(n, msgs)
      PROVE  emitting' \in BOOLEAN /\ again' \in BOOLEAN
  <2>1. (n > 1) \in BOOLEAN
    OBVIOUS
  <2>2. CASE emitting
    BY <1>5, <1>6, <2>2 DEF Emit
  <2>3. CASE ~emitting
    <3>1. emitting' = TRUE /\ again' = (n > 1)
      BY <1>6, <2>3 DEF Emit
    <3> QED
      BY <2>1, <3>1, Zenon
  <2> QED
    BY <2>2, <2>3
<1>7. emitting' \in BOOLEAN /\ again' \in BOOLEAN
  BY <1>4, <1>5, <1>6, Zenon
<1> QED
  BY <1>1, <1>2, <1>3, <1>5, <1>7, Zenon DEF Flags

-----------------------------------------------------------------------------
(* Subscriptions.                                                          *)

Agreement == Filed /\ SubscriptionsAgree

\* Without a connection there is nothing to agree with.
LEMMA DisconnectedAgrees ==
  ASSUME ~Connected', nextSub' >= 1, served' = {}, toClient' = <<>>,
         (unresolved \subseteq wanted \cup revived)', (wanted \subseteq unresolved \cup Resolved)'
  PROVE  Agreement'
BY DEF Agreement, SubscriptionsAgree, IdsAreFresh, ChannelsAreKnown, WantedIsKept, ServedIsHeld,
       WireAgrees, Filed

\* Nothing changes that agrees.
LEMMA QuietAgrees ==
  ASSUME TypeOK, SubscriptionsAgree, UNCHANGED <<offered, served, toClient, client>>,
         UNCHANGED <<unresolved, byTopic, byId, nextSub, wanted, revived, channels, shadowed>>
  PROVE  Agreement'
<1>1. Filed' /\ IdsAreFresh' /\ ChannelsAreKnown' /\ WantedIsKept' /\ ServedIsHeld'
  BY TypesSplit
     DEF SubscriptionsAgree, Filed, IdsAreFresh, ChannelsAreKnown, WantedIsKept, ServedIsHeld,
         Connected, Resolved
<1>2. WireAgrees'
  BY DEF SubscriptionsAgree, WireAgrees, ChannelAgrees, Connected, LastTells, Alternates,
         WithdrawnFirst, Silent, About
<1> QED
  BY <1>1, <1>2 DEF Agreement, SubscriptionsAgree

\* A message arrives that is about no channel.
LEMMA ReceivedAgrees ==
  ASSUME TypeOK, SubscriptionsAgree, NEW op, op \notin {"advertise", "unadvertise"}, Receive(op),
         UNCHANGED <<served, unresolved, byTopic, byId, nextSub, channels, shadowed>>
  PROVE  Agreement'
<1>1. /\ toClient \in Seq(Wire) /\ toClient # <<>> /\ toClient' = Tail(toClient)
      /\ Head(toClient).op = op /\ Connected /\ Connected'
  BY Received DEF TypeOK
<1>2. UNCHANGED <<offered, client, wanted, revived>>
  BY DEF Receive
<1>3. Filed' /\ IdsAreFresh' /\ ChannelsAreKnown' /\ WantedIsKept' /\ ServedIsHeld'
  BY <1>1, <1>2, TypesSplit
     DEF SubscriptionsAgree, Filed, IdsAreFresh, ChannelsAreKnown, WantedIsKept, ServedIsHeld, Resolved
<1>4. \A c \in Channels : ~About(Head(toClient), c)
  BY <1>1 DEF About
<1>5. \A c \in Channels : ChannelAgrees(c)
  BY <1>1 DEF SubscriptionsAgree, WireAgrees
<1>6. ASSUME NEW c \in Channels
      PROVE  ChannelAgrees(c)' /\ (Silent(toClient, c)' => Silent(toClient, c))
  <2>1. (c \in offered) \in BOOLEAN
    OBVIOUS
  <2>2. LastTells(toClient, c, c \in offered) /\ Alternates(toClient, c)
    BY <1>5 DEF ChannelAgrees
  <2>3. /\ LastTells(Tail(toClient), c, c \in offered) /\ Alternates(Tail(toClient), c)
        /\ Silent(Tail(toClient), c) <=> Silent(toClient, c)
        /\ WithdrawnFirst(toClient, c) => WithdrawnFirst(Tail(toClient), c)
    BY <1>1, <1>4, <2>1, <2>2, Arrives
  <2>4. /\ LastTells(toClient', c, c \in offered') /\ Alternates(toClient', c)
        /\ Silent(toClient', c) <=> Silent(toClient, c)
        /\ WithdrawnFirst(toClient, c) => WithdrawnFirst(toClient', c)
    BY <1>1, <1>2, <2>3
  <2> QED
    BY <1>5, <1>2, <2>4 DEF ChannelAgrees
<1>7. \A r \in byId' : Silent(toClient', r[2]) => r \in served'
  BY <1>1, <1>6 DEF SubscriptionsAgree, WireAgrees, TypeOK
<1> QED
  BY <1>3, <1>6, <1>7 DEF Agreement, SubscriptionsAgree, WireAgrees

\* A message is sent that is about no channel.
LEMMA SentAgrees ==
  ASSUME TypeOK, SubscriptionsAgree, NEW m \in Wire, m.op \notin {"advertise", "unadvertise"}, Sends(m),
         UNCHANGED <<offered, served, client>>,
         UNCHANGED <<unresolved, byTopic, byId, nextSub, wanted, revived, channels, shadowed>>
  PROVE  Agreement'
<1>1. CASE ~Connected
  BY <1>1, QuietAgrees DEF Sends
<1>2. CASE Connected
  <2>1. toClient \in Seq(Wire) /\ toClient' = Append(toClient, m) /\ Connected'
    BY <1>2 DEF TypeOK, Sends, Connected
  <2>2. Filed' /\ IdsAreFresh' /\ ChannelsAreKnown' /\ WantedIsKept' /\ ServedIsHeld'
    BY <1>2, <2>1, TypesSplit
       DEF SubscriptionsAgree, Filed, IdsAreFresh, ChannelsAreKnown, WantedIsKept, ServedIsHeld, Resolved
  <2>3. \A c \in Channels : ~About(m, c)
    BY DEF About
  <2>4. \A c \in Channels : ChannelAgrees(c)
    BY <1>2 DEF SubscriptionsAgree, WireAgrees
  <2>5. ASSUME NEW c \in Channels
        PROVE  ChannelAgrees(c)' /\ (Silent(toClient, c)' => Silent(toClient, c))
    <3>1. LastTells(toClient, c, c \in offered) /\ Alternates(toClient, c)
      BY <2>4 DEF ChannelAgrees
    <3>2. /\ LastTells(toClient', c, c \in offered') /\ Alternates(toClient', c)
          /\ Silent(toClient', c) <=> Silent(toClient, c)
          /\ WithdrawnFirst(toClient, c) => WithdrawnFirst(toClient', c)
      BY <2>1, <2>3, <3>1, SendOther
    <3> QED
      BY <2>4, <3>2 DEF ChannelAgrees
  <2>6. \A r \in byId' : Silent(toClient', r[2]) => r \in served'
    BY <1>2, <2>5 DEF SubscriptionsAgree, WireAgrees, TypeOK
  <2> QED
    BY <2>2, <2>5, <2>6 DEF Agreement, SubscriptionsAgree, WireAgrees
<1> QED
  BY <1>1, <1>2

\* The server gets or loses a channel, and says so.
LEMMA ChannelsChange ==
  ASSUME TypeOK, SubscriptionsAgree, NEW c \in Channels,
         ServerAdvertises(c) \/ ServerUnadvertises(c)
  PROVE  Agreement'
<1> DEFINE m == IF c \in offered THEN [op |-> "unadvertise", channel |-> c]
                ELSE [op |-> "advertise", channels |-> {c}]
<1>1. /\ Sends(m) /\ (c \in offered' <=> c \notin offered)
      /\ \A d \in Channels : d # c => (d \in offered' <=> d \in offered)
      /\ served' \subseteq served /\ \A r \in served : r[2] # c => r \in served'
  BY DEF ServerAdvertises, ServerUnadvertises
<1>2. m \in Wire /\ About(m, c) /\ (m.op = "advertise" <=> c \notin offered)
  BY DEF Wire, About
<1>3. \A d \in Channels : d # c => ~About(m, d)
  BY DEF About
<1> HIDE DEF m
<1>4. /\ UNCHANGED <<unresolved, byTopic, byId, nextSub, wanted, revived, channels, shadowed, client>>
      /\ Connected' = Connected
  BY ServerTouches DEF ServerStep, subscriptions, topics, connection, Connected
<1>5. Filed' /\ IdsAreFresh' /\ ChannelsAreKnown' /\ WantedIsKept'
  BY <1>4, TypesSplit
     DEF SubscriptionsAgree, Filed, IdsAreFresh, ChannelsAreKnown, WantedIsKept, Resolved
<1>6. CASE ~Connected
  <2>1. served' = {} /\ toClient' = <<>>
    BY <1>1, <1>6 DEF Sends, SubscriptionsAgree, ServedIsHeld
  <2> QED
    BY <1>4, <1>5, <1>6, <2>1 DEF Agreement, SubscriptionsAgree, ServedIsHeld, WireAgrees
<1>7. CASE Connected
  <2>1. toClient \in Seq(Wire) /\ toClient' = Append(toClient, m) /\ Connected'
    BY <1>1, <1>4, <1>7 DEF TypeOK, Sends
  <2>2. ServedIsHeld'
    BY <1>1, <1>4, <2>1 DEF SubscriptionsAgree, ServedIsHeld
  <2>3. \A d \in Channels : ChannelAgrees(d)
    BY <1>7 DEF SubscriptionsAgree, WireAgrees
  <2>4. ~Silent(toClient', c) /\ ChannelAgrees(c)'
    <3>1. LastTells(toClient, c, c \in offered) /\ Alternates(toClient, c)
      BY <2>3 DEF ChannelAgrees
    <3>2. (c \in offered) \in BOOLEAN
      OBVIOUS
    <3>3. /\ LastTells(Append(toClient, m), c, ~(c \in offered))
          /\ Alternates(Append(toClient, m), c)
          /\ ~Silent(Append(toClient, m), c)
          /\ WithdrawnFirst(toClient, c) /\ (Silent(toClient, c) => c \in offered) =>
               WithdrawnFirst(Append(toClient, m), c)
      BY <1>2, <2>1, <3>1, <3>2, SendAbout
    <3>4. LastTells(toClient', c, c \in offered')
      BY <1>1, <2>1, <3>3 DEF LastTells
    <3> QED
      BY <1>4, <2>1, <2>3, <3>3, <3>4 DEF ChannelAgrees
  <2>5. ASSUME NEW d \in Channels, d # c
        PROVE  ChannelAgrees(d)' /\ (Silent(toClient', d) => Silent(toClient, d))
    <3>1. LastTells(toClient, d, d \in offered) /\ Alternates(toClient, d)
      BY <2>3 DEF ChannelAgrees
    <3>2. /\ LastTells(toClient', d, d \in offered) /\ Alternates(toClient', d)
          /\ Silent(toClient', d) <=> Silent(toClient, d)
          /\ WithdrawnFirst(toClient, d) => WithdrawnFirst(toClient', d)
      BY <1>2, <1>3, <2>1, <2>5, <3>1, SendOther
    <3>3. LastTells(toClient', d, d \in offered')
      BY <1>1, <2>5, <3>2 DEF LastTells
    <3> QED
      BY <1>1, <1>4, <2>3, <2>5, <3>2, <3>3 DEF ChannelAgrees
  <2>6. ASSUME NEW r \in byId', Silent(toClient', r[2])
        PROVE  r \in served'
    <3>1. r \in byId /\ r[2] \in Channels
      BY <1>4 DEF TypeOK
    <3>2. r[2] # c
      BY <2>4, <2>6
    <3>3. r \in served
      BY <1>7, <2>5, <2>6, <3>1, <3>2 DEF SubscriptionsAgree, WireAgrees
    <3> QED
      BY <1>1, <3>2, <3>3
  <2> QED
    BY <1>5, <2>2, <2>4, <2>5, <2>6 DEF Agreement, SubscriptionsAgree, WireAgrees
<1> QED
  BY <1>6, <1>7

\* The connection is opened, closed, and opened anew.
LEMMA ConnectionAgrees ==
  ASSUME TypeOK, SubscriptionsAgree,
         Open \/ Opened \/ (\E restart \in BOOLEAN : ConnectionCloses(restart))
  PROVE  Agreement'
<1>1. CASE Open
  <2>1. /\ client = "none" /\ client' = "connecting" /\ nextSub' = 1
        /\ UNCHANGED <<served, toClient>>
        /\ UNCHANGED <<unresolved, byTopic, wanted, revived>>
    BY <1>1 DEF Open, server
  <2> QED
    BY <2>1, DisconnectedAgrees
       DEF Connected, SubscriptionsAgree, ServedIsHeld, WantedIsKept, Resolved
<1>2. ASSUME NEW restart \in BOOLEAN, ConnectionCloses(restart)
      PROVE  Agreement'
  <2>1. /\ client' = "none" /\ served' = {} /\ toClient' = <<>>
        /\ UNCHANGED <<unresolved, byTopic, nextSub, wanted, revived>>
    BY <1>2 DEF ConnectionCloses, subscriptions
  <2> QED
    BY <2>1, DisconnectedAgrees
       DEF Connected, SubscriptionsAgree, IdsAreFresh, WantedIsKept, Resolved
<1>3. CASE Opened
  <2> DEFINE greeting == [op |-> "serverInfo", session |-> serverSession]
             list == [op |-> "advertise", channels |-> offered]
  <2>1. /\ unresolved' = Resubscribed /\ byTopic' = [t \in Topics |-> 0] /\ byId' = {}
        /\ revived' = (revived \cup Resolved) \ wanted /\ wanted' = wanted
        /\ channels' = [t \in Topics |-> 0] /\ served' = {} /\ nextSub' = nextSub
        /\ toClient' = <<greeting, list>> /\ offered' = offered /\ client' = "open"
    BY <1>3 DEF Opened, Resolved
  <2>2. Filed' /\ IdsAreFresh' /\ ChannelsAreKnown' /\ ServedIsHeld'
    <3>1. \A t \in Topics : byTopic'[t] = 0 /\ channels'[t] = 0
      BY <2>1
    <3>2. {u \in Topics : byTopic'[u] # 0} = {}
      BY <3>1
    <3>3. Filed'
      BY <2>1, <3>2 DEF Filed
    <3>4. nextSub \in Nat /\ nextSub >= 1
      BY DEF TypeOK, SubscriptionsAgree, IdsAreFresh
    <3>5. IdsAreFresh'
      BY <2>1, <3>1, <3>4 DEF IdsAreFresh
    <3>6. ChannelsAreKnown'
      <4>1. \A t \in Topics : ~(t \in unresolved') \/ channels'[t] = 0
        BY <3>1
      <4> QED
        BY <3>1, <4>1 DEF ChannelsAreKnown
    <3>7. ServedIsHeld'
      BY <2>1 DEF ServedIsHeld, Connected
    <3> QED
      BY <3>3, <3>5, <3>6, <3>7
  <2>3. WantedIsKept'
    BY <2>1 DEF SubscriptionsAgree, WantedIsKept, Resubscribed, Resolved
  <2>4. /\ Len(toClient') = 2 /\ toClient'[1].op = "serverInfo" /\ toClient'[2] = list
        /\ \A c : ~About(toClient'[1], c) /\ (About(toClient'[2], c) <=> c \in offered)
    BY <2>1 DEF About
  <2>5. ASSUME NEW c \in Channels
        PROVE  ChannelAgrees(c)'
    <3>1. LastTells(toClient', c, c \in offered')
      BY <2>1, <2>4 DEF LastTells
    <3>2. Alternates(toClient', c)
      BY <2>4 DEF Alternates
    <3>3. channels'[TopicOf[c]] # c
      BY <2>1, PlayerAssumption
    <3>4. Silent(toClient', c) => c \notin offered'
      BY <2>1, <2>4 DEF Silent
    <3> QED
      BY <3>1, <3>2, <3>3, <3>4 DEF ChannelAgrees
  <2> QED
    BY <2>1, <2>2, <2>3, <2>5 DEF Agreement, SubscriptionsAgree, WireAgrees
<1> QED
  BY <1>1, <1>2, <1>3

\* On a connection, what a topic's subscription is under its id.
LEMMA Held ==
  ASSUME TypeOK, SubscriptionsAgree, Connected
  PROVE  /\ \A t \in Topics : byTopic[t] # 0 => <<byTopic[t], channels[t]>> \in byId
         /\ \A r \in byId : /\ r[2] \in Channels /\ channels[TopicOf[r[2]]] = r[2]
                            /\ byTopic[TopicOf[r[2]]] = r[1] /\ r[1] # 0
                            /\ r = <<r[1], r[2]>> /\ TopicOf[r[2]] \in Topics
         /\ 0 \notin Channels
<1>1. 0 \notin Channels
  BY PlayerAssumption
<1>2. byId = {<<byTopic[t], channels[t]>> : t \in {u \in Topics : byTopic[u] # 0}}
  BY TypesSplit DEF Filed
<1>3. ASSUME NEW r \in byId
      PROVE  /\ r[2] \in Channels /\ channels[TopicOf[r[2]]] = r[2]
             /\ byTopic[TopicOf[r[2]]] = r[1] /\ r[1] # 0
             /\ r = <<r[1], r[2]>> /\ TopicOf[r[2]] \in Topics
  <2>1. PICK t \in Topics : byTopic[t] # 0 /\ r = <<byTopic[t], channels[t]>>
    BY <1>2
  <2>2. r[2] \in Channels
    BY DEF TypeOK
  <2>3. TopicOf[channels[t]] = t
    BY <1>1, <2>1, <2>2 DEF SubscriptionsAgree, ChannelsAreKnown
  <2> QED
    BY <2>1, <2>2, <2>3
<1> QED
  BY <1>1, <1>2, <1>3

LEMMA AdvertiseAgrees ==
  ASSUME TypeOK, SubscriptionsAgree, HandleAdvertise
  PROVE  Agreement'
<1> DEFINE cs == Head(toClient).channels
           on(t) == {c \in cs : TopicOf[c] = t}
<1>1. Receive("advertise")
  BY DEF HandleAdvertise
<1>2. /\ toClient \in Seq(Wire) /\ toClient # <<>> /\ toClient' = Tail(toClient)
      /\ Head(toClient).op = "advertise" /\ cs \subseteq Channels /\ Connected /\ Connected'
  BY <1>1, Received, WireFields DEF TypeOK
<1>3. UNCHANGED <<offered, client, wanted, revived>>
  BY <1>1 DEF Receive
<1>4. PICK had \in [Topics -> Channels \cup {0}] :
        /\ \A t \in Topics :
             IF channels[t] # 0 \/ on(t) = {} THEN had[t] = channels[t] ELSE had[t] \in on(t)
        /\ channels' = had
        /\ shadowed' = shadowed \cup {t \in Topics : on(t) \ {had[t]} # {}}
        /\ Subscribe(unresolved, had, byTopic, byId, served)
  BY DEF HandleAdvertise
<1>5. \A c \in Channels : TopicOf[c] \in Topics /\ c # 0 /\ (About(Head(toClient), c) <=> c \in cs)
  BY <1>2, PlayerAssumption DEF About
<1> HIDE DEF cs
<1>6. \A t \in Topics : /\ channels[t] # 0 => had[t] = channels[t]
                        /\ had[t] # 0 => had[t] \in Channels /\ TopicOf[had[t]] = t
  BY <1>2, <1>4 DEF SubscriptionsAgree, ChannelsAreKnown
<1>7. /\ unresolved \in SUBSET Topics /\ byTopic \in [Topics -> Nat]
      /\ byId \in SUBSET (Nat \X Channels) /\ served \in SUBSET (Nat \X Channels)
      /\ nextSub \in Nat /\ nextSub >= 1
  BY DEF TypeOK, SubscriptionsAgree, IdsAreFresh
<1>8. SameById(byTopic, had, byId)
  <2>1. byId = {<<byTopic[t], channels[t]>> : t \in {u \in Topics : byTopic[u] # 0}}
    BY <1>2, TypesSplit DEF Filed
  <2>2. \A t \in {u \in Topics : byTopic[u] # 0} : had[t] = channels[t]
    BY <1>2, <1>6 DEF SubscriptionsAgree, ChannelsAreKnown
  <2> QED
    BY <2>1, <2>2 DEF SameById
<1>9. /\ Distinct(byTopic, nextSub)
      /\ \A t \in unresolved : byTopic[t] = 0
      /\ served \subseteq byId
  BY <1>2, <1>7 DEF SubscriptionsAgree, IdsAreFresh, ChannelsAreKnown, ServedIsHeld, Distinct
<1>10. /\ Distinct(byTopic', nextSub') /\ SameById(byTopic', had, byId')
       /\ served' \subseteq byId' /\ served \subseteq served'
       /\ \A r \in byId' : r \in byId \/ (r[2] \in offered => r \in served')
  <2>1. Subscribe(unresolved, had, byTopic, byId, served)
    BY <1>4
  <2>2. Ready(unresolved, had, byTopic, byId, served)
    BY <1>4, <1>7, <1>8, <1>9 DEF Ready
  <2> QED
    BY <1>2, <1>7, <2>1, <2>2, SubscribeAgrees
<1>11. /\ nextSub' \in Nat /\ nextSub' >= nextSub
       /\ unresolved' = {t \in unresolved : had[t] = 0}
       /\ byId' \subseteq Nat \X Channels
       /\ {t \in Topics : byTopic'[t] # 0}
            = {t \in Topics : byTopic[t] # 0 \/ (t \in unresolved /\ had[t] # 0)}
  BY <1>4, <1>7, SubscribeTypes
<1>12. Filed' /\ IdsAreFresh' /\ ServedIsHeld'
  BY <1>2, <1>4, <1>7, <1>10, <1>11 DEF Filed, IdsAreFresh, ServedIsHeld, Distinct, SameById
<1>13. ChannelsAreKnown'
  <2>1. \A t \in Topics : byTopic'[t] # 0 => had[t] # 0
    BY <1>2, <1>6, <1>11 DEF SubscriptionsAgree, ChannelsAreKnown
  <2>2. \A t \in Topics : t \in unresolved' => had[t] = 0
    BY <1>11
  <2> QED
    BY <1>4, <1>6, <2>1, <2>2 DEF ChannelsAreKnown
<1>14. WantedIsKept'
  <2>1. Resolved' = Resolved \cup {t \in unresolved : had[t] # 0}
    BY <1>7, <1>11 DEF Resolved
  <2> QED
    BY <1>2, <1>3, <1>11, <2>1 DEF SubscriptionsAgree, WantedIsKept
<1>15. ASSUME NEW c \in Channels
       PROVE  /\ ChannelAgrees(c)'
              /\ channels[TopicOf[c]] = c => c \notin cs /\ (Silent(toClient', c) => Silent(toClient, c))
  <2>1. ChannelAgrees(c)
    BY <1>2 DEF SubscriptionsAgree, WireAgrees
  <2>2. (c \in offered) \in BOOLEAN
    OBVIOUS
  <2>3. LastTells(toClient', c, c \in offered') /\ Alternates(toClient', c)
    BY <1>2, <1>3, <2>1, <2>2, Arrives DEF ChannelAgrees
  <2>4. ~About(Head(toClient), c) =>
          /\ Silent(toClient', c) <=> Silent(toClient, c)
          /\ WithdrawnFirst(toClient, c) => WithdrawnFirst(toClient', c)
    BY <1>2, <2>1, <2>2, Arrives DEF ChannelAgrees
  <2>5. About(Head(toClient), c) =>
          /\ Silent(toClient', c) => c \in offered
          /\ ~WithdrawnFirst(toClient, c)
          /\ WithdrawnFirst(toClient', c)
    BY <1>2, <2>1, <2>2, Arrives DEF ChannelAgrees
  <2>6. CASE c \in cs
    <3>1. About(Head(toClient), c)
      BY <1>5, <2>6
    <3>2. TopicOf[c] \notin shadowed' => had[TopicOf[c]] = c
      BY <1>4, <1>5, <2>6
    <3> QED
      BY <1>3, <1>4, <2>1, <2>3, <2>5, <3>1, <3>2, <2>6 DEF ChannelAgrees
  <2>7. CASE c \notin cs
    <3>1. ~About(Head(toClient), c)
      BY <1>5, <2>7
    <3>2. had[TopicOf[c]] = c <=> channels[TopicOf[c]] = c
      BY <1>4, <1>5, <1>6, <2>7
    <3>3. shadowed \subseteq shadowed'
      BY <1>4
    <3> QED
      BY <1>3, <1>4, <2>1, <2>3, <2>4, <3>1, <3>2, <3>3, <2>7 DEF ChannelAgrees
  <2> QED
    BY <2>6, <2>7
<1>16. ASSUME NEW r \in byId', Silent(toClient', r[2])
       PROVE  r \in served'
  <2>1. CASE r \in byId
    <3>1. r[2] \in Channels /\ channels[TopicOf[r[2]]] = r[2]
      BY <1>2, <2>1, Held
    <3>2. Silent(toClient, r[2])
      BY <1>15, <1>16, <3>1
    <3> QED
      BY <1>2, <1>10, <2>1, <3>2 DEF SubscriptionsAgree, WireAgrees
  <2>2. CASE r \notin byId
    <3>1. PICK t \in Topics : byTopic'[t] # 0 /\ r[2] = had[t]
      BY <1>10 DEF SameById
    <3>2. r[2] \in Channels
      BY <1>11
    <3>3. channels'[TopicOf[r[2]]] = r[2]
      BY <1>4, <1>5, <1>6, <3>1, <3>2
    <3>4. r[2] \in offered
      BY <1>3, <1>15, <1>16, <3>2, <3>3 DEF ChannelAgrees
    <3> QED
      BY <1>10, <2>2, <3>4
  <2> QED
    BY <2>1, <2>2
<1> QED
  BY <1>12, <1>13, <1>14, <1>15, <1>16 DEF Agreement, SubscriptionsAgree, WireAgrees

LEMMA UnadvertiseAgrees ==
  ASSUME TypeOK, SubscriptionsAgree, HandleUnadvertise
  PROVE  Agreement'
<1> DEFINE c == Head(toClient).channel
           t == TopicOf[c]
           ended == {r \in byId : r[2] = c}
<1>1. Receive("unadvertise")
  BY DEF HandleUnadvertise
<1>2. /\ toClient \in Seq(Wire) /\ toClient # <<>> /\ toClient' = Tail(toClient)
      /\ Head(toClient).op = "unadvertise" /\ c \in Channels /\ Connected /\ Connected'
  BY <1>1, Received, WireFields DEF TypeOK
<1>3. UNCHANGED <<offered, client, wanted, revived, nextSub, shadowed>>
  BY <1>1 DEF Receive, HandleUnadvertise
<1>4. t \in Topics /\ \A d \in Channels : About(Head(toClient), d) <=> d = c
  BY <1>2, PlayerAssumption DEF About
<1>5. channels[t] # c => UNCHANGED <<channels, byId, byTopic, unresolved, served>>
  BY DEF HandleUnadvertise
<1>6. channels[t] = c =>
        /\ channels' = [channels EXCEPT ![t] = 0]
        /\ byId' = byId \ ended
        /\ byTopic' = IF ended = {} THEN byTopic ELSE [byTopic EXCEPT ![t] = 0]
        /\ unresolved' = IF ended = {} THEN unresolved ELSE unresolved \cup {t}
        /\ served' = {r \in served : \A e \in ended : e[1] # r[1]}
  BY DEF HandleUnadvertise
<1> HIDE DEF c, ended
<1>7. \A d \in Channels : ChannelAgrees(d)
  BY <1>2 DEF SubscriptionsAgree, WireAgrees
<1>8. ASSUME NEW d \in Channels
      PROVE  /\ LastTells(toClient', d, d \in offered') /\ Alternates(toClient', d)
             /\ d # c => /\ Silent(toClient', d) <=> Silent(toClient, d)
                         /\ WithdrawnFirst(toClient, d) => WithdrawnFirst(toClient', d)
             /\ d = c => (Silent(toClient', d) => d \notin offered)
  <2>0. (d \in offered) \in BOOLEAN
    OBVIOUS
  <2>1. LastTells(toClient, d, d \in offered) /\ Alternates(toClient, d)
    BY <1>7 DEF ChannelAgrees
  <2>2. LastTells(toClient', d, d \in offered') /\ Alternates(toClient', d)
    <3>1. ChannelAgrees(d)
      BY <1>7
    <3> QED
      BY <1>2, <1>3, <2>0, <3>1, Arrives DEF ChannelAgrees
  <2>3. ~About(Head(toClient), d) =>
          /\ Silent(toClient', d) <=> Silent(toClient, d)
          /\ WithdrawnFirst(toClient, d) => WithdrawnFirst(toClient', d)
    BY <1>2, <2>0, <2>1, Arrives
  <2>4. About(Head(toClient), d) => (Silent(toClient', d) => d \notin offered)
    BY <1>2, <2>0, <2>1, Arrives
  <2> QED
    BY <1>4, <2>2, <2>3, <2>4
<1>9. /\ \A u \in Topics : byTopic[u] # 0 => <<byTopic[u], channels[u]>> \in byId
      /\ \A r \in byId : /\ r[2] \in Channels /\ channels[TopicOf[r[2]]] = r[2]
                         /\ byTopic[TopicOf[r[2]]] = r[1] /\ r[1] # 0
                         /\ r = <<r[1], r[2]>> /\ TopicOf[r[2]] \in Topics
      /\ 0 \notin Channels
  BY <1>2, Held
<1>10. CASE channels[t] # c
  <2>1. Filed' /\ IdsAreFresh' /\ ChannelsAreKnown' /\ WantedIsKept' /\ ServedIsHeld'
    BY <1>2, <1>3, <1>5, <1>10, TypesSplit
       DEF SubscriptionsAgree, Filed, IdsAreFresh, ChannelsAreKnown, WantedIsKept, ServedIsHeld, Resolved
  <2>2. ASSUME NEW d \in Channels
        PROVE  ChannelAgrees(d)'
    <3>1. CASE d = c
      BY <1>3, <1>5, <1>8, <1>10, <3>1 DEF ChannelAgrees
    <3>2. CASE d # c
      BY <1>3, <1>5, <1>7, <1>8, <1>10, <3>2 DEF ChannelAgrees
    <3> QED
      BY <3>1, <3>2
  <2>3. ASSUME NEW r \in byId', Silent(toClient', r[2])
        PROVE  r \in served'
    <3>1. r \in byId /\ r[2] # c /\ r[2] \in Channels
      BY <1>5, <1>9, <1>10
    <3> QED
      BY <1>2, <1>5, <1>8, <1>10, <2>3, <3>1 DEF SubscriptionsAgree, WireAgrees
  <2> QED
    BY <2>1, <2>2, <2>3 DEF Agreement, SubscriptionsAgree, WireAgrees
<1>11. CASE channels[t] = c
  <2>1. \A r \in ended : r \in byId /\ r[2] = c /\ r[1] = byTopic[t] /\ byTopic[t] # 0
    BY <1>9 DEF ended
  <2>2. byTopic[t] # 0 => <<byTopic[t], c>> \in ended
    BY <1>4, <1>9, <1>11 DEF ended
  <2>3. byTopic \in [Topics -> Nat] /\ channels \in [Topics -> Channels \cup {0}]
    BY DEF TypeOK
  <2>4. /\ byTopic' = [byTopic EXCEPT ![t] = 0]
        /\ unresolved' = IF byTopic[t] # 0 THEN unresolved \cup {t} ELSE unresolved
    BY <1>4, <1>6, <1>11, <2>1, <2>2, <2>3
  <2>5. /\ byTopic'[t] = 0 /\ \A u \in Topics : u # t => byTopic'[u] = byTopic[u]
        /\ channels'[t] = 0 /\ \A u \in Topics : u # t => channels'[u] = channels[u]
    BY <1>4, <1>6, <1>11, <2>3, <2>4
  <2>6. byId' = {r \in byId : r[2] # c}
    BY <1>6, <1>11 DEF ended
  <2>7. Filed'
    <3>1. ASSUME NEW r \in byId'
          PROVE  r \in {<<byTopic'[u], channels'[u]>> : u \in {v \in Topics : byTopic'[v] # 0}}
      <4>1. r \in byId /\ r[2] # c
        BY <2>6
      <4>2. TopicOf[r[2]] # t
        BY <1>9, <1>11, <4>1
      <4> QED
        BY <1>9, <2>5, <4>1, <4>2
    <3>2. ASSUME NEW u \in Topics, byTopic'[u] # 0
          PROVE  <<byTopic'[u], channels'[u]>> \in byId'
      <4>1. u # t /\ byTopic[u] # 0
        BY <2>5, <3>2
      <4>2. TopicOf[channels[u]] = u
        BY <1>2, <4>1 DEF SubscriptionsAgree, ChannelsAreKnown
      <4> QED
        BY <1>9, <2>5, <2>6, <4>1, <4>2
    <3> QED
      BY <3>1, <3>2 DEF Filed
  <2>8. IdsAreFresh'
    <3>1. nextSub \in Nat /\ nextSub >= 1
      BY DEF TypeOK, SubscriptionsAgree, IdsAreFresh
    <3> QED
      BY <1>2, <1>3, <1>4, <2>5, <3>1 DEF SubscriptionsAgree, IdsAreFresh
  <2>9. ChannelsAreKnown'
    BY <1>2, <1>4, <2>4, <2>5 DEF SubscriptionsAgree, ChannelsAreKnown
  <2>10. WantedIsKept'
    <3>1. Resolved' = Resolved \ {t}
      BY <1>4, <2>5 DEF Resolved
    <3>2. t \in Resolved <=> byTopic[t] # 0
      BY <1>4 DEF Resolved
    <3> QED
      BY <1>2, <1>3, <2>4, <3>1, <3>2 DEF SubscriptionsAgree, WantedIsKept
  <2>11. \A r \in served : r \in byId /\ (r \in served' <=> r[2] # c)
    <3>1. served \subseteq byId
      BY DEF SubscriptionsAgree, ServedIsHeld
    <3>2. ASSUME NEW r \in byId, r[2] # c, NEW e \in ended
          PROVE  e[1] # r[1]
      <4>1. TopicOf[r[2]] # t
        BY <1>9, <1>11, <3>2
      <4> QED
        BY <1>2, <1>4, <1>9, <2>1, <4>1 DEF SubscriptionsAgree, IdsAreFresh
    <3>3. ASSUME NEW r \in byId, r[2] = c
          PROVE  \E e \in ended : e[1] = r[1]
      BY <3>3 DEF ended
    <3> QED
      BY <1>6, <1>11, <3>1, <3>2, <3>3
  <2>12. served' \subseteq served
    BY <1>6, <1>11
  <2>13. ServedIsHeld'
    BY <1>2, <2>6, <2>11, <2>12 DEF ServedIsHeld
  <2>14. ASSUME NEW d \in Channels
         PROVE  ChannelAgrees(d)'
    <3>1. CASE d = c
      BY <1>3, <1>8, <1>9, <2>5, <3>1 DEF ChannelAgrees
    <3>2. CASE d # c
      <4>1. TopicOf[d] \in Topics /\ (channels'[TopicOf[d]] = d <=> channels[TopicOf[d]] = d)
        BY <1>9, <1>11, <2>5, <3>2, PlayerAssumption
      <4> QED
        BY <1>3, <1>7, <1>8, <3>2, <4>1 DEF ChannelAgrees
    <3> QED
      BY <3>1, <3>2
  <2>15. ASSUME NEW r \in byId', Silent(toClient', r[2])
         PROVE  r \in served'
    <3>1. r \in byId /\ r[2] # c /\ r[2] \in Channels
      BY <1>9, <2>6
    <3>2. r \in served
      BY <1>2, <1>8, <2>15, <3>1 DEF SubscriptionsAgree, WireAgrees
    <3> QED
      BY <2>11, <3>1, <3>2
  <2> QED
    BY <2>7, <2>8, <2>9, <2>10, <2>13, <2>14, <2>15 DEF Agreement, SubscriptionsAgree, WireAgrees
<1> QED
  BY <1>10, <1>11

LEMMA SetSubscriptionsAgrees ==
  ASSUME TypeOK, SubscriptionsAgree, NEW ts \in Selections, SetSubscriptions(ts)
  PROVE  Agreement'
<1> DEFINE ended == {byTopic[t] : t \in Dropped(ts)}
           todo == (unresolved \cap ts) \cup {t \in ts : byTopic[t] = 0}
           byT == [t \in Topics |-> IF t \in Dropped(ts) THEN 0 ELSE byTopic[t]]
           byI == {r \in byId : r[1] \notin ended}
           onServer == {r \in served : r[1] \notin ended}
<1>1. ts \subseteq Topics
  BY PlayerAssumption
<1>2. /\ wanted' = ts /\ revived' = {} /\ Connected' = Connected
      /\ UNCHANGED <<offered, toClient, client, channels, shadowed>>
  BY DEF SetSubscriptions, topics, connection, Connected
<1>3. client # "none" => Subscribe(todo, channels, byT, byI, onServer)
  BY DEF SetSubscriptions
<1>4. client = "none" => unresolved' = ts /\ UNCHANGED <<byTopic, byId, nextSub, served>>
  BY DEF SetSubscriptions
<1>5. /\ unresolved \subseteq Topics /\ byTopic \in [Topics -> Nat]
      /\ byId \subseteq Nat \X Channels /\ served \subseteq Nat \X Channels
      /\ channels \in [Topics -> Channels \cup {0}]
      /\ nextSub \in Nat /\ nextSub >= 1 /\ served \subseteq byId
  BY DEF TypeOK, SubscriptionsAgree, IdsAreFresh, ServedIsHeld
<1>6. /\ todo \in SUBSET Topics /\ todo \subseteq ts /\ byT \in [Topics -> Nat]
      /\ byI \in SUBSET (Nat \X Channels) /\ byI \subseteq byId
      /\ onServer \in SUBSET (Nat \X Channels) /\ onServer \subseteq served
  BY <1>1, <1>5
<1>7. \A t \in Topics : /\ byT[t] # 0 <=> (byTopic[t] # 0 /\ t \in ts)
                        /\ byT[t] # 0 => byT[t] = byTopic[t]
  BY <1>5 DEF Dropped
<1>8. \A t \in ts : byTopic[t] = 0 => t \in todo
  OBVIOUS
<1>9. \A t \in todo : t \in ts /\ (t \in unresolved \/ byTopic[t] = 0)
  OBVIOUS
<1>10. \A t \in Topics : byTopic[t] \in ended /\ byTopic[t] # 0 =>
         \E u \in Topics : u \notin ts /\ byTopic[u] = byTopic[t]
  BY DEF Dropped
<1>11. \A t \in Topics : t \notin ts /\ byTopic[t] # 0 => byTopic[t] \in ended
  BY DEF Dropped
<1>12. \A r : r \in byI <=> r \in byId /\ r[1] \notin ended
  OBVIOUS
<1>13. \A r : r \in onServer <=> r \in served /\ r[1] \notin ended
  OBVIOUS
<1> HIDE DEF ended, todo, byT, byI, onServer
<1>14. CASE client = "none"
  <2>1. ~Connected
    BY <1>14 DEF Connected
  <2>2. served' = {} /\ toClient' = <<>> /\ nextSub' >= 1
    BY <1>2, <1>4, <1>5, <1>14, <2>1 DEF SubscriptionsAgree, ServedIsHeld
  <2> QED
    BY <1>2, <1>4, <1>14, <2>1, <2>2, DisconnectedAgrees
<1>15. ASSUME client # "none"
       PROVE  /\ nextSub' \in Nat /\ nextSub' >= nextSub
              /\ unresolved' = {t \in todo : channels[t] = 0}
              /\ byTopic' \in [Topics -> Nat] /\ byId' \subseteq Nat \X Channels
              /\ ~Connected => served' = onServer
              /\ Resolved' = {t \in Topics : byT[t] # 0 \/ (t \in todo /\ channels[t] # 0)}
  BY <1>3, <1>5, <1>6, <1>15, SubscribeTypes DEF Resolved
<1>16. ASSUME client # "none"
       PROVE  /\ unresolved' \subseteq ts /\ Resolved' \subseteq ts /\ ts \subseteq unresolved' \cup Resolved'
  <2>1. unresolved' \subseteq ts /\ Resolved' \subseteq ts
    BY <1>6, <1>7, <1>15, <1>16
  <2>2. ASSUME NEW t \in ts
        PROVE  t \in unresolved' \cup Resolved'
    <3>1. CASE byTopic[t] = 0
      BY <1>1, <1>8, <1>15, <1>16, <3>1
    <3>2. CASE byTopic[t] # 0
      BY <1>1, <1>7, <1>15, <1>16, <3>2
    <3> QED
      BY <3>1, <3>2
  <2> QED
    BY <2>1, <2>2
<1>17. CASE client # "none" /\ ~Connected
  <2>1. served' = {} /\ toClient' = <<>>
    BY <1>2, <1>6, <1>15, <1>17 DEF SubscriptionsAgree, ServedIsHeld
  <2> QED
    BY <1>2, <1>5, <1>15, <1>16, <1>17, <2>1, DisconnectedAgrees
<1>18. CASE Connected
  <2>1. client # "none"
    BY <1>18 DEF Connected
  <2>2. Distinct(byTopic, nextSub)
    BY <1>18 DEF SubscriptionsAgree, IdsAreFresh, Distinct
  <2>3. Distinct(byT, nextSub)
    BY <1>5, <1>6, <1>7, <2>2 DEF Distinct
  <2>4. \A t \in todo : byT[t] = 0
    <3>1. \A t \in unresolved : byTopic[t] = 0
      BY <1>5, <1>18 DEF SubscriptionsAgree, ChannelsAreKnown
    <3> QED
      BY <1>6, <1>7, <1>9, <3>1
  <2>5. /\ \A t \in Topics : byTopic[t] # 0 => <<byTopic[t], channels[t]>> \in byId
        /\ \A r \in byId : /\ r[2] \in Channels /\ channels[TopicOf[r[2]]] = r[2]
                           /\ byTopic[TopicOf[r[2]]] = r[1] /\ r[1] # 0
                           /\ r = <<r[1], r[2]>> /\ TopicOf[r[2]] \in Topics
        /\ 0 \notin Channels
    BY <1>18, Held
  <2>6. \A t \in Topics : t \in ts /\ byTopic[t] # 0 => byTopic[t] \notin ended
    BY <1>10, <2>2 DEF Distinct
  <2>7. SameById(byT, channels, byI)
    <3>1. ASSUME NEW r \in byI
          PROVE  r \in {<<byT[t], channels[t]>> : t \in {u \in Topics : byT[u] # 0}}
      <4> DEFINE u == TopicOf[r[2]]
      <4>1. r \in byId /\ r[1] \notin ended
        BY <1>12
      <4>2. u \in Topics /\ byTopic[u] = r[1] /\ r[1] # 0 /\ channels[u] = r[2] /\ r = <<r[1], r[2]>>
        BY <2>5, <4>1
      <4> HIDE DEF u
      <4>3. byT[u] # 0 /\ byT[u] = byTopic[u]
        BY <1>7, <1>11, <4>1, <4>2
      <4> QED
        BY <4>2, <4>3
    <3>2. ASSUME NEW t \in Topics, byT[t] # 0
          PROVE  <<byT[t], channels[t]>> \in byI
      <4>1. byT[t] = byTopic[t] /\ byTopic[t] # 0 /\ t \in ts
        BY <1>7, <3>2
      <4> QED
        BY <1>12, <2>5, <2>6, <4>1
    <3> QED
      BY <3>1, <3>2 DEF SameById
  <2>8. onServer \in SUBSET byI
    BY <1>5, <1>12, <1>13
  <2>9. Ready(todo, channels, byT, byI, onServer)
    BY <1>5, <1>6, <2>3, <2>4, <2>7, <2>8 DEF Ready
  <2>10. Subscribe(todo, channels, byT, byI, onServer)
    BY <1>3, <2>1
  <2>11. /\ Distinct(byTopic', nextSub') /\ SameById(byTopic', channels, byId')
         /\ served' \subseteq byId' /\ onServer \subseteq served'
         /\ \A r \in byId' : r \in byI \/ (r[2] \in offered => r \in served')
    BY <1>5, <1>18, <2>9, <2>10, SubscribeAgrees
  <2>12. Filed' /\ IdsAreFresh' /\ ServedIsHeld'
    BY <1>2, <1>5, <1>15, <1>18, <2>1, <2>11 DEF Filed, IdsAreFresh, ServedIsHeld, Distinct, SameById
  <2>13. \A t \in Topics : byTopic'[t] # 0 => channels[t] # 0
    <3>1. ASSUME NEW t \in Topics, byTopic'[t] # 0
          PROVE  channels[t] # 0
      <4>1. <<byTopic'[t], channels[t]>> \in byId'
        BY <2>11, <3>1 DEF SameById
      <4> QED
        BY <1>15, <2>1, <2>5, <4>1
    <3> QED
      BY <3>1
  <2>14. ChannelsAreKnown'
    <3>1. \A t \in Topics : t \in unresolved' => channels[t] = 0
      BY <1>15, <2>1
    <3> QED
      BY <1>2, <1>18, <2>13, <3>1 DEF SubscriptionsAgree, ChannelsAreKnown
  <2>15. WantedIsKept'
    BY <1>2, <1>16, <2>1 DEF WantedIsKept
  <2>16. \A c \in Channels : ChannelAgrees(c) /\ ChannelAgrees(c)'
    BY <1>2, <1>18 DEF SubscriptionsAgree, WireAgrees, ChannelAgrees
  <2>17. ASSUME NEW r \in byId', Silent(toClient', r[2])
         PROVE  r \in served'
    <3>1. CASE r \in byI
      <4>1. r \in byId /\ r[1] \notin ended
        BY <1>12, <3>1
      <4>2. r \in served
        BY <1>2, <1>18, <2>17, <4>1 DEF SubscriptionsAgree, WireAgrees
      <4> QED
        BY <1>13, <2>11, <4>1, <4>2
    <3>2. CASE r \notin byI
      <4>1. PICK t \in Topics : byTopic'[t] # 0 /\ r[2] = channels[t]
        BY <2>11 DEF SameById
      <4>2. r[2] \in Channels
        BY <1>15, <2>1
      <4>3. channels[TopicOf[r[2]]] = r[2]
        BY <1>18, <2>5, <4>1, <4>2 DEF SubscriptionsAgree, ChannelsAreKnown
      <4>4. r[2] \in offered
        BY <1>2, <2>16, <2>17, <4>2, <4>3 DEF ChannelAgrees
      <4> QED
        BY <2>11, <3>2, <4>4
    <3> QED
      BY <3>1, <3>2
  <2> QED
    BY <2>12, <2>14, <2>15, <2>16, <2>17 DEF Agreement, SubscriptionsAgree, WireAgrees
<1> QED
  BY <1>14, <1>17, <1>18

LEMMA StepAgrees ==
  ASSUME TypeOK, SubscriptionsAgree, [Next]_vars
  PROVE  Agreement'
<1> USE QuietAgrees
<1>1. CASE UNCHANGED vars
  BY <1>1 DEF vars, server, subscriptions, topics, connection
<1>2. CASE Open \/ Opened \/ (\E restart \in BOOLEAN : ConnectionCloses(restart))
  BY <1>2, ConnectionAgrees
<1>3. CASE HandleServerInfo
  <2>1. UNCHANGED <<served, unresolved, byTopic, byId, nextSub, channels, shadowed>>
    BY <1>3 DEF HandleServerInfo
  <2> QED
    BY <1>3, <2>1, ReceivedAgrees DEF HandleServerInfo
<1>4. CASE HandleMessage
  <2>1. UNCHANGED <<served, unresolved, byTopic, byId, nextSub, channels, shadowed>>
    BY <1>4 DEF HandleMessage
  <2> QED
    BY <1>4, <2>1, ReceivedAgrees DEF HandleMessage
<1>5. CASE HandleTime
  <2>1. UNCHANGED <<served, unresolved, byTopic, byId, nextSub, channels, shadowed>>
    BY <1>5 DEF HandleTime
  <2> QED
    BY <1>5, <2>1, ReceivedAgrees DEF HandleTime
<1>6. CASE HandleServiceCallResponse
  <2>1. UNCHANGED <<served, unresolved, byTopic, byId, nextSub, channels, shadowed>>
    BY <1>6 DEF HandleServiceCallResponse, topics
  <2> QED
    BY <1>6, <2>1, ReceivedAgrees DEF HandleServiceCallResponse
<1>7. CASE HandleFetchAssetResponse
  <2>1. UNCHANGED <<served, unresolved, byTopic, byId, nextSub, channels, shadowed>>
    BY <1>7 DEF HandleFetchAssetResponse, topics
  <2> QED
    BY <1>7, <2>1, ReceivedAgrees DEF HandleFetchAssetResponse
<1>8. CASE Handle
  BY <1>3, <1>4, <1>5, <1>6, <1>7, <1>8, AdvertiseAgrees, UnadvertiseAgrees DEF Handle
<1>9. CASE ListenerResolves
  BY <1>9 DEF ListenerResolves, server, subscriptions, topics, connection
<1>10. ASSUME NEW ts \in Published, SetPublishers(ts)
       PROVE  Agreement'
  BY <1>10 DEF SetPublishers, subscriptions
<1>11. CASE CallService
  BY <1>11 DEF CallService, subscriptions, topics, connection
<1>12. ASSUME NEW u \in Uris, FetchAsset(u)
       PROVE  Agreement'
  BY <1>12 DEF FetchAsset, subscriptions, topics, connection
<1>13. CASE Answers \/ (\E r \in served : ServerSendsMessage(r)) \/ (\E t \in Times : ServerPublishesTime(t))
  <2>1. PICK m \in Wire : m.op \in {"call", "fetch", "message", "time"} /\ Sends(m)
    BY <1>13, ServerTalks
  <2>2. UNCHANGED <<offered, served>>
    BY <1>13, ServerTalks
  <2>3. UNCHANGED <<unresolved, byTopic, byId, nextSub, wanted, revived, channels, shadowed, client>>
    BY <1>13, ServerTouches DEF ServerStep, subscriptions, topics, connection
  <2> QED
    BY <2>1, <2>2, <2>3, SentAgrees
<1> QED
  BY <1>1, <1>2, <1>8, <1>9, <1>10, <1>11, <1>12, <1>13, SetSubscriptionsAgrees, ChannelsChange
     DEF Next

-----------------------------------------------------------------------------
(* Publications, and the order of what is emitted.                         *)

LEMMA StepPublishes ==
  ASSUME TypeOK, PublishedAgrees, [Next]_vars
  PROVE  PublishedAgrees'
<1> USE DEF PublishedAgrees, Connected
<1>1. CASE UNCHANGED vars
  BY <1>1 DEF vars, server, publishing, connection
<1>2. CASE Open \/ Opened \/ (\E restart \in BOOLEAN : ConnectionCloses(restart))
  BY <1>2 DEF Open, Opened, ConnectionCloses
<1>3. CASE Handle
  <2>1. Connected
    BY <1>3 DEF Handle, HandleServerInfo, HandleAdvertise, HandleUnadvertise, HandleMessage, HandleTime,
                HandleServiceCallResponse, HandleFetchAssetResponse, Receive
  <2>2. HandleServerInfo \/ UNCHANGED <<published, publishing>>
    BY <1>3 DEF Handle, HandleAdvertise, HandleUnadvertise, HandleMessage, HandleTime,
                HandleServiceCallResponse, HandleFetchAssetResponse
  <2>3. HandleServerInfo => published' = published \cup toPublish /\ publications' = publications \cup toPublish
    BY <2>1 DEF HandleServerInfo, Advertise
  <2> QED
    BY <2>1, <2>2, <2>3 DEF publishing
<1>4. CASE ListenerResolves
  BY <1>4 DEF ListenerResolves, server, publishing, connection
<1>5. ASSUME NEW ts \in Selections, SetSubscriptions(ts)
      PROVE  PublishedAgrees'
  BY <1>5 DEF SetSubscriptions, publishing, connection
<1>6. ASSUME NEW ts \in Published, SetPublishers(ts)
      PROVE  PublishedAgrees'
  <2>1. client' = client
    BY <1>6 DEF SetPublishers
  <2>2. CASE client = "none" \/ ~mayPublish
    BY <1>6, <2>1, <2>2 DEF SetPublishers
  <2>3. CASE ~(client = "none" \/ ~mayPublish) /\ Connected
    <3>1. publications' = ts /\ published' = (published \ (publications \ ts)) \cup (ts \ publications)
      BY <1>6, <2>3 DEF SetPublishers
    <3> QED
      BY <2>1, <2>3, <3>1
  <2> QED
    BY <2>1, <2>2, <2>3
<1>7. CASE CallService
  BY <1>7 DEF CallService, publishing, connection
<1>8. ASSUME NEW u \in Uris, FetchAsset(u)
      PROVE  PublishedAgrees'
  BY <1>8 DEF FetchAsset, publishing, connection
<1>9. CASE ServerStep
  BY <1>9, ServerTouches DEF publishing, connection
<1> QED
  BY <1>1, <1>2, <1>3, <1>4, <1>5, <1>6, <1>7, <1>8, <1>9 DEF Next, ServerStep

\* What a step does to what is on the wire and to what is to be emitted.
GoesOn ==
  \/ toClient' = <<>>
  \/ toClient' = toClient
  \/ toClient # <<>> /\ toClient' = Tail(toClient)
  \/ \E m \in Wire : m.op # "serverInfo" /\ toClient' = Append(toClient, m)

LEMMA GreetingStays ==
  ASSUME TypeOK, GreetingIsFirst, GoesOn,
         \/ messages' \in {messages, <<>>}
         \/ toClient # <<>> /\ toClient' = Tail(toClient)
  PROVE  GreetingIsFirst'
<1>1. toClient \in Seq(Wire)
  BY DEF TypeOK
<1>2. CASE toClient' = <<>>
  BY <1>2 DEF GreetingIsFirst
<1>3. CASE toClient' = toClient /\ messages' \in {messages, <<>>}
  BY <1>3 DEF GreetingIsFirst
<1>4. CASE toClient # <<>> /\ toClient' = Tail(toClient)
  <2>1. /\ Len(toClient) \in Nat /\ Len(toClient') = Len(toClient) - 1
        /\ \A k \in 1..Len(toClient') : toClient'[k] = toClient[k + 1]
    BY <1>1, <1>4, HeadTailProperties, LenProperties
  <2>2. ASSUME NEW k \in 1..Len(toClient')
        PROVE  toClient'[k].op # "serverInfo"
    <3>1. k + 1 \in 1..Len(toClient) /\ k + 1 # 1 /\ toClient'[k] = toClient[k + 1]
      BY <2>1
    <3> QED
      BY <3>1 DEF GreetingIsFirst
  <2> QED
    BY <2>2 DEF GreetingIsFirst
<1>5. ASSUME NEW m \in Wire, m.op # "serverInfo", toClient' = Append(toClient, m),
             messages' \in {messages, <<>>}
      PROVE  GreetingIsFirst'
  <2>1. /\ Len(toClient) \in Nat /\ Len(toClient') = Len(toClient) + 1
        /\ toClient'[Len(toClient) + 1] = m
        /\ \A k \in 1..Len(toClient) : toClient'[k] = toClient[k]
    BY <1>1, <1>5, AppendProperties, LenProperties
  <2>2. ASSUME NEW k \in 1..Len(toClient'), toClient'[k].op = "serverInfo"
        PROVE  k = 1 /\ messages = <<>>
    <3>1. k \in 1..Len(toClient)
      BY <1>5, <2>1, <2>2
    <3> QED
      BY <2>1, <2>2, <3>1 DEF GreetingIsFirst
  <2> QED
    BY <1>5, <2>2 DEF GreetingIsFirst
<1>6. CASE toClient' = Tail(toClient) /\ toClient # <<>>
  BY <1>4, <1>6
<1>7. (\E m \in Wire : m.op # "serverInfo" /\ toClient' = Append(toClient, m))
        /\ messages' \in {messages, <<>>} => GreetingIsFirst'
  BY <1>5
<1> QED
  BY <1>2, <1>3, <1>4, <1>7 DEF GoesOn

LEMMA ServerGoesOn ==
  ASSUME TypeOK, ServerStep
  PROVE  GoesOn
<1>1. CASE Answers \/ (\E r \in served : ServerSendsMessage(r)) \/ (\E t \in Times : ServerPublishesTime(t))
  BY <1>1, ServerTalks DEF GoesOn, Sends
<1>2. ASSUME NEW c \in Channels, ServerAdvertises(c) \/ ServerUnadvertises(c)
      PROVE  GoesOn
  <2>1. [op |-> "advertise", channels |-> {c}] \in Wire /\ [op |-> "unadvertise", channel |-> c] \in Wire
    BY DEF Wire
  <2> QED
    BY <1>2, <2>1 DEF ServerAdvertises, ServerUnadvertises, Sends, GoesOn
<1> QED
  BY <1>1, <1>2 DEF ServerStep

\* Frames are kept in order, or dropped, while time goes on.
Kept == clock' \in Nat /\ (messages' = <<>> \/ (messages' = messages /\ clock' >= clock))

\* A frame that is emitted, or a step that emits none.
LEMMA EmitKeeps ==
  ASSUME TypeOK, clock' \in Nat, clock' >= clock, Emit(1, messages) \/ UNCHANGED emission
  PROVE  Kept /\ messages' \in {messages, <<>>}
<1>1. messages \in Seq(Message) /\ 1 \in Nat
  BY DEF TypeOK
<1>2. messages' \in {messages, <<>>}
  BY <1>1, Emits DEF emission
<1> QED
  BY <1>2 DEF Kept

\* The message that has been received is the latest.
LEMMA MessageKeeps ==
  ASSUME TypeOK, FramesAreOfOneTime, HandleMessage
  PROVE  FramesAreOfOneTime'
<1>1. clock \in Nat /\ clock' = clock /\ messages \in Seq(Message)
  BY DEF HandleMessage, time, TypeOK
<1>2. CASE Emit(1, messages) \/ UNCHANGED emission
  BY <1>1, <1>2, EmitKeeps, FramesKept DEF Kept
<1>3. ASSUME NEW r \in byId, Emit(1, Append(messages, [topic |-> TopicOf[r[2]], time |-> clock]))
      PROVE  FramesAreOfOneTime'
  <2> DEFINE m == [topic |-> TopicOf[r[2]], time |-> clock]
  <2>1. m \in Message
    BY <1>1, PlayerAssumption DEF TypeOK, Message
  <2>2. /\ Append(messages, m) \in Seq(Message) /\ Len(messages) \in Nat
        /\ Len(Append(messages, m)) = Len(messages) + 1
        /\ Append(messages, m)[Len(messages) + 1] = m
        /\ \A k \in 1..Len(messages) : Append(messages, m)[k] = messages[k]
    BY <1>1, <2>1, AppendProperties, LenProperties
  <2>3. DOMAIN Append(messages, m) = 1..(Len(messages) + 1) /\ DOMAIN messages = 1..Len(messages)
    BY <1>1, <2>2, LenProperties
  <2>4. messages' \in {Append(messages, m), <<>>}
    BY <1>3, <2>2, Emits
  <2>5. m.time = clock
    OBVIOUS
  <2> HIDE DEF m
  <2>6. CASE messages' = <<>>
    BY <2>6 DEF FramesAreOfOneTime
  <2>7. CASE messages' = Append(messages, m)
    <3> SUFFICES ASSUME NEW k \in 1..(Len(messages) + 1)
                 PROVE  /\ messages'[k].time <= clock
                        /\ k > 1 => messages'[k - 1].time <= messages'[k].time
      BY <1>1, <2>3, <2>7 DEF FramesAreOfOneTime
    <3>1. \A j \in 1..Len(messages) : messages'[j] = messages[j] /\ messages[j].time <= clock
      BY <2>2, <2>3, <2>7 DEF FramesAreOfOneTime
    <3>2. CASE k \in 1..Len(messages)
      <4>1. k > 1 => k - 1 \in 1..Len(messages) /\ messages[k - 1].time <= messages[k].time
        BY <2>2, <2>3, <3>2 DEF FramesAreOfOneTime
      <4> QED
        BY <3>1, <3>2, <4>1
    <3>3. CASE k = Len(messages) + 1
      <4>1. messages'[k].time = clock
        BY <2>2, <2>5, <2>7, <3>3
      <4>2. k > 1 => k - 1 \in 1..Len(messages)
        BY <2>2, <3>3
      <4> QED
        BY <1>1, <3>1, <4>1, <4>2
    <3> QED
      BY <2>2, <3>2, <3>3
  <2> QED
    BY <2>4, <2>6, <2>7
<1> QED
  BY <1>2, <1>3 DEF HandleMessage

LEMMA StepFrames ==
  ASSUME TypeOK, GreetingIsFirst, FramesAreOfOneTime, [Next]_vars
  PROVE  GreetingIsFirst' /\ FramesAreOfOneTime'
<1> USE DEF Kept
<1>0. clock \in Nat /\ messages \in Seq(Message) /\ toClient \in Seq(Wire)
  BY DEF TypeOK
<1>1. SUFFICES \/ Kept /\ GoesOn /\ messages' \in {messages, <<>>}
               \/ Kept /\ toClient # <<>> /\ toClient' = Tail(toClient)
               \/ FramesAreOfOneTime' /\ toClient # <<>> /\ toClient' = Tail(toClient)
               \/ Kept /\ GreetingIsFirst'
  BY <1>1, FramesKept, GreetingStays DEF GoesOn
<1>2. CASE UNCHANGED vars
  BY <1>0, <1>2 DEF vars, server, emission, time, GoesOn
<1>3. CASE Open
  BY <1>0, <1>3 DEF Open, server, emission, time, GoesOn
<1>4. CASE Opened
  <2>1. /\ clock' = 0 /\ messages' = <<>>
        /\ toClient' = <<[op |-> "serverInfo", session |-> serverSession],
                         [op |-> "advertise", channels |-> offered]>>
    BY <1>4 DEF Opened, ResetSessionState
  <2>2. GreetingIsFirst'
    BY <2>1 DEF GreetingIsFirst
  <2>3. Kept
    BY <2>1
  <2> QED
    BY <2>2, <2>3
<1>5. ASSUME NEW restart \in BOOLEAN, ConnectionCloses(restart)
      PROVE  Kept /\ GoesOn /\ messages' \in {messages, <<>>}
  <2>1. clock' = clock /\ Emit(1, messages) /\ toClient' = <<>>
    BY <1>5 DEF ConnectionCloses, time
  <2> QED
    BY <1>0, <2>1, EmitKeeps DEF GoesOn
<1>6. CASE ListenerResolves
  <2>1. clock' = clock /\ toClient' = toClient /\ messages' \in {messages, <<>>}
    BY <1>6 DEF ListenerResolves, time, server, Left
  <2> QED
    BY <1>0, <2>1 DEF GoesOn
<1>7. ASSUME NEW ts \in Selections, SetSubscriptions(ts)
      PROVE  Kept /\ GoesOn /\ messages' \in {messages, <<>>}
  BY <1>0, <1>7 DEF SetSubscriptions, emission, time, GoesOn
<1>8. ASSUME NEW ts \in Published, SetPublishers(ts)
      PROVE  Kept /\ GoesOn /\ messages' \in {messages, <<>>}
  <2>1. clock' = clock /\ (Emit(1, messages) \/ UNCHANGED emission) /\ toClient' = toClient
    BY <1>8 DEF SetPublishers, time
  <2> QED
    BY <1>0, <2>1, EmitKeeps DEF GoesOn
<1>9. CASE CallService
  BY <1>0, <1>9 DEF CallService, emission, time, GoesOn
<1>10. ASSUME NEW u \in Uris, FetchAsset(u)
       PROVE  Kept /\ GoesOn /\ messages' \in {messages, <<>>}
  BY <1>0, <1>10 DEF FetchAsset, emission, time, GoesOn
<1>11. CASE ServerStep
  BY <1>0, <1>11, ServerGoesOn, ServerTouches DEF emission, time
<1>12. CASE HandleServerInfo
  <2>1. Receive("serverInfo")
    BY <1>12 DEF HandleServerInfo
  <2>2. toClient # <<>> /\ toClient' = Tail(toClient) /\ Head(toClient).op = "serverInfo"
    BY <2>1, Received
  <2>3. 1 \in 1..Len(toClient) /\ toClient[1].op = "serverInfo"
    BY <1>0, <2>2, EmptySeq, HeadTailProperties, LenProperties
  <2>4. messages = <<>>
    BY <2>3 DEF GreetingIsFirst
  <2>5. \E n \in Nat : Emit(n, <<>>)
    BY <1>12, <2>4 DEF HandleServerInfo
  <2>6. clock' = 0
    BY <1>12 DEF HandleServerInfo, ResetSessionState
  <2>7. messages' = <<>>
    BY <2>5, EmptySeq, Emits
  <2>8. Kept
    BY <2>6, <2>7
  <2> QED
    BY <2>2, <2>8
<1>13. CASE HandleAdvertise \/ HandleUnadvertise
  <2>1. clock' = clock /\ Emit(2, messages)
    BY <1>13 DEF HandleAdvertise, HandleUnadvertise, time
  <2>2. toClient # <<>> /\ toClient' = Tail(toClient)
    BY <1>13 DEF HandleAdvertise, HandleUnadvertise, Receive
  <2>3. messages' \in {messages, <<>>}
    BY <1>0, <2>1, Emits
  <2> QED
    BY <1>0, <2>1, <2>2, <2>3
<1>14. CASE HandleMessage
  <2>1. toClient # <<>> /\ toClient' = Tail(toClient)
    BY <1>14 DEF HandleMessage, Receive
  <2> QED
    BY <1>14, <2>1, MessageKeeps
<1>15. CASE HandleTime
  <2>1. Receive("time")
    BY <1>15 DEF HandleTime
  <2>2. toClient # <<>> /\ toClient' = Tail(toClient) /\ Head(toClient).time \in Nat
    BY <2>1, Received, WireFields, PlayerAssumption
  <2>3. clock' = Head(toClient).time /\ Emit(1, IF clock # 0 /\ clock' < clock THEN <<>> ELSE messages)
    BY <1>15 DEF HandleTime, BeforeSeek
  <2>4. CASE clock # 0 /\ clock' < clock
    <3>1. Emit(1, <<>>) /\ <<>> \in Seq(Message) /\ 1 \in Nat
      BY <2>3, <2>4, EmptySeq
    <3>2. messages' = <<>>
      BY <3>1, Emits
    <3>3. Kept
      BY <2>2, <2>3, <3>2
    <3> QED
      BY <2>2, <3>3
  <2>5. CASE ~(clock # 0 /\ clock' < clock)
    BY <1>0, <2>2, <2>3, <2>5, EmitKeeps
  <2> QED
    BY <2>4, <2>5
<1>16. CASE HandleServiceCallResponse \/ HandleFetchAssetResponse
  <2>1. UNCHANGED <<messages, clock>>
    BY <1>16 DEF HandleServiceCallResponse, HandleFetchAssetResponse, emission, time
  <2>2. toClient # <<>> /\ toClient' = Tail(toClient)
    BY <1>16 DEF HandleServiceCallResponse, HandleFetchAssetResponse, Receive
  <2> QED
    BY <1>0, <2>1, <2>2
<1> QED
  BY <1>2, <1>3, <1>4, <1>5, <1>6, <1>7, <1>8, <1>9, <1>10, <1>11, <1>12, <1>13, <1>14, <1>15, <1>16
     DEF Next, ServerStep, Handle

-----------------------------------------------------------------------------
(* Calls and assets.  That they settle is a matter of fairness; that none  *)
(* is lost on the way is not.                                              *)

\* The answer to a request is on its way.
Coming(s, r) == \E k \in 1..Len(s) : s[k].op = r[1] /\ s[k].request = r[2]

\* What has not settled can still be settled: the player keeps what it will be told by.
Booked ==
  /\ \A n \in 1..nextFetch : <<"fetch", n>> \in settled \/ n \in fetches
  /\ \A n \in 1..nextCall : <<"call", n>> \in settled \/ n \in callbacks \/ n \in forgotten

\* While the connection is open, the server has the request or its answer is on its way.
\* (When it is lost, Booked is what remains: the next one settles the assets.)
Pursued == Connected => \A r \in Unsettled : r \in owed \/ Coming(toClient, r)

CallsAreKept == Booked /\ Pursued

\* An answer that is on its way stays so when another message is sent.
LEMMA ComingSent ==
  ASSUME NEW s \in Seq(Wire), NEW m \in Wire, NEW r
  PROVE  /\ Coming(s, r) => Coming(Append(s, m), r)
         /\ m.op = r[1] /\ m.request = r[2] => Coming(Append(s, m), r)
<1>1. /\ Len(s) \in Nat /\ Len(Append(s, m)) = Len(s) + 1
      /\ Append(s, m)[Len(s) + 1] = m
      /\ \A k \in 1..Len(s) : Append(s, m)[k] = s[k]
  BY AppendProperties, LenProperties
<1>2. ASSUME NEW k \in 1..Len(s), s[k].op = r[1], s[k].request = r[2]
      PROVE  Coming(Append(s, m), r)
  <2>1. k \in 1..Len(Append(s, m)) /\ Append(s, m)[k] = s[k]
    BY <1>1
  <2> QED
    BY <1>2, <2>1 DEF Coming
<1>3. ASSUME m.op = r[1], m.request = r[2]
      PROVE  Coming(Append(s, m), r)
  <2>1. Len(s) + 1 \in 1..Len(Append(s, m))
    BY <1>1
  <2> QED
    BY <1>1, <1>3, <2>1 DEF Coming
<1> QED
  BY <1>2, <1>3 DEF Coming

\* The message that is received is the answer, or the answer stays on its way.
LEMMA ComingReceived ==
  ASSUME NEW s \in Seq(Wire), s # <<>>, NEW r, Coming(s, r)
  PROVE  Coming(Tail(s), r) \/ (Head(s).op = r[1] /\ Head(s).request = r[2])
<1>1. /\ Len(s) \in Nat /\ Len(Tail(s)) = Len(s) - 1 /\ Head(s) = s[1]
      /\ \A k \in 1..Len(Tail(s)) : Tail(s)[k] = s[k + 1]
  BY HeadTailProperties, LenProperties
<1>2. PICK k \in 1..Len(s) : s[k].op = r[1] /\ s[k].request = r[2]
  BY DEF Coming
<1>3. CASE k # 1
  <2>1. k - 1 \in 1..Len(Tail(s)) /\ Tail(s)[k - 1] = s[k]
    BY <1>1, <1>3
  <2> QED
    BY <1>2, <2>1 DEF Coming
<1> QED
  BY <1>1, <1>2, <1>3

\* The fields of a request, of a fetch or of a call.
LEMMA RequestFields ==
  ASSUME NEW F, NEW C, NEW r \in {<<"fetch", n>> : n \in F} \cup {<<"call", n>> : n \in C}
  PROVE  /\ r = <<r[1], r[2]>>
         /\ (r[1] = "fetch" /\ r[2] \in F) \/ (r[1] = "call" /\ r[2] \in C)
<1>1. ASSUME NEW n \in F, r = <<"fetch", n>>
      PROVE  r = <<r[1], r[2]>> /\ r[1] = "fetch" /\ r[2] \in F
  BY <1>1
<1>2. ASSUME NEW n \in C, r = <<"call", n>>
      PROVE  r = <<r[1], r[2]>> /\ r[1] = "call" /\ r[2] \in C
  BY <1>2
<1>3. (\E n \in F : r = <<"fetch", n>>) \/ (\E n \in C : r = <<"call", n>>)
  OBVIOUS
<1>4. (\E n \in F : r = <<"fetch", n>>) => r = <<r[1], r[2]>> /\ r[1] = "fetch" /\ r[2] \in F
  BY <1>1
<1>5. (\E n \in C : r = <<"call", n>>) => r = <<r[1], r[2]>> /\ r[1] = "call" /\ r[2] \in C
  BY <1>2
<1> QED
  BY <1>3, <1>4, <1>5

\* The fields of an unsettled request.
LEMMA UnsettledFields ==
  ASSUME NEW r \in Unsettled
  PROVE  /\ r = <<r[1], r[2]>> /\ r \notin settled
         /\ \/ r[1] = "fetch" /\ r[2] \in 1..nextFetch
            \/ r[1] = "call" /\ r[2] \in 1..nextCall /\ r[2] \notin forgotten
<1>1. /\ r \in {<<"fetch", n>> : n \in 1..nextFetch} \cup {<<"call", n>> : n \in (1..nextCall) \ forgotten}
      /\ r \notin settled
  BY DEF Unsettled
<1>2. /\ r = <<r[1], r[2]>>
      /\ \/ r[1] = "fetch" /\ r[2] \in 1..nextFetch
         \/ r[1] = "call" /\ r[2] \in (1..nextCall) \ forgotten
  BY <1>1, RequestFields
<1> QED
  BY <1>1, <1>2

\* A step that asks for nothing new leaves no more unsettled.
LEMMA NoneAsked ==
  ASSUME nextFetch' = nextFetch, nextCall' = nextCall,
         settled \subseteq settled', forgotten \subseteq forgotten'
  PROVE  Unsettled' \subseteq Unsettled
<1>1. {<<"fetch", n>> : n \in 1..nextFetch'} = {<<"fetch", n>> : n \in 1..nextFetch}
  OBVIOUS
<1>2. {<<"call", n>> : n \in (1..nextCall') \ forgotten'}
        \subseteq {<<"call", n>> : n \in (1..nextCall) \ forgotten}
  OBVIOUS
<1> QED
  BY <1>1, <1>2 DEF Unsettled

\* A step that receives a message leaves the answers to all others on their way.
LEMMA ReceivingPursues ==
  ASSUME TypeOK, Pursued, NEW op, Receive(op), Unsettled' \subseteq Unsettled,
         \A r \in Unsettled' : r[1] = op => r[2] # Head(toClient).request
  PROVE  Pursued'
<1>1. toClient \in Seq(Wire) /\ toClient # <<>> /\ toClient' = Tail(toClient)
      /\ Head(toClient).op = op /\ Connected
  BY Received DEF TypeOK
<1>2. owed' = owed
  BY DEF Receive
<1>3. ASSUME NEW r \in Unsettled'
      PROVE  r \in owed' \/ Coming(toClient', r)
  <2>1. r \in owed \/ Coming(toClient, r)
    BY <1>1 DEF Pursued
  <2>2. CASE Coming(toClient, r)
    <3>1. Coming(Tail(toClient), r) \/ (Head(toClient).op = r[1] /\ Head(toClient).request = r[2])
      BY <1>1, <2>2, ComingReceived
    <3> QED
      BY <1>1, <3>1
  <2> QED
    BY <1>2, <2>1, <2>2
<1> QED
  BY <1>3 DEF Pursued

\* Any other step that asks for nothing new leaves them on their way too.
LEMMA OthersPursue ==
  ASSUME TypeOK, Pursued, Unsettled' \subseteq Unsettled, owed' = owed, Connected' => Connected,
         toClient' = toClient \/ (\E m \in Wire : Sends(m))
  PROVE  Pursued'
<1>1. toClient \in Seq(Wire)
  BY DEF TypeOK
<1>2. ASSUME NEW r, Coming(toClient, r)
      PROVE  Coming(toClient', r)
  <2>1. ASSUME NEW m \in Wire, Sends(m)
        PROVE  Coming(toClient', r)
    BY <1>1, <1>2, <2>1, ComingSent DEF Sends
  <2> QED
    BY <1>2, <2>1
<1>3. ASSUME Connected', NEW r \in Unsettled'
      PROVE  r \in owed' \/ Coming(toClient', r)
  <2>1. r \in owed \/ Coming(toClient, r)
    BY <1>3 DEF Pursued
  <2> QED
    BY <1>2, <2>1
<1> QED
  BY <1>3 DEF Pursued

\* A session that is reset settles every asset.
LEMMA ResetSettles ==
  ASSUME Booked, ResetSessionState, nextFetch' = nextFetch
  PROVE  /\ \A n \in 1..nextFetch' : <<"fetch", n>> \in settled'
         /\ settled \subseteq settled'
BY DEF Booked, ResetSessionState, RejectFetches

\* A new connection leaves nothing unsettled but what is forgotten.
LEMMA OpenedKeeps ==
  ASSUME Booked, Opened
  PROVE  CallsAreKept'
<1>1. /\ nextFetch' = nextFetch /\ nextCall' = nextCall
      /\ forgotten' = forgotten \cup callbacks
  BY DEF Opened
<1>2. (\A n \in 1..nextFetch' : <<"fetch", n>> \in settled') /\ settled \subseteq settled'
  BY <1>1, ResetSettles DEF Opened
<1>3. \A n \in 1..nextCall' : <<"call", n>> \in settled' \/ n \in forgotten'
  BY <1>1, <1>2 DEF Booked
<1>4. Unsettled' = {}
  BY <1>2, <1>3 DEF Unsettled
<1> QED
  BY <1>2, <1>3, <1>4 DEF CallsAreKept, Booked, Pursued

\* The greeting of another session settles every asset, that of the same one nothing.
LEMMA ServerInfoKeeps ==
  ASSUME TypeOK, CallsAreKept, HandleServerInfo
  PROVE  CallsAreKept'
<1>1. /\ Receive("serverInfo") /\ nextFetch' = nextFetch /\ nextCall' = nextCall
      /\ forgotten' = forgotten /\ callbacks' = callbacks
      /\ ResetSessionState \/ (settled' = settled /\ fetches' = fetches)
  BY DEF HandleServerInfo, Receive
<1>2. /\ settled \subseteq settled'
      /\ \A n \in 1..nextFetch' : <<"fetch", n>> \in settled' \/ n \in fetches'
  BY <1>1, ResetSettles DEF CallsAreKept, Booked
<1>3. Booked'
  BY <1>1, <1>2 DEF CallsAreKept, Booked
<1>4. Unsettled' \subseteq Unsettled
  BY <1>1, <1>2, NoneAsked
<1>5. \A r \in Unsettled' : r[1] # "serverInfo"
  BY <1>4, UnsettledFields
<1> QED
  BY <1>1, <1>3, <1>4, <1>5, ReceivingPursues DEF CallsAreKept

\* An answer settles its call, unless the callback is forgotten.
LEMMA CallAnswerKeeps ==
  ASSUME TypeOK, CallsAreKept, HandleServiceCallResponse
  PROVE  CallsAreKept'
<1> DEFINE m == Head(toClient).request
<1>1. /\ Receive("call") /\ nextFetch' = nextFetch /\ nextCall' = nextCall
      /\ forgotten' = forgotten /\ fetches' = fetches
      /\ callbacks' = callbacks \ {m}
      /\ settled' = IF m \in callbacks THEN settled \cup {<<"call", m>>} ELSE settled
  BY DEF HandleServiceCallResponse, Receive
<1> HIDE DEF m
<1>2. settled \subseteq settled'
  BY <1>1
<1>3. Booked'
  BY <1>1 DEF CallsAreKept, Booked
<1>4. Unsettled' \subseteq Unsettled
  BY <1>1, <1>2, NoneAsked
<1>5. ASSUME NEW r \in Unsettled', r[1] = "call"
      PROVE  r[2] # m
  <2>1. /\ r = <<r[1], r[2]>> /\ r \notin settled' /\ r[2] \notin forgotten
        /\ r[2] \in 1..nextCall
    BY <1>1, <1>4, <1>5, UnsettledFields DEF Unsettled
  <2>2. r[2] \in callbacks
    BY <1>2, <1>5, <2>1 DEF CallsAreKept, Booked
  <2> QED
    BY <1>1, <1>5, <2>1, <2>2
<1> QED
  BY <1>1, <1>3, <1>4, <1>5, ReceivingPursues DEF CallsAreKept, m

\* An asset that comes settles its request, and may have a service call forgotten.
LEMMA AssetKeeps ==
  ASSUME TypeOK, CallsAreKept, HandleFetchAssetResponse
  PROVE  CallsAreKept'
<1> DEFINE m == Head(toClient).request
<1>1. /\ Receive("fetch") /\ nextFetch' = nextFetch /\ nextCall' = nextCall
      /\ fetches' = fetches
      /\ IF m \notin fetches
         THEN callbacks' = callbacks /\ forgotten' = forgotten /\ settled' = settled
         ELSE /\ settled' = settled \cup {<<"fetch", m>>}
              /\ callbacks' = callbacks \ {m}
              /\ forgotten' = forgotten \cup (callbacks \cap {m})
  BY DEF HandleFetchAssetResponse, Receive
<1> HIDE DEF m
<1>2. settled \subseteq settled' /\ forgotten \subseteq forgotten'
  BY <1>1
<1>3. Booked'
  BY <1>1 DEF CallsAreKept, Booked
<1>4. Unsettled' \subseteq Unsettled
  BY <1>1, <1>2, NoneAsked
<1>5. ASSUME NEW r \in Unsettled', r[1] = "fetch"
      PROVE  r[2] # m
  <2>1. r = <<r[1], r[2]>> /\ r \notin settled' /\ r[2] \in 1..nextFetch
    BY <1>4, <1>5, UnsettledFields DEF Unsettled
  <2>2. r[2] \in fetches
    BY <1>2, <1>5, <2>1 DEF CallsAreKept, Booked
  <2> QED
    BY <1>1, <1>5, <2>1, <2>2
<1> QED
  BY <1>1, <1>3, <1>4, <1>5, ReceivingPursues DEF CallsAreKept, m

\* What asks for more sends the request, or waits for the connection to be opened.
LEMMA AskingKeeps ==
  ASSUME TypeOK, CallsAreKept, CallService \/ (\E u \in Uris : FetchAsset(u))
  PROVE  CallsAreKept'
<1>1. /\ toClient' = toClient /\ settled' = settled /\ forgotten' = forgotten
      /\ Connected' = Connected
      /\ \/ /\ nextCall' = nextCall + 1 /\ callbacks' = callbacks \cup {nextCall'}
            /\ Connected => owed' = owed \cup {<<"call", nextCall'>>}
            /\ nextFetch' = nextFetch /\ fetches' = fetches
         \/ /\ nextFetch' = nextFetch + 1 /\ fetches' = fetches \cup {nextFetch'}
            /\ Connected => owed' = owed \cup {<<"fetch", nextFetch'>>}
            /\ nextCall' = nextCall /\ callbacks' = callbacks
  BY DEF CallService, FetchAsset, services, assets, connection, Connected
<1>2. nextCall \in Nat /\ nextFetch \in Nat
  BY DEF TypeOK
<1>3. Booked'
  <2>1. /\ \A n \in 1..nextFetch' : n \in 1..nextFetch \/ n \in fetches'
        /\ \A n \in 1..nextCall' : n \in 1..nextCall \/ n \in callbacks'
    BY <1>1, <1>2
  <2> QED
    BY <1>1, <2>1 DEF CallsAreKept, Booked
<1>4. ASSUME Connected', NEW r \in Unsettled'
      PROVE  r \in owed' \/ Coming(toClient', r)
  <2>1. /\ r = <<r[1], r[2]>> /\ r \notin settled
        /\ \/ r[1] = "fetch" /\ r[2] \in 1..nextFetch'
           \/ r[1] = "call" /\ r[2] \in 1..nextCall' /\ r[2] \notin forgotten
    <3>1. /\ r \in {<<"fetch", n>> : n \in 1..nextFetch'}
                  \cup {<<"call", n>> : n \in (1..nextCall') \ forgotten'}
          /\ r \notin settled'
      BY DEF Unsettled
    <3>2. /\ r = <<r[1], r[2]>>
          /\ \/ r[1] = "fetch" /\ r[2] \in 1..nextFetch'
             \/ r[1] = "call" /\ r[2] \in (1..nextCall') \ forgotten'
      BY <3>1, RequestFields
    <3> QED
      BY <1>1, <3>1, <3>2
  <2>2. CASE r \in Unsettled
    <3>1. r \in owed \/ Coming(toClient, r)
      BY <1>1, <1>4, <2>2 DEF CallsAreKept, Pursued
    <3> QED
      BY <1>1, <1>4, <3>1
  <2>3. CASE r \notin Unsettled
    <3>1. ~(r[1] = "fetch" /\ r[2] \in 1..nextFetch) /\ ~(r[1] = "call" /\ r[2] \in 1..nextCall)
      BY <2>1, <2>3 DEF Unsettled
    <3>2. \/ r = <<"call", nextCall'>> /\ nextCall' = nextCall + 1
          \/ r = <<"fetch", nextFetch'>> /\ nextFetch' = nextFetch + 1
      BY <1>1, <1>2, <2>1, <3>1
    <3> QED
      BY <1>1, <1>2, <1>4, <3>2
  <2> QED
    BY <2>2, <2>3
<1> QED
  BY <1>3, <1>4 DEF CallsAreKept, Pursued

\* The server answers what it owes.
LEMMA AnswerKeeps ==
  ASSUME TypeOK, CallsAreKept, Answers
  PROVE  CallsAreKept'
<1>1. PICK q \in owed : ServerAnswers(q)
  BY DEF Answers
<1> DEFINE m == [op |-> q[1], request |-> q[2]]
<1>2. /\ owed' = owed \ {q} /\ Sends(m) /\ Connected' = Connected
      /\ nextCall' = nextCall /\ nextFetch' = nextFetch /\ callbacks' = callbacks
      /\ fetches' = fetches /\ settled' = settled /\ forgotten' = forgotten
  BY <1>1 DEF ServerAnswers, services, assets, connection, Connected
<1>3. m \in Wire /\ m.op = q[1] /\ m.request = q[2] /\ toClient \in Seq(Wire)
  BY DEF TypeOK, Wire
<1> HIDE DEF m
<1>4. Booked'
  BY <1>2 DEF CallsAreKept, Booked
<1>5. Unsettled' = Unsettled
  BY <1>2 DEF Unsettled
<1>6. ASSUME Connected', NEW r \in Unsettled'
      PROVE  r \in owed' \/ Coming(toClient', r)
  <2>1. r \in owed \/ Coming(toClient, r)
    BY <1>2, <1>5, <1>6 DEF CallsAreKept, Pursued
  <2>2. toClient' = Append(toClient, m)
    BY <1>2, <1>6 DEF Sends
  <2>3. Coming(toClient, r) => Coming(toClient', r)
    BY <1>3, <2>2, ComingSent
  <2>4. r = q => Coming(toClient', r)
    BY <1>3, <2>2, ComingSent
  <2> QED
    BY <1>2, <2>1, <2>3, <2>4
<1> QED
  BY <1>4, <1>6 DEF CallsAreKept, Pursued

\* What is not about calls and assets.
Bookkeeping == <<nextCall, callbacks, forgotten, nextFetch, fetches, settled>>

\* All other steps leave calls and assets alone.
LEMMA RestKeeps ==
  ASSUME TypeOK, CallsAreKept, UNCHANGED Bookkeeping,
         \/ ~Connected'
         \/ \E op \in {"advertise", "unadvertise", "message", "time"} : Receive(op)
         \/ /\ owed' = owed /\ (Connected' => Connected)
            /\ toClient' = toClient \/ (\E m \in Wire : Sends(m))
  PROVE  CallsAreKept'
<1>1. Booked'
  BY DEF CallsAreKept, Booked, Bookkeeping
<1>2. Unsettled' = Unsettled
  <2>1. nextFetch' = nextFetch /\ nextCall' = nextCall /\ forgotten' = forgotten /\ settled' = settled
    BY DEF Bookkeeping
  <2> QED
    BY <2>1 DEF Unsettled
<1>3. CASE ~Connected'
  BY <1>1, <1>3 DEF CallsAreKept, Pursued
<1>4. ASSUME NEW op \in {"advertise", "unadvertise", "message", "time"}, Receive(op)
      PROVE  Pursued'
  <2>1. \A r \in Unsettled' : r[1] # op
    BY <1>2, UnsettledFields
  <2> QED
    BY <1>2, <1>4, <2>1, ReceivingPursues DEF CallsAreKept
<1>5. CASE /\ owed' = owed /\ (Connected' => Connected)
           /\ toClient' = toClient \/ (\E m \in Wire : Sends(m))
  BY <1>1, <1>2, <1>5, OthersPursue DEF CallsAreKept
<1> QED
  BY <1>1, <1>3, <1>4, <1>5 DEF CallsAreKept

LEMMA StepKeepsCalls ==
  ASSUME TypeOK, CallsAreKept, [Next]_vars
  PROVE  CallsAreKept'
<1>1. CASE Open \/ (\E restart \in BOOLEAN : ConnectionCloses(restart))
  <2>1. ~Connected' /\ UNCHANGED Bookkeeping
    BY <1>1 DEF Open, ConnectionCloses, Connected, Bookkeeping, services, assets
  <2> QED
    BY <2>1, RestKeeps
<1>2. CASE Opened
  BY <1>2, OpenedKeeps DEF CallsAreKept
<1>3. CASE ListenerResolves \/ (\E ts \in Selections : SetSubscriptions(ts))
             \/ (\E ts \in Published : SetPublishers(ts))
  <2>1. /\ UNCHANGED Bookkeeping /\ owed' = owed /\ Connected' = Connected
        /\ toClient' = toClient
    BY <1>3 DEF ListenerResolves, SetSubscriptions, SetPublishers, Connected, Bookkeeping,
                services, assets, server, connection
  <2> QED
    BY <2>1, RestKeeps
<1>4. CASE HandleAdvertise \/ HandleUnadvertise \/ HandleMessage \/ HandleTime
  <2>1. UNCHANGED Bookkeeping
    BY <1>4 DEF HandleAdvertise, HandleUnadvertise, HandleMessage, HandleTime, Receive, Bookkeeping
  <2>2. \E op \in {"advertise", "unadvertise", "message", "time"} : Receive(op)
    BY <1>4 DEF HandleAdvertise, HandleUnadvertise, HandleMessage, HandleTime
  <2> QED
    BY <2>1, <2>2, RestKeeps
<1>5. CASE HandleServerInfo \/ HandleServiceCallResponse \/ HandleFetchAssetResponse
  BY <1>5, ServerInfoKeeps, CallAnswerKeeps, AssetKeeps
<1>6. CASE CallService \/ (\E u \in Uris : FetchAsset(u))
  BY <1>6, AskingKeeps
<1>7. CASE Answers
  BY <1>7, AnswerKeeps
<1>8. CASE \/ \E c \in Channels : ServerAdvertises(c) \/ ServerUnadvertises(c)
           \/ \E r \in served : ServerSendsMessage(r)
           \/ \E t \in Times : ServerPublishesTime(t)
  <2>1. UNCHANGED Bookkeeping /\ owed' = owed /\ Connected' = Connected
    BY <1>8 DEF ServerAdvertises, ServerUnadvertises, ServerSendsMessage, ServerPublishesTime,
                ServerEvent, Bookkeeping, services, assets, connection, Connected
  <2>2. ASSUME NEW c \in Channels, ServerAdvertises(c) \/ ServerUnadvertises(c)
        PROVE  \E m \in Wire : Sends(m)
    <3>1. [op |-> "advertise", channels |-> {c}] \in Wire /\ [op |-> "unadvertise", channel |-> c] \in Wire
      BY DEF Wire
    <3> QED
      BY <2>2, <3>1 DEF ServerAdvertises, ServerUnadvertises
  <2>3. ASSUME NEW r \in served, ServerSendsMessage(r)
        PROVE  \E m \in Wire : Sends(m)
    <3>1. [op |-> "message", sub |-> r[1]] \in Wire
      BY DEF Wire, TypeOK
    <3> QED
      BY <2>3, <3>1 DEF ServerSendsMessage
  <2>4. ASSUME NEW t \in Times, ServerPublishesTime(t)
        PROVE  \E m \in Wire : Sends(m)
    <3>1. [op |-> "time", time |-> t] \in Wire
      BY DEF Wire
    <3> QED
      BY <2>4, <3>1 DEF ServerPublishesTime
  <2> QED
    BY <1>8, <2>1, <2>2, <2>3, <2>4, RestKeeps
<1>9. CASE UNCHANGED vars
  <2>1. /\ UNCHANGED Bookkeeping /\ owed' = owed /\ Connected' = Connected
        /\ toClient' = toClient
    BY <1>9 DEF vars, Bookkeeping, services, assets, server, connection, Connected
  <2> QED
    BY <2>1, RestKeeps
<1> QED
  BY <1>1, <1>2, <1>3, <1>4, <1>5, <1>6, <1>7, <1>8, <1>9 DEF Next, Handle

-----------------------------------------------------------------------------
(* The theorems.                                                           *)

LEMMA InitEstablishes ==
  ASSUME Init
  PROVE  IInv
<1> USE DEF Init
<1>1. Shapes
  BY PlayerAssumption, EmptySeq DEF Shapes
<1>2. Flags
  BY DEF Flags
<1>3. ~Connected
  BY DEF Connected
<1>4. TypeOK
  BY <1>1, <1>2, <1>3, TypesSplit DEF Filed
<1>5. SubscriptionsAgree
  BY <1>3 DEF SubscriptionsAgree, IdsAreFresh, ChannelsAreKnown, WantedIsKept, ServedIsHeld, WireAgrees
<1>6. PublishedAgrees /\ GreetingIsFirst /\ FramesAreOfOneTime
  BY <1>3, EmptySeq DEF PublishedAgrees, GreetingIsFirst, FramesAreOfOneTime
<1> QED
  BY <1>4, <1>5, <1>6 DEF IInv

LEMMA StepPreserves ==
  ASSUME IInv, [Next]_vars
  PROVE  IInv'
<1>1. TypeOK /\ SubscriptionsAgree /\ PublishedAgrees /\ GreetingIsFirst /\ FramesAreOfOneTime
  BY DEF IInv
<1>2. Agreement' /\ Shapes' /\ Flags'
  BY <1>1, StepAgrees, StepShapes, StepFlags
<1>3. TypeOK'
  BY <1>2, TypesSplit DEF Agreement, TypeOK, Shapes, Flags, Filed
<1> QED
  BY <1>1, <1>2, <1>3, StepPublishes, StepFrames DEF IInv, Agreement

LEMMA InvariantHolds == Spec => []IInv
<1>1. Init => IInv
  BY InitEstablishes
<1>2. IInv /\ [Next]_vars => IInv'
  BY StepPreserves
<1> QED
  BY <1>1, <1>2, PTL DEF Spec

\* Once all that was sent has arrived, subscriptions and publications are what was asked for.
LEMMA QuietWire ==
  ASSUME IInv
  PROVE  ServerSendsWhatIsWanted
<1>1. TypeOK /\ SubscriptionsAgree /\ PublishedAgrees
  BY DEF IInv
<1> SUFFICES ASSUME Connected, toClient = <<>>
             PROVE  /\ {TopicOf[r[2]] : r \in served} \subseteq wanted \cup revived
                    /\ \A q, r \in served : TopicOf[q[2]] = TopicOf[r[2]] => q = r
                    /\ (wanted \ shadowed) \cap {TopicOf[c] : c \in offered}
                         \subseteq {TopicOf[r[2]] : r \in served}
                    /\ published = publications
  BY <1>1 DEF ServerSendsWhatIsWanted
<1>2. /\ \A t \in Topics : byTopic[t] # 0 => <<byTopic[t], channels[t]>> \in byId
      /\ \A r \in byId : /\ r[2] \in Channels /\ channels[TopicOf[r[2]]] = r[2]
                         /\ byTopic[TopicOf[r[2]]] = r[1] /\ r[1] # 0
                         /\ r = <<r[1], r[2]>> /\ TopicOf[r[2]] \in Topics
      /\ 0 \notin Channels
  BY <1>1, Held
<1>3. \A c : Silent(toClient, c)
  BY EmptySeq DEF Silent
<1>4. byId = served
  BY <1>1, <1>3 DEF SubscriptionsAgree, ServedIsHeld, WireAgrees
<1>5. \A r \in served : TopicOf[r[2]] \in wanted \cup revived
  BY <1>1, <1>2, <1>4 DEF SubscriptionsAgree, WantedIsKept, Resolved
<1>6. \A q, r \in served : TopicOf[q[2]] = TopicOf[r[2]] => q = r
  BY <1>2, <1>4
<1>7. ASSUME NEW c \in offered, TopicOf[c] \in wanted \ shadowed
      PROVE  \E r \in served : TopicOf[r[2]] = TopicOf[c]
  <2>1. c \in Channels /\ TopicOf[c] \in Topics
    BY <1>1, PlayerAssumption DEF TypeOK
  <2>2. channels[TopicOf[c]] = c
    BY <1>1, <1>3, <1>7, <2>1 DEF SubscriptionsAgree, WireAgrees, ChannelAgrees
  <2>3. TopicOf[c] \in Resolved
    BY <1>1, <1>2, <1>7, <2>1, <2>2 DEF SubscriptionsAgree, WantedIsKept, ChannelsAreKnown
  <2> QED
    BY <1>2, <1>4, <2>1, <2>2, <2>3 DEF Resolved
<1> QED
  BY <1>1, <1>5, <1>6, <1>7 DEF PublishedAgrees

\* Once all that was sent has arrived, the server sends what is wanted and nothing else,
\* however often the connection was lost and channels came and went.
THEOREM SubscriptionsSettle == Spec => []ServerSendsWhatIsWanted
<1>1. IInv => ServerSendsWhatIsWanted
  BY QuietWire
<1> QED
  BY <1>1, InvariantHolds, PTL

\* No state mixes messages from before and after time went back, or of two sessions.
THEOREM FramesDoNotMix == Spec => []FramesAreOfOneTime
<1>1. IInv => FramesAreOfOneTime
  BY DEF IInv
<1> QED
  BY <1>1, InvariantHolds, PTL

\* What CallsSettle needs and fairness does not give: an asset or a service call that has not
\* settled can still be settled, and while the player is connected the server has the
\* request or its answer is on its way.
THEOREM CallsAreNotLost == Spec => []CallsAreKept
<1>1. Init => CallsAreKept
  BY EmptySeq DEF Init, CallsAreKept, Booked, Pursued, Connected
<1>2. IInv /\ CallsAreKept /\ [Next]_vars => CallsAreKept'
  BY StepKeepsCalls DEF IInv
<1> QED
  BY <1>1, <1>2, InvariantHolds, PTL DEF Spec
=============================================================================
