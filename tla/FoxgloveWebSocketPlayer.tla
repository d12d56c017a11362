----------------------- MODULE FoxgloveWebSocketPlayer -----------------------
(***************************************************************************)
(* FoxgloveWebSocketPlayer: a live connection, which is made again when it *)
(* is lost.  The server advertises channels, each on a topic; the player   *)
(* subscribes to those whose topics are wanted, advertises what panels     *)
(* publish, calls services, fetches assets, and emits what it has received *)
(* as states of a player.                                                  *)
(*                                                                         *)
(* The server acts at once on what it is sent; what it sends is in order   *)
(* and may be late.  (That its own acts are late makes no difference that  *)
(* the player could see.)  What is sent before the connection is open is   *)
(* lost: the worker that holds the WebSocket fails to send it.             *)
(*                                                                         *)
(* The server publishes the time, takes what the client publishes, and has *)
(* services, which it advertises with its greeting, and assets.            *)
(*                                                                         *)
(* Left out: close(), after which nothing happens; servers that do not     *)
(* publish the time; parameters, status, and the graph of connections;     *)
(* channels that cannot be parsed, and publications that no encoding can   *)
(* carry; datatypes and statistics; what is dropped beyond 400 MB in one   *)
(* state; publish() and setParameter(); the presence and the problems that *)
(* a state carries.                                                        *)
(***************************************************************************)
EXTENDS Integers, Sequences, FiniteSets

CONSTANTS
  Topics,      \* topics
  TopicOf,     \* the channels the server may have, from 1, each with its topic
  Started,     \* the channels a server has when it is started
  Selections,  \* the sets of topics that are subscribed to
  Published,   \* the sets of topics that panels publish
  Times,       \* times the server publishes
  Uris,        \* assets
  MaxCalls,    \* bound: calls of the player's methods
  MaxEvents    \* bound: events of the server and of the network

Channels == DOMAIN TopicOf

ASSUME PlayerAssumption ==
  /\ Channels \subseteq Nat \ {0} /\ TopicOf \in [Channels -> Topics]
  /\ Started \subseteq Channels
  /\ IsFiniteSet(Topics)
  /\ Selections \subseteq SUBSET Topics /\ Published \subseteq SUBSET Topics
  /\ Times \subseteq Nat \ {0}
  /\ MaxCalls \in Nat /\ MaxEvents \in Nat

VARIABLES
  offered,       \* the server: the channels it has
  served,        \* and the client's subscriptions <<id, channel>>
  published,     \* the topics that the client has advertised to it
  owed,          \* requests it has not answered yet
  serverSession, \* its session; another one each time it is started
  toClient,      \* what it has sent
  client,        \* #client: "none", "connecting", "open"
  id,            \* #id: the session, 0 for one the player made up
  unresolved,    \* #unresolvedSubscriptions
  byTopic,       \* #resolvedSubscriptionsByTopic, 0 for none
  byId,          \* #resolvedSubscriptionsById: <<id, channel>>
  nextSub,       \* the client's next subscription id
  channels,      \* #channelsByTopic and #channelsById, 0 for none
  known,         \* #topics is set
  toPublish,     \* #unresolvedPublications
  publications,  \* #publicationsByTopic
  mayPublish,    \* #playerCapabilities has advertise
  mayCall,       \* #servicesByName has services
  callbacks,     \* #serviceResponseCbs
  nextCall,      \* #nextServiceCallId
  fetches,       \* #fetchAssetRequests
  nextFetch,     \* #nextAssetRequestId
  fetched,       \* #fetchedAssets: the request for the asset, 0 for none
  messages,      \* #parsedMessages
  clock,         \* #clockTime, 0 for undefined
  seeks,         \* #numTimeSeeks
  emitting,      \* a state is with the listener
  again,         \* another one is to be emitted after it
  calls, events, \* calls made, events of the server
  settled,       \* history: the service calls and fetches that have settled
  forgotten,     \* service calls whose callback was deleted
  wanted,        \* what was subscribed to last
  revived,       \* topics subscribed to again although they are not wanted any more
  shadowed       \* topics of which a second channel was refused

server == <<offered, served, published, owed, serverSession, toClient, events>>
subscriptions == <<unresolved, byTopic, byId, nextSub, wanted, revived>>
topics == <<channels, known, shadowed>>
publishing == <<toPublish, publications, mayPublish>>
services == <<mayCall, callbacks, nextCall, forgotten>>
assets == <<fetches, nextFetch, fetched>>
emission == <<messages, emitting, again>>
time == <<clock, seeks>>
connection == <<client, id>>
vars == <<server, subscriptions, topics, publishing, services, assets, settled, emission,
          time, connection, calls>>

-----------------------------------------------------------------------------
(* Emission: #emitState, debounced.                                        *)

\* With data if the topics are known, and then with all the messages there are.
Left(msgs) == IF known' THEN <<>> ELSE msgs

\* What a handler does that asks n times for a state to be emitted, with these
\* messages to go into it.
Emit(n, msgs) ==
  IF emitting
  THEN again' = TRUE /\ messages' = msgs /\ UNCHANGED emitting
  ELSE emitting' = TRUE /\ again' = (n > 1) /\ messages' = Left(msgs)

ListenerResolves ==
  /\ emitting
  /\ emitting' = again
  /\ again' = FALSE
  /\ UNCHANGED topics
  /\ messages' = IF again THEN Left(messages) ELSE messages
  /\ UNCHANGED <<server, subscriptions, publishing, services, assets, settled, time,
                 connection, calls>>

-----------------------------------------------------------------------------
(* The connection.                                                         *)

\* MUTANT of RejectFetches: their callbacks are cleared like those of service calls.
RejectFetchesMutant == settled

\* Every fetch there is settles when the session is reset.
RejectFetches == settled \cup {<<"fetch", n>> : n \in fetches}

\* #resetSessionState, but for what no other action looks at.
ResetSessionState ==
  /\ clock' = 0
  /\ settled' = RejectFetches
  /\ fetches' = {}
  /\ fetched' = [u \in Uris |-> 0]

\* #open, after the constructor or three seconds after a close.
Open ==
  /\ client = "none"
  /\ client' = "connecting"
  /\ nextSub' = 1
  /\ UNCHANGED <<server, unresolved, byTopic, byId, wanted, revived, topics, publishing,
                 services, assets, settled, emission, time, id, calls>>

\* MUTANT of Resubscribed: only what has waited for a channel is subscribed to again.
ResubscribedMutant == unresolved

\* What had a subscription waits for its channel again.
Resubscribed == unresolved \cup {t \in Topics : byTopic[t] # 0}

\* The open event.  The server greets with what it is and the channels it has.
Opened ==
  /\ client = "connecting"
  /\ client' = "open"
  /\ ResetSessionState
  /\ messages' = <<>>
  /\ unresolved' = Resubscribed
  /\ byTopic' = [t \in Topics |-> 0] /\ byId' = {}
  /\ revived' = (revived \cup {t \in Topics : byTopic[t] # 0}) \ wanted
  /\ channels' = [t \in Topics |-> 0] /\ shadowed' = {}
  /\ publications' = {}
  /\ mayCall' = FALSE /\ callbacks' = {} /\ forgotten' = forgotten \cup callbacks
  /\ served' = {} /\ published' = {} /\ owed' = {}
  /\ toClient' = <<[op |-> "serverInfo", session |-> serverSession],
                   [op |-> "advertise", channels |-> offered]>>
  /\ UNCHANGED <<offered, serverSession, events, nextSub, wanted, known, toPublish,
                 mayPublish, nextCall, nextFetch, emitting, again, seeks, id, calls>>

\* The close event, also of a connection that was never opened or that has taken too
\* long.  The server may have been started anew.
ConnectionCloses(restart) ==
  /\ client # "none"
  /\ events < MaxEvents
  /\ events' = events + 1
  /\ client' = "none"
  /\ UNCHANGED <<time, known>>
  /\ Emit(1, messages)
  /\ toClient' = <<>> /\ served' = {} /\ published' = {} /\ owed' = {}
  /\ IF restart THEN offered' = Started /\ serverSession' = serverSession + 1
     ELSE UNCHANGED <<offered, serverSession>>
  /\ UNCHANGED <<subscriptions, channels, shadowed, publishing, services, assets, settled,
                 id, calls>>

-----------------------------------------------------------------------------
(* What is sent to the server.                                             *)

Connected == client = "open"

Advertise(ts) ==
  published' = IF Connected THEN published \cup ts ELSE published

\* #processUnresolvedSubscriptions, for the topics of todo and the channels of cs:
\* subscription ids are given in any order.
Subscribe(todo, cs, resolvedByTopic, resolvedById, onServer) ==
  LET found == {t \in todo : cs[t] # 0}
  IN \E n \in [found -> nextSub..(nextSub + Cardinality(found) - 1)] :
       /\ \A t, u \in found : n[t] = n[u] => t = u
       /\ nextSub' = nextSub + Cardinality(found)
       /\ unresolved' = todo \ found
       /\ byTopic' = [t \in Topics |-> IF t \in found THEN n[t] ELSE resolvedByTopic[t]]
       /\ byId' = {r \in resolvedById : \A t \in found : r[1] # n[t]}
                    \cup {<<n[t], cs[t]>> : t \in found}
       /\ served' = IF Connected
                    THEN onServer \cup {<<n[t], cs[t]>> : t \in {u \in found : cs[u] \in offered}}
                    ELSE onServer

\* The topics whose subscriptions end.
Dropped(ts) == {t \in Topics \ ts : byTopic[t] # 0}

SetSubscriptions(ts) ==
  /\ calls < MaxCalls
  /\ calls' = calls + 1
  /\ wanted' = ts
  /\ revived' = {}
  /\ IF client = "none"
     THEN unresolved' = ts /\ UNCHANGED <<byTopic, byId, nextSub, served>>
     ELSE LET ended == {byTopic[t] : t \in Dropped(ts)}
              todo == (unresolved \cap ts) \cup {t \in ts : byTopic[t] = 0}
          IN Subscribe(todo, channels,
                       [t \in Topics |-> IF t \in Dropped(ts) THEN 0 ELSE byTopic[t]],
                       {r \in byId : r[1] \notin ended},
                       {r \in served : r[1] \notin ended})
  /\ UNCHANGED <<offered, published, owed, serverSession, toClient, events, topics,
                 publishing, services, assets, settled, emission, time, connection>>

SetPublishers(ts) ==
  /\ calls < MaxCalls
  /\ calls' = calls + 1
  /\ UNCHANGED <<time, known>>
  /\ IF client = "none" \/ ~mayPublish
     THEN toPublish' = ts /\ UNCHANGED <<publications, published, emission>>
     ELSE /\ publications' = ts
          /\ published' = IF Connected THEN (published \ (publications \ ts)) \cup (ts \ publications)
                          ELSE published
          /\ IF ts # publications THEN Emit(1, messages) ELSE UNCHANGED emission
          /\ UNCHANGED toPublish
  /\ UNCHANGED <<offered, served, owed, serverSession, toClient, events, subscriptions,
                 channels, shadowed, mayPublish, services, assets, settled, client, id>>

\* A service that was advertised, on this connection or the last one.
CallService ==
  /\ calls < MaxCalls
  /\ client # "none" /\ mayCall
  /\ calls' = calls + 1
  /\ nextCall' = nextCall + 1
  /\ callbacks' = callbacks \cup {nextCall'}
  /\ owed' = IF Connected THEN owed \cup {<<"call", nextCall'>>} ELSE owed
  /\ UNCHANGED <<offered, served, published, serverSession, toClient, events, subscriptions,
                 topics, publishing, mayCall, forgotten, assets, settled, emission, time, connection>>

\* An asset is asked for once; other calls await the same promise.
FetchAsset(u) ==
  /\ calls < MaxCalls
  /\ client # "none" /\ id # 0
  /\ fetched[u] = 0
  /\ calls' = calls + 1
  /\ nextFetch' = nextFetch + 1
  /\ fetches' = fetches \cup {nextFetch'}
  /\ fetched' = [fetched EXCEPT ![u] = nextFetch']
  /\ owed' = IF Connected THEN owed \cup {<<"fetch", nextFetch'>>} ELSE owed
  /\ UNCHANGED <<offered, served, published, serverSession, toClient, events, subscriptions,
                 topics, publishing, services, settled, emission, time, connection>>

-----------------------------------------------------------------------------
(* What arrives.                                                           *)

\* The next message is taken off the wire.
Receive(op) ==
  /\ Connected
  /\ toClient # <<>>
  /\ Head(toClient).op = op
  /\ toClient' = Tail(toClient)
  /\ UNCHANGED <<offered, owed, serverSession, events, client, wanted, revived, nextCall,
                 nextFetch, calls>>

\* serverInfo, and #setupPublishers.
HandleServerInfo ==
  /\ Receive("serverInfo")
  /\ LET session == Head(toClient).session
     IN /\ id' = session
        /\ IF id # session THEN ResetSessionState
           ELSE clock' = 0 /\ UNCHANGED <<settled, fetches, fetched>>
        /\ UNCHANGED <<seeks, known>>
        /\ Emit(IF toPublish = {} THEN 1 ELSE 2, IF id # session THEN <<>> ELSE messages)
  /\ mayPublish' = TRUE /\ mayCall' = TRUE
  /\ toPublish' = {}
  /\ publications' = publications \cup toPublish
  /\ Advertise(toPublish)
  /\ UNCHANGED <<served, unresolved, byTopic, byId, nextSub, channels, shadowed, callbacks,
                 forgotten>>

\* Of several channels on a topic the player has the first one.
HandleAdvertise ==
  /\ Receive("advertise")
  /\ LET cs == Head(toClient).channels
         on(t) == {c \in cs : TopicOf[c] = t}
     IN /\ \E had \in [Topics -> Channels \cup {0}] :
             /\ \A t \in Topics :
                  IF channels[t] # 0 \/ on(t) = {} THEN had[t] = channels[t] ELSE had[t] \in on(t)
             /\ channels' = had
             /\ shadowed' = shadowed \cup {t \in Topics : on(t) \ {had[t]} # {}}
             /\ Subscribe(unresolved, had, byTopic, byId, served)
  /\ known' = TRUE
  /\ UNCHANGED time
  /\ Emit(2, messages)
  /\ UNCHANGED <<published, id, publishing, mayCall, callbacks, forgotten, fetches, fetched, settled>>

\* A topic that has lost its channel waits for another one.  A channel that was refused, or
\* is not known, is none of the player's.
HandleUnadvertise ==
  /\ Receive("unadvertise")
  /\ LET c == Head(toClient).channel
         t == TopicOf[c]
         ended == {r \in byId : r[2] = c}
     IN IF channels[t] # c THEN UNCHANGED <<channels, byId, byTopic, unresolved, served>>
        ELSE /\ channels' = [channels EXCEPT ![t] = 0]
             /\ byId' = byId \ ended
             /\ byTopic' = IF ended = {} THEN byTopic ELSE [byTopic EXCEPT ![t] = 0]
             /\ unresolved' = IF ended = {} THEN unresolved ELSE unresolved \cup {t}
             /\ served' = {r \in served : \A e \in ended : e[1] # r[1]}
  /\ known' = TRUE
  /\ UNCHANGED time
  /\ Emit(2, messages)
  /\ UNCHANGED <<published, id, nextSub, shadowed, publishing, mayCall, callbacks, forgotten, fetches,
                 fetched, settled>>

\* A message of a subscription that was ended meanwhile is dropped, with a warning (which is
\* emitted) if that was more than two seconds ago.
HandleMessage ==
  /\ Receive("message")
  /\ UNCHANGED <<time, known>>
  /\ LET own == {r \in byId : r[1] = Head(toClient).sub}
         received(r) == [topic |-> TopicOf[r[2]], time |-> clock]
     IN \/ own = {} /\ UNCHANGED emission
        \/ own = {} /\ Emit(1, messages)
        \/ \E r \in own : Emit(1, Append(messages, received(r)))
  /\ UNCHANGED <<served, published, id, unresolved, byTopic, byId, nextSub, channels, shadowed,
                 publishing, mayCall, callbacks, forgotten, fetches, fetched, settled>>

\* MUTANT of BeforeSeek: what was received before time went back is emitted after it.
BeforeSeekMutant == messages

\* What is left of the messages when time goes back.
BeforeSeek == <<>>

HandleTime ==
  /\ Receive("time")
  /\ UNCHANGED known
  /\ LET t == Head(toClient).time
         back == clock # 0 /\ t < clock
     IN /\ clock' = t
        /\ seeks' = IF back THEN seeks + 1 ELSE seeks
        /\ Emit(1, IF back THEN BeforeSeek ELSE messages)
  /\ UNCHANGED <<served, published, id, unresolved, byTopic, byId, nextSub, channels, shadowed,
                 publishing, mayCall, callbacks, forgotten, fetches, fetched, settled>>

HandleServiceCallResponse ==
  /\ Receive("call")
  /\ LET n == Head(toClient).request
     IN /\ callbacks' = callbacks \ {n}
        /\ settled' = IF n \in callbacks THEN settled \cup {<<"call", n>>} ELSE settled
  /\ UNCHANGED <<served, published, id, unresolved, byTopic, byId, nextSub, topics,
                 publishing, mayCall, forgotten, fetches, fetched, emission, time>>

\* The callback that is deleted is that of the service call of the same number.  The one of
\* the fetch stays, and is called once more when the session is reset.  Without one
\* the handler throws.
HandleFetchAssetResponse ==
  /\ Receive("fetch")
  /\ LET n == Head(toClient).request
     IN IF n \notin fetches THEN UNCHANGED <<callbacks, forgotten, settled>>
        ELSE /\ settled' = settled \cup {<<"fetch", n>>}
             /\ callbacks' = callbacks \ {n}
             /\ forgotten' = forgotten \cup (callbacks \cap {n})
  /\ UNCHANGED <<served, published, id, unresolved, byTopic, byId, nextSub, topics,
                 publishing, mayCall, fetches, fetched, emission, time>>

-----------------------------------------------------------------------------
(* The server.                                                             *)

Sends(m) == toClient' = IF Connected THEN Append(toClient, m) ELSE toClient

ServerEvent ==
  /\ events < MaxEvents
  /\ events' = events + 1
  /\ UNCHANGED <<published, owed, serverSession, subscriptions, topics, publishing, services,
                 assets, settled, emission, time, connection, calls>>

ServerAdvertises(c) ==
  /\ ServerEvent
  /\ c \notin offered
  /\ offered' = offered \cup {c}
  /\ Sends([op |-> "advertise", channels |-> {c}])
  /\ UNCHANGED served

ServerUnadvertises(c) ==
  /\ ServerEvent
  /\ c \in offered
  /\ offered' = offered \ {c}
  /\ served' = {r \in served : r[2] # c}
  /\ Sends([op |-> "unadvertise", channel |-> c])

ServerSendsMessage(r) ==
  /\ ServerEvent
  /\ r \in served
  /\ Sends([op |-> "message", sub |-> r[1]])
  /\ UNCHANGED <<offered, served>>

ServerPublishesTime(t) ==
  /\ ServerEvent
  /\ Connected
  /\ Sends([op |-> "time", time |-> t])
  /\ UNCHANGED <<offered, served>>

ServerAnswers(r) ==
  /\ r \in owed
  /\ owed' = owed \ {r}
  /\ Sends([op |-> r[1], request |-> r[2]])
  /\ UNCHANGED <<offered, served, published, serverSession, events, subscriptions, topics,
                 publishing, services, assets, settled, emission, time, connection, calls>>

-----------------------------------------------------------------------------
Init ==
  /\ offered = Started /\ served = {} /\ published = {} /\ owed = {} /\ serverSession = 1
  /\ toClient = <<>> /\ events = 0
  /\ client = "connecting" /\ id = 0
  /\ unresolved = {} /\ byTopic = [t \in Topics |-> 0] /\ byId = {} /\ nextSub = 1
  /\ wanted = {} /\ revived = {}
  /\ channels = [t \in Topics |-> 0] /\ known = FALSE /\ shadowed = {}
  /\ toPublish = {} /\ publications = {} /\ mayPublish = FALSE
  /\ mayCall = FALSE /\ callbacks = {} /\ nextCall = 0 /\ forgotten = {}
  /\ fetches = {} /\ nextFetch = 0 /\ fetched = [u \in Uris |-> 0]
  /\ settled = {}
  /\ messages = <<>> /\ emitting = FALSE /\ again = FALSE
  /\ clock = 0 /\ seeks = 0
  /\ calls = 0

Handle ==
  \/ HandleServerInfo \/ HandleAdvertise \/ HandleUnadvertise \/ HandleMessage \/ HandleTime
  \/ HandleServiceCallResponse \/ HandleFetchAssetResponse

Answers == \E r \in owed : ServerAnswers(r)

Next ==
  \/ Open \/ Opened \/ Handle \/ Answers \/ ListenerResolves
  \/ \E restart \in BOOLEAN : ConnectionCloses(restart)
  \/ \E ts \in Selections : SetSubscriptions(ts)
  \/ \E ts \in Published : SetPublishers(ts)
  \/ CallService
  \/ \E u \in Uris : FetchAsset(u)
  \/ \E c \in Channels : ServerAdvertises(c) \/ ServerUnadvertises(c)
  \/ \E r \in served : ServerSendsMessage(r)
  \/ \E t \in Times : ServerPublishesTime(t)

Spec == Init /\ [][Next]_vars

\* What was sent arrives, the server answers what it is asked, and a connection that was
\* lost is made again, in the end with success.
FairSpec == Spec /\ WF_vars(Handle) /\ WF_vars(Answers) /\ WF_vars(Open \/ Opened)

-----------------------------------------------------------------------------
(* Properties.                                                             *)

Message == [topic : Topics, time : Nat]

\* What the server sends.
Wire ==
  [op : {"serverInfo"}, session : Nat] \cup [op : {"advertise"}, channels : SUBSET Channels]
    \cup [op : {"unadvertise"}, channel : Channels] \cup [op : {"message"}, sub : Nat]
    \cup [op : {"time"}, time : Times] \cup [op : {"call", "fetch"}, request : Nat]

\* Every variable has its type, and a topic has at most one subscription.
TypeOK ==
  /\ offered \subseteq Channels
  /\ served \subseteq Nat \X Channels /\ byId \subseteq Nat \X Channels
  /\ published \subseteq Topics /\ publications \subseteq Topics /\ toPublish \subseteq Topics
  /\ owed \subseteq {"call", "fetch"} \X Nat /\ settled \subseteq {"call", "fetch"} \X Nat
  /\ toClient \in Seq(Wire)
  /\ client \in {"none", "connecting", "open"}
  /\ unresolved \subseteq Topics /\ wanted \subseteq Topics /\ revived \subseteq Topics
  /\ byTopic \in [Topics -> Nat] /\ channels \in [Topics -> Channels \cup {0}]
  /\ callbacks \subseteq Nat /\ forgotten \subseteq Nat /\ fetches \subseteq Nat
  /\ fetched \in [Uris -> Nat]
  /\ messages \in Seq(Message)
  /\ {id, serverSession, nextSub, nextCall, nextFetch, clock, seeks, calls, events} \subseteq Nat
  /\ known \in BOOLEAN /\ mayPublish \in BOOLEAN /\ mayCall \in BOOLEAN
  /\ emitting \in BOOLEAN /\ again \in BOOLEAN
  /\ Connected => byId = {<<byTopic[t], channels[t]>> : t \in {u \in Topics : byTopic[u] # 0}}

\* Once all that was sent has arrived, the server sends what is wanted and it has, once, and
\* nothing else, however subscriptions crossed channels that came and went, and
\* although the connection was made anew.  It also knows the topics that the player
\* takes for published (which forgets them when the connection is made anew,
\* index.ts:210-216).  The exceptions: topics that were given up while the connection was
\* lost (revived), and those on which the server had two channels (shadowed).
ServerSendsWhatIsWanted ==
  /\ TypeOK
  /\ Connected /\ toClient = <<>> =>
       /\ {TopicOf[r[2]] : r \in served} \subseteq wanted \cup revived
       /\ \A q, r \in served : TopicOf[q[2]] = TopicOf[r[2]] => q = r
       /\ (wanted \ shadowed) \cap {TopicOf[c] : c \in offered} \subseteq {TopicOf[r[2]] : r \in served}
       /\ published = publications

\* What goes into the next state is not later than the state will be, and in order: nothing
\* is left from before time went back, or from the session before.
FramesAreOfOneTime ==
  \A k \in DOMAIN messages :
    /\ messages[k].time <= clock
    /\ k > 1 => messages[k - 1].time <= messages[k].time

Unsettled ==
  ({<<"fetch", n>> : n \in 1..nextFetch} \cup {<<"call", n>> : n \in (1..nextCall) \ forgotten})
    \ settled

\* Every asset that was asked for comes or fails, though the connection be lost, and so does
\* every service call but for those whose callbacks are deleted: by a new connection, or by
\* an asset that was asked for with the same number.
CallsSettle == Unsettled # {} ~> Unsettled = {}
=============================================================================
