--------------------------- MODULE MessagePipeline ---------------------------
(***************************************************************************)
(* MessagePipeline: takes the states a player emits to the panels, and the *)
(* panels' subscriptions to the player.  A state is acknowledged once the  *)
(* panels have rendered it and those that asked for more time are done;    *)
(* the player awaits that before it emits again.  Composed with the layer  *)
(* of topic aliases that stands before every player.                       *)
(*                                                                         *)
(* React renders a change of the store before it runs any other task, so   *)
(* what is put into the store for a panel has reached it in the same step. *)
(***************************************************************************)
EXTENDS TopicAliasingPlayer

CONSTANTS
  Panels,    \* panels
  Choices,   \* the sets of topics panels subscribe to
  Pausing,   \* the panels that may pause frames
  MaxFrames, \* bound: arrays of messages the player emits
  MaxBuilt,  \* bound: processors the alias layer builds
  MaxIds     \* bound: ids the player has

ASSUME PipelineAssumption ==
  /\ Choices \subseteq SUBSET Topics
  /\ Pausing \subseteq Panels
  /\ MaxFrames \in Nat /\ MaxBuilt \in Nat /\ MaxIds \in Nat \ {0}

VARIABLES
  playerId, \* the player's id, another one with each session
  frames,   \* arrays of messages the player has emitted
  subs,     \* subscriptionsById
  lastMsg,  \* lastMessageEventByTopic: the array the message is from, 0 for none
  shown,    \* the array of messages of the store's playerState
  seen,     \* what panels have been given last on the topics they subscribe to
  fresh,    \* history: topics with a message put into the store since it was reset and
            \* since the topic's last subscriber left
  prevPlayerId,  \* the id of the state the listener had last, 0 before the first
  due,      \* debouncedPlayerSetSubscriptions is due
  stage,    \* the listener: "none", "render", "timer", "pauses"
  pauses,   \* promisesToWaitForRef: panels that paused the frame
  awaited,  \* those pauseFrameForPromises awaits
  closed,   \* the provider was unmounted, or has another player
  thrown    \* the listener threw

player == <<playerId, frames>>
store == <<subs, lastMsg, shown, seen, fresh>>
listener == <<stage, prevPlayerId, thrown>>
waiting == <<pauses, awaited>>
vars == <<aliasing, player, store, due, listener, waiting, closed>>

Subscribed(s) == UNION {s[p] : p \in Panels}

-----------------------------------------------------------------------------
(* The store.                                                              *)

NothingSeen == [p \in Panels |-> [t \in Topics |-> 0]]

Emptied ==
  /\ subs = [p \in Panels |-> {}]
  /\ lastMsg = [t \in Topics |-> 0]
  /\ shown = <<0, 0>>
  /\ seen = NothingSeen
  /\ fresh = {}

\* updatePlayerStateAction: an array of messages that is not the one the store has
\* is given to the panels that subscribe to its topics.  The last messages are kept
\* of all its topics.
Distribute(state) ==
  /\ shown' = state.id
  /\ UNCHANGED subs
  /\ IF state.id = shown THEN UNCHANGED <<lastMsg, seen, fresh>>
     ELSE /\ lastMsg' = [t \in Topics |->
                           IF t \in state.topics THEN state.id[1] ELSE lastMsg[t]]
          /\ seen' = [p \in Panels |-> [t \in Topics |->
                        IF t \in state.topics \cap subs[p] THEN state.id[1] ELSE seen[p][t]]]
          /\ fresh' = fresh \cup state.topics

\* The store is reset before the state is put into it.  The panels are mounted anew
\* and have yet to subscribe.
DistributeAnew(state) ==
  /\ shown' = state.id
  /\ subs' = [p \in Panels |-> {}]
  /\ lastMsg' = [t \in Topics |-> IF t \in state.topics THEN state.id[1] ELSE 0]
  /\ seen' = NothingSeen
  /\ fresh' = state.topics

\* MUTANT of Forgotten: last messages are kept.
ForgottenMutant(old, s) == {}

\* The topics whose last messages are forgotten with a panel's old subscriptions.
Forgotten(old, s) == old \ Subscribed(s)

\* updateSubscriberAction: the panel is given the last messages of its new topics.
ChangeSubscriptions(p, topics) ==
  /\ ~closed
  /\ topics # subs[p]
  /\ subs' = [subs EXCEPT ![p] = topics]
  /\ lastMsg' = [t \in Topics |-> IF t \in Forgotten(subs[p], subs') THEN 0 ELSE lastMsg[t]]
  /\ seen' = [seen EXCEPT ![p] = [t \in Topics |-> IF t \notin topics THEN 0
                                                   ELSE IF t \in subs[p] THEN seen[p][t]
                                                   ELSE lastMsg'[t]]]
  /\ fresh' = fresh \ (Subscribed(subs) \ Subscribed(subs'))
  /\ due' = TRUE
  /\ UNCHANGED <<aliasing, player, shown, listener, waiting, closed>>

\* One timeout cycle later.
SetPlayerSubscriptions ==
  /\ due /\ ~closed
  /\ due' = FALSE
  /\ SetSubscriptions(Subscribed(subs))
  /\ UNCHANGED <<player, store, listener, waiting, closed>>

-----------------------------------------------------------------------------
(* The listener.                                                           *)

\* The player has become another one since the last state.
NewPlayerId(state) == prevPlayerId # 0 /\ state.player # prevPlayerId

\* It puts the state into the store and waits for renderDone.  Called before the last
\* state is done with, it throws.
Listen(state) ==
  IF stage = "none"
  THEN /\ stage' = "render"
       /\ prevPlayerId' = state.player
       /\ IF NewPlayerId(state)
          THEN DistributeAnew(state) /\ due' = TRUE
          ELSE Distribute(state) /\ UNCHANGED due
       /\ UNCHANGED thrown
  ELSE thrown' = TRUE /\ UNCHANGED <<stage, prevPlayerId, store, due>>

\* The player awaits what it has emitted.  It learns late what it is to send, so the
\* messages may be on any of its topics.  The aliases of the first state come before
\* its messages do.  A state that meets the one the variables have caused is dropped.
PlayerEmits(topics, playing) ==
  LET n == IF topics = {} THEN 0 ELSE frames + 1
      state == [id |-> n, player |-> playerId, topics |-> topics, playing |-> playing]
  IN /\ ~closed /\ locked # "player"
     /\ frames + 1 <= MaxFrames \/ topics = {}
     /\ frames' = IF topics = {} THEN frames ELSE n
     /\ IF Emitting
        THEN UNCHANGED <<aliasing, store, due, listener>>
        ELSE /\ TakeState(state, "player")
             /\ Listen(Process(processor', state))
     /\ UNCHANGED <<playerId, waiting, closed>>

\* The player has connected to another session.  Its next state says so.
NewSession ==
  /\ ~closed
  /\ playerId < MaxIds
  /\ playerId' = playerId + 1
  /\ UNCHANGED <<aliasing, frames, store, due, listener, waiting, closed>>

\* The global variables change the aliases.
SetVariables(on) ==
  /\ ~closed
  /\ on # variables
  /\ on => built < MaxBuilt
  /\ ChangeVariables(on)
  /\ IF Reprocesses /\ ~Emitting
     THEN locked' = "variables" /\ Listen(Process(processor', lastState))
     ELSE UNCHANGED <<locked, store, due, listener>>
  /\ UNCHANGED <<player, waiting, closed>>

\* The layout effect: panels have the rest of the frame's time to pause it.
RenderDone ==
  /\ stage = "render"
  /\ stage' = "timer"
  /\ UNCHANGED <<aliasing, player, store, due, prevPlayerId, thrown, waiting, closed>>

\* resolveFn: the state is acknowledged.
Resolve ==
  /\ stage' = "none"
  /\ locked' = "no"
  /\ UNCHANGED <<variables, processor, built, topicsKnown, subscriptions, playerTopics,
                 lastState>>

\* MUTANT of PausesOver: there is no timeout.
PausesOverMutant == stage = "pauses" /\ awaited = {}

\* All panels have resumed, or MAX_PROMISE_TIMEOUT_TIME_MS has passed.
PausesOver == stage = "pauses"

FrameTimer ==
  /\ stage = "timer"
  /\ pauses' = {} /\ awaited' = pauses
  /\ IF pauses = {} THEN Resolve ELSE stage' = "pauses" /\ UNCHANGED aliasing
  /\ UNCHANGED <<player, store, due, prevPlayerId, thrown, closed>>

PausesEnd ==
  /\ PausesOver
  /\ awaited' = {}
  /\ Resolve
  /\ UNCHANGED <<player, store, due, prevPlayerId, thrown, pauses, closed>>

-----------------------------------------------------------------------------
\* pauseFrame, by a panel that renders in its own time.
PauseFrame(p) ==
  /\ ~closed
  /\ p \in Pausing \ (pauses \cup awaited)
  /\ pauses' = pauses \cup {p}
  /\ UNCHANGED <<aliasing, player, store, due, listener, awaited, closed>>

Resume(p) ==
  /\ p \in pauses \cup awaited
  /\ pauses' = pauses \ {p} /\ awaited' = awaited \ {p}
  /\ UNCHANGED <<aliasing, player, store, due, listener, closed>>

\* The state that is being shown is not acknowledged any more.
Close ==
  /\ ~closed
  /\ closed' = TRUE
  /\ due' = FALSE
  /\ stage' = "none"
  /\ shown' = <<0, 0>>
  /\ UNCHANGED <<aliasing, player, subs, lastMsg, seen, fresh, prevPlayerId, thrown, waiting>>

-----------------------------------------------------------------------------
Init ==
  /\ AliasingInit
  /\ playerId = 1 /\ frames = 0
  /\ Emptied
  /\ due = TRUE
  /\ stage = "none" /\ prevPlayerId = 0 /\ thrown = FALSE
  /\ pauses = {} /\ awaited = {}
  /\ closed = FALSE

Frame == RenderDone \/ FrameTimer \/ PausesEnd

Next ==
  \/ \E topics \in SUBSET SourceTopics, playing \in BOOLEAN : PlayerEmits(topics, playing)
  \/ NewSession
  \/ \E on \in BOOLEAN : SetVariables(on)
  \/ Frame
  \/ SetPlayerSubscriptions
  \/ \E p \in Panels : \/ \E topics \in Choices : ChangeSubscriptions(p, topics)
                       \/ PauseFrame(p) \/ Resume(p)
  \/ Close

Spec == Init /\ [][Next]_vars

\* Rendering and timers happen.  Nothing obliges a panel to resume, or the player to
\* emit.
FairSpec == Spec /\ WF_vars(Frame) /\ WF_vars(SetPlayerSubscriptions)

-----------------------------------------------------------------------------
(* Properties.                                                             *)

States == [id : Nat, player : Nat, topics : SUBSET SourceTopics, playing : BOOLEAN]

\* Every variable has its type.  The alias layer holds its mutex just while the
\* listener is at work, unless the pipeline is closed.
TypeOK ==
  /\ variables \in BOOLEAN /\ topicsKnown \in BOOLEAN
  /\ processor \in Nat /\ built \in Nat
  /\ subscriptions \subseteq Topics /\ playerTopics \subseteq Topics
  /\ lastState \in States /\ lastState.player <= MaxIds
  /\ locked \in {"no", "player", "variables"}
  /\ playerId \in 1..MaxIds /\ prevPlayerId \in 0..MaxIds
  /\ frames \in 0..MaxFrames
  /\ subs \in [Panels -> SUBSET Topics]
  /\ lastMsg \in [Topics -> 0..frames]
  /\ shown \in Nat \X Nat
  /\ seen \in [Panels -> [Topics -> 0..frames]]
  /\ fresh \subseteq Topics
  /\ due \in BOOLEAN
  /\ stage \in {"none", "render", "timer", "pauses"}
  /\ pauses \subseteq Panels /\ awaited \subseteq Panels
  /\ closed \in BOOLEAN /\ thrown \in BOOLEAN
  /\ ~closed => (stage = "none" <=> locked = "no")

\* The listener is never called before the last state was rendered (index.tsx:266),
\* though the player and the global variables both cause states to be emitted.
OneStateAtATime == TypeOK /\ ~thrown

\* Once the debounced update was made, the player sends what the panels want: the
\* topics they subscribe to, each alias as the topic it stands for, whatever the
\* variables have made of the aliases since.
PlayerKnowsSubscriptions ==
  ~due /\ ~closed =>
    /\ subscriptions = Subscribed(subs)
    /\ playerTopics = {IF processor # 0 /\ t \in Aliases THEN AliasOf[t] ELSE t :
                         t \in Subscribed(subs)}

\* Panels that subscribe to a topic agree on its last message, one that has just
\* subscribed with those that had before, whoever has unsubscribed in between.  And it
\* is no message of a former session, or one that was in the store before the topic had
\* no subscriber (store.ts:272).
PanelsAgree ==
  ~closed => \A p \in Panels : \A t \in subs[p] :
               seen[p][t] = lastMsg[t] /\ (seen[p][t] # 0 => t \in fresh)

\* No panel is set back to an earlier message of a topic by a state that is processed
\* again, by last messages that are injected, or by the subscriptions of others.
NeverSetBack ==
  [][\A p \in Panels : \A t \in subs[p] \cap subs'[p] : seen'[p][t] >= seen[p][t]]_vars

\* Every state that is emitted is acknowledged, whatever the panels do: the player
\* would wait for it for ever.
FramesEnd == locked # "no" ~> locked = "no" \/ closed
=============================================================================
