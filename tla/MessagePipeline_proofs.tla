------------------------ MODULE MessagePipeline_proofs ------------------------
(***************************************************************************)
(* What holds of MessagePipeline, with the layer of aliases before it, for *)
(* all panels, topics and aliases and for every number of states, however  *)
(* states, subscriptions and variables cross: one state is shown at a      *)
(* time, the player knows what the panels want, and panels neither         *)
(* disagree on a topic's last message nor are set back to an earlier one.  *)
(***************************************************************************)
EXTENDS MessagePipeline, TLAPS

\* What the player was told stands for the layer's subscriptions, whatever has become
\* of the aliases since.
PlayerFollows == playerTopics = AliasSubscriptions(processor, subscriptions)

\* The layer has the panels' subscriptions once the debounced update was made.
LayerFollows == ~due /\ ~closed => subscriptions = Subscribed(subs)

\* The state that may be processed again is the last one that was shown: nothing in the
\* store is newer than its messages.
LastStateIsNewest ==
  /\ lastState.id <= frames
  /\ lastState.topics # {} =>
       \A t \in Topics : /\ lastMsg[t] <= lastState.id
                         /\ \A p \in Panels : seen[p][t] <= lastState.id

\* The store has no message that is not fresh.
LastMessagesAreFresh == \A t \in Topics : lastMsg[t] # 0 => t \in fresh

\* The inductive invariant.
IInv ==
  /\ TypeOK /\ ~thrown
  /\ PlayerFollows /\ LayerFollows
  /\ PanelsAgree /\ LastStateIsNewest /\ LastMessagesAreFresh

-----------------------------------------------------------------------------
(* Lemmas about the operators of the model.                                *)

\* Subscriptions without their aliases are topics.
LEMMA AliasSubscriptionsType ==
  ASSUME NEW p, NEW ts \in SUBSET Topics
  PROVE  AliasSubscriptions(p, ts) \subseteq Topics
BY AliasAssumption DEF AliasSubscriptions, Topics

\* What all panels want are topics.
LEMMA SubscribedType ==
  ASSUME NEW s \in [Panels -> SUBSET Topics]
  PROVE  Subscribed(s) \subseteq Topics
BY DEF Subscribed

\* A processed state has topics, and none if the player's had none.
LEMMA ProcessType ==
  ASSUME NEW p \in Nat, NEW state \in States
  PROVE  /\ Process(p, state).id = <<state.id, p>>
         /\ Process(p, state).player = state.player
         /\ Process(p, state).topics \subseteq Topics
         /\ state.topics = {} => Process(p, state).topics = {}
BY AliasAssumption DEF Process, States, Topics

\* A state the listener is called with is put into the store, if the last one was
\* rendered.  One that is not older than what panels have sets nobody back and leaves them
\* agreed, whether the store is reset for it or not.
LEMMA ListenShows ==
  ASSUME TypeOK, PanelsAgree, LastMessagesAreFresh, ~closed, locked = "no",
         NEW n \in Nat, n <= frames', NEW p \in Nat, frames' \in Nat, frames <= frames',
         NEW state, state.id = <<n, p>>, state.topics \subseteq Topics,
         state.player \in 0..MaxIds,
         state.topics # {} =>
           \A t \in Topics : lastMsg[t] <= n /\ \A q \in Panels : seen[q][t] <= n,
         closed' = closed,
         Listen(state)
  PROVE  /\ stage' = "render" /\ UNCHANGED thrown
         /\ prevPlayerId' \in 0..MaxIds /\ due' \in BOOLEAN
         /\ shown' \in Nat \X Nat
         /\ subs' \in [Panels -> SUBSET Topics] /\ fresh' \subseteq Topics
         /\ lastMsg' \in [Topics -> 0..frames'] /\ seen' \in [Panels -> [Topics -> 0..frames']]
         /\ PanelsAgree' /\ LastMessagesAreFresh'
         /\ due' \/ UNCHANGED <<subs, due>>
         /\ \A q \in Panels : \A t \in subs[q] \cap subs'[q] : seen'[q][t] >= seen[q][t]
         /\ state.topics # {} =>
              \A t \in Topics : lastMsg'[t] <= n /\ \A q \in Panels : seen'[q][t] <= n
         /\ state.topics = {} =>
              /\ \A t \in Topics : lastMsg'[t] <= lastMsg[t]
              /\ \A t \in Topics : \A q \in Panels : seen'[q][t] <= seen[q][t]
<1>1. stage = "none"
  BY DEF TypeOK
<1>2. /\ lastMsg \in [Topics -> 0..frames] /\ seen \in [Panels -> [Topics -> 0..frames]]
      /\ frames \in Nat /\ subs \in [Panels -> SUBSET Topics] /\ fresh \subseteq Topics
      /\ due \in BOOLEAN
  BY DEF TypeOK
<1>3. stage' = "render" /\ UNCHANGED thrown /\ prevPlayerId' = state.player
  BY <1>1 DEF Listen
<1>4. CASE NewPlayerId(state)
  <2>1. /\ DistributeAnew(state) /\ due' = TRUE
    BY <1>1, <1>4 DEF Listen
  <2>2. /\ shown' = <<n, p>> /\ subs' = [q \in Panels |-> {}]
        /\ lastMsg' = [t \in Topics |-> IF t \in state.topics THEN n ELSE 0]
        /\ seen' = [q \in Panels |-> [t \in Topics |-> 0]]
        /\ fresh' = state.topics
    BY <2>1 DEF DistributeAnew, NothingSeen
  <2>3. /\ lastMsg' \in [Topics -> 0..frames'] /\ seen' \in [Panels -> [Topics -> 0..frames']]
        /\ subs' \in [Panels -> SUBSET Topics] /\ fresh' \subseteq Topics
    BY <2>2
  <2>4. PanelsAgree'
    BY <2>2 DEF PanelsAgree
  <2>5. LastMessagesAreFresh'
    BY <2>2 DEF LastMessagesAreFresh
  <2>6. \A q \in Panels : \A t \in subs[q] \cap subs'[q] : seen'[q][t] >= seen[q][t]
    BY <2>2
  <2>7. state.topics # {} =>
          \A t \in Topics : lastMsg'[t] <= n /\ \A q \in Panels : seen'[q][t] <= n
    BY <2>2
  <2>8. state.topics = {} => /\ \A t \in Topics : lastMsg'[t] <= lastMsg[t]
                             /\ \A t \in Topics : \A q \in Panels : seen'[q][t] <= seen[q][t]
    BY <1>2, <2>2
  <2> QED
    BY <1>3, <2>1, <2>2, <2>3, <2>4, <2>5, <2>6, <2>7, <2>8
<1>5. CASE ~NewPlayerId(state)
  <2>1. Distribute(state) /\ UNCHANGED due
    BY <1>1, <1>5 DEF Listen
  <2>2. shown' = <<n, p>> /\ UNCHANGED subs
    BY <2>1 DEF Distribute
  <2>3. CASE state.id = shown
    <3>1. UNCHANGED <<lastMsg, seen, fresh>>
      BY <2>1, <2>3 DEF Distribute
    <3>2. PanelsAgree' /\ LastMessagesAreFresh'
      BY <2>2, <3>1 DEF PanelsAgree, LastMessagesAreFresh
    <3> QED
      BY <1>2, <1>3, <2>1, <2>2, <3>1, <3>2
  <2>4. CASE state.id # shown
    <3>1. lastMsg' = [t \in Topics |-> IF t \in state.topics THEN n ELSE lastMsg[t]]
      BY <2>1, <2>4 DEF Distribute
    <3>2. seen' = [q \in Panels |-> [t \in Topics |->
                     IF t \in state.topics \cap subs[q] THEN n ELSE seen[q][t]]]
      BY <2>1, <2>4 DEF Distribute
    <3>3. fresh' = fresh \cup state.topics
      BY <2>1, <2>4 DEF Distribute
    <3>4. lastMsg' \in [Topics -> 0..frames']
      BY <1>2, <3>1
    <3>5. seen' \in [Panels -> [Topics -> 0..frames']]
      BY <1>2, <3>2
    <3>6. PanelsAgree'
      BY <1>2, <2>2, <3>1, <3>2, <3>3 DEF PanelsAgree
    <3>7. LastMessagesAreFresh'
      BY <3>1, <3>3 DEF LastMessagesAreFresh
    <3>8. \A q \in Panels : \A t \in subs[q] \cap subs'[q] : seen'[q][t] >= seen[q][t]
      BY <1>2, <3>2
    <3>9. state.topics # {} =>
            \A t \in Topics : lastMsg'[t] <= n /\ \A q \in Panels : seen'[q][t] <= n
      BY <1>2, <3>1, <3>2
    <3>10. state.topics = {} => /\ \A t \in Topics : lastMsg'[t] <= lastMsg[t]
                                /\ \A t \in Topics : \A q \in Panels : seen'[q][t] <= seen[q][t]
      BY <1>2, <3>1, <3>2
    <3> QED
      BY <1>2, <1>3, <2>1, <2>2, <3>3, <3>4, <3>5, <3>6, <3>7, <3>8, <3>9, <3>10
  <2> QED
    BY <2>3, <2>4
<1> QED
  BY <1>4, <1>5

-----------------------------------------------------------------------------
(* The steps.                                                              *)

\* The processor and what the player is told, after the variables were applied.
LEMMA BuildFollows ==
  ASSUME TypeOK, PlayerFollows, NEW on \in BOOLEAN,
         Build(on) \/ UNCHANGED <<processor, built>>,
         ResetSubscriptions, UNCHANGED subscriptions
  PROVE  /\ processor' \in Nat /\ built' \in Nat
         /\ playerTopics' \subseteq Topics
         /\ PlayerFollows'
<1>1. processor' \in Nat /\ built' \in Nat
  BY DEF TypeOK, Build
<1>2. PlayerFollows'
  BY DEF PlayerFollows, ResetSubscriptions
<1>3. playerTopics' \subseteq Topics
  BY <1>2, AliasSubscriptionsType DEF PlayerFollows, TypeOK
<1> QED
  BY <1>1, <1>2, <1>3

\* A state of the player is shown, or dropped.
LEMMA PlayerEmitsStep ==
  ASSUME IInv, NEW topics \in SUBSET SourceTopics, NEW playing \in BOOLEAN,
         PlayerEmits(topics, playing)
  PROVE  /\ IInv'
         /\ \A p \in Panels : \A t \in subs[p] \cap subs'[p] : seen'[p][t] >= seen[p][t]
<1> DEFINE n == IF topics = {} THEN 0 ELSE frames + 1
           state == [id |-> n, player |-> playerId, topics |-> topics, playing |-> playing]
<1>1. /\ ~closed /\ UNCHANGED <<playerId, waiting, closed>>
      /\ playerId \in 1..MaxIds /\ MaxIds \in Nat
      /\ frames \in Nat /\ frames' \in 0..MaxFrames /\ frames <= frames' /\ n \in Nat /\ n <= frames'
      /\ topics # {} => frames' = n /\ n > frames
      /\ frames' = (IF topics = {} THEN frames ELSE n)
  BY PipelineAssumption DEF PlayerEmits, IInv, TypeOK
<1>2. CASE Emitting
  <2>1. UNCHANGED <<aliasing, store, due, listener>>
    BY <1>2 DEF PlayerEmits
  <2>2. TypeOK'
    BY <1>1, <2>1 DEF IInv, TypeOK, aliasing, store, listener, waiting
  <2>3. LastStateIsNewest'
    BY <1>1, <2>1 DEF IInv, TypeOK, States, LastStateIsNewest, aliasing, store
  <2>4. ~thrown' /\ PlayerFollows' /\ LayerFollows' /\ PanelsAgree' /\ LastMessagesAreFresh'
    BY <1>1, <2>1 DEF IInv, PlayerFollows, LayerFollows, PanelsAgree, LastMessagesAreFresh,
                      aliasing, store, listener
  <2> QED
    BY <2>1, <2>2, <2>3, <2>4 DEF IInv, TypeOK, store
<1>3. CASE ~Emitting
  <2>1. TakeState(state, "player") /\ Listen(Process(processor', state))
    BY <1>3 DEF PlayerEmits
  <2>2. /\ locked = "no" /\ locked' = "player" /\ topicsKnown' = TRUE /\ lastState' = state
        /\ UNCHANGED <<variables, subscriptions>>
    BY <1>3, <2>1 DEF TakeState, Remembered, Emitting
  <2>3. processor' \in Nat /\ built' \in Nat /\ playerTopics' \subseteq Topics /\ PlayerFollows'
    <3>1. Build(variables) \/ UNCHANGED <<processor, built>>
      BY <2>1 DEF TakeState
    <3>2. ResetSubscriptions /\ UNCHANGED subscriptions
      BY <2>1 DEF TakeState
    <3>3. variables \in BOOLEAN /\ TypeOK /\ PlayerFollows
      BY DEF IInv, TypeOK
    <3> QED
      BY <3>1, <3>2, <3>3, BuildFollows
  <2>4. state \in States
    BY <1>1 DEF States
  <2> DEFINE shownState == Process(processor', state)
  <2>5. /\ shownState.id = <<n, processor'>> /\ shownState.topics \subseteq Topics
        /\ shownState.player \in 0..MaxIds
        /\ topics = {} => shownState.topics = {}
    BY <1>1, <2>3, <2>4, ProcessType
  <2>6. shownState.topics # {} =>
          \A t \in Topics : lastMsg[t] <= n /\ \A q \in Panels : seen[q][t] <= n
    BY <1>1, <2>5 DEF IInv, TypeOK
  <2>7. TypeOK /\ PanelsAgree /\ LastMessagesAreFresh
    BY DEF IInv
  <2>8. Listen(shownState) /\ frames' \in Nat
    BY <1>1, <2>1
  <2> HIDE DEF shownState, n
  <2>9. /\ stage' = "render" /\ UNCHANGED thrown
        /\ prevPlayerId' \in 0..MaxIds /\ due' \in BOOLEAN
        /\ shown' \in Nat \X Nat
        /\ subs' \in [Panels -> SUBSET Topics] /\ fresh' \subseteq Topics
        /\ lastMsg' \in [Topics -> 0..frames'] /\ seen' \in [Panels -> [Topics -> 0..frames']]
        /\ PanelsAgree' /\ LastMessagesAreFresh'
        /\ due' \/ UNCHANGED <<subs, due>>
        /\ \A q \in Panels : \A t \in subs[q] \cap subs'[q] : seen'[q][t] >= seen[q][t]
    BY <1>1, <2>2, <2>3, <2>5, <2>6, <2>7, <2>8, ListenShows
  <2>10. TypeOK'
    BY <1>1, <2>2, <2>3, <2>4, <2>9 DEF IInv, TypeOK, waiting
  <2>11. LastStateIsNewest'
    <3>1. lastState'.id = n /\ lastState'.topics = topics
      BY <2>2
    <3>2. topics # {} => frames' = n
      BY <1>1
    <3> QED
      BY <1>1, <2>9, <3>1, <3>2 DEF LastStateIsNewest
  <2>12. ~thrown' /\ LayerFollows'
    BY <1>1, <2>2, <2>9 DEF IInv, LayerFollows
  <2> QED
    BY <2>3, <2>9, <2>10, <2>11, <2>12 DEF IInv
<1> QED
  BY <1>2, <1>3

\* The variables change the aliases, and the last state may be shown again with them.
LEMMA SetVariablesStep ==
  ASSUME IInv, NEW on \in BOOLEAN, SetVariables(on)
  PROVE  /\ IInv'
         /\ \A p \in Panels : \A t \in subs[p] \cap subs'[p] : seen'[p][t] >= seen[p][t]
<1>1. /\ ~closed /\ UNCHANGED <<playerId, frames, waiting, closed>>
      /\ variables' = on /\ UNCHANGED <<topicsKnown, subscriptions, lastState>>
  BY DEF SetVariables, ChangeVariables, player
<1>2. processor' \in Nat /\ built' \in Nat /\ playerTopics' \subseteq Topics /\ PlayerFollows'
  <2>1. Build(on) \/ UNCHANGED <<processor, built>>
    BY DEF SetVariables, ChangeVariables
  <2>2. ResetSubscriptions /\ UNCHANGED subscriptions
    BY DEF SetVariables, ChangeVariables
  <2>3. TypeOK /\ PlayerFollows
    BY DEF IInv
  <2> QED
    BY <2>1, <2>2, <2>3, BuildFollows
<1>3. CASE Reprocesses /\ ~Emitting
  <2> DEFINE n == lastState.id
             shownState == Process(processor', lastState)
  <2>1. locked = "no" /\ locked' = "variables" /\ Listen(shownState)
    BY <1>3 DEF SetVariables, Emitting
  <2>2. /\ TypeOK /\ PanelsAgree /\ LastStateIsNewest /\ LastMessagesAreFresh
        /\ lastState \in States /\ frames \in Nat
    BY DEF IInv, TypeOK
  <2>3. lastState.player \in 0..MaxIds
    BY PipelineAssumption DEF IInv, TypeOK, States
  <2>4. /\ shownState.id = <<n, processor'>> /\ shownState.topics \subseteq Topics
        /\ shownState.player \in 0..MaxIds
        /\ lastState.topics = {} => shownState.topics = {}
    BY <1>2, <2>2, <2>3, ProcessType
  <2>5. n \in Nat /\ n <= frames
    BY <2>2 DEF States, LastStateIsNewest
  <2>6. shownState.topics # {} =>
          \A t \in Topics : lastMsg[t] <= n /\ \A q \in Panels : seen[q][t] <= n
    BY <2>2, <2>4 DEF LastStateIsNewest
  <2> HIDE DEF shownState, n
  <2>7. /\ stage' = "render" /\ UNCHANGED thrown
        /\ prevPlayerId' \in 0..MaxIds /\ due' \in BOOLEAN
        /\ shown' \in Nat \X Nat
        /\ subs' \in [Panels -> SUBSET Topics] /\ fresh' \subseteq Topics
        /\ lastMsg' \in [Topics -> 0..frames'] /\ seen' \in [Panels -> [Topics -> 0..frames']]
        /\ PanelsAgree' /\ LastMessagesAreFresh'
        /\ due' \/ UNCHANGED <<subs, due>>
        /\ \A q \in Panels : \A t \in subs[q] \cap subs'[q] : seen'[q][t] >= seen[q][t]
        /\ shownState.topics # {} =>
             \A t \in Topics : lastMsg'[t] <= n /\ \A q \in Panels : seen'[q][t] <= n
        /\ shownState.topics = {} =>
             /\ \A t \in Topics : lastMsg'[t] <= lastMsg[t]
             /\ \A t \in Topics : \A q \in Panels : seen'[q][t] <= seen[q][t]
    BY <1>1, <1>2, <2>1, <2>2, <2>4, <2>5, <2>6, ListenShows
  <2>8. TypeOK'
    BY <1>1, <1>2, <2>1, <2>7 DEF IInv, TypeOK, waiting
  <2>9. LastStateIsNewest'
    <3>1. UNCHANGED <<lastState, frames>>
      BY <1>1
    <3>2. /\ \A t \in Topics : lastMsg[t] \in Nat /\ lastMsg'[t] \in Nat
          /\ \A t \in Topics : \A q \in Panels : seen[q][t] \in Nat /\ seen'[q][t] \in Nat
      BY <2>2, <2>7, <3>1 DEF TypeOK
    <3> QED
      BY <2>2, <2>5, <2>7, <3>1, <3>2 DEF LastStateIsNewest, n
  <2>10. ~thrown' /\ LayerFollows'
    BY <1>1, <2>7 DEF IInv, LayerFollows
  <2> QED
    BY <1>2, <2>7, <2>8, <2>9, <2>10 DEF IInv
<1>4. CASE ~(Reprocesses /\ ~Emitting)
  <2>1. UNCHANGED <<locked, store, due, listener>>
    BY <1>4 DEF SetVariables
  <2>2. TypeOK'
    BY <1>1, <1>2, <2>1 DEF IInv, TypeOK, store, listener, waiting
  <2>3. ~thrown' /\ LayerFollows' /\ PanelsAgree' /\ LastStateIsNewest' /\ LastMessagesAreFresh'
    BY <1>1, <2>1 DEF IInv, LayerFollows, PanelsAgree, LastStateIsNewest, LastMessagesAreFresh,
                      store, listener
  <2> QED
    BY <1>2, <2>1, <2>2, <2>3 DEF IInv, TypeOK, store
<1> QED
  BY <1>3, <1>4

\* A panel subscribes, or unsubscribes.
LEMMA ChangeSubscriptionsStep ==
  ASSUME IInv, NEW p \in Panels, NEW topics \in Choices, ChangeSubscriptions(p, topics)
  PROVE  /\ IInv'
         /\ \A q \in Panels : \A t \in subs[q] \cap subs'[q] : seen'[q][t] >= seen[q][t]
<1>1. /\ topics \subseteq Topics
      /\ subs \in [Panels -> SUBSET Topics] /\ frames \in Nat
      /\ lastMsg \in [Topics -> 0..frames] /\ seen \in [Panels -> [Topics -> 0..frames]]
  BY PipelineAssumption DEF IInv, TypeOK
<1>2. /\ ~closed /\ due' = TRUE
      /\ subs' = [subs EXCEPT ![p] = topics]
      /\ lastMsg' = [t \in Topics |-> IF t \in Forgotten(subs[p], subs') THEN 0 ELSE lastMsg[t]]
      /\ seen' = [seen EXCEPT ![p] = [t \in Topics |-> IF t \notin topics THEN 0
                                                       ELSE IF t \in subs[p] THEN seen[p][t]
                                                       ELSE lastMsg'[t]]]
      /\ fresh' = fresh \ (Subscribed(subs) \ Subscribed(subs'))
      /\ UNCHANGED <<aliasing, player, shown, listener, waiting, closed>>
  BY DEF ChangeSubscriptions
<1>3. subs' \in [Panels -> SUBSET Topics]
  BY <1>1, <1>2
<1>4. lastMsg' \in [Topics -> 0..frames]
  BY <1>1, <1>2
<1>5. seen' \in [Panels -> [Topics -> 0..frames]]
  BY <1>1, <1>2, <1>4
<1>6. \A t \in Topics : lastMsg'[t] <= lastMsg[t]
  BY <1>1, <1>2
<1>7. ASSUME NEW q \in Panels, NEW t \in subs'[q]
      PROVE  lastMsg'[t] = lastMsg[t]
  <2>1. t \in Subscribed(subs') /\ t \in Topics
    BY <1>3, <1>7 DEF Subscribed
  <2> QED
    BY <1>2, <2>1 DEF Forgotten
<1>8. LastMessagesAreFresh'
  <2>1. ASSUME NEW t \in Topics, lastMsg'[t] # 0
        PROVE  t \in fresh'
    <3>1. lastMsg[t] # 0 /\ t \notin Forgotten(subs[p], subs')
      BY <1>2, <2>1
    <3>2. t \in fresh
      BY <3>1 DEF IInv, LastMessagesAreFresh
    <3>3. t \in Subscribed(subs) => t \in Subscribed(subs')
      <4>1. ASSUME t \in Subscribed(subs), t \notin Subscribed(subs') PROVE FALSE
        <5>1. PICK q \in Panels : t \in subs[q]
          BY <4>1 DEF Subscribed
        <5>2. t \notin subs'[q]
          BY <4>1 DEF Subscribed
        <5>3. q = p
          BY <1>1, <1>2, <5>1, <5>2
        <5> QED
          BY <3>1, <4>1, <5>1, <5>3 DEF Forgotten
      <4> QED
        BY <4>1
    <3> QED
      BY <1>2, <3>2, <3>3
  <2> QED
    BY <2>1 DEF LastMessagesAreFresh
<1>9. PanelsAgree'
  <2>1. ASSUME NEW q \in Panels, NEW t \in subs'[q]
        PROVE  seen'[q][t] = lastMsg'[t]
    <3>1. t \in Topics
      BY <1>3, <2>1
    <3>2. CASE q = p
      BY <1>1, <1>2, <1>7, <2>1, <3>1, <3>2 DEF IInv, PanelsAgree
    <3>3. CASE q # p
      BY <1>1, <1>2, <1>7, <2>1, <3>1, <3>3 DEF IInv, PanelsAgree
    <3> QED
      BY <3>2, <3>3
  <2> QED
    BY <1>3, <1>8, <2>1 DEF PanelsAgree, LastMessagesAreFresh
<1>10. \A q \in Panels : \A t \in subs[q] \cap subs'[q] : seen'[q][t] >= seen[q][t]
  BY <1>1, <1>2
<1>11. TypeOK'
  BY <1>2, <1>3, <1>4, <1>5 DEF IInv, TypeOK, aliasing, player, listener, waiting
<1>12. LastStateIsNewest'
  <2>1. UNCHANGED <<lastState, frames>>
    BY <1>2 DEF aliasing, player
  <2>2. LastStateIsNewest /\ lastState.id \in Nat
    BY DEF IInv, TypeOK, States
  <2>3. ASSUME lastState.topics # {}, NEW t \in Topics
        PROVE  lastMsg'[t] <= lastState.id
    BY <1>1, <1>4, <1>6, <2>2, <2>3 DEF LastStateIsNewest
  <2>4. ASSUME lastState.topics # {}, NEW t \in Topics, NEW q \in Panels
        PROVE  seen'[q][t] <= lastState.id
    <3>1. seen[q][t] <= lastState.id
      BY <2>2, <2>4 DEF LastStateIsNewest
    <3>2. seen'[q][t] \in {0, seen[q][t], lastMsg'[t]}
      BY <1>1, <1>2, <2>4
    <3> QED
      BY <2>2, <2>3, <2>4, <3>1, <3>2
  <2> QED
    BY <2>1, <2>2, <2>3, <2>4 DEF LastStateIsNewest
<1>13. ~thrown' /\ PlayerFollows' /\ LayerFollows'
  BY <1>2 DEF IInv, PlayerFollows, LayerFollows, aliasing, listener
<1> QED
  BY <1>9, <1>10, <1>11, <1>12, <1>13, <1>8 DEF IInv

\* The debounced update tells the layer, and it the player.
LEMMA SetPlayerSubscriptionsStep ==
  ASSUME IInv, SetPlayerSubscriptions
  PROVE  IInv' /\ UNCHANGED seen
<1>1. /\ due' = FALSE /\ subscriptions' = Subscribed(subs)
      /\ playerTopics' = AliasSubscriptions(processor, Subscribed(subs))
      /\ UNCHANGED <<variables, processor, built, topicsKnown, lastState, locked>>
      /\ UNCHANGED <<player, store, listener, waiting, closed>>
  BY DEF SetPlayerSubscriptions, SetSubscriptions
<1>2. subscriptions' \subseteq Topics
  BY <1>1, SubscribedType DEF IInv, TypeOK
<1>3. playerTopics' \subseteq Topics
  BY <1>1, <1>2, AliasSubscriptionsType
<1>4. TypeOK'
  BY <1>1, <1>2, <1>3 DEF IInv, TypeOK, player, store, listener, waiting
<1>5. PlayerFollows' /\ LayerFollows'
  BY <1>1 DEF PlayerFollows, LayerFollows, store
<1>6. ~thrown' /\ PanelsAgree' /\ LastStateIsNewest' /\ LastMessagesAreFresh'
  BY <1>1 DEF IInv, PanelsAgree, LastStateIsNewest, LastMessagesAreFresh, player, store, listener
<1> QED
  BY <1>1, <1>4, <1>5, <1>6 DEF IInv, store

\* Steps of the listener, pauses of panels and the end of it all leave the store alone.
LEMMA OtherSteps ==
  ASSUME IInv,
         \/ Frame \/ NewSession \/ Close \/ UNCHANGED vars
         \/ \E p \in Panels : PauseFrame(p) \/ Resume(p)
  PROVE  IInv' /\ UNCHANGED seen
<1>1. /\ UNCHANGED <<subs, lastMsg, seen, fresh, frames, prevPlayerId, thrown>>
      /\ UNCHANGED <<variables, processor, built, topicsKnown, subscriptions, playerTopics, lastState>>
      /\ UNCHANGED <<closed, due>> \/ closed' = TRUE
  <2>1. CASE Frame
    BY <2>1 DEF Frame, RenderDone, FrameTimer, PausesEnd, Resolve, player, store, aliasing
  <2>2. CASE Close
    BY <2>2 DEF Close, player, aliasing
  <2>3. CASE \E p \in Panels : PauseFrame(p) \/ Resume(p)
    BY <2>3 DEF PauseFrame, Resume, player, store, listener, aliasing
  <2>4. CASE UNCHANGED vars
    BY <2>4 DEF vars, player, store, listener, aliasing
  <2>5. CASE NewSession
    BY <2>5 DEF NewSession, store, listener, aliasing
  <2> QED
    BY <2>1, <2>2, <2>3, <2>4, <2>5
<1>2. /\ playerId' \in 1..MaxIds
      /\ closed' \in BOOLEAN /\ due' \in BOOLEAN
      /\ shown' \in Nat \X Nat
      /\ pauses' \subseteq Panels /\ awaited' \subseteq Panels
      /\ stage' \in {"none", "render", "timer", "pauses"}
      /\ locked' \in {"no", "player", "variables"}
      /\ ~closed' => (stage' = "none" <=> locked' = "no")
  <2>1. CASE Frame
    BY <2>1 DEF IInv, TypeOK, Frame, RenderDone, FrameTimer, PausesEnd, PausesOver, Resolve, player, store,
                listener, waiting, aliasing
  <2>2. CASE Close
    BY <2>2 DEF IInv, TypeOK, Close, player, listener, waiting, aliasing
  <2>3. CASE \E p \in Panels : PauseFrame(p) \/ Resume(p)
    BY <2>3, PipelineAssumption DEF IInv, TypeOK, PauseFrame, Resume, player, store, listener, aliasing
  <2>4. CASE UNCHANGED vars
    BY <2>4 DEF IInv, TypeOK, vars, player, store, listener, waiting, aliasing
  <2>5. CASE NewSession
    BY <2>5, PipelineAssumption DEF IInv, TypeOK, NewSession, store, listener, waiting, aliasing
  <2> QED
    BY <2>1, <2>2, <2>3, <2>4, <2>5
<1>3. TypeOK'
  BY <1>1, <1>2 DEF IInv, TypeOK
<1>4. /\ ~thrown' /\ PlayerFollows' /\ LayerFollows'
      /\ PanelsAgree' /\ LastStateIsNewest' /\ LastMessagesAreFresh'
  BY <1>1 DEF IInv, TypeOK, PlayerFollows, LayerFollows, PanelsAgree, LastStateIsNewest,
              LastMessagesAreFresh
<1> QED
  BY <1>1, <1>3, <1>4 DEF IInv

-----------------------------------------------------------------------------
\* The invariant holds in the beginning.
LEMMA InitEstablishes == Init => IInv
<1> SUFFICES ASSUME Init PROVE IInv
  OBVIOUS
<1>1. TypeOK
  <2>1. lastState \in States
    BY DEF Init, AliasingInit, NoState, States
  <2>2. /\ frames \in 0..MaxFrames /\ playerId \in 1..MaxIds /\ prevPlayerId \in 0..MaxIds
        /\ lastMsg \in [Topics -> 0..frames] /\ seen \in [Panels -> [Topics -> 0..frames]]
    BY PipelineAssumption DEF Init, Emptied, NothingSeen
  <2>3. shown \in Nat \X Nat
    BY DEF Init, Emptied
  <2>4. lastState.player <= MaxIds
    BY PipelineAssumption DEF Init, AliasingInit, NoState
  <2> QED
    BY <2>1, <2>2, <2>3, <2>4 DEF Init, Emptied, AliasingInit, TypeOK
<1>2. ~thrown /\ PlayerFollows /\ LayerFollows
  BY DEF Init, Emptied, AliasingInit, PlayerFollows, LayerFollows, AliasSubscriptions
<1>3. PanelsAgree /\ LastStateIsNewest /\ LastMessagesAreFresh
  BY DEF Init, Emptied, AliasingInit, PanelsAgree, LastStateIsNewest, LastMessagesAreFresh, NoState,
         NothingSeen
<1> QED
  BY <1>1, <1>2, <1>3 DEF IInv

\* Every step keeps it, and sets no panel back.
LEMMA StepPreserves ==
  ASSUME IInv, [Next]_vars
  PROVE  /\ IInv'
         /\ \A p \in Panels : \A t \in subs[p] \cap subs'[p] : seen'[p][t] >= seen[p][t]
<1>1. \A p \in Panels : subs[p] \subseteq Topics /\ \A t \in Topics : seen[p][t] \in Nat
  BY DEF IInv, TypeOK
<1>2. ASSUME NEW topics \in SUBSET SourceTopics, NEW playing \in BOOLEAN,
             PlayerEmits(topics, playing)
      PROVE  /\ IInv'
             /\ \A p \in Panels : \A t \in subs[p] \cap subs'[p] : seen'[p][t] >= seen[p][t]
  BY <1>2, PlayerEmitsStep
<1>3. ASSUME NEW on \in BOOLEAN, SetVariables(on)
      PROVE  /\ IInv'
             /\ \A p \in Panels : \A t \in subs[p] \cap subs'[p] : seen'[p][t] >= seen[p][t]
  BY <1>3, SetVariablesStep
<1>4. ASSUME NEW p \in Panels, NEW topics \in Choices, ChangeSubscriptions(p, topics)
      PROVE  /\ IInv'
             /\ \A q \in Panels : \A t \in subs[q] \cap subs'[q] : seen'[q][t] >= seen[q][t]
  BY <1>4, ChangeSubscriptionsStep
<1>5. CASE \/ SetPlayerSubscriptions \/ Frame \/ NewSession \/ Close \/ UNCHANGED vars
           \/ \E p \in Panels : PauseFrame(p) \/ Resume(p)
  <2>1. IInv' /\ UNCHANGED seen
    BY <1>5, SetPlayerSubscriptionsStep, OtherSteps
  <2> QED
    BY <1>1, <2>1
<1> QED
  BY <1>1, <1>2, <1>3, <1>4, <1>5 DEF Next

\* The invariant is one.
LEMMA InvariantHolds == Spec => []IInv
BY InitEstablishes, StepPreserves, PTL DEF Spec

\* Types, and that the listener is never called before the last state was rendered.
THEOREM StatesShownOneAtATime == Spec => []OneStateAtATime
<1>1. IInv => OneStateAtATime
  BY DEF IInv, OneStateAtATime
<1> QED
  BY <1>1, InvariantHolds, PTL

\* Once the debounced update was made, the player sends what the panels want, whatever has
\* become of the aliases.
THEOREM PlayerToldSubscriptions == Spec => []PlayerKnowsSubscriptions
<1>1. IInv => PlayerKnowsSubscriptions
  BY DEF IInv, PlayerFollows, LayerFollows, PlayerKnowsSubscriptions, AliasSubscriptions
<1> QED
  BY <1>1, InvariantHolds, PTL

\* Panels that subscribe to a topic agree on its last message, and none of them has one that
\* was in the store before it was reset or before the topic had no subscriber.
THEOREM PanelsAlwaysAgree == Spec => []PanelsAgree
<1>1. IInv => PanelsAgree
  BY DEF IInv
<1> QED
  BY <1>1, InvariantHolds, PTL

\* No panel is set back to an earlier message of a topic it goes on subscribing to.
THEOREM PanelsNeverSetBack == Spec => NeverSetBack
<1>1. IInv /\ [Next]_vars =>
        [\A p \in Panels : \A t \in subs[p] \cap subs'[p] : seen'[p][t] >= seen[p][t]]_vars
  BY StepPreserves
<1> QED
  BY <1>1, InvariantHolds, PTL DEF Spec, NeverSetBack

-----------------------------------------------------------------------------
(* That every state is acknowledged (FramesEnd) takes fairness; that what  *)
(* is left of a frame only ever becomes less does not.                     *)

\* The steps of Frame that are left until the state is acknowledged.
StagesLeft == [none |-> 0, pauses |-> 1, timer |-> 2, render |-> 3][stage]

\* While a state is being shown, a step of the listener is due, which brings its end
\* nearer, and nothing that player, panels or variables do delays it.
StagesWearDown ==
  [][locked # "no" /\ ~closed =>
       /\ StagesLeft > 0
       /\ StagesLeft' <= StagesLeft
       /\ Frame => StagesLeft' < StagesLeft]_vars

LEMMA StagesCount ==
  /\ stage = "none" => StagesLeft = 0
  /\ stage = "pauses" => StagesLeft = 1
  /\ stage = "timer" => StagesLeft = 2
  /\ stage = "render" => StagesLeft = 3
BY DEF StagesLeft

LEMMA StagesCountNext ==
  /\ stage' = "none" => StagesLeft' = 0
  /\ stage' = "pauses" => StagesLeft' = 1
  /\ stage' = "timer" => StagesLeft' = 2
  /\ stage' = "render" => StagesLeft' = 3
BY DEF StagesLeft

\* Other steps leave the stage alone, unless the pipeline is closed.
LEMMA OthersWait ==
  ASSUME IInv, [Next]_vars, locked # "no", ~closed
  PROVE  Frame \/ stage' = stage \/ stage' = "none"
<1>1. ASSUME NEW topics, NEW playing, PlayerEmits(topics, playing)
      PROVE  stage' = stage
  BY <1>1 DEF PlayerEmits, Emitting, listener
<1>2. ASSUME NEW on, SetVariables(on)
      PROVE  stage' = stage
  BY <1>2 DEF SetVariables, Emitting, listener
<1>3. CASE SetPlayerSubscriptions \/ (\E p \in Panels : PauseFrame(p) \/ Resume(p))
             \/ (\E p \in Panels : \E topics \in Choices : ChangeSubscriptions(p, topics))
  BY <1>3 DEF SetPlayerSubscriptions, PauseFrame, Resume, ChangeSubscriptions, listener
<1>4. CASE Close
  BY <1>4 DEF Close
<1>5. CASE UNCHANGED vars
  BY <1>5 DEF vars, listener
<1>6. CASE NewSession
  BY <1>6 DEF NewSession, listener
<1> QED
  BY <1>1, <1>2, <1>3, <1>4, <1>5, <1>6 DEF Next

\* A step of the listener is one stage on, or skips the pauses if there are none.
LEMMA FrameAdvances ==
  ASSUME Frame
  PROVE  \/ stage = "render" /\ stage' = "timer"
         \/ stage = "timer" /\ stage' \in {"pauses", "none"}
         \/ stage = "pauses" /\ stage' = "none"
BY DEF Frame, RenderDone, FrameTimer, PausesEnd, PausesOver, Resolve

\* The safety half of FramesEnd: a state that is being shown is at most three steps of the
\* listener from its acknowledgement, and every one of them counts.
THEOREM FramesWearDown == Spec => StagesWearDown
<1>1. IInv /\ [Next]_vars =>
        [locked # "no" /\ ~closed =>
           /\ StagesLeft > 0
           /\ StagesLeft' <= StagesLeft
           /\ Frame => StagesLeft' < StagesLeft]_vars
  <2> SUFFICES ASSUME IInv, [Next]_vars, locked # "no", ~closed
               PROVE  /\ StagesLeft > 0
                      /\ StagesLeft' <= StagesLeft
                      /\ Frame => StagesLeft' < StagesLeft
    OBVIOUS
  <2>1. stage \in {"render", "timer", "pauses"}
    BY DEF IInv, TypeOK
  <2>2. StagesLeft > 0 /\ (Frame => StagesLeft' < StagesLeft)
    BY <2>1, StagesCount, StagesCountNext, FrameAdvances
  <2>3. stage' = stage => StagesLeft' = StagesLeft
    BY DEF StagesLeft
  <2>4. StagesLeft' <= StagesLeft
    BY <2>1, <2>2, <2>3, StagesCount, StagesCountNext, OthersWait, FrameAdvances
  <2> QED
    BY <2>2, <2>4
<1> QED
  BY <1>1, InvariantHolds, PTL DEF Spec, StagesWearDown
=============================================================================
