------------------------- MODULE TopicAliasingPlayer -------------------------
(***************************************************************************)
(* TopicAliasingPlayer: stands between a player and the message pipeline.  *)
(* It adds aliases of topics to the states the player emits and takes them *)
(* back out of the subscriptions it passes on.  Which aliases there are is *)
(* for the extensions' alias functions to say, from the player's topics    *)
(* and the global variables; here the variables switch the aliases on and  *)
(* off.  A mutex lets one state at a time through to the listener.         *)
(*                                                                         *)
(* This module has the operations on the layer's state; MessagePipeline    *)
(* extends it and composes them with the player and the listener.          *)
(***************************************************************************)
EXTENDS Integers, FiniteSets

CONSTANTS
  SourceTopics,  \* topics of the player
  AliasOf        \* the aliases, each with the source topic it stands for

Aliases == DOMAIN AliasOf
Topics == SourceTopics \cup Aliases

ASSUME AliasAssumption ==
  /\ AliasOf \in [Aliases -> SourceTopics]
  /\ Aliases \cap SourceTopics = {}

VARIABLES
  variables,      \* the global variables switch the aliases on
  processor,      \* #stateProcessor: 0 for the no-op one, else its number
  built,          \* processors built so far
  topicsKnown,    \* #inputs.topics is set
  subscriptions,  \* #subscriptions
  playerTopics,   \* #aliasedSubscriptions, which the player was told
  lastState,      \* #lastPlayerState, with id 0 before the first
  locked          \* who holds the mutex of #listener: "no", "player", "variables"

aliasing == <<variables, processor, built, topicsKnown, subscriptions, playerTopics,
              lastState, locked>>

\* A state of the player.  id tells its array of messages from others, 0 is the
\* empty one; the messages are on these topics.  player is its playerId.
NoState == [id |-> 0, player |-> 0, topics |-> {}, playing |-> FALSE]

\* The topics the player is to send for these subscriptions.
AliasSubscriptions(p, topics) ==
  IF p = 0 THEN topics
  ELSE {IF t \in Aliases THEN AliasOf[t] ELSE t : t \in topics}

\* What a state's messages become: each also on the aliases of its topic.  A
\* processor gives the same array again for the same messages.
Process(p, state) ==
  [id |-> <<state.id, p>>,
   player |-> state.player,
   topics |-> IF p = 0 THEN state.topics
              ELSE state.topics \cup {a \in Aliases : AliasOf[a] \in state.topics}]

\* buildStateProcessor: a new one only if the aliases changed.
Build(on) ==
  IF on
  THEN IF processor # 0 THEN UNCHANGED <<processor, built>>
       ELSE processor' = built + 1 /\ built' = built + 1
  ELSE processor' = 0 /\ UNCHANGED built

\* MUTANT of ResetSubscriptions: the player keeps the subscriptions it has.
ResetSubscriptionsMutant == UNCHANGED playerTopics

ResetSubscriptions ==
  playerTopics' = IF processor' # processor
                  THEN AliasSubscriptions(processor', subscriptions)
                  ELSE playerTopics

SetSubscriptions(topics) ==
  /\ subscriptions' = topics
  /\ playerTopics' = AliasSubscriptions(processor, topics)
  /\ UNCHANGED <<variables, processor, built, topicsKnown, lastState, locked>>

\* MUTANT of Remembered: only the first state is.
RememberedMutant(state) == IF topicsKnown THEN lastState ELSE state

Remembered(state) == state

\* #onPlayerState once it has the mutex, up to the call of the listener.  The first
\* state tells the topics.
TakeState(state, by) ==
  /\ locked' = by
  /\ topicsKnown' = TRUE
  /\ IF topicsKnown THEN UNCHANGED <<processor, built>> ELSE Build(variables)
  /\ ResetSubscriptions
  /\ lastState' = Remembered(state)
  /\ UNCHANGED <<variables, subscriptions>>

\* setGlobalVariables, but for what it emits.
ChangeVariables(on) ==
  /\ variables' = on
  /\ IF topicsKnown THEN Build(on) ELSE UNCHANGED <<processor, built>>
  /\ ResetSubscriptions
  /\ UNCHANGED <<topicsKnown, subscriptions, lastState>>

\* Whether it then processes the last state again.
Reprocesses == processor' # processor /\ ~lastState.playing

\* MUTANT of Emitting: whether a state is being emitted is not looked at.
EmittingMutant == FALSE

\* A state is being emitted: any other one is dropped.
Emitting == locked # "no"

AliasingInit ==
  /\ variables = FALSE /\ processor = 0 /\ built = 0
  /\ topicsKnown = FALSE
  /\ subscriptions = {} /\ playerTopics = {}
  /\ lastState = NoState /\ locked = "no"
=============================================================================
