-------------------------- MODULE MCIterablePlayer --------------------------
(* A small instance of IterablePlayer for TLC.                             *)
EXTENDS IterablePlayer

CONSTANTS a, b

Msg(t, x) == [kind |-> "message", time |-> t, topic |-> x]
Stamp(t) == [kind |-> "stamp", time |-> t, topic |-> a]

MCTopics == {a, b}
MCSelections == {{a}, {a, b}}
\* Two messages at one time, one at the last time, and stamps.
MCLog == <<Msg(0, a), Msg(1, b), Msg(2, a), Msg(2, b), Stamp(2), Msg(3, a)>>
\* The same without stamps, for the run that shows a lost request.
MCPlainLog == <<Msg(0, a), Msg(1, b), Msg(2, a), Msg(3, a)>>
MCSeekTimes == {2, 4}
MCPlayUntilTimes == {1}
=============================================================================
