---------------------------- MODULE MCBlockLoader ----------------------------
(* Small instances of BlockLoader for TLC.                                 *)
EXTENDS BlockLoader

Message(t, p, s) == [kind |-> "message", time |-> t, topic |-> p, size |-> s]
Stamp(t) == [kind |-> "stamp", time |-> t, topic |-> "a", size |-> 0]

\* Messages and a stamp where blocks end and begin; the last block is shorter.
MCLog == <<Message(0, "a", 1), Message(1, "b", 1), Stamp(1), Message(2, "a", 1),
           Message(4, "a", 1), Message(4, "b", 1)>>
Of(a, b) == [t \in {"a", "b"} |-> IF t = "a" THEN a ELSE b]
MCSelections == {Of(0, 0), Of(1, 0), Of(2, 0), Of(2, 1), Of(0, 1)}
=============================================================================
