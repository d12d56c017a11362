----------------------- MODULE MCCachingIterableSource -----------------------
(* A small instance of CachingIterableSource for TLC.                      *)
EXTENDS CachingIterableSource

Result(k, t, p, s) == [kind |-> k, time |-> t, topic |-> p, size |-> s]

\* Messages of two topics at one time, with a problem between them; a stamp.
MCLog == <<Result("message", 1, "a", 1), Result("message", 2, "b", 1),
           Result("problem", 2, "a", 0), Result("message", 2, "a", 1),
           Result("message", 2, "b", 1), Result("stamp", 3, "a", 0),
           Result("message", 4, "b", 1)>>
MCStarts == {0, 3}
MCEnds == {3, 5}
MCSelections == {{"a"}, {"a", "b"}}
=============================================================================
