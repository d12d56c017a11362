---------------------- MODULE MCBufferedIterableSource ----------------------
(* A small instance of BufferedIterableSource for TLC.                     *)
EXTENDS BufferedIterableSource

Result(k, t) == [kind |-> k, time |-> t]

\* Messages at one time, a stamp near and one beyond the read-ahead, a problem.
MCLog == <<Result("message", 0), Result("message", 1), Result("message", 1),
           Result("stamp", 2), Result("problem", 2), Result("stamp", 6),
           Result("message", 7)>>
MCStarts == {0, 1}
=============================================================================
