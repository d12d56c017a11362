---------------------------- MODULE MessageStream ----------------------------
(***************************************************************************)
(* What a reader of an iterable source relies on: the iterator yields the  *)
(* results it was asked for in the order of the log, leaves none out, and  *)
(* says that it is done only after the last.  Both layers between          *)
(* IterablePlayer and a source keep this promise to the one above:         *)
(* BufferedIterableSource and CachingIterableSource.                       *)
(* A result may be delivered again at once (BufferedIterableSource repeats *)
(* stamps); such a step changes nothing here.                              *)
(***************************************************************************)
EXTENDS Integers

CONSTANT Streams   \* what may be asked for, each a set of positions in the log

VARIABLES
  stream,   \* the positions in the log the iterator is to yield
  last,     \* the last one yielded, 0 before the first
  over      \* "no", or how the iterator ended: "done", "failed", "returned"

vars == <<stream, last, over>>

After(i) == {j \in stream : j > i}

Init == stream = {} /\ last = 0 /\ over = "returned"

Start ==
  /\ over # "no"
  /\ stream' \in Streams
  /\ last' = 0
  /\ over' = "no"

Yield ==
  /\ over = "no"
  /\ \E i \in After(last) :
       /\ \A j \in After(last) : i <= j
       /\ last' = i
  /\ UNCHANGED <<stream, over>>

Done ==
  /\ over = "no"
  /\ After(last) = {}
  /\ over' = "done"
  /\ UNCHANGED <<stream, last>>

Return ==
  /\ over = "no"
  /\ over' = "returned"
  /\ UNCHANGED <<stream, last>>

Failed ==
  /\ over = "no"
  /\ over' = "failed"
  /\ UNCHANGED <<stream, last>>

Next == Start \/ Yield \/ Done \/ Return \/ Failed

Spec == Init /\ [][Next]_vars
=============================================================================
