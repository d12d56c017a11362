------------------------------ MODULE ByteStream ------------------------------
(***************************************************************************)
(* What the bridge relies on when it sends a file (Ssh2Session's           *)
(* openReadStream): bytes arrive in the order of the file, the stream ends *)
(* only when it has delivered at least what the file held all the time,    *)
(* and nothing arrives after its end, its error or its destruction.        *)
(***************************************************************************)
EXTENDS Integers

VARIABLES
  sent,      \* bytes handed over
  chunk,     \* the piece of the file handed over last
  smallest,  \* the smallest size the file has had
  finish     \* "no", "end", "failed" or "destroyed"

vars == <<sent, chunk, smallest, finish>>

Init ==
  /\ sent = 0 /\ finish = "no"
  /\ chunk = [at |-> 0, len |-> 0]
  /\ smallest \in Nat

\* The next piece starts where the last one ended.
Data ==
  /\ finish = "no"
  /\ chunk'.len > 0
  /\ chunk'.at = sent
  /\ sent' = sent + chunk'.len
  /\ UNCHANGED <<smallest, finish>>

End ==
  /\ finish = "no"
  /\ sent >= smallest
  /\ finish' = "end"
  /\ UNCHANGED <<sent, chunk, smallest>>

Stop ==
  /\ finish = "no"
  /\ finish' \in {"failed", "destroyed"}
  /\ UNCHANGED <<sent, chunk, smallest>>

Shrink ==
  /\ smallest' < smallest
  /\ UNCHANGED <<sent, chunk, finish>>

Next == Data \/ End \/ Stop \/ Shrink

Spec == Init /\ [][Next]_vars
=============================================================================
