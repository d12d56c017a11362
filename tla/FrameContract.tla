---------------------------- MODULE FrameContract ----------------------------
(***************************************************************************)
(* What a Player promises the listener of its frames (PlayerStateActiveData *)
(* in players/types.ts): between two seeks the frames carry the messages of *)
(* the log in order and each at most once, no message is later than the    *)
(* current time of its frame, and after a frame with a new lastSeekTime     *)
(* delivery starts over with at most one message of each topic.            *)
(***************************************************************************)
EXTENDS Integers, Sequences

CONSTANTS Log, Positions

VARIABLES
  frame,   \* the last frame: its time, whether it is playing, its messages, and
           \* whether lastSeekTime is not that of the frame before
  heard    \* the messages of the frames since the last seek

vars == <<frame, heard>>

Init ==
  /\ ~frame.playing /\ frame.messages = {} /\ ~frame.seek
  /\ heard = {}

\* No message of a frame is later than the frame.
Fit == \A i \in frame'.messages : Log[i].time <= frame'.time

\* Frames go on: new messages follow everything heard since the last seek.  A
\* frame without messages may tell anything: a change of state, the time of a
\* seek that is not done, an error.
Play ==
  /\ ~frame'.seek
  /\ frame'.messages \in SUBSET Positions
  /\ Fit
  /\ \A i \in frame'.messages, j \in heard : j < i
  /\ heard' = heard \union frame'.messages
  /\ frame'.messages # {} => frame'.time >= frame.time

\* A seek: what was heard before no longer matters.
Seek ==
  /\ frame'.seek
  /\ frame'.messages \in SUBSET Positions
  /\ Fit
  /\ \A i, j \in frame'.messages : Log[i].topic = Log[j].topic => i = j
  /\ heard' = frame'.messages

Next == Play \/ Seek

Spec == Init /\ [][Next]_vars
=============================================================================
