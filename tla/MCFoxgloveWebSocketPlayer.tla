---------------------- MODULE MCFoxgloveWebSocketPlayer ----------------------
(* A small instance of FoxgloveWebSocketPlayer for TLC.                    *)
EXTENDS FoxgloveWebSocketPlayer

\* Two channels on one topic.
MCTopicOf == <<"a", "a", "b">>
MCSelections == {{}, {"a"}, {"a", "b"}}
MCPublished == {{}, {"a"}}
=============================================================================
