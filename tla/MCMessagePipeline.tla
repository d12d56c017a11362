-------------------------- MODULE MCMessagePipeline --------------------------
(* Small instances of MessagePipeline for TLC.                             *)
EXTENDS MessagePipeline

MCAliasOf == [x |-> "a"]
MCChoices == {{}, {"a"}, {"x", "b"}}
=============================================================================
