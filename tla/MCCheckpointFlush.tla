-------------------------- MODULE MCCheckpointFlush --------------------------
(* Two turns of conversation, and one session that is compacted. *)
EXTENDS CheckpointFlush

CONSTANTS f

Talk == {[t \in Turn |-> "conversation"]}
OfF == [t \in Turn |-> f]
=============================================================================
