-------------------------- MODULE MCInboxBatching --------------------------
(* A burst timer over a few short time units; messages are interchangeable. *)
EXTENDS InboxBatching, TLC

Interchangeable == Permutations(Message)
=============================================================================
