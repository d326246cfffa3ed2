--------------------------- MODULE MCVaultJournal ---------------------------
(* Two files, one of them the profile. *)
EXTENDS VaultJournal

\* Steps at which a failed write is rolled back completely: all up to complete.
BeforeComplete == MutationSteps \ {"completing", "cleaning"}

Everywhere == MutationSteps \cup RollbackSteps \cup
  {"idle", "down", "recovering", "starting"}
=============================================================================
