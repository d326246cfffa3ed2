---------------------------- MODULE AtomicVault ----------------------------
(***************************************************************************)
(* What the Memory Vault promises about a mutation, without the journal,   *)
(* the files and the crashes that keep the promise: it happens as a whole  *)
(* or not at all, and one at a time.                                       *)
(***************************************************************************)
EXTENDS Naturals

CONSTANTS File, Nothing

VARIABLES
  contents,  \* what each file of the vault holds
  pending    \* what the mutation under way would make of it, or Nothing

Begin ==
  /\ pending = Nothing
  /\ pending' \in [File -> Nat]
  /\ UNCHANGED contents

Commit ==
  /\ pending # Nothing
  /\ contents' = pending
  /\ pending' = Nothing

Abort ==
  /\ pending # Nothing
  /\ pending' = Nothing
  /\ UNCHANGED contents

Init ==
  /\ contents = [f \in File |-> 0]
  /\ pending = Nothing

Next == Begin \/ Commit \/ Abort

Spec == Init /\ [][Next]_<<contents, pending>>
=============================================================================
