----------------------- MODULE MCWorkflowCoordinator -----------------------
EXTENDS WorkflowCoordinator, TLC

CONSTANTS v, w, a, b, c

(* One workflow: commands a and c, and subagent b after a. *)
OneOf == (a :> v) @@ (b :> v) @@ (c :> v)
(* Two of them: v as above without c, which is all of w. *)
TwoOf == (a :> v) @@ (b :> v) @@ (c :> w)
AfterA == (a :> {}) @@ (b :> {a}) @@ (c :> {})
=============================================================================
