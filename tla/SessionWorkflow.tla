--------------------------- MODULE SessionWorkflow ---------------------------
(***************************************************************************)
(* The rows of workflows, which survive a restart, and what the operations *)
(* of workflows/session-workflows.ts make of them.  Each operation is one  *)
(* transaction of SQLite; the coordinator (WorkflowCoordinator) decides    *)
(* when each is called, and calls several in one turn of the event loop,   *)
(* so they are written here as functions of the rows.                      *)
(*                                                                         *)
(* Titles, notes, grants, inputs, results and the list of events are left  *)
(* out, and so are revisions: every caller passes the one it has just read.*)
(***************************************************************************)
EXTENDS Naturals, FiniteSets

CONSTANTS
  Workflow, Node,
  Of,          \* the workflow of each node
  Needs,       \* the nodes each one depends on
  Width,       \* max_concurrency of the workflows
  MaxReplays   \* maximumWorkflowReplayCount

ASSUME WorkflowAssumption ==
  /\ IsFiniteSet(Node)
  /\ Of \in [Node -> Workflow]
  /\ Needs \in [Node -> SUBSET Node]
  /\ \A n \in Node : \A p \in Needs[n] : Of[p] = Of[n]
  /\ Width \in Nat \ {0} /\ MaxReplays \in Nat

VARIABLES
  status,      \* of each workflow
  node,        \* the status of each node
  attached,    \* nodes with a child_job_id
  replays      \* replay_count of each node

rowVars == <<status, node, attached, replays>>

Ended == {"completed", "failed", "cancelled"}
Started == {"running", "blocked", "cancelling"}
NodeEnded == {"completed", "failed", "cancelled", "skipped"}
NodeStatus == NodeEnded \cup {"pending", "launching", "running", "decision_required"}

RowsOK ==
  /\ status \in [Workflow -> Started \cup Ended \cup {"planned"}]
  /\ node \in [Node -> NodeStatus]
  /\ attached \subseteq Node
  /\ replays \in [Node -> 0..MaxReplays]

Planned ==
  /\ status = [w \in Workflow |-> "planned"]
  /\ node = [n \in Node |-> "pending"]
  /\ attached = {}
  /\ replays = [n \in Node |-> 0]

Nodes(w) == {n \in Node : Of[n] = w}
Active(w, nd) == {n \in Nodes(w) : nd[n] \in {"launching", "running"}}

(* Mutant: each round has the whole budget. *)
SlotsOfARound(w, nd) == Width

Slots(w, nd) == Width - Cardinality(Active(w, nd))

(* Mutant: only a failure of what a node depends on holds it back. *)
ReadyUnlessFailed(w, nd) ==
  {n \in Nodes(w) : /\ nd[n] = "pending"
                    /\ \A p \in Needs[n] : nd[p] \notin {"failed", "cancelled"}}

Ready(w, nd) ==
  {n \in Nodes(w) : /\ nd[n] = "pending"
                    /\ \A p \in Needs[n] : nd[p] \in {"completed", "skipped"}}

(* The sets of nodes reserveReady may reserve: as many as there is room for. *)
Reservations(w, nd) ==
  LET most == IF Slots(w, nd) < Cardinality(Ready(w, nd))
              THEN Slots(w, nd) ELSE Cardinality(Ready(w, nd))
  IN {R \in SUBSET Ready(w, nd) : Cardinality(R) = most}

Reserved(R, nd) == [n \in Node |-> IF n \in R THEN "launching" ELSE nd[n]]

Skipped(w, from, nd) ==
  [n \in Node |-> IF Of[n] = w /\ nd[n] \in from THEN "skipped" ELSE nd[n]]

(* A child's end, or its need of a decision; a node that ended stays so. *)
Applied(n, outcome, nd) ==
  IF nd[n] \in NodeEnded THEN nd ELSE [nd EXCEPT ![n] = outcome]

(* Mutant: a cancelled workflow does not wait for what still runs. *)
SettledAtOnce(w, st, nd) ==
  IF st = "cancelling" THEN "cancelled"
  ELSE IF st \in Started /\ \A n \in Nodes(w) : nd[n] \in NodeEnded THEN "completed"
  ELSE st

(* settle: what the nodes make of a workflow that has started. *)
SettledStatus(w, st, nd) ==
  LET active == Active(w, nd) # {}
      decisions == \E n \in Nodes(w) : nd[n] = "decision_required"
      failed == \E n \in Nodes(w) : nd[n] \in {"failed", "cancelled"}
      unfinished == \E n \in Nodes(w) : nd[n] \notin NodeEnded
  IN IF st \notin Started THEN st
     ELSE IF st = "cancelling" THEN IF active THEN st ELSE "cancelled"
     ELSE IF decisions THEN "blocked"
     ELSE IF failed /\ ~active THEN "failed"
     ELSE IF ~failed /\ ~unfinished THEN "completed"
     ELSE "running"

SettledNodes(w, st, nd) ==
  IF SettledStatus(w, st, nd) = "failed" /\ st \in Started
  THEN Skipped(w, {"pending"}, nd) ELSE nd

(* requestCancel, and markDeadlineExceeded: the nodes that do not run are  *)
(* skipped; those that do are left to the coordinator.                     *)
CancelRequested(w) ==
  /\ status[w] \notin Ended \cup {"cancelling"}
  /\ node' = Skipped(w, {"pending", "decision_required"}, node)
  /\ status' = [status EXCEPT ![w] = IF @ = "planned" THEN "cancelled" ELSE "cancelling"]

(* decideReplay, by the user. *)
Decided(n, decision) ==
  LET flow == Of[n] IN
  /\ status[flow] \notin Ended /\ node[n] = "decision_required"
  /\ \/ /\ decision = "retry" /\ replays[n] < MaxReplays /\ Slots(flow, node) > 0
        /\ node' = [node EXCEPT ![n] = "launching"]
        /\ replays' = [replays EXCEPT ![n] = @ + 1]
        /\ status' = [status EXCEPT ![flow] = IF @ = "blocked" THEN "running" ELSE @]
     \/ /\ decision = "skip"
        /\ node' = [node EXCEPT ![n] = "skipped"]
        /\ status' = [status EXCEPT ![flow] = IF @ = "blocked" THEN "running" ELSE @]
        /\ UNCHANGED replays
     \/ /\ decision = "cancel"
        /\ node' = Skipped(flow, {"pending", "decision_required"}, node)
        /\ status' = [status EXCEPT ![flow] = "cancelling"]
        /\ UNCHANGED replays
=============================================================================
