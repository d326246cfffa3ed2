---------------------- MODULE WorkflowCoordinatorProofs ----------------------
(***************************************************************************)
(* Proofs about WorkflowCoordinator for any number of workflows and nodes, *)
(* any dependencies, budgets and capacities, and any number of restarts.   *)
(***************************************************************************)
EXTENDS WorkflowCoordinator, FiniteSetTheorems, TLAPS

-----------------------------------------------------------------------------
(* The inductive invariant.                                                *)

Busy == {"launching", "running"}

\* What a pump has still to handle, nobody else has brought to an end.
TodoIsActive == \A w \in Workflow : pump[w].todo \subseteq Active(w, node)

\* The child that was set going and is not yet written is of a node its pump is at.
HandIsHandled ==
  \A n \in hand : /\ hand = {n} /\ Handles(Of[n], n)
                  /\ child[n] \in {"running", "failed"}

\* A workflow that has not started has not touched its nodes, and one that has
\* ended has none at work.
PlannedIsPending == \A n \in Node : status[Of[n]] = "planned" => node[n] = "pending"
ActiveIsStarted == \A n \in Node : node[n] \in Busy => status[Of[n]] \in Started

\* A node that runs has a child, and the row says so.
RunningIsAttached == \A n \in Node : node[n] = "running" => n \in attached
AttachedHasChild == \A n \in attached : child[n] # "none"

\* A command runs for a node that is at work, which is told or about to be.
CommandIsActive ==
  \A n \in Node \ Agent : child[n] = "running" => node[n] \in Busy /\ n \in attached \cup hand

\* Only subagents recover by themselves, and none whose interrupt is awaited.
RecoveredIsAgent == \A n \in Node : child[n] = "automatic" => n \in Agent
InterruptedHasEnded ==
  \A w \in Workflow : pump[w].at = "cancel" =>
    \A n \in pump[w].todo : child[n] \in ChildEnded \cup {"running"}

\* Nodes that take up the budget, those that await a decision included.
Held(w, nd) == Active(w, nd) \cup {n \in Nodes(w) : nd[n] = "decision_required"}

\* Dependencies were met before a node was set going, and stay so.
Met(n, nd) == \A p \in Needs[n] : nd[p] \in {"completed", "skipped"}
DependenciesMet ==
  \A n \in Node :
    node[n] \in Busy \cup {"decision_required"} \/ child[n] # "none" => Met(n, node)

Rows == PlannedIsPending /\ ActiveIsStarted /\ WithinBudget
Children ==
  /\ RunningIsAttached /\ AttachedHasChild /\ CommandIsActive /\ RecoveredIsAgent
  /\ DependenciesMet
Pumps == TodoIsActive /\ HandIsHandled /\ InterruptedHasEnded

Inductive == TypeOK /\ Rows /\ Children /\ Pumps

-----------------------------------------------------------------------------
(* Lemmas about the rows.                                                  *)

\* A subset of the nodes that take up the budget fits into it.
LEMMA HeldShrinks ==
  ASSUME NEW w \in Workflow, NEW nd, NEW ne,
         Held(w, ne) \subseteq Held(w, nd), Cardinality(Held(w, nd)) <= Width
  PROVE  Cardinality(Held(w, ne)) <= Width
<1>1. Held(w, nd) \in SUBSET Node /\ IsFiniteSet(Node)
  BY WorkflowAssumption DEF Held, Active, Nodes
<1>2. IsFiniteSet(Held(w, nd))
  BY <1>1, FS_Subset
<1>3. Cardinality(Held(w, ne)) <= Cardinality(Held(w, nd))
  BY <1>2, FS_Subset
<1>4. /\ Cardinality(Held(w, ne)) \in Nat /\ Cardinality(Held(w, nd)) \in Nat /\ Width \in Nat
  BY <1>1, <1>2, FS_Subset, FS_CardinalityType, WorkflowAssumption
<1> QED
  BY <1>3, <1>4

\* When no node awaits a decision, what a round reserves fits into the budget.
LEMMA ReservationFits ==
  ASSUME NEW w \in Workflow, NEW nd, NEW R \in Reservations(w, nd),
         \A n \in Nodes(w) : nd[n] # "decision_required",
         Cardinality(Held(w, nd)) <= Width
  PROVE  Cardinality(Held(w, Reserved(R, nd))) <= Width
<1>1. Held(w, nd) = Active(w, nd)
  BY DEF Held
<1>2. /\ IsFiniteSet(Active(w, nd)) /\ IsFiniteSet(Ready(w, nd))
      /\ Cardinality(Active(w, nd)) \in Nat /\ Cardinality(Ready(w, nd)) \in Nat
  <2>1. Active(w, nd) \in SUBSET Node /\ Ready(w, nd) \in SUBSET Node
    BY DEF Active, Ready, Nodes
  <2> QED
    BY <2>1, WorkflowAssumption, FS_Subset, FS_CardinalityType
<1>3. R \in SUBSET Ready(w, nd) /\ Cardinality(R) <= Slots(w, nd) /\ Slots(w, nd) \in Int
  BY <1>2, WorkflowAssumption DEF Reservations, Slots
<1>4. IsFiniteSet(R) /\ Cardinality(R) \in Nat
  BY <1>2, <1>3, FS_Subset, FS_CardinalityType
<1>5. Cardinality(R) + Cardinality(Active(w, nd)) <= Width
  BY <1>2, <1>3, <1>4, WorkflowAssumption DEF Slots
<1>6. Held(w, Reserved(R, nd)) = R \cup Active(w, nd)
  BY <1>3 DEF Held, Reserved, Active, Ready, Nodes
<1>7. Cardinality(R \cup Active(w, nd)) <= Cardinality(R) + Cardinality(Active(w, nd))
  <2>1. /\ IsFiniteSet(R \cap Active(w, nd))
        /\ Cardinality(R \cap Active(w, nd)) \in Nat
    BY <1>4, FS_Intersection, FS_CardinalityType
  <2>2. Cardinality(R \cup Active(w, nd)) =
          Cardinality(R) + Cardinality(Active(w, nd)) - Cardinality(R \cap Active(w, nd))
    BY <1>2, <1>4, FS_Union
  <2> QED
    BY <1>2, <1>4, <2>1, <2>2
<1>8. Cardinality(R \cup Active(w, nd)) \in Nat
  BY <1>2, <1>4, FS_Union, FS_CardinalityType
<1> QED
  BY <1>2, <1>4, <1>5, <1>6, <1>7, <1>8, WorkflowAssumption

\* The budget is kept by a step that gives nobody a place in it.
LEMMA BudgetKept ==
  ASSUME WithinBudget,
         \A n \in Node : node'[n] \in Busy \cup {"decision_required"}
                           => node[n] \in Busy \cup {"decision_required"}
  PROVE  WithinBudget'
<1> SUFFICES ASSUME NEW w \in Workflow
             PROVE  Cardinality(Held(w, node')) <= Width
  BY DEF WithinBudget, Held, Active, Nodes
<1>1. Held(w, node') \subseteq Held(w, node)
  BY DEF Held, Active, Nodes, Busy
<1>2. Cardinality(Held(w, node)) <= Width
  BY DEF WithinBudget, Held
<1> QED
  BY <1>1, <1>2, HeldShrinks

\* Dependencies stay met in a step that takes back no end of a node and sets
\* nothing going but the child of a node at work.
LEMMA DependenciesKept ==
  ASSUME DependenciesMet,
         \A n \in Node : node[n] \in NodeEnded => node'[n] = node[n],
         \A n \in Node : node'[n] \in Busy \cup {"decision_required"}
                           => node[n] \in Busy \cup {"decision_required"},
         \A n \in Node : child'[n] # "none" => child[n] # "none" \/ node[n] \in Busy
  PROVE  DependenciesMet'
<1>1. ASSUME NEW n \in Node, Met(n, node) PROVE Met(n, node')
  BY <1>1, WorkflowAssumption DEF Met, NodeEnded
<1> QED
  BY <1>1 DEF DependenciesMet

\* Skipping brings only nodes that do not run to an end.
LEMMA SkippedNodes ==
  ASSUME NEW w, NEW from, NEW nd \in [Node -> NodeStatus]
  PROVE  /\ Skipped(w, from, nd) \in [Node -> NodeStatus]
         /\ \A n \in Node : Skipped(w, from, nd)[n] =
              IF Of[n] = w /\ nd[n] \in from THEN "skipped" ELSE nd[n]
BY DEF Skipped, NodeStatus, NodeEnded

-----------------------------------------------------------------------------
(* Types.                                                                  *)

LEMMA ScheduleTyped ==
  ASSUME TypeOK, NEW W \in SUBSET Workflow, Schedule(W)
  PROVE  scheduled' \subseteq Workflow /\ rerun' \subseteq Workflow
BY DEF TypeOK, Schedule

LEMMA SettledTyped ==
  ASSUME NEW w, NEW st \in Started \cup Ended \cup {"planned"},
         NEW nd \in [Node -> NodeStatus]
  PROVE  /\ SettledStatus(w, st, nd) \in Started \cup Ended \cup {"planned"}
         /\ SettledNodes(w, st, nd) \in [Node -> NodeStatus]
<1>1. SettledStatus(w, st, nd) \in Started \cup Ended \cup {"planned"}
  BY DEF SettledStatus, Started, Ended
<1>2. SettledNodes(w, st, nd) \in [Node -> NodeStatus]
  BY SkippedNodes DEF SettledNodes
<1> QED
  BY <1>1, <1>2

\* The nodes a round reserves were pending, with their dependencies met.
LEMMA ReservedNodes ==
  ASSUME NEW w, NEW nd \in [Node -> NodeStatus], NEW R \in Reservations(w, nd) \cup {{}}
  PROVE  /\ R \subseteq Nodes(w)
         /\ Reserved(R, nd) \in [Node -> NodeStatus]
         /\ \A n \in Node : Reserved(R, nd)[n] = IF n \in R THEN "launching" ELSE nd[n]
         /\ \A n \in R : nd[n] = "pending" /\ Met(n, nd)
<1>1. R \subseteq Ready(w, nd)
  BY DEF Reservations
<1> QED
  BY <1>1 DEF Ready, Reserved, Met, NodeStatus, Nodes

LEMMA CancelTyped ==
  ASSUME TypeOK, NEW w \in Workflow, CancelRequested(w)
  PROVE  /\ status' \in [Workflow -> Started \cup Ended \cup {"planned"}]
         /\ node' \in [Node -> NodeStatus]
<1>1. node' \in [Node -> NodeStatus]
  BY SkippedNodes DEF TypeOK, RowsOK, CancelRequested
<1>2. status' \in [Workflow -> Started \cup Ended \cup {"planned"}]
  BY DEF TypeOK, RowsOK, CancelRequested, Started, Ended
<1> QED
  BY <1>1, <1>2

LEMMA DecisionTyped ==
  ASSUME TypeOK, NEW n \in Node, NEW decision \in {"retry", "skip", "cancel"},
         Decided(n, decision)
  PROVE  /\ status' \in [Workflow -> Started \cup Ended \cup {"planned"}]
         /\ node' \in [Node -> NodeStatus] /\ replays' \in [Node -> 0..MaxReplays]
<1> DEFINE flow == Of[n]
<1>1. flow \in Workflow
  BY WorkflowAssumption
<1>2. CASE decision = "retry"
  <2>1. replays[n] < MaxReplays /\ node' = [node EXCEPT ![n] = "launching"]
        /\ replays' = [replays EXCEPT ![n] = @ + 1]
        /\ status' = [status EXCEPT ![flow] = IF @ = "blocked" THEN "running" ELSE @]
    BY <1>2 DEF Decided
  <2> QED
    BY <1>1, <2>1, WorkflowAssumption DEF TypeOK, RowsOK, NodeStatus, Started, Ended
<1>3. CASE decision = "skip"
  <2>1. node' = [node EXCEPT ![n] = "skipped"] /\ replays' = replays
        /\ status' = [status EXCEPT ![flow] = IF @ = "blocked" THEN "running" ELSE @]
    BY <1>3 DEF Decided
  <2> QED
    BY <1>1, <2>1 DEF TypeOK, RowsOK, NodeStatus, NodeEnded, Started, Ended
<1>4. CASE decision = "cancel"
  <2>1. node' = Skipped(flow, {"pending", "decision_required"}, node) /\ replays' = replays
        /\ status' = [status EXCEPT ![flow] = "cancelling"]
    BY <1>4 DEF Decided
  <2> QED
    BY <1>1, <2>1, SkippedNodes DEF TypeOK, RowsOK, Started, Ended
<1> QED
  BY <1>2, <1>3, <1>4

\* The pump's record after a node was handled.
LEMMA DoneTyped ==
  ASSUME TypeOK, NEW w \in Workflow, NEW n, NEW deferred \in BOOLEAN, Done(w, n, deferred)
  PROVE  /\ pump' \in [Workflow -> [at : {"rest", "reconcile", "cancel", "launch"},
                                    todo : SUBSET Node, deferred : BOOLEAN]]
         /\ pump'[w].at = pump[w].at /\ pump'[w].todo = pump[w].todo \ {n}
         /\ \A v \in Workflow \ {w} : pump'[v] = pump[v]
BY DEF TypeOK, Done

\* The pump's record when it is put at new nodes.
LEMMA AtTyped ==
  ASSUME TypeOK, NEW w \in Workflow, NEW where \in {"rest", "reconcile", "cancel", "launch"},
         NEW nodes \in SUBSET Node, pump' = [pump EXCEPT ![w] = At(where, nodes)]
  PROVE  /\ pump' \in [Workflow -> [at : {"rest", "reconcile", "cancel", "launch"},
                                    todo : SUBSET Node, deferred : BOOLEAN]]
         /\ pump'[w].at = where /\ pump'[w].todo = nodes
         /\ \A v \in Workflow \ {w} : pump'[v] = pump[v]
BY DEF TypeOK, At

-----------------------------------------------------------------------------
(* Steps that leave the rows alone.                                        *)

LEMMA NothingHandled ==
  ASSUME Inductive, UNCHANGED <<rowVars, childVars, pump, hand>>
  PROVE  (Rows /\ Children /\ Pumps)'
BY DEF Inductive, Rows, Children, Pumps, rowVars, childVars, PlannedIsPending,
       ActiveIsStarted, WithinBudget, RunningIsAttached, AttachedHasChild, CommandIsActive,
       RecoveredIsAgent, DependenciesMet, Met, TodoIsActive, HandIsHandled, Handles,
       InterruptedHasEnded, Active, Nodes

\* A child ends, or a subagent is recovered.
LEMMA ChildMoves ==
  ASSUME Inductive, hand = {}, NEW n \in Node, NEW outcome \in ChildEnded \cup {"running"},
         child[n] \in {"running", "automatic"}, outcome = "running" => n \in Agent,
         child' = [child EXCEPT ![n] = outcome], UNCHANGED <<rowVars, pump, hand>>
  PROVE  (Rows /\ Children /\ Pumps)'
<1>1. \A m \in Node : child'[m] = IF m = n THEN outcome ELSE child[m]
  BY DEF Inductive, TypeOK
<1>2. Rows'
  BY DEF Inductive, Rows, rowVars, PlannedIsPending, ActiveIsStarted, WithinBudget, Active, Nodes
<1>3. Pumps'
  <2>1. pump \in [Workflow -> [at : {"rest", "reconcile", "cancel", "launch"},
                               todo : SUBSET Node, deferred : BOOLEAN]]
    BY DEF Inductive, TypeOK
  <2>2. TodoIsActive'
    BY DEF Inductive, Pumps, TodoIsActive, rowVars, Active, Nodes
  <2>3. HandIsHandled'
    BY DEF HandIsHandled
  <2>4. InterruptedHasEnded'
    BY <1>1, <2>1 DEF Inductive, Pumps, InterruptedHasEnded, ChildEnded
  <2> QED
    BY <2>2, <2>3, <2>4 DEF Pumps
<1>4. outcome # "none" /\ outcome # "automatic" /\ child[n] # "none"
  BY DEF ChildEnded
<1>5. RunningIsAttached' /\ AttachedHasChild' /\ CommandIsActive' /\ RecoveredIsAgent'
  BY <1>1, <1>4 DEF Inductive, TypeOK, RowsOK, Children, rowVars, RunningIsAttached, AttachedHasChild,
     CommandIsActive, RecoveredIsAgent, ChildEnded
<1>6. DependenciesMet'
  BY <1>1, <1>4, DependenciesKept DEF Inductive, Children, rowVars
<1> QED
  BY <1>2, <1>3, <1>5, <1>6 DEF Children

-----------------------------------------------------------------------------
(* Calls.                                                                  *)

LEMMA StartKeeps ==
  ASSUME Inductive, hand = {}, NEW w \in Workflow, status[w] = "planned",
         status' = [status EXCEPT ![w] = "running"],
         UNCHANGED <<node, attached, childVars, pump, hand>>
  PROVE  (Rows /\ Children /\ Pumps)'
<1>1. \A v \in Workflow : status'[v] = IF v = w THEN "running" ELSE status[v]
  BY DEF Inductive, TypeOK, RowsOK
<1>2. Rows'
  <2>1. PlannedIsPending' /\ ActiveIsStarted'
    BY <1>1, WorkflowAssumption DEF Inductive, Rows, PlannedIsPending, ActiveIsStarted, Started
  <2> QED
    BY <2>1 DEF Inductive, Rows, WithinBudget, Active, Nodes
<1>3. Children' /\ Pumps'
  BY DEF Inductive, Children, Pumps, childVars, RunningIsAttached, AttachedHasChild,
     CommandIsActive, RecoveredIsAgent, DependenciesMet, Met, TodoIsActive, HandIsHandled,
     Handles, InterruptedHasEnded, Active, Nodes
<1> QED
  BY <1>2, <1>3

\* A step of the rows that skips some of the nodes that do not run, or gives one that
\* awaits a decision another try, while no child moves.
LEMMA RowsMove ==
  ASSUME Inductive, hand = {}, node' \in [Node -> NodeStatus],
         \A n \in Node : \/ node'[n] = node[n]
                         \/ /\ node[n] \in {"pending", "decision_required"}
                            /\ node'[n] = "skipped" /\ status'[Of[n]] # "planned"
                         \/ /\ node[n] = "decision_required" /\ node'[n] = "launching"
                            /\ status'[Of[n]] \in Started,
         \A w \in Workflow :
           \/ status'[w] = status[w]
           \/ status'[w] \in Started
           \/ status'[w] = "cancelled" /\ status[w] = "planned",
         UNCHANGED <<attached, childVars, hand>>
  PROVE  (Rows /\ Children)'
<1> USE DEF Inductive, Busy
<1>1. ASSUME NEW n \in Node PROVE status'[Of[n]] = "planned" => status[Of[n]] = "planned"
  BY WorkflowAssumption DEF Started
<1>2. PlannedIsPending'
  BY <1>1 DEF Rows, PlannedIsPending, Started
<1>3. ActiveIsStarted'
  <2> SUFFICES ASSUME NEW n \in Node, node'[n] \in Busy, node'[n] = node[n]
               PROVE  status'[Of[n]] \in Started
    BY DEF ActiveIsStarted
  <2>1. status[Of[n]] \in Started
    BY DEF Rows, ActiveIsStarted
  <2>2. status[Of[n]] # "planned"
    BY <2>1 DEF Started
  <2> QED
    BY <2>1, <2>2, WorkflowAssumption
<1>4. \A n \in Node : node'[n] \in Busy \cup {"decision_required"}
                        => node[n] \in Busy \cup {"decision_required"}
  OBVIOUS
<1>5. WithinBudget'
  BY <1>4, BudgetKept DEF Rows
<1>6. DependenciesMet'
  BY <1>4, DependenciesKept DEF Children, childVars, NodeEnded
<1>7. RunningIsAttached' /\ AttachedHasChild' /\ CommandIsActive' /\ RecoveredIsAgent'
  BY DEF Children, childVars, RunningIsAttached, AttachedHasChild, CommandIsActive, RecoveredIsAgent
<1> QED
  BY <1>2, <1>3, <1>5, <1>6, <1>7 DEF Rows, Children

\* Such a step leaves the pumps what they have to handle.
LEMMA PumpsKept ==
  ASSUME Inductive, hand = {}, UNCHANGED <<childVars, pump, hand>>,
         \A n \in Node : node[n] \in Busy => node'[n] = node[n]
  PROVE  Pumps'
BY DEF Inductive, Pumps, childVars, TodoIsActive, HandIsHandled, InterruptedHasEnded,
   Active, Nodes, Busy

LEMMA CancelKeeps ==
  ASSUME Inductive, hand = {}, NEW w \in Workflow, CancelRequested(w),
         UNCHANGED <<attached, childVars, hand>>
  PROVE  /\ (Rows /\ Children)'
         /\ \A n \in Node : node[n] \in Busy => node'[n] = node[n]
<1>1. /\ node' \in [Node -> NodeStatus]
      /\ \A n \in Node : node'[n] =
           IF Of[n] = w /\ node[n] \in {"pending", "decision_required"}
           THEN "skipped" ELSE node[n]
  BY SkippedNodes DEF CancelRequested, Inductive, TypeOK, RowsOK
<1>2. \A v \in Workflow : status'[v] =
        IF v = w THEN IF status[w] = "planned" THEN "cancelled" ELSE "cancelling" ELSE status[v]
  BY DEF CancelRequested, Inductive, TypeOK, RowsOK
<1>3. (Rows /\ Children)'
  BY <1>1, <1>2, RowsMove DEF Started
<1> QED
  BY <1>1, <1>3 DEF Busy

LEMMA DecisionKeeps ==
  ASSUME Inductive, hand = {}, NEW n \in Node, NEW decision \in {"retry", "skip", "cancel"},
         Decided(n, decision), UNCHANGED <<attached, childVars, pump, hand>>
  PROVE  (Rows /\ Children /\ Pumps)'
<1> DEFINE flow == Of[n]
<1>1. flow \in Workflow /\ status[flow] \notin Ended /\ node[n] = "decision_required"
  BY WorkflowAssumption DEF Decided
<1>2. status[flow] \in Started
  BY <1>1 DEF Inductive, TypeOK, RowsOK, Rows, PlannedIsPending
<1>3. node' \in [Node -> NodeStatus]
  BY DecisionTyped DEF Inductive
<1>4. /\ \A m \in Node : \/ node'[m] = node[m]
                         \/ /\ node[m] \in {"pending", "decision_required"}
                            /\ node'[m] = "skipped" /\ Of[m] = flow
                         \/ /\ node[m] = "decision_required" /\ node'[m] = "launching"
                            /\ Of[m] = flow
      /\ status'[flow] \in Started /\ \A v \in Workflow \ {flow} : status'[v] = status[v]
  <2>1. CASE decision = "retry"
    <3>1. /\ node' = [node EXCEPT ![n] = "launching"]
          /\ status' = [status EXCEPT ![flow] = IF @ = "blocked" THEN "running" ELSE @]
      BY <2>1 DEF Decided
    <3> QED
      BY <3>1, <1>1, <1>2 DEF Inductive, TypeOK, RowsOK, Started
  <2>2. CASE decision = "skip"
    <3>1. /\ node' = [node EXCEPT ![n] = "skipped"]
          /\ status' = [status EXCEPT ![flow] = IF @ = "blocked" THEN "running" ELSE @]
      BY <2>2 DEF Decided
    <3> QED
      BY <3>1, <1>1, <1>2 DEF Inductive, TypeOK, RowsOK, Started
  <2>3. CASE decision = "cancel"
    <3>1. /\ node' = Skipped(flow, {"pending", "decision_required"}, node)
          /\ status' = [status EXCEPT ![flow] = "cancelling"]
      BY <2>3 DEF Decided
    <3> QED
      BY <3>1, <1>1, SkippedNodes DEF Inductive, TypeOK, RowsOK, Started
  <2> QED
    BY <2>1, <2>2, <2>3
<1>5. (Rows /\ Children)'
  BY <1>3, <1>4, RowsMove DEF Started
<1>6. Pumps'
  BY <1>4, PumpsKept DEF Busy
<1> QED
  BY <1>5, <1>6

-----------------------------------------------------------------------------
(* The pump.                                                               *)

LEMMA PumpStartKeeps ==
  ASSUME Inductive, hand = {}, NEW w \in Workflow, PumpStarts(w)
  PROVE  (Rows /\ Children /\ Pumps)'
<1> USE DEF Inductive
<1>1. PICK nodes \in {{}, Active(w, node)} : pump' = [pump EXCEPT ![w] = At("reconcile", nodes)]
  BY DEF PumpStarts
<1>2. nodes \in SUBSET Node
  BY DEF Active, Nodes
<1>3. /\ pump'[w].at = "reconcile" /\ pump'[w].todo = nodes
      /\ \A v \in Workflow \ {w} : pump'[v] = pump[v]
  BY <1>1, <1>2, AtTyped
<1>4. UNCHANGED <<attached, childVars, hand>>
  BY DEF PumpStarts
<1>5. /\ (Rows /\ Children)'
      /\ \A n \in Node : node[n] \in Busy => node'[n] = node[n]
  <2>1. CASE CancelRequested(w)
    BY <2>1, <1>4, CancelKeeps
  <2>2. CASE UNCHANGED <<status, node>>
    BY <2>2, <1>4, RowsMove DEF TypeOK, RowsOK
  <2> QED
    BY <2>1, <2>2 DEF PumpStarts
<1>6. Pumps'
  <2>1. TodoIsActive'
    BY <1>3, <1>5 DEF Pumps, TodoIsActive, Active, Nodes, Busy
  <2>2. HandIsHandled'
    BY <1>4 DEF HandIsHandled
  <2>3. InterruptedHasEnded'
    BY <1>3, <1>4 DEF Pumps, InterruptedHasEnded, childVars
  <2> QED
    BY <2>1, <2>2, <2>3 DEF Pumps
<1> QED
  BY <1>5, <1>6

\* A pump has handled node n, to which nothing happens but the writing of its status
\* and perhaps of its child.
LEMMA HandledKeeps ==
  ASSUME Inductive, NEW n \in Node, n \in pump[Of[n]].todo, hand \subseteq {n}, hand' = {},
         NEW st \in NodeStatus, node' = [node EXCEPT ![n] = st],
         \E deferred \in BOOLEAN : Done(Of[n], n, deferred),
         attached' \in {attached, attached \cup {n}}, n \in attached' => child[n] # "none",
         st = "running" => n \in attached',
         n \notin Agent /\ child[n] = "running" => st \in Busy /\ n \in attached',
         UNCHANGED <<status, childVars>>
  PROVE  (Rows /\ Children /\ Pumps)'
<1> USE DEF Inductive, Busy
<1> DEFINE w == Of[n]
<1>1. w \in Workflow
  BY WorkflowAssumption
<1>2. node[n] \in Busy /\ n \in Active(w, node)
  BY <1>1 DEF Pumps, TodoIsActive, Active
<1>3. \A m \in Node : node'[m] = IF m = n THEN st ELSE node[m]
  BY DEF TypeOK, RowsOK
<1>4. status[w] \in Started
  BY <1>2 DEF Rows, ActiveIsStarted
<1>5. Rows'
  <2>1. PlannedIsPending' /\ ActiveIsStarted'
    BY <1>2, <1>3, <1>4 DEF Rows, PlannedIsPending, ActiveIsStarted, Started
  <2>2. WithinBudget'
    BY <1>2, <1>3, BudgetKept DEF Rows
  <2> QED
    BY <2>1, <2>2 DEF Rows
<1>6. Children'
  <2>1. RunningIsAttached' /\ AttachedHasChild'
    BY <1>3 DEF Children, childVars, RunningIsAttached, AttachedHasChild
  <2>2. CommandIsActive'
    BY <1>3 DEF Children, childVars, CommandIsActive
  <2>3. RecoveredIsAgent'
    BY DEF Children, childVars, RecoveredIsAgent
  <2>4. DependenciesMet'
    BY <1>2, <1>3, DependenciesKept DEF Children, childVars, NodeEnded
  <2> QED
    BY <2>1, <2>2, <2>3, <2>4 DEF Children
<1>7. Pumps'
  <2>1. /\ pump'[w].at = pump[w].at /\ pump'[w].todo = pump[w].todo \ {n}
        /\ \A v \in Workflow \ {w} : pump'[v] = pump[v]
    BY <1>1, DoneTyped
  <2>2. TodoIsActive'
    BY <1>3, <2>1 DEF Pumps, TodoIsActive, Active, Nodes
  <2>3. HandIsHandled'
    BY DEF HandIsHandled
  <2>4. InterruptedHasEnded'
    BY <2>1 DEF Pumps, InterruptedHasEnded, childVars
  <2> QED
    BY <2>2, <2>3, <2>4 DEF Pumps
<1> QED
  BY <1>5, <1>6, <1>7

LEMMA FindKeeps ==
  ASSUME Inductive, hand = {}, NEW n \in Node, FindsChild(Of[n], n)
  PROVE  (Rows /\ Children /\ Pumps)'
<1> USE DEF Inductive
<1> DEFINE st == IF child[n] = "idle" THEN "decision_required"
                 ELSE IF child[n] \in ChildEnded THEN child[n]
                 ELSE IF n \in attached THEN node[n] ELSE "running"
<1>1. n \in pump[Of[n]].todo /\ node[n] \in Busy
  BY WorkflowAssumption DEF FindsChild, Handles, Pumps, TodoIsActive, Active, Busy
<1>2. st \in NodeStatus
  BY DEF TypeOK, RowsOK, NodeStatus, NodeEnded, ChildEnded
<1>3. node[n] \notin NodeEnded
  BY <1>1 DEF Busy, NodeEnded
<1>4. node' = [node EXCEPT ![n] = st]
  BY <1>3 DEF FindsChild, Applied, TypeOK, RowsOK
<1>5. attached' = attached \cup {n} /\ child[n] # "none" /\ Done(Of[n], n, FALSE)
  BY DEF FindsChild
<1>6. child[n] = "running" => st \in Busy
  BY <1>1 DEF ChildEnded, Busy
<1> HIDE DEF st
<1>7. hand' = {} /\ UNCHANGED <<status, childVars>>
  BY DEF FindsChild
<1> QED
  BY <1>1, <1>2, <1>4, <1>5, <1>6, <1>7, HandledKeeps

LEMMA AttachKeeps ==
  ASSUME Inductive, NEW n \in Node, AttachChild(Of[n], n)
  PROVE  (Rows /\ Children /\ Pumps)'
<1> USE DEF Inductive
<1> DEFINE st == IF child[n] = "failed" THEN "failed" ELSE "running"
<1>1. hand = {n} /\ n \in pump[Of[n]].todo /\ child[n] \in {"running", "failed"}
  BY DEF AttachChild, Pumps, HandIsHandled, Handles
<1>2. st \in NodeStatus /\ (child[n] = "running" => st \in Busy)
  BY DEF NodeStatus, NodeEnded, Busy
<1>3. /\ node' = [node EXCEPT ![n] = st] /\ attached' = attached \cup {n}
      /\ Done(Of[n], n, FALSE) /\ hand' = {} /\ UNCHANGED <<status, childVars>>
  BY DEF AttachChild
<1> HIDE DEF st
<1> QED
  BY <1>1, <1>2, <1>3, HandledKeeps

LEMMA DeferKeeps ==
  ASSUME Inductive, hand = {}, NEW n \in Node, DeferLaunch(Of[n], n)
  PROVE  (Rows /\ Children /\ Pumps)'
<1> USE DEF Inductive
<1> DEFINE st == IF n \in attached THEN node[n] ELSE "pending"
<1>1. n \in pump[Of[n]].todo /\ child[n] # "running"
  BY DEF DeferLaunch, Handles, ToStart, ToRetry
<1>2. st \in NodeStatus /\ (st = "running" => n \in attached)
  BY DEF TypeOK, RowsOK, NodeStatus
<1>3. node' = [node EXCEPT ![n] = st]
  BY DEF DeferLaunch, TypeOK, RowsOK
<1>4. n \in attached => child[n] # "none"
  BY DEF Children, AttachedHasChild
<1>5. attached' = attached /\ Done(Of[n], n, TRUE) /\ hand' = {} /\ UNCHANGED <<status, childVars>>
  BY DEF DeferLaunch
<1> HIDE DEF st
<1> QED
  BY <1>1, <1>2, <1>3, <1>4, <1>5, HandledKeeps

LEMMA RefuseKeeps ==
  ASSUME Inductive, hand = {}, NEW n \in Node, RefuseLaunch(Of[n], n)
  PROVE  (Rows /\ Children /\ Pumps)'
<1> USE DEF Inductive
<1>1. PICK st \in {"failed", "decision_required"} : node' = [node EXCEPT ![n] = st]
  BY DEF RefuseLaunch
<1>2. n \in pump[Of[n]].todo /\ child[n] # "running" /\ st \in NodeStatus /\ st # "running"
  BY DEF RefuseLaunch, Handles, ToStart, NodeStatus, NodeEnded
<1>3. n \in attached => child[n] # "none"
  BY DEF Children, AttachedHasChild
<1>4. attached' = attached /\ Done(Of[n], n, FALSE) /\ hand' = {} /\ UNCHANGED <<status, childVars>>
  BY DEF RefuseLaunch
<1> QED
  BY <1>1, <1>2, <1>3, <1>4, HandledKeeps

LEMMA InterruptKeeps ==
  ASSUME Inductive, hand = {}, NEW n \in Node, InterruptAnswers(Of[n], n)
  PROVE  (Rows /\ Children /\ Pumps)'
<1> USE DEF Inductive
<1>1. n \in pump[Of[n]].todo /\ child[n] \in ChildEnded
  BY WorkflowAssumption DEF InterruptAnswers, Pumps, InterruptedHasEnded
<1>2. node[n] \in Busy
  BY <1>1, WorkflowAssumption DEF Pumps, TodoIsActive, Active, Busy
<1>3. /\ child[n] \in NodeStatus /\ child[n] \notin {"running", "none"}
      /\ node' = [node EXCEPT ![n] = child[n]]
  BY <1>1, <1>2 DEF InterruptAnswers, Applied, Busy, NodeEnded, NodeStatus, ChildEnded
<1>4. attached' = attached /\ Done(Of[n], n, FALSE) /\ hand' = {} /\ UNCHANGED <<status, childVars>>
  BY DEF InterruptAnswers
<1> QED
  BY <1>1, <1>3, <1>4, HandledKeeps

LEMMA LaunchKeeps ==
  ASSUME Inductive, hand = {}, NEW n \in Node, Launch(Of[n], n)
  PROVE  (Rows /\ Children /\ Pumps)'
<1> USE DEF Inductive
<1>1. /\ Handles(Of[n], n) /\ hand' = {n} /\ UNCHANGED <<rowVars, pump>>
      /\ n \in pump[Of[n]].todo /\ pump[Of[n]].at # "cancel"
  BY DEF Launch, Handles
<1>2. PICK c \in {"running", "failed"} : child' = [child EXCEPT ![n] = c]
  BY DEF Launch
<1>3. \A m \in Node : child'[m] = IF m = n THEN c ELSE child[m]
  BY <1>2 DEF TypeOK
<1>4. node[n] \in Busy
  BY <1>1, WorkflowAssumption DEF Pumps, TodoIsActive, Active, Busy
<1>5. Rows'
  BY <1>1 DEF Rows, rowVars, PlannedIsPending, ActiveIsStarted, WithinBudget, Active, Nodes
<1>6. RunningIsAttached' /\ AttachedHasChild' /\ CommandIsActive' /\ RecoveredIsAgent'
  BY <1>1, <1>3, <1>4 DEF TypeOK, RowsOK, Children, rowVars, RunningIsAttached, AttachedHasChild,
     CommandIsActive, RecoveredIsAgent
<1>7. DependenciesMet'
  BY <1>1, <1>3, <1>4, DependenciesKept DEF Children, rowVars
<1>8. TodoIsActive'
  BY <1>1 DEF Pumps, TodoIsActive, rowVars, Active, Nodes
<1>9. HandIsHandled'
  BY <1>1, <1>3 DEF HandIsHandled, Handles
<1>10. InterruptedHasEnded'
  BY <1>1, <1>3 DEF TypeOK, Pumps, InterruptedHasEnded, ChildEnded
<1> QED
  BY <1>5, <1>6, <1>7, <1>8, <1>9, <1>10 DEF Children, Pumps

\* What CancelChildren does to each node: those that are attended and do not run end.
LEMMA CancelledNodes ==
  ASSUME Inductive, hand = {}, NEW w \in Workflow, CancelChildren(w)
  PROVE  /\ node' \in [Node -> NodeStatus] /\ child' \in [Node -> ChildStatus]
         /\ \A n \in Node :
              \/ /\ node'[n] = node[n] /\ child'[n] = child[n]
                 /\ n \in Active(w, node) => child[n] = "running" /\ n \in pump'[w].todo
              \/ /\ n \in Active(w, node) /\ n \notin pump'[w].todo
                 /\ node'[n] \in {"completed", "failed", "cancelled"}
                 /\ child'[n] \in {child[n], "failed", "cancelled"}
                 /\ n \notin Agent => child[n] # "running"
                 /\ child[n] = "none" <=> child'[n] = "none"
         /\ pump' \in [Workflow -> [at : {"rest", "reconcile", "cancel", "launch"},
                                    todo : SUBSET Node, deferred : BOOLEAN]]
         /\ pump'[w].todo = {n \in Attended(w) : child[n] = "running"}
         /\ \A v \in Workflow \ {w} : pump'[v] = pump[v]
<1> USE DEF Inductive
<1> DEFINE running == {n \in Attended(w) : child[n] = "running"}
           stopped == Attended(w) \ running
<1>1. /\ child' = [n \in Node |-> IF n \in stopped THEN Stopped(n) ELSE child[n]]
      /\ node' = [n \in Node |-> IF n \in Unlaunched(w) THEN "failed"
                                 ELSE IF n \in stopped THEN Stopped(n) ELSE node[n]]
      /\ pump' = [pump EXCEPT ![w] = At("cancel", running)]
  BY DEF CancelChildren
<1>2. running \in SUBSET Node /\ Attended(w) \subseteq Active(w, node)
      /\ Unlaunched(w) \subseteq Active(w, node) /\ Active(w, node) \subseteq Node
  BY DEF Attended, Unlaunched, Active, Nodes
<1>3. \A n \in stopped : /\ child[n] # "none" /\ child[n] \in ChildStatus
                         /\ child[n] # "running" /\ n \in Active(w, node)
  BY DEF Attended, Unlaunched, Active, Nodes, Children, RunningIsAttached, AttachedHasChild, TypeOK
<1>4. \A n \in stopped : /\ Stopped(n) \in {"completed", "failed", "cancelled"}
                         /\ Stopped(n) \in {child[n], "failed", "cancelled"}
  BY <1>3 DEF Stopped, ChildStatus, ChildEnded
<1>5. \A n \in Node \ Agent : n \in Unlaunched(w) => child[n] # "running"
  BY DEF Unlaunched, Children, CommandIsActive
<1>6. Active(w, node) = Unlaunched(w) \cup running \cup stopped
  BY <1>2 DEF Attended
<1>7. \A n \in Unlaunched(w) : n \notin stopped /\ n \notin running
  BY DEF Attended
<1>8. /\ pump' \in [Workflow -> [at : {"rest", "reconcile", "cancel", "launch"},
                                 todo : SUBSET Node, deferred : BOOLEAN]]
      /\ pump'[w].todo = running
      /\ \A v \in Workflow \ {w} : pump'[v] = pump[v]
  BY <1>1, <1>2, AtTyped
<1> HIDE DEF running, stopped
<1>9. node' \in [Node -> NodeStatus] /\ child' \in [Node -> ChildStatus]
  BY <1>1, <1>4 DEF TypeOK, RowsOK, NodeStatus, NodeEnded, ChildStatus, ChildEnded
<1>10. ASSUME NEW n \in Node
       PROVE  \/ /\ node'[n] = node[n] /\ child'[n] = child[n]
                 /\ n \in Active(w, node) => child[n] = "running" /\ n \in running
              \/ /\ n \in Active(w, node) /\ n \notin running
                 /\ node'[n] \in {"completed", "failed", "cancelled"}
                 /\ child'[n] \in {child[n], "failed", "cancelled"}
                 /\ n \notin Agent => child[n] # "running"
                 /\ child[n] = "none" <=> child'[n] = "none"
  <2>1. CASE n \in Unlaunched(w)
    BY <1>1, <1>2, <1>5, <1>7, <2>1
  <2>2. CASE n \in stopped
    <3>1. n \notin running
      BY <2>2 DEF stopped
    <3> QED
      BY <1>1, <1>3, <1>4, <1>7, <2>2, <3>1
  <2>3. CASE n \notin Unlaunched(w) /\ n \notin stopped
    <3>1. n \in Active(w, node) => child[n] = "running" /\ n \in running
      BY <1>6, <2>3 DEF running
    <3> QED
      BY <1>1, <2>3, <3>1
  <2> QED
    BY <2>1, <2>2, <2>3
<1> QED
  BY <1>8, <1>9, <1>10 DEF running

LEMMA CancelChildrenKeeps ==
  ASSUME Inductive, hand = {}, NEW w \in Workflow, CancelChildren(w),
         pump[w].todo = {}, hand' = {}
  PROVE  (Rows /\ Children /\ Pumps)'
<1> USE DEF Inductive, Busy
<1>1. UNCHANGED <<status, attached>>
  BY DEF CancelChildren
<1>2. ASSUME NEW n \in Node
      PROVE  \/ /\ node'[n] = node[n] /\ child'[n] = child[n]
                /\ n \in Active(w, node) => child[n] = "running" /\ n \in pump'[w].todo
             \/ /\ n \in Active(w, node) /\ n \notin pump'[w].todo
                /\ node'[n] \in {"completed", "failed", "cancelled"}
                /\ child'[n] \in {child[n], "failed", "cancelled"}
                /\ n \notin Agent => child[n] # "running"
                /\ child[n] = "none" <=> child'[n] = "none"
  BY CancelledNodes
<1>3. \A n \in Active(w, node) : n \in Node /\ Of[n] = w /\ node[n] \in Busy
  BY DEF Active, Nodes
<1>4. Rows'
  <2>1. ASSUME NEW n \in Node PROVE node'[n] = node[n] \/ status[Of[n]] \in Started
    BY <1>2, <1>3 DEF Rows, ActiveIsStarted
  <2>2. PlannedIsPending'
    BY <1>1, <2>1 DEF Rows, PlannedIsPending, Started
  <2>3. ActiveIsStarted'
    BY <1>1, <1>2 DEF Rows, ActiveIsStarted
  <2>4. WithinBudget'
    BY <1>2, BudgetKept DEF Rows
  <2> QED
    BY <2>2, <2>3, <2>4 DEF Rows
<1>5. RunningIsAttached' /\ AttachedHasChild' /\ RecoveredIsAgent'
  BY <1>1, <1>2 DEF TypeOK, RowsOK, Children, RunningIsAttached, AttachedHasChild, RecoveredIsAgent
<1>6. CommandIsActive'
  BY <1>1, <1>2 DEF Children, CommandIsActive
<1>7. DependenciesMet'
  <2>1. \A n \in Node : node[n] \in NodeEnded => node'[n] = node[n]
    BY <1>2, <1>3 DEF NodeEnded
  <2> QED
    BY <1>2, <2>1, DependenciesKept DEF Children
<1>8. TodoIsActive'
  <2> SUFFICES ASSUME NEW v \in Workflow, NEW n \in pump'[v].todo PROVE n \in Active(v, node')
    BY DEF TodoIsActive
  <2>1. CASE v = w
    <3>1. n \in Active(w, node)
      BY <2>1, CancelledNodes DEF Attended
    <3> QED
      BY <1>2, <1>3, <2>1, <3>1 DEF Active, Nodes
  <2>2. CASE v # w
    <3>1. n \in Active(v, node)
      BY <2>2, CancelledNodes DEF Pumps, TodoIsActive
    <3>2. n \notin Active(w, node) /\ n \in Node
      BY <2>2, <3>1 DEF Active, Nodes
    <3> QED
      BY <1>2, <3>1, <3>2 DEF Active, Nodes
  <2> QED
    BY <2>1, <2>2
<1>9. InterruptedHasEnded'
  <2> SUFFICES ASSUME NEW v \in Workflow, pump'[v].at = "cancel", NEW n \in pump'[v].todo
               PROVE  child'[n] \in ChildEnded \cup {"running"}
    BY DEF InterruptedHasEnded
  <2>1. CASE v = w
    <3>1. child[n] = "running" /\ n \in Node
      BY <2>1, CancelledNodes DEF Attended, Active, Nodes
    <3> QED
      BY <1>2, <2>1, <3>1
  <2>2. CASE v # w
    <3>1. child[n] \in ChildEnded \cup {"running"} /\ n \in Node
      BY <2>2, CancelledNodes DEF Pumps, InterruptedHasEnded, TodoIsActive, Active, Nodes
    <3> QED
      BY <1>2, <3>1 DEF ChildEnded
  <2> QED
    BY <2>1, <2>2
<1>10. HandIsHandled'
  BY DEF HandIsHandled
<1> QED
  BY <1>4, <1>5, <1>6, <1>7, <1>8, <1>9, <1>10 DEF Children, Pumps

\* settle: a workflow with a node at work does not end, one that runs on has no
\* decision to wait for, and one that has not started is left alone.
LEMMA SettledRows ==
  ASSUME NEW w, NEW st \in Started \cup Ended \cup {"planned"}, NEW nd \in [Node -> NodeStatus]
  PROVE  /\ st \notin Started => SettledStatus(w, st, nd) = st
         /\ st \in Started => SettledStatus(w, st, nd) # "planned"
         /\ st \in Started /\ Active(w, nd) # {} => SettledStatus(w, st, nd) \in Started
         /\ SettledStatus(w, st, nd) = "running" =>
              /\ \A n \in Nodes(w) : nd[n] # "decision_required"
              /\ SettledNodes(w, st, nd) = nd
         /\ \A n \in Node :
              \/ SettledNodes(w, st, nd)[n] = nd[n]
              \/ /\ nd[n] = "pending" /\ SettledNodes(w, st, nd)[n] = "skipped"
                 /\ Of[n] = w /\ st \in Started
<1>1. \A n \in Nodes(w) : nd[n] \in Busy => Active(w, nd) # {} /\ nd[n] \notin NodeEnded
  BY DEF Active, Busy, NodeEnded
<1>2. Active(w, nd) # {} => \E n \in Nodes(w) : nd[n] \notin NodeEnded
  BY DEF Active, NodeEnded
<1>3. st \in Started /\ Active(w, nd) # {} => SettledStatus(w, st, nd) \in Started
  BY <1>2 DEF SettledStatus, Started
<1>4. /\ st \notin Started => SettledStatus(w, st, nd) = st
      /\ st \in Started => SettledStatus(w, st, nd) # "planned"
      /\ SettledStatus(w, st, nd) = "running" =>
           \A n \in Nodes(w) : nd[n] # "decision_required"
  BY DEF SettledStatus, Started
<1>5. SettledStatus(w, st, nd) = "running" => SettledNodes(w, st, nd) = nd
  BY DEF SettledNodes
<1>6. \A n \in Node :
        \/ SettledNodes(w, st, nd)[n] = nd[n]
        \/ /\ nd[n] = "pending" /\ SettledNodes(w, st, nd)[n] = "skipped"
           /\ Of[n] = w /\ st \in Started
  BY SkippedNodes DEF SettledNodes
<1> QED
  BY <1>3, <1>4, <1>5, <1>6

LEMMA SettleKeeps ==
  ASSUME Inductive, hand = {}, NEW w \in Workflow, NEW again,
         Settle(w, node, again), UNCHANGED <<attached, childVars, hand>>
  PROVE  (Rows /\ Children /\ Pumps)'
<1> USE DEF Inductive, Busy
<1> DEFINE st == SettledStatus(w, status[w], node)
           settled == SettledNodes(w, status[w], node)
<1>1. PICK R \in (IF again /\ st = "running" THEN Reservations(w, settled) ELSE {{}}) :
        /\ node' = Reserved(R, settled)
        /\ pump' = [pump EXCEPT ![w] = IF R = {} THEN Rest ELSE At("launch", R)]
  BY DEF Settle
<1>2. node \in [Node -> NodeStatus] /\ status[w] \in Started \cup Ended \cup {"planned"}
  BY DEF TypeOK, RowsOK
<1>3. settled \in [Node -> NodeStatus]
  BY <1>2, SettledTyped
<1>4. /\ R \subseteq Nodes(w)
      /\ \A n \in Node : node'[n] = IF n \in R THEN "launching" ELSE settled[n]
      /\ \A n \in R : settled[n] = "pending" /\ Met(n, settled)
  BY <1>1, <1>3, ReservedNodes
<1>5. R # {} => st = "running" /\ settled = node /\ status[w] \in Started
  BY <1>1, <1>2, SettledRows DEF Started
<1>6. ASSUME NEW n \in Node
      PROVE  \/ node'[n] = node[n] /\ n \notin R
             \/ /\ node[n] = "pending" /\ node'[n] = "skipped"
                /\ Of[n] = w /\ status[w] \in Started
             \/ /\ n \in R /\ node[n] = "pending" /\ node'[n] = "launching"
                /\ Of[n] = w /\ st = "running" /\ Met(n, node) /\ status[w] \in Started
  <2>1. n \notin R => \/ node'[n] = node[n]
                      \/ /\ node[n] = "pending" /\ node'[n] = "skipped"
                         /\ Of[n] = w /\ status[w] \in Started
    <3>1. \/ settled[n] = node[n]
          \/ /\ node[n] = "pending" /\ settled[n] = "skipped"
             /\ Of[n] = w /\ status[w] \in Started
      BY <1>2, SettledRows
    <3> HIDE DEF settled
    <3> QED
      BY <1>4, <3>1
  <2>2. n \in R => /\ node[n] = "pending" /\ node'[n] = "launching"
                   /\ Of[n] = w /\ st = "running" /\ Met(n, node) /\ status[w] \in Started
    BY <1>4, <1>5 DEF Nodes
  <2> QED
    BY <2>1, <2>2
<1>7. \A v \in Workflow : status'[v] = IF v = w THEN st ELSE status[v]
  BY DEF Settle, TypeOK, RowsOK
<1>8. status[w] = "planned" <=> st = "planned"
  <2>1. /\ status[w] \notin Started => st = status[w]
        /\ status[w] \in Started => st # "planned"
    BY <1>2, SettledRows
  <2> HIDE DEF st
  <2> QED
    BY <2>1 DEF Started
<1>9. PlannedIsPending'
  BY <1>6, <1>7, <1>8, WorkflowAssumption DEF Rows, PlannedIsPending, Started
<1>10. ActiveIsStarted'
  <2> SUFFICES ASSUME NEW n \in Node, node'[n] \in Busy
               PROVE  status'[Of[n]] \in Started
    BY DEF ActiveIsStarted
  <2>1. CASE n \in R
    BY <1>6, <1>7, <2>1 DEF Started
  <2>2. CASE n \notin R
    <3>1. node[n] \in Busy /\ status[Of[n]] \in Started
      BY <1>6, <2>2 DEF Rows, ActiveIsStarted
    <3>2. Of[n] = w => Active(w, node) # {}
      BY <3>1 DEF Active, Nodes
    <3>3. Of[n] = w => st \in Started
      BY <1>2, <3>1, <3>2, SettledRows
    <3> QED
      BY <1>7, <3>1, <3>3, WorkflowAssumption
  <2> QED
    BY <2>1, <2>2
<1>11. WithinBudget'
  <2> SUFFICES ASSUME NEW v \in Workflow PROVE Cardinality(Held(v, node')) <= Width
    BY DEF WithinBudget, Held, Active, Nodes
  <2>1. Cardinality(Held(v, node)) <= Width
    BY DEF Rows, WithinBudget, Held
  <2>2. CASE v = w /\ R # {}
    <3>1. R \in Reservations(w, node) /\ node' = Reserved(R, node)
      BY <1>1, <1>5, <2>2
    <3>2. \A n \in Nodes(w) : node[n] # "decision_required"
      BY <1>2, <1>5, <2>2, SettledRows
    <3> QED
      BY <2>1, <2>2, <3>1, <3>2, ReservationFits
  <2>3. CASE v # w \/ R = {}
    <3>1. Held(v, node') \subseteq Held(v, node)
      BY <1>6, <2>3 DEF Held, Active, Nodes
    <3> QED
      BY <2>1, <3>1, HeldShrinks
  <2> QED
    BY <2>2, <2>3
<1>12. DependenciesMet'
  <2>1. ASSUME NEW n \in Node, Met(n, node) PROVE Met(n, node')
    BY <1>6, <2>1, WorkflowAssumption DEF Met
  <2> QED
    BY <1>6, <2>1 DEF Children, DependenciesMet, childVars
<1>13. RunningIsAttached' /\ AttachedHasChild' /\ CommandIsActive' /\ RecoveredIsAgent'
  BY <1>6 DEF Children, childVars, RunningIsAttached, AttachedHasChild, CommandIsActive,
     RecoveredIsAgent
<1>14. /\ pump'[w].todo = R /\ pump'[w].at \in {"rest", "launch"}
       /\ \A v \in Workflow \ {w} : pump'[v] = pump[v]
  <2>1. R \in SUBSET Node
    BY <1>4 DEF Nodes
  <2>2. Rest = At("rest", {})
    BY DEF Rest, At
  <2>3. CASE R = {}
    <3>1. pump' = [pump EXCEPT ![w] = At("rest", {})]
      BY <1>1, <2>2, <2>3
    <3>2. {} \in SUBSET Node /\ "rest" \in {"rest", "reconcile", "cancel", "launch"}
      OBVIOUS
    <3>3. pump'[w].at = "rest" /\ pump'[w].todo = {} /\ \A v \in Workflow \ {w} : pump'[v] = pump[v]
      BY <3>1, <3>2, AtTyped
    <3> QED
      BY <2>3, <3>3
  <2>4. CASE R # {}
    <3>1. pump' = [pump EXCEPT ![w] = At("launch", R)]
      BY <1>1, <2>4
    <3> QED
      BY <2>1, <3>1, AtTyped
  <2> QED
    BY <2>3, <2>4
<1>15. TodoIsActive'
  <2> SUFFICES ASSUME NEW v \in Workflow, NEW n \in pump'[v].todo PROVE n \in Active(v, node')
    BY DEF TodoIsActive
  <2>1. CASE v = w
    BY <1>4, <1>14, <2>1 DEF Active, Nodes
  <2>2. CASE v # w
    <3>1. n \in Active(v, node)
      BY <1>14, <2>2 DEF Pumps, TodoIsActive
    <3> QED
      BY <1>6, <3>1 DEF Active, Nodes
  <2> QED
    BY <2>1, <2>2
<1>16. InterruptedHasEnded'
  BY <1>14 DEF Pumps, InterruptedHasEnded, childVars
<1>17. HandIsHandled'
  BY DEF HandIsHandled
<1> QED
  BY <1>9, <1>10, <1>11, <1>12, <1>13, <1>15, <1>16, <1>17 DEF Rows, Children, Pumps

\* A restart leaves the rows; commands that ran are idle, and no pump is at work.
LEMMA CrashKeeps ==
  ASSUME Inductive, Crash
  PROVE  (Rows /\ Children /\ Pumps)'
<1> USE DEF Inductive
<1>1. UNCHANGED rowVars /\ hand' = {} /\ pump' = [w \in Workflow |-> Rest]
  BY DEF Crash
<1>2. \A n \in Node : IF child[n] = "running" THEN child'[n] \in Staged(n) ELSE child'[n] = child[n]
  BY DEF Crash
<1>3. \A n \in Node : /\ child'[n] = "automatic" => child[n] = "automatic" \/ n \in Agent
                      /\ child'[n] = "none" <=> child[n] = "none"
                      /\ n \notin Agent => child'[n] # "running"
  BY <1>2 DEF Staged
<1>4. Rows'
  BY <1>1 DEF Rows, rowVars, PlannedIsPending, ActiveIsStarted, WithinBudget, Active, Nodes
<1>5. RunningIsAttached' /\ AttachedHasChild' /\ CommandIsActive' /\ RecoveredIsAgent'
  BY <1>1, <1>3 DEF TypeOK, RowsOK, Children, rowVars, RunningIsAttached, AttachedHasChild,
     CommandIsActive, RecoveredIsAgent
<1>6. DependenciesMet'
  BY <1>1, <1>3, DependenciesKept DEF Children, rowVars
<1>7. Pumps'
  BY <1>1 DEF Pumps, TodoIsActive, HandIsHandled, InterruptedHasEnded, Rest
<1> QED
  BY <1>4, <1>5, <1>6, <1>7 DEF Children

-----------------------------------------------------------------------------
(* The type invariant.                                                     *)

\* The pump's record after the round is one of a pump.
LEMMA SettleTyped ==
  ASSUME TypeOK, NEW w \in Workflow, NEW again, Settle(w, node, again)
  PROVE  /\ status' \in [Workflow -> Started \cup Ended \cup {"planned"}]
         /\ node' \in [Node -> NodeStatus]
         /\ pump' \in [Workflow -> [at : {"rest", "reconcile", "cancel", "launch"},
                                    todo : SUBSET Node, deferred : BOOLEAN]]
         /\ scheduled' \subseteq Workflow /\ rerun' \subseteq Workflow
<1> DEFINE st == SettledStatus(w, status[w], node)
           settled == SettledNodes(w, status[w], node)
<1>1. PICK R \in (IF again /\ st = "running" THEN Reservations(w, settled) ELSE {{}}) :
        /\ node' = Reserved(R, settled)
        /\ pump' = [pump EXCEPT ![w] = IF R = {} THEN Rest ELSE At("launch", R)]
        /\ scheduled' = IF R = {} /\ w \in rerun THEN scheduled \cup {w} ELSE scheduled
        /\ rerun' = IF R = {} THEN rerun \ {w} ELSE rerun
  BY DEF Settle
<1>2. node \in [Node -> NodeStatus] /\ status[w] \in Started \cup Ended \cup {"planned"}
  BY DEF TypeOK, RowsOK
<1>3. settled \in [Node -> NodeStatus] /\ st \in Started \cup Ended \cup {"planned"}
  BY <1>2, SettledTyped
<1>4. R \subseteq Nodes(w) /\ node' \in [Node -> NodeStatus]
  BY <1>1, <1>3, ReservedNodes
<1>5. status' = [status EXCEPT ![w] = st]
  BY DEF Settle
<1> HIDE DEF st, settled
<1>6. status' \in [Workflow -> Started \cup Ended \cup {"planned"}]
  BY <1>3, <1>5 DEF TypeOK, RowsOK
<1>7. scheduled' \subseteq Workflow /\ rerun' \subseteq Workflow
  BY <1>1 DEF TypeOK
<1>8. pump' \in [Workflow -> [at : {"rest", "reconcile", "cancel", "launch"},
                              todo : SUBSET Node, deferred : BOOLEAN]]
  BY <1>1, <1>4 DEF TypeOK, Nodes, Rest, At
<1> QED
  BY <1>4, <1>6, <1>7, <1>8

\* The steps of a pump at node n, but for Launch, write the node and the pump.
LEMMA HandledTyped ==
  ASSUME TypeOK, NEW n \in Node, NEW deferred \in BOOLEAN, Done(Of[n], n, deferred),
         node' \in [Node -> NodeStatus], attached' \in {attached, attached \cup {n}},
         hand' = {}, UNCHANGED <<status, replays, childVars, otherVars, late, wakeVars, crashes>>
  PROVE  TypeOK'
<1>1. Of[n] \in Workflow
  BY WorkflowAssumption
<1>2. pump' \in [Workflow -> [at : {"rest", "reconcile", "cancel", "launch"},
                              todo : SUBSET Node, deferred : BOOLEAN]]
  BY <1>1, DoneTyped
<1> QED
  BY <1>2 DEF TypeOK, RowsOK, childVars, otherVars, wakeVars

LEMMA CallsTyped ==
  ASSUME TypeOK
  PROVE  /\ \A w \in Workflow : StartWorkflow(w) \/ Cancel(w) \/ DeadlinePasses(w) => TypeOK'
         /\ \A n \in Node : DecideReplay(n) => TypeOK'
<1>1. ASSUME NEW w \in Workflow, StartWorkflow(w) PROVE TypeOK'
  <2>1. scheduled' \subseteq Workflow /\ rerun' \subseteq Workflow
    BY <1>1, ScheduleTyped DEF StartWorkflow
  <2>2. status' \in [Workflow -> Started \cup Ended \cup {"planned"}]
    BY <1>1 DEF StartWorkflow, TypeOK, RowsOK, Started
  <2> QED
    BY <1>1, <2>1, <2>2 DEF StartWorkflow, TypeOK, RowsOK, childVars, otherVars
<1>2. ASSUME NEW w \in Workflow, Cancel(w) PROVE TypeOK'
  <2>1. scheduled' \subseteq Workflow /\ rerun' \subseteq Workflow
    BY <1>2, ScheduleTyped DEF Cancel
  <2>2. CancelRequested(w) /\ UNCHANGED <<attached, replays, childVars, otherVars, late, pump, hand, crashes>>
    BY <1>2 DEF Cancel
  <2>3. /\ status' \in [Workflow -> Started \cup Ended \cup {"planned"}]
        /\ node' \in [Node -> NodeStatus]
    BY <2>2, CancelTyped
  <2> QED
    BY <2>1, <2>2, <2>3 DEF TypeOK, RowsOK, childVars, otherVars
<1>3. ASSUME NEW w \in Workflow, DeadlinePasses(w) PROVE TypeOK'
  <2>1. scheduled' \subseteq Workflow /\ rerun' \subseteq Workflow
    BY <1>3, ScheduleTyped DEF DeadlinePasses
  <2> QED
    BY <1>3, <2>1 DEF DeadlinePasses, TypeOK, RowsOK, rowVars, childVars, otherVars
<1>4. ASSUME NEW n \in Node, DecideReplay(n) PROVE TypeOK'
  <2>1. PICK decision \in {"retry", "skip", "cancel"} : Decided(n, decision)
    BY <1>4 DEF DecideReplay
  <2>2. /\ status' \in [Workflow -> Started \cup Ended \cup {"planned"}]
        /\ node' \in [Node -> NodeStatus] /\ replays' \in [Node -> 0..MaxReplays]
    BY <2>1, DecisionTyped
  <2>3. scheduled' \subseteq Workflow /\ rerun' \subseteq Workflow
    <3>1. Schedule({Of[n]}) /\ {Of[n]} \in SUBSET Workflow
      BY <1>4, WorkflowAssumption DEF DecideReplay
    <3> QED
      BY <3>1, ScheduleTyped
  <2>4. UNCHANGED <<attached, childVars, otherVars, late, pump, hand, crashes>>
    BY <1>4 DEF DecideReplay
  <2> QED
    BY <2>2, <2>3, <2>4 DEF TypeOK, RowsOK, childVars, otherVars
<1> QED
  BY <1>1, <1>2, <1>3, <1>4

LEMMA OthersTyped ==
  ASSUME TypeOK
  PROVE  /\ \A n \in Node : ChildEnds(n) \/ RecoverSubagent(n) => TypeOK'
         /\ \A k \in Kind : OtherStarts(k) \/ OtherEnds(k) => TypeOK'
         /\ Delegate => TypeOK'
<1>1. ASSUME NEW n \in Node, ChildEnds(n) PROVE TypeOK'
  <2>1. scheduled' \subseteq Workflow /\ rerun' \subseteq Workflow
    <3>1. Schedule({Of[n]} \cup Recoverable) /\ {Of[n]} \cup Recoverable \in SUBSET Workflow
      BY <1>1, WorkflowAssumption DEF ChildEnds, ChildTerminal, Recoverable
    <3> QED
      BY <3>1, ScheduleTyped
  <2>2. child' \in [Node -> ChildStatus]
    BY <1>1 DEF ChildEnds, TypeOK, ChildStatus, ChildEnded
  <2> QED
    BY <1>1, <2>1, <2>2 DEF ChildEnds, TypeOK, RowsOK, rowVars, otherVars
<1>2. ASSUME NEW n \in Node, RecoverSubagent(n) PROVE TypeOK'
  BY <1>2 DEF RecoverSubagent, TypeOK, RowsOK, rowVars, otherVars, wakeVars, ChildStatus
<1>3. ASSUME NEW k \in Kind, OtherStarts(k) PROVE TypeOK'
  BY <1>3, CoordinatorAssumption
     DEF OtherStarts, TypeOK, RowsOK, rowVars, childVars, wakeVars
<1>4. ASSUME NEW k \in Kind, OtherEnds(k) PROVE TypeOK'
  <2>1. scheduled' \subseteq Workflow /\ rerun' \subseteq Workflow
    <3>1. Schedule({} \cup Recoverable) /\ {} \cup Recoverable \in SUBSET Workflow
      BY <1>4 DEF OtherEnds, ChildTerminal, Recoverable
    <3> QED
      BY <3>1, ScheduleTyped
  <2>2. others' \in [Kind -> 0..MaxOthers]
    BY <1>4, CoordinatorAssumption DEF OtherEnds, TypeOK
  <2> QED
    BY <1>4, <2>1, <2>2 DEF OtherEnds, TypeOK, RowsOK, rowVars, childVars
<1>5. ASSUME Delegate PROVE TypeOK'
  BY <1>5 DEF Delegate, TypeOK, RowsOK, rowVars, childVars, wakeVars
<1> QED
  BY <1>1, <1>2, <1>3, <1>4, <1>5

LEMMA PumpStartTyped ==
  ASSUME TypeOK, NEW w \in Workflow, PumpStarts(w)
  PROVE  TypeOK'
<1>1. PICK nodes \in {{}, Active(w, node)} : pump' = [pump EXCEPT ![w] = At("reconcile", nodes)]
  BY DEF PumpStarts
<1>2. nodes \in SUBSET Node
  BY DEF Active, Nodes
<1>3. pump' \in [Workflow -> [at : {"rest", "reconcile", "cancel", "launch"},
                              todo : SUBSET Node, deferred : BOOLEAN]]
  BY <1>1, <1>2, AtTyped
<1>4. /\ status' \in [Workflow -> Started \cup Ended \cup {"planned"}]
      /\ node' \in [Node -> NodeStatus]
  <2>1. CASE CancelRequested(w)
    BY <2>1, CancelTyped
  <2>2. CASE UNCHANGED <<status, node>>
    BY <2>2 DEF TypeOK, RowsOK
  <2> QED
    BY <2>1, <2>2 DEF PumpStarts
<1> QED
  BY <1>3, <1>4 DEF PumpStarts, TypeOK, RowsOK, childVars, otherVars

LEMMA NodeStepTyped ==
  ASSUME Inductive, NEW n \in Node,
         \/ /\ hand = {}
            /\ \/ FindsChild(Of[n], n) \/ DeferLaunch(Of[n], n) \/ RefuseLaunch(Of[n], n)
               \/ InterruptAnswers(Of[n], n)
         \/ AttachChild(Of[n], n)
  PROVE  TypeOK'
<1> USE DEF Inductive
<1>1. CASE hand = {} /\ FindsChild(Of[n], n)
  <2>1. node' \in [Node -> NodeStatus]
    BY <1>1 DEF FindsChild, Applied, TypeOK, RowsOK, NodeStatus, NodeEnded, ChildEnded
  <2> QED
    BY <1>1, <2>1, HandledTyped DEF FindsChild
<1>2. CASE hand = {} /\ DeferLaunch(Of[n], n)
  <2>1. node' \in [Node -> NodeStatus]
    BY <1>2 DEF DeferLaunch, TypeOK, RowsOK, NodeStatus
  <2> QED
    BY <1>2, <2>1, HandledTyped DEF DeferLaunch
<1>3. CASE hand = {} /\ RefuseLaunch(Of[n], n)
  <2>1. node' \in [Node -> NodeStatus]
    BY <1>3 DEF RefuseLaunch, TypeOK, RowsOK, NodeStatus, NodeEnded
  <2> QED
    BY <1>3, <2>1, HandledTyped DEF RefuseLaunch
<1>4. CASE hand = {} /\ InterruptAnswers(Of[n], n)
  <2>1. child[n] \in ChildEnded
    BY <1>4, WorkflowAssumption DEF InterruptAnswers, Pumps, InterruptedHasEnded
  <2>2. node' \in [Node -> NodeStatus]
    BY <1>4, <2>1 DEF InterruptAnswers, Applied, TypeOK, RowsOK, NodeStatus, NodeEnded, ChildEnded
  <2> QED
    BY <1>4, <2>2, HandledTyped DEF InterruptAnswers
<1>5. CASE AttachChild(Of[n], n)
  <2>1. node' \in [Node -> NodeStatus]
    BY <1>5 DEF AttachChild, TypeOK, RowsOK, NodeStatus, NodeEnded
  <2> QED
    BY <1>5, <2>1, HandledTyped DEF AttachChild
<1> QED
  BY <1>1, <1>2, <1>3, <1>4, <1>5

LEMMA LaunchTyped ==
  ASSUME TypeOK, NEW n \in Node, Launch(Of[n], n)
  PROVE  TypeOK'
<1>1. /\ child' \in [Node -> ChildStatus] /\ runs' \in [Node -> Nat] /\ hand' = {n}
      /\ UNCHANGED <<rowVars, otherVars, late, pump, crashes>>
  BY DEF Launch, TypeOK, ChildStatus, ChildEnded
<1>2. scheduled' \subseteq Workflow /\ rerun' \subseteq Workflow
  <2>1. CASE UNCHANGED wakeVars
    BY <2>1 DEF wakeVars, TypeOK
  <2>2. CASE ChildTerminal({Of[n]})
    <3>1. /\ Schedule({Of[n]} \cup Recoverable)
          /\ {Of[n]} \cup Recoverable \in SUBSET Workflow
      BY <2>2, WorkflowAssumption DEF ChildTerminal, Recoverable
    <3> QED
      BY <3>1, ScheduleTyped
  <2> QED
    BY <2>1, <2>2 DEF Launch
<1> QED
  BY <1>1, <1>2 DEF TypeOK, RowsOK, rowVars, otherVars

LEMMA GoesOnTyped ==
  ASSUME Inductive, hand = {}, NEW w \in Workflow, PumpGoesOn(w)
  PROVE  TypeOK'
<1> USE DEF Inductive
<1>1. CASE CancelChildren(w)
  <2>1. scheduled' \subseteq Workflow /\ rerun' \subseteq Workflow
    BY <1>1 DEF CancelChildren, TypeOK, Recoverable
  <2>2. UNCHANGED <<status, attached, replays, runs>>
    BY <1>1 DEF CancelChildren
  <2>3. /\ node' \in [Node -> NodeStatus] /\ child' \in [Node -> ChildStatus]
        /\ pump' \in [Workflow -> [at : {"rest", "reconcile", "cancel", "launch"},
                                   todo : SUBSET Node, deferred : BOOLEAN]]
    BY <1>1, CancelledNodes
  <2> QED
    BY <2>1, <2>2, <2>3 DEF PumpGoesOn, TypeOK, RowsOK, otherVars
<1>2. CASE /\ Settle(w, node, ~(pump[w].at = "launch" /\ pump[w].deferred))
           /\ UNCHANGED <<attached, replays, childVars>>
  <2>1. /\ status' \in [Workflow -> Started \cup Ended \cup {"planned"}]
        /\ node' \in [Node -> NodeStatus]
        /\ pump' \in [Workflow -> [at : {"rest", "reconcile", "cancel", "launch"},
                                   todo : SUBSET Node, deferred : BOOLEAN]]
        /\ scheduled' \subseteq Workflow /\ rerun' \subseteq Workflow
    BY <1>2, SettleTyped
  <2> QED
    BY <1>2, <2>1 DEF PumpGoesOn, TypeOK, RowsOK, otherVars, childVars
<1> QED
  BY <1>1, <1>2 DEF PumpGoesOn

LEMMA CrashTyped ==
  ASSUME TypeOK, Crash
  PROVE  TypeOK'
<1>1. crashes' \in 0..MaxCrashes
  BY CoordinatorAssumption DEF Crash, TypeOK
<1>2. others' \in [Kind -> 0..MaxOthers]
  BY CoordinatorAssumption DEF Crash
<1>3. pump' \in [Workflow -> [at : {"rest", "reconcile", "cancel", "launch"},
                              todo : SUBSET Node, deferred : BOOLEAN]]
  BY DEF Crash, Rest
<1> QED
  BY <1>1, <1>2, <1>3 DEF Crash, TypeOK, RowsOK, rowVars, Recoverable

-----------------------------------------------------------------------------
(* Every step.                                                             *)

LEMMA InitInductive == Init => Inductive
<1> SUFFICES ASSUME Init PROVE Inductive
  OBVIOUS
<1>1. \A n \in Node : node[n] = "pending" /\ child[n] = "none"
  BY DEF Init, Planned
<1>2. TypeOK
  <2>1. RowsOK
    BY WorkflowAssumption DEF Init, Planned, RowsOK, NodeStatus
  <2>2. child \in [Node -> ChildStatus] /\ runs \in [Node -> Nat]
    BY DEF Init, ChildStatus
  <2>3. others \in [Kind -> 0..MaxOthers] /\ crashes \in 0..MaxCrashes
    BY CoordinatorAssumption DEF Init
  <2>4. pump \in [Workflow -> [at : {"rest", "reconcile", "cancel", "launch"},
                               todo : SUBSET Node, deferred : BOOLEAN]]
    BY DEF Init, Rest
  <2> QED
    BY <2>1, <2>2, <2>3, <2>4 DEF Init, TypeOK
<1>3. WithinBudget
  <2> SUFFICES ASSUME NEW w \in Workflow PROVE Cardinality(Held(w, node)) <= Width
    BY DEF WithinBudget, Held
  <2>1. Held(w, node) = {}
    BY <1>1 DEF Held, Active, Nodes
  <2> QED
    BY <2>1, FS_EmptySet, WorkflowAssumption
<1>4. Rows
  BY <1>1, <1>3 DEF Rows, PlannedIsPending, ActiveIsStarted, Busy
<1>5. Children
  BY <1>1 DEF Init, Planned, Children, RunningIsAttached, AttachedHasChild, CommandIsActive,
     RecoveredIsAgent, DependenciesMet, Busy
<1>6. Pumps
  BY DEF Init, Pumps, TodoIsActive, HandIsHandled, InterruptedHasEnded, Rest
<1> QED
  BY <1>2, <1>4, <1>5, <1>6 DEF Inductive

LEMMA OutsideInductive ==
  ASSUME Inductive, hand = {}, Outside
  PROVE  Inductive'
<1> USE DEF Inductive
<1>1. ASSUME NEW w \in Workflow, StartWorkflow(w) PROVE Inductive'
  BY <1>1, CallsTyped, StartKeeps DEF StartWorkflow
<1>2. ASSUME NEW w \in Workflow, Cancel(w) PROVE Inductive'
  <2>1. CancelRequested(w) /\ UNCHANGED <<attached, childVars, pump, hand>>
    BY <1>2 DEF Cancel
  <2>2. (Rows /\ Children)' /\ \A n \in Node : node[n] \in Busy => node'[n] = node[n]
    BY <2>1, CancelKeeps
  <2>3. Pumps'
    BY <2>1, <2>2, PumpsKept
  <2> QED
    BY <1>2, <2>2, <2>3, CallsTyped
<1>3. ASSUME NEW w \in Workflow, DeadlinePasses(w) PROVE Inductive'
  BY <1>3, CallsTyped, NothingHandled DEF DeadlinePasses
<1>4. ASSUME NEW n \in Node, DecideReplay(n) PROVE Inductive'
  BY <1>4, CallsTyped, DecisionKeeps DEF DecideReplay
<1>5. ASSUME NEW n \in Node, ChildEnds(n) PROVE Inductive'
  <2>1. PICK outcome \in ChildEnded : child' = [child EXCEPT ![n] = outcome]
    BY <1>5 DEF ChildEnds, ChildEnded
  <2>2. outcome # "running"
    BY DEF ChildEnded
  <2>3. (Rows /\ Children /\ Pumps)'
    BY <1>5, <2>1, <2>2, ChildMoves DEF ChildEnds
  <2> QED
    BY <1>5, <2>3, OthersTyped
<1>6. ASSUME NEW n \in Node, RecoverSubagent(n) PROVE Inductive'
  <2>1. child[n] = "automatic" /\ n \in Agent /\ child' = [child EXCEPT ![n] = "running"]
        /\ UNCHANGED <<rowVars, pump, hand>>
    BY <1>6 DEF RecoverSubagent, Children, RecoveredIsAgent
  <2>2. (Rows /\ Children /\ Pumps)'
    BY <2>1, ChildMoves
  <2> QED
    BY <1>6, <2>2, OthersTyped
<1>7. ASSUME NEW k \in Kind, OtherStarts(k) \/ OtherEnds(k) PROVE Inductive'
  BY <1>7, OthersTyped, NothingHandled DEF OtherStarts, OtherEnds
<1>8. CASE Delegate
  BY <1>8, OthersTyped, NothingHandled DEF Delegate
<1> QED
  BY <1>1, <1>2, <1>3, <1>4, <1>5, <1>6, <1>7, <1>8 DEF Outside

LEMMA PumpStepInductive ==
  ASSUME Inductive, hand = {}, NEW w \in Workflow, PumpStep(w)
  PROVE  Inductive'
<1> USE DEF Inductive
<1>1. CASE PumpStarts(w)
  BY <1>1, PumpStartTyped, PumpStartKeeps
<1>2. CASE PumpGoesOn(w)
  <2>1. CASE CancelChildren(w)
    <3>1. pump[w].todo = {} /\ hand' = {}
      BY <1>2 DEF PumpGoesOn
    <3> QED
      BY <1>2, <2>1, <3>1, CancelChildrenKeeps, GoesOnTyped
  <2>2. CASE /\ Settle(w, node, ~(pump[w].at = "launch" /\ pump[w].deferred))
             /\ UNCHANGED <<attached, replays, childVars>>
    <3>1. UNCHANGED hand
      BY <1>2 DEF PumpGoesOn
    <3>2. (Rows /\ Children /\ Pumps)'
      BY <2>2, <3>1, SettleKeeps
    <3> QED
      BY <1>2, <3>2, GoesOnTyped
  <2> QED
    BY <1>2, <2>1, <2>2 DEF PumpGoesOn
<1>3. ASSUME NEW n \in Nodes(w),
             \/ FindsChild(w, n) \/ Launch(w, n) \/ DeferLaunch(w, n) \/ RefuseLaunch(w, n)
             \/ InterruptAnswers(w, n)
      PROVE  Inductive'
  <2>1. n \in Node /\ w = Of[n]
    BY DEF Nodes
  <2>2. CASE Launch(w, n)
    BY <2>1, <2>2, LaunchTyped, LaunchKeeps
  <2>3. CASE ~Launch(w, n)
    <3>1. TypeOK'
      BY <1>3, <2>1, <2>3, NodeStepTyped
    <3>2. (Rows /\ Children /\ Pumps)'
      BY <1>3, <2>1, <2>3, FindKeeps, DeferKeeps, RefuseKeeps, InterruptKeeps
    <3> QED
      BY <3>1, <3>2
  <2> QED
    BY <2>2, <2>3
<1> QED
  BY <1>1, <1>2, <1>3 DEF PumpStep

LEMMA NextInductive == Inductive /\ [Next]_vars => Inductive'
<1> SUFFICES ASSUME Inductive, [Next]_vars PROVE Inductive'
  OBVIOUS
<1>1. CASE hand = {} /\ Outside
  BY <1>1, OutsideInductive
<1>2. CASE hand = {} /\ \E w \in Workflow : PumpStep(w)
  BY <1>2, PumpStepInductive
<1>3. ASSUME NEW n \in Node, AttachChild(Of[n], n) PROVE Inductive'
  BY <1>3, AttachKeeps, NodeStepTyped DEF Inductive
<1>4. CASE Crash
  BY <1>4, CrashKeeps, CrashTyped DEF Inductive
<1>5. CASE UNCHANGED vars
  <2>1. UNCHANGED <<rowVars, childVars, pump, hand>>
    BY <1>5 DEF vars
  <2>2. TypeOK'
    BY <1>5 DEF Inductive, vars, rowVars, childVars, otherVars, wakeVars, TypeOK, RowsOK
  <2> QED
    BY <2>1, <2>2, NothingHandled DEF Inductive
<1> QED
  BY <1>1, <1>2, <1>3, <1>4, <1>5 DEF Next

-----------------------------------------------------------------------------
(* The theorems.                                                           *)

\* The invariant holds in every reachable state: what the pump has to handle is still
\* at work, and rows, children and pumps agree across restarts.
THEOREM InductiveHolds == Spec => []Inductive
<1> QED
  BY InitInductive, NextInductive, PTL DEF Spec

\* Every variable keeps its type.
THEOREM TypeCorrect == Spec => []TypeOK
<1>1. Inductive => TypeOK
  BY DEF Inductive
<1> QED
  BY <1>1, InductiveHolds, PTL

\* reserveReady and decideReplay never give out more of a workflow's budget than there
\* is, whichever rounds, decisions and restarts come together.
THEOREM BudgetIsKept == Spec => []WithinBudget
<1>1. Inductive => WithinBudget
  BY DEF Inductive, Rows
<1> QED
  BY <1>1, InductiveHolds, PTL

\* No child is set going, by a launch, a retry or a recovery, before what its node
\* depends on has been completed or skipped.
THEOREM DependenciesComeFirst == Spec => []DependenciesFirst
<1>1. Inductive => DependenciesFirst
  BY DEF Inductive, Children, DependenciesMet, Met, DependenciesFirst
<1> QED
  BY <1>1, InductiveHolds, PTL

\* No way a workflow ends, by its nodes, a cancellation or its deadline, leaves one of
\* its commands running.
THEOREM CommandsEndFirst == Spec => []EndsWithItsCommands
<1>1. Inductive => EndsWithItsCommands
  <2> SUFFICES ASSUME Inductive, NEW n \in Node \ Agent, child[n] = "running"
               PROVE  status[Of[n]] \notin Ended
    BY DEF EndsWithItsCommands
  <2>1. status[Of[n]] \in Started
    BY DEF Inductive, Children, CommandIsActive, Rows, ActiveIsStarted
  <2> QED
    BY <2>1 DEF Started, Ended
<1> QED
  BY <1>1, InductiveHolds, PTL

-----------------------------------------------------------------------------
(* Nothing is forgotten: whatever is left undone has a pump under way, one *)
(* to come, or a launch of the same workflow that another end will free.   *)

ShellFull == ~Free("shell")
ToCome(v) == v \in scheduled \cup rerun

\* The pump will come to this node, or has it before it.
Cared(n) ==
  \/ ToCome(Of[n]) \/ n \in pump[Of[n]].todo
  \/ pump[Of[n]].at = "reconcile" /\ status[Of[n]] = "cancelling"

\* A launch, of a subagent or of a command with no room, that those of its round wait with.
Excuse(v, S) == \E m \in S : Of[m] = v /\ Waits(m) /\ (m \in Agent \/ ShellFull)

\* A workflow is woken once at a time: again when its pump is under way.
WakesOnce ==
  \A v \in Workflow : /\ v \in scheduled => ~Pumping(v)
                      /\ v \in rerun => Pumping(v)
                      /\ ~Pumping(v) => pump[v].todo = {}

\* A command runs only for a node that is said to run, or is about to be.
CommandRuns == \A n \in Node \ Agent : child[n] = "running" => node[n] = "running" \/ n \in hand

NodeTended(n) ==
  /\ node[n] = "running" => child[n] \in {"running", "automatic"} \/ Cared(n)
  /\ node[n] = "launching" /\ n \notin Agent => Cared(n) \/ ShellFull

CancellationGoesOn(v) ==
  status[v] = "cancelling" =>
    \/ ToCome(v) \/ pump[v].at = "reconcile"
    \/ pump[v].at = "cancel" /\ Active(v, node) \subseteq pump[v].todo

\* What overtakes a round of launches wakes the pump again; a launch it put off is
\* excused, and so is a pump that rests with something ready.
RoundGoesOn(v) ==
  /\ pump[v].at = "launch" => status[v] = "running" \/ v \in rerun
  /\ pump[v].at = "launch" /\ pump[v].deferred =>
       v \in rerun \/ Excuse(v, Node \ pump[v].todo)
RestIsExcused(v) ==
  ~Pumping(v) /\ status[v] = "running" /\ Slots(v, node) > 0 /\ Ready(v, node) # {} =>
    v \in scheduled \/ Excuse(v, Node)

Tends(v) ==
  /\ \A n \in Nodes(v) : NodeTended(n)
  /\ CancellationGoesOn(v) /\ RoundGoesOn(v) /\ RestIsExcused(v)

Tended == WakesOnce /\ CommandRuns /\ \A v \in Workflow : Tends(v)

\* A workflow whose pump is to come is tended.
LEMMA Woken ==
  ASSUME WakesOnce', NEW v \in Workflow, ToCome(v)'
  PROVE  Tends(v)'
BY DEF WakesOnce, ToCome, Tends, NodeTended, Cared, Nodes, CancellationGoesOn, RoundGoesOn,
       RestIsExcused, Pumping

\* So is one that has not started or has ended, unless its pump still launches.
LEMMA IdleTended ==
  ASSUME Inductive', NEW v \in Workflow, status'[v] \notin Started, pump'[v].at # "launch"
  PROVE  Tends(v)'
<1>1. \A n \in Nodes(v) : node'[n] \notin Busy
  BY DEF Inductive, Rows, ActiveIsStarted, Nodes
<1>2. status'[v] \notin {"running", "cancelling"}
  BY DEF Started
<1> QED
  BY <1>1, <1>2 DEF Tends, NodeTended, Nodes, Busy, CancellationGoesOn, RoundGoesOn, RestIsExcused

\* What is ready, and what waits, depends on the workflow's own nodes and status.
LEMMA SameWaits ==
  ASSUME NEW v \in Workflow, status'[v] = status[v],
         \A n \in Nodes(v) : node'[n] = node[n]
  PROVE  /\ Active(v, node') = Active(v, node) /\ Ready(v, node') = Ready(v, node)
         /\ Slots(v, node') = Slots(v, node)
         /\ \A m \in Nodes(v) : Waits(m) => Waits(m)'
<1>1. Active(v, node') = Active(v, node)
  BY DEF Active
<1>2. Ready(v, node') = Ready(v, node)
  <2>1. \A n \in Nodes(v) : \A p \in Needs[n] : node'[p] = node[p]
    BY WorkflowAssumption DEF Nodes
  <2> QED
    BY <2>1 DEF Ready
<1>3. Slots(v, node') = Slots(v, node)
  BY <1>1 DEF Slots
<1> QED
  BY <1>1, <1>2, <1>3 DEF Waits, Nodes

\* An excuse stays one while the workflow's rows stay and no command's room comes free.
LEMMA ExcuseStays ==
  ASSUME NEW v \in Workflow, NEW S, NEW T, S \subseteq T,
         \A m \in Nodes(v) : Waits(m) => Waits(m)',
         S \subseteq Node, ShellFull => ShellFull', Excuse(v, S)
  PROVE  \E m \in T : Of[m] = v /\ Waits(m)' /\ (m \in Agent \/ ShellFull')
BY DEF Excuse, Nodes

\* A step elsewhere, that frees no room, leaves a workflow tended.
LEMMA Untouched ==
  ASSUME NEW v \in Workflow, Tends(v), status'[v] = status[v], pump'[v] = pump[v],
         \A n \in Nodes(v) : node'[n] = node[n],
         \A n \in Nodes(v) : child[n] \in {"running", "automatic"}
                               => child'[n] \in {"running", "automatic"},
         v \in scheduled => v \in scheduled', v \in rerun => v \in rerun',
         ShellFull => ShellFull'
  PROVE  Tends(v)'
<1>1. \A n \in Nodes(v) : Cared(n) => Cared(n)'
  BY DEF Cared, ToCome, Nodes
<1>2. \A n \in Nodes(v) : NodeTended(n)'
  BY <1>1 DEF Tends, NodeTended
<1>3. /\ Active(v, node') = Active(v, node) /\ Ready(v, node') = Ready(v, node)
      /\ Slots(v, node') = Slots(v, node)
      /\ \A m \in Nodes(v) : Waits(m) => Waits(m)'
  BY SameWaits
<1>4. CancellationGoesOn(v)'
  BY <1>3 DEF Tends, CancellationGoesOn, ToCome
<1>5. RoundGoesOn(v)'
  <2>1. Excuse(v, Node \ pump[v].todo) => Excuse(v, Node \ pump[v].todo)'
    <3>1. CASE Excuse(v, Node \ pump[v].todo)
      <4>1. \E m \in Node \ pump'[v].todo : Of[m] = v /\ Waits(m)' /\ (m \in Agent \/ ShellFull')
        BY <1>3, <3>1, ExcuseStays
      <4> QED
        BY <4>1 DEF Excuse
    <3> QED
      BY <3>1
  <2> QED
    BY <2>1 DEF Tends, RoundGoesOn
<1>6. RestIsExcused(v)'
  <2>1. Excuse(v, Node) => Excuse(v, Node)'
    BY <1>3, ExcuseStays DEF Excuse
  <2> QED
    BY <1>3, <2>1 DEF Tends, RestIsExcused, Pumping
<1> QED
  BY <1>2, <1>4, <1>5, <1>6 DEF Tends

\* No command's room comes free while none of them ends.
LEMMA FullStays ==
  ASSUME TypeOK, TypeOK', ShellFull,
         \A n \in Node \ Agent : child[n] = "running" => child'[n] = "running",
         others'["shell"] >= others["shell"]
  PROVE  ShellFull'
<1> DEFINE Commands == {n \in Node : KindOf(n) = "shell" /\ child[n] = "running"}
           After == {n \in Node : KindOf(n) = "shell" /\ child'[n] = "running"}
<1>1. Commands \subseteq After /\ IsFiniteSet(After)
  <2>1. After \in SUBSET Node
    OBVIOUS
  <2>2. Commands \subseteq After
    BY DEF KindOf
  <2> QED
    BY <2>1, <2>2, WorkflowAssumption, FS_Subset
<1>2. /\ Cardinality(Commands) <= Cardinality(After)
      /\ Cardinality(Commands) \in Nat /\ Cardinality(After) \in Nat
  BY <1>1, FS_Subset, FS_CardinalityType
<1>3. Occupied("shell") = Cardinality(Commands) + others["shell"]
      /\ Occupied("shell")' = Cardinality(After) + others'["shell"]
  <2> HIDE DEF Commands, After
  <2>1. others["shell"] \in Nat /\ others'["shell"] \in Nat
    BY CoordinatorAssumption DEF TypeOK, Kind
  <2>2. Occupied("shell") = Cardinality(Commands) + others["shell"] + 0
        /\ Occupied("shell")' = Cardinality(After) + others'["shell"] + 0
    BY DEF Occupied, Commands, After, KindOf
  <2> QED
    BY <1>2, <2>1, <2>2
<1> HIDE DEF Commands, After
<1>4. others["shell"] \in Nat /\ others'["shell"] \in Nat /\ Capacity \in Nat
  BY CoordinatorAssumption DEF TypeOK, Kind
<1> QED
  BY <1>2, <1>3, <1>4 DEF ShellFull, Free

\* schedule wakes those it is given and takes back no wake.
LEMMA Wakes ==
  ASSUME WakesOnce, NEW W \in SUBSET Workflow, Schedule(W), UNCHANGED pump
  PROVE  /\ WakesOnce' /\ \A v \in W : ToCome(v)'
         /\ scheduled \subseteq scheduled' /\ rerun \subseteq rerun'
BY DEF WakesOnce, Schedule, ToCome, Pumping

\* A call for workflow w, which takes no node that runs to an end.
LEMMA CallTends ==
  ASSUME Inductive, Tended, Inductive', NEW w \in Workflow, Schedule({w}),
         UNCHANGED <<child, others, pump, hand>>,
         \A v \in Workflow \ {w} : status'[v] = status[v],
         \A n \in Node : Of[n] # w \/ node[n] = "running" => node'[n] = node[n]
  PROVE  Tended'
<1>1. /\ WakesOnce' /\ ToCome(w)'
      /\ scheduled \subseteq scheduled' /\ rerun \subseteq rerun'
  BY Wakes DEF Tended
<1>2. CommandRuns'
  BY DEF Tended, CommandRuns
<1>3. ShellFull => ShellFull'
  BY DEF ShellFull, Free, Occupied, KindOf
<1>4. ASSUME NEW v \in Workflow \ {w} PROVE Tends(v)'
  BY <1>1, <1>3, Untouched DEF Tended, Nodes
<1> QED
  BY <1>1, <1>2, <1>4, Woken DEF Tended

\* A child, or a job of others, has ended: all that may have waited for it are woken.
LEMMA EndTends ==
  ASSUME Inductive, Tended, Inductive', NEW W \in SUBSET Workflow, ChildTerminal(W),
         UNCHANGED <<rowVars, pump>>, hand \subseteq hand',
         \A n \in Node \ Agent : child'[n] = "running" => child[n] = "running"
  PROVE  Tended'
<1>1. /\ WakesOnce' /\ \A v \in W \cup Recoverable : ToCome(v)'
      /\ scheduled \subseteq scheduled' /\ rerun \subseteq rerun'
  <2>1. W \cup Recoverable \in SUBSET Workflow /\ Schedule(W \cup Recoverable)
    BY DEF ChildTerminal, Recoverable
  <2> QED
    BY <2>1, Wakes DEF Tended
<1>2. CommandRuns'
  BY DEF Tended, CommandRuns, rowVars
<1>3. ASSUME NEW v \in Workflow PROVE Tends(v)'
  <2>1. CASE ToCome(v)'
    BY <1>1, <2>1, Woken
  <2>2. CASE ~ToCome(v)'
    <3>1. status[v] \notin Started /\ status' = status /\ v \notin rerun
      BY <1>1, <2>2 DEF Recoverable, ToCome, rowVars
    <3>2. pump'[v].at # "launch"
      BY <3>1 DEF Tended, Tends, RoundGoesOn, Started
    <3> QED
      BY <3>1, <3>2, IdleTended
  <2> QED
    BY <2>1, <2>2
<1> QED
  BY <1>1, <1>2, <1>3 DEF Tended

\* A step that only sets something going, or none at all.
LEMMA OnlyMoreTends ==
  ASSUME Inductive, Tended, Inductive', UNCHANGED <<rowVars, wakeVars, pump>>,
         \A n \in Node : child[n] \in {"running", "automatic"} => child'[n] \in {"running", "automatic"},
         \A n \in Node \ Agent : child[n] = "running" => child'[n] = "running",
         \A n \in Node \ Agent : child'[n] = "running" => child[n] = "running" \/ n \in hand',
         hand \subseteq hand', others'["shell"] >= others["shell"]
  PROVE  Tended'
<1>1. ShellFull => ShellFull'
  BY FullStays DEF Inductive
<1>2. WakesOnce' /\ CommandRuns'
  BY DEF Tended, WakesOnce, CommandRuns, rowVars, wakeVars, Pumping
<1>3. ASSUME NEW v \in Workflow PROVE Tends(v)'
  BY <1>1, Untouched DEF Tended, Nodes, rowVars, wakeVars
<1> QED
  BY <1>2, <1>3 DEF Tended

\* The user's calls, the deadline, children's ends and what else comes from outside.
LEMMA OutsideTends ==
  ASSUME Inductive, Tended, Inductive', hand = {}, Outside
  PROVE  Tended'
<1>1. ASSUME NEW w \in Workflow, StartWorkflow(w) PROVE Tended'
  <2>1. \A v \in Workflow \ {w} : status'[v] = status[v]
    BY <1>1 DEF StartWorkflow, Inductive, TypeOK, RowsOK
  <2> QED
    BY <1>1, <2>1, CallTends DEF StartWorkflow, childVars, otherVars
<1>2. ASSUME NEW w \in Workflow, Cancel(w) PROVE Tended'
  <2>1. \A v \in Workflow \ {w} : status'[v] = status[v]
    BY <1>2 DEF Cancel, CancelRequested, Inductive, TypeOK, RowsOK
  <2>2. \A n \in Node : Of[n] # w \/ node[n] = "running" => node'[n] = node[n]
    BY <1>2 DEF Cancel, CancelRequested, Skipped, Inductive, TypeOK, RowsOK
  <2> QED
    BY <1>2, <2>1, <2>2, CallTends DEF Cancel, childVars, otherVars
<1>3. ASSUME NEW w \in Workflow, DeadlinePasses(w) PROVE Tended'
  BY <1>3, CallTends DEF DeadlinePasses, rowVars, childVars, otherVars
<1>4. ASSUME NEW n \in Node, DecideReplay(n) PROVE Tended'
  <2>1. PICK decision \in {"retry", "skip", "cancel"} : Decided(n, decision)
    BY <1>4 DEF DecideReplay
  <2>2. \A v \in Workflow \ {Of[n]} : status'[v] = status[v]
    BY <2>1 DEF Decided, Inductive, TypeOK, RowsOK
  <2>3. \A m \in Node : Of[m] # Of[n] \/ node[m] = "running" => node'[m] = node[m]
    <3>1. node[n] = "decision_required" /\ node \in [Node -> NodeStatus]
      BY <2>1 DEF Decided, Inductive, TypeOK, RowsOK
    <3>2. \/ \E st \in {"launching", "skipped"} : node' = [node EXCEPT ![n] = st]
          \/ node' = Skipped(Of[n], {"pending", "decision_required"}, node)
      BY <2>1 DEF Decided
    <3>3. ASSUME node' = Skipped(Of[n], {"pending", "decision_required"}, node)
          PROVE  \A m \in Node : Of[m] # Of[n] \/ node[m] = "running" => node'[m] = node[m]
      BY <3>1, <3>3, SkippedNodes
    <3> QED
      BY <3>1, <3>2, <3>3
  <2>4. Of[n] \in Workflow
    BY WorkflowAssumption
  <2> QED
    BY <1>4, <2>2, <2>3, <2>4, CallTends DEF DecideReplay, childVars, otherVars
<1>5. ASSUME NEW n \in Node, ChildEnds(n) PROVE Tended'
  <2>1. \A m \in Node : child'[m] = "running" => child[m] = "running"
    BY <1>5 DEF ChildEnds, Inductive, TypeOK
  <2>2. {Of[n]} \in SUBSET Workflow
    BY WorkflowAssumption
  <2> QED
    BY <1>5, <2>1, <2>2, EndTends DEF ChildEnds
<1>6. ASSUME NEW n \in Node, RecoverSubagent(n) PROVE Tended'
  <2>1. n \in Agent
    BY <1>6 DEF RecoverSubagent, Inductive, Children, RecoveredIsAgent
  <2>2. \A m \in Node : child'[m] = IF m = n THEN "running" ELSE child[m]
    BY <1>6 DEF RecoverSubagent, Inductive, TypeOK
  <2>3. others'["shell"] >= others["shell"]
    BY <1>6, CoordinatorAssumption DEF RecoverSubagent, otherVars, Inductive, TypeOK, Kind
  <2> QED
    BY <1>6, <2>1, <2>2, <2>3, OnlyMoreTends DEF RecoverSubagent
<1>7. ASSUME NEW k \in Kind, OtherStarts(k) PROVE Tended'
  <2>1. others'["shell"] >= others["shell"]
    BY <1>7, CoordinatorAssumption DEF OtherStarts, Inductive, TypeOK, Kind
  <2> QED
    BY <1>7, <2>1, OnlyMoreTends DEF OtherStarts, childVars
<1>8. ASSUME NEW k \in Kind, OtherEnds(k) PROVE Tended'
  <2>1. {} \in SUBSET Workflow
    OBVIOUS
  <2> QED
    BY <1>8, <2>1, EndTends DEF OtherEnds, childVars
<1>9. CASE Delegate
  <2>1. others'["shell"] >= others["shell"]
    BY <1>9, CoordinatorAssumption DEF Delegate, Inductive, TypeOK, Kind
  <2> QED
    BY <1>9, <2>1, OnlyMoreTends DEF Delegate, childVars
<1> QED
  BY <1>1, <1>2, <1>3, <1>4, <1>5, <1>6, <1>7, <1>8, <1>9 DEF Outside

\* A launch takes room and ends no wait; one whose command does not start is an end.
LEMMA LaunchTends ==
  ASSUME Inductive, Tended, Inductive', hand = {}, NEW n \in Node, Launch(Of[n], n)
  PROVE  Tended'
<1>1. /\ child[n] \in {"none", "idle"} /\ hand' = {n}
      /\ UNCHANGED <<rowVars, otherVars, pump>>
  BY DEF Launch, ToStart, ToRetry
<1>2. child \in [Node -> ChildStatus] /\ others["shell"] \in Nat
  BY CoordinatorAssumption DEF Inductive, TypeOK, Kind
<1>3. CASE child' = [child EXCEPT ![n] = "running"] /\ UNCHANGED wakeVars
  <2>1. \A m \in Node : child'[m] = IF m = n THEN "running" ELSE child[m]
    BY <1>2, <1>3
  <2>2. others'["shell"] >= others["shell"]
    BY <1>1, <1>2 DEF otherVars
  <2> QED
    BY <1>1, <1>3, <2>1, <2>2, OnlyMoreTends
<1>4. CASE child' = [child EXCEPT ![n] = "failed"] /\ ChildTerminal({Of[n]})
  <2>1. \A m \in Node : child'[m] = "running" => child[m] = "running"
    BY <1>2, <1>4
  <2>2. {Of[n]} \in SUBSET Workflow
    BY WorkflowAssumption
  <2> QED
    BY <1>1, <1>4, <2>1, <2>2, EndTends
<1> QED
  BY <1>3, <1>4 DEF Launch

\* A pump that starts takes up all that is at work, or cancels it.
LEMMA PumpStartTends ==
  ASSUME Inductive, Tended, Inductive', hand = {}, NEW w \in Workflow, PumpStarts(w)
  PROVE  Tended'
<1>1. /\ w \in scheduled /\ scheduled' = scheduled \ {w} /\ ~Pumping(w) /\ w \notin rerun
      /\ UNCHANGED <<attached, child, others, rerun, hand>>
  BY DEF PumpStarts, Tended, WakesOnce, childVars, otherVars
<1>2. PICK nodes \in {{}, Active(w, node)} :
        /\ pump' = [pump EXCEPT ![w] = At("reconcile", nodes)]
        /\ \/ status'[w] = "cancelling"
           \/ UNCHANGED <<status, node>> /\ nodes = Active(w, node) /\ status'[w] # "cancelling"
        /\ \A v \in Workflow \ {w} : status'[v] = status[v]
        /\ \A n \in Node : Of[n] # w \/ node[n] = "running" => node'[n] = node[n]
  <2>1. CASE /\ w \in late /\ status[w] \in {"running", "blocked"} /\ CancelRequested(w)
             /\ pump' = [pump EXCEPT ![w] = At("reconcile", {})]
    <3>1. status' = [status EXCEPT ![w] = "cancelling"]
      BY <2>1 DEF CancelRequested, Inductive, TypeOK, RowsOK
    <3>2. \A n \in Node : Of[n] # w \/ node[n] = "running" => node'[n] = node[n]
      BY <2>1 DEF CancelRequested, Skipped, Inductive, TypeOK, RowsOK
    <3> QED
      BY <2>1, <3>1, <3>2 DEF Inductive, TypeOK, RowsOK
  <2>2. CASE /\ UNCHANGED <<status, node>>
             /\ pump' = [pump EXCEPT ![w] = At("reconcile",
                           IF status[w] = "cancelling" THEN {} ELSE Active(w, node))]
    BY <2>2
  <2> QED
    BY <2>1, <2>2 DEF PumpStarts
<1>3. /\ pump'[w].at = "reconcile" /\ pump'[w].todo = nodes
      /\ \A v \in Workflow \ {w} : pump'[v] = pump[v]
  <2>1. nodes \in SUBSET Node
    BY <1>2 DEF Active, Nodes
  <2> QED
    BY <1>2, <2>1, AtTyped DEF Inductive
<1>4. ShellFull => ShellFull'
  BY <1>1 DEF ShellFull, Free, Occupied, KindOf
<1>5. WakesOnce'
  BY <1>1, <1>3 DEF Tended, WakesOnce, Pumping
<1>6. CommandRuns'
  BY <1>1, <1>2 DEF Tended, CommandRuns
<1>7. Tends(w)'
  <2>1. ASSUME NEW n \in Nodes(w), node'[n] \in Busy PROVE Cared(n)'
    BY <1>2, <1>3, <2>1 DEF Cared, Nodes, Active, Busy
  <2> QED
    BY <1>2, <1>3, <2>1
       DEF Tends, NodeTended, Nodes, Busy, CancellationGoesOn, RoundGoesOn, RestIsExcused, Pumping
<1>8. ASSUME NEW v \in Workflow \ {w} PROVE Tends(v)'
  BY <1>1, <1>2, <1>3, <1>4, Untouched DEF Tended, Nodes
<1> QED
  BY <1>5, <1>6, <1>7, <1>8 DEF Tended

\* A node that leaves the work of its workflow leaves a place in the budget.
LEMMA PlaceFreed ==
  ASSUME Inductive, NEW w \in Workflow, NEW n \in Active(w, node), NEW nd,
         Active(w, nd) \subseteq Active(w, node) \ {n}
  PROVE  Slots(w, nd) > 0
<1> DEFINE All == Active(w, node) \cup {m \in Nodes(w) : node[m] = "decision_required"}
<1>1. IsFiniteSet(All) /\ Cardinality(All) <= Width /\ n \in All
  <2>1. All \in SUBSET Node
    BY DEF Active, Nodes
  <2> QED
    BY <2>1, FS_Subset, WorkflowAssumption DEF Inductive, Rows, WithinBudget
<1>2. /\ IsFiniteSet(All \ {n}) /\ Cardinality(All \ {n}) = Cardinality(All) - 1
      /\ Cardinality(All) \in Nat
  BY <1>1, FS_RemoveElement, FS_CardinalityType
<1>3. Cardinality(Active(w, nd)) <= Cardinality(All \ {n}) /\ Cardinality(Active(w, nd)) \in Nat
  <2>1. Active(w, nd) \subseteq All \ {n}
    OBVIOUS
  <2> QED
    BY <1>2, <2>1, FS_Subset, FS_CardinalityType
<1> HIDE DEF All
<1> QED
  BY <1>1, <1>2, <1>3, WorkflowAssumption DEF Slots

\* What fewer nodes are at work leaves as many places, or more.
LEMMA PlacesKept ==
  ASSUME NEW w \in Workflow, NEW nd, NEW ne, Active(w, ne) \subseteq Active(w, nd), Slots(w, nd) > 0
  PROVE  Slots(w, ne) > 0
<1>1. IsFiniteSet(Active(w, nd))
  <2>1. Active(w, nd) \in SUBSET Node
    BY DEF Active, Nodes
  <2> QED
    BY <2>1, FS_Subset, WorkflowAssumption
<1>2. /\ Cardinality(Active(w, ne)) <= Cardinality(Active(w, nd))
      /\ Cardinality(Active(w, ne)) \in Nat /\ Cardinality(Active(w, nd)) \in Nat
  BY <1>1, FS_Subset, FS_CardinalityType
<1> QED
  BY <1>2, WorkflowAssumption DEF Slots

\* A pump that has handled node n, put off when `deferred' says so, has left it tended.
LEMMA HandledTends ==
  ASSUME Inductive, Tended, Inductive', NEW n \in Node, NEW st, NEW deferred \in BOOLEAN,
         Done(Of[n], n, deferred), n \in pump[Of[n]].todo,
         node' = [node EXCEPT ![n] = st],
         hand \subseteq {n}, UNCHANGED <<status, childVars, otherVars, wakeVars>>,
         st = "running" => child[n] \in {"running", "automatic"},
         st = "launching" /\ n \notin Agent => ShellFull,
         n \notin Agent /\ child[n] = "running" => st = "running",
         pump[Of[n]].at = "cancel" => st \notin Busy,
         deferred => st \in {"launching", "pending"} /\ (n \in Agent \/ ShellFull)
  PROVE  Tended'
<1> DEFINE w == Of[n]
<1>1. w \in Workflow /\ n \in Nodes(w)
  BY WorkflowAssumption DEF Nodes
<1>2. /\ pump'[w].at = pump[w].at /\ pump'[w].todo = pump[w].todo \ {n}
      /\ pump'[w].deferred = (pump[w].deferred \/ deferred)
      /\ \A v \in Workflow \ {w} : pump'[v] = pump[v]
  <2>1. pump'[w].deferred = (pump[w].deferred \/ deferred)
    BY <1>1 DEF Done, Inductive, TypeOK
  <2> QED
    BY <1>1, <2>1, DoneTyped DEF Inductive
<1>3. \A m \in Node : node'[m] = IF m = n THEN st ELSE node[m]
  BY DEF Inductive, TypeOK, RowsOK
<1>4. node[n] \in Busy /\ status[w] \in Started /\ n \in Active(w, node)
  <2>1. n \in Active(w, node)
    BY <1>1 DEF Inductive, Pumps, TodoIsActive
  <2> QED
    BY <2>1 DEF Active, Busy, Inductive, Rows, ActiveIsStarted
<1>5. UNCHANGED <<status, child, scheduled, rerun>> /\ (ShellFull => ShellFull')
  BY DEF childVars, otherVars, wakeVars, ShellFull, Free, Occupied, KindOf
<1>6. Pumping(w)
  BY <1>1 DEF Tended, WakesOnce
<1>7. WakesOnce'
  BY <1>1, <1>2, <1>5, <1>6 DEF Tended, WakesOnce, Pumping
<1>8. CommandRuns'
  BY <1>3, <1>5 DEF Tended, CommandRuns
<1> HIDE DEF w
<1>9. ASSUME NEW v \in Workflow \ {w} PROVE Tends(v)'
  BY <1>2, <1>3, <1>5, Untouched DEF Tended, Nodes, w
<1>10. CASE ToCome(w)
  <2>1. Tends(w)'
    BY <1>1, <1>5, <1>7, <1>10, Woken DEF ToCome
  <2> QED
    BY <1>7, <1>8, <1>9, <2>1 DEF Tended
<1>11. CASE ~ToCome(w)
  <2>1. \A m \in Nodes(w) : NodeTended(m)'
    <3>1. NodeTended(n)'
      BY <1>3, <1>5 DEF NodeTended
    <3>2. ASSUME NEW m \in Nodes(w) \ {n} PROVE NodeTended(m)'
      <4>1. Cared(m) => Cared(m)'
        BY <1>1, <1>2, <1>5 DEF Cared, ToCome, Nodes
      <4> QED
        BY <1>1, <1>3, <1>5, <4>1 DEF NodeTended, Tended, Tends, Nodes
    <3> QED
      BY <3>1, <3>2
  <2>2. \A m \in Active(w, node') : m # n => m \in Active(w, node)
    BY <1>3 DEF Active, Nodes
  <2>3. CancellationGoesOn(w)'
    BY <1>1, <1>2, <1>3, <1>5, <2>2
       DEF Tended, Tends, CancellationGoesOn, ToCome, Active, Busy, w
  <2>4. Active(w, node') \subseteq Active(w, node)
    BY <1>4, <2>2
  <2>5. ASSUME NEW m \in Nodes(w) \ {n}, Waits(m) PROVE Waits(m)'
    <3>1. m \in Node /\ Of[m] = w /\ node'[m] = node[m]
      BY <1>3 DEF Nodes
    <3>2. CASE node[m] = "launching"
      BY <1>5, <2>5, <3>1, <3>2 DEF Waits
    <3>3. CASE status[w] = "running" /\ m \in Ready(w, node) /\ Slots(w, node) > 0
      <4>1. \A p \in Needs[m] : node'[p] = node[p]
        BY <1>3, <1>4, <3>1, <3>3, WorkflowAssumption DEF Ready, Busy
      <4>2. m \in Ready(w, node')
        BY <3>1, <3>3, <4>1 DEF Ready
      <4>3. Slots(w, node') > 0
        BY <1>1, <2>4, <3>3, PlacesKept
      <4> QED
        BY <1>5, <2>5, <3>1, <3>3, <4>2, <4>3 DEF Waits
    <3> QED
      BY <2>5, <3>1, <3>2, <3>3 DEF Waits
  <2>6. ASSUME pump'[w].at = "launch", pump'[w].deferred
        PROVE  \E m \in Node \ pump'[w].todo : Of[m] = w /\ Waits(m)' /\ (m \in Agent \/ ShellFull')
    <3>1. CASE pump[w].deferred
      <4>1. PICK m \in Node \ pump[w].todo : Of[m] = w /\ Waits(m) /\ (m \in Agent \/ ShellFull)
        BY <1>1, <1>2, <1>11, <2>6, <3>1 DEF Tended, Tends, RoundGoesOn, ToCome, Excuse
      <4>2. m \in Nodes(w) \ {n}
        BY <4>1 DEF Nodes, w
      <4> QED
        BY <1>2, <1>5, <2>5, <4>1, <4>2
    <3>2. CASE ~pump[w].deferred
      <4>1. deferred /\ st \in {"launching", "pending"} /\ (n \in Agent \/ ShellFull)
        BY <1>2, <2>6, <3>2
      <4>2. Waits(n)'
        <5>1. CASE st = "launching"
          BY <1>3, <1>4, <1>5, <5>1 DEF Waits, w
        <5>2. CASE st = "pending"
          <6>1. status[w] = "running"
            BY <1>1, <1>2, <1>11, <2>6 DEF Tended, Tends, RoundGoesOn, ToCome
          <6>2. n \in Ready(w, node')
            <7>1. \A p \in Needs[n] : node[p] \in {"completed", "skipped"}
              BY <1>4 DEF Inductive, Children, DependenciesMet, Met
            <7>2. \A p \in Needs[n] : node'[p] = node[p]
              BY <1>3, <1>4, <7>1, WorkflowAssumption DEF Busy
            <7> QED
              BY <1>1, <1>3, <5>2, <7>1, <7>2 DEF Ready
          <6>3. Active(w, node') \subseteq Active(w, node) \ {n}
            BY <1>3, <2>4, <5>2 DEF Active
          <6>4. Slots(w, node') > 0
            BY <1>1, <1>4, <6>3, PlaceFreed
          <6> QED
            BY <1>4, <1>5, <6>1, <6>2, <6>4 DEF Waits, w
        <5> QED
          BY <4>1, <5>1, <5>2
      <4>3. n \in Node \ pump'[w].todo
        BY <1>2
      <4> QED
        BY <1>5, <4>1, <4>2, <4>3 DEF w
    <3> QED
      BY <3>1, <3>2
  <2>7. RoundGoesOn(w)'
    <3>1. pump'[w].at = "launch" => status'[w] = "running" \/ w \in rerun'
      BY <1>1, <1>2, <1>5 DEF Tended, Tends, RoundGoesOn
    <3> QED
      BY <2>6, <3>1 DEF RoundGoesOn, Excuse
  <2>8. RestIsExcused(w)'
    BY <1>2, <1>6 DEF RestIsExcused, Pumping
  <2>9. Tends(w)'
    BY <2>1, <2>3, <2>7, <2>8 DEF Tends
  <2> QED
    BY <1>7, <1>8, <1>9, <2>9 DEF Tended
<1> QED
  BY <1>10, <1>11

\* launchOrRecover, and the answer of an interrupt.
LEMMA NodeStepTends ==
  ASSUME Inductive, Tended, Inductive', NEW n \in Node,
         \/ /\ hand = {}
            /\ \/ FindsChild(Of[n], n) \/ DeferLaunch(Of[n], n) \/ RefuseLaunch(Of[n], n)
               \/ InterruptAnswers(Of[n], n)
         \/ AttachChild(Of[n], n)
  PROVE  Tended'
<1>1. node \in [Node -> NodeStatus] /\ Of[n] \in Workflow /\ child[n] \in ChildStatus
  BY WorkflowAssumption DEF Inductive, TypeOK, RowsOK
<1>2. ASSUME n \in pump[Of[n]].todo PROVE node[n] \in Busy /\ node[n] \notin NodeEnded
  <2>1. n \in Active(Of[n], node)
    BY <1>1, <1>2 DEF Inductive, Pumps, TodoIsActive
  <2> QED
    BY <2>1 DEF Active, Busy, NodeEnded
<1>3. CASE hand = {} /\ FindsChild(Of[n], n)
  <2> DEFINE st == IF child[n] = "idle" THEN "decision_required"
                   ELSE IF child[n] \in ChildEnded THEN child[n]
                   ELSE IF n \in attached THEN node[n] ELSE "running"
  <2>1. n \in pump[Of[n]].todo /\ pump[Of[n]].at # "cancel"
    BY <1>3 DEF FindsChild, Handles
  <2>2. node' = [node EXCEPT ![n] = st]
    BY <1>1, <1>2, <1>3, <2>1 DEF FindsChild, Applied
  <2>3. st = "running" => child[n] \in {"running", "automatic"}
    BY <1>1, <1>2, <1>3, <2>1 DEF FindsChild, ChildStatus, ChildEnded
  <2>4. n \notin Agent /\ child[n] = "running" => st = "running"
    BY <1>3 DEF ChildEnded, Tended, CommandRuns
  <2>5. st = "launching" => n \in Agent
    <3>1. CASE st = "launching"
      <4>1. child[n] \notin ChildEnded \cup {"idle"} /\ node[n] = "launching" /\ n \in attached
        BY <3>1 DEF ChildEnded
      <4>2. child[n] = "running"
        BY <1>1, <1>3, <4>1 DEF FindsChild, ChildStatus
      <4> QED
        BY <1>3, <4>1, <4>2 DEF Tended, CommandRuns
    <3> QED
      BY <3>1
  <2>6. /\ Done(Of[n], n, FALSE) /\ hand \subseteq {n}
        /\ UNCHANGED <<status, childVars, otherVars, wakeVars>>
    BY <1>3 DEF FindsChild
  <2> HIDE DEF st
  <2> QED
    BY <2>1, <2>2, <2>3, <2>4, <2>5, <2>6, HandledTends
<1>4. CASE hand = {} /\ DeferLaunch(Of[n], n)
  <2> DEFINE st == IF n \in attached THEN node[n] ELSE "pending"
  <2>1. /\ n \in pump[Of[n]].todo /\ pump[Of[n]].at # "cancel"
        /\ child[n] \in {"none", "idle"} /\ ~Free(KindOf(n))
    BY <1>4 DEF DeferLaunch, Handles, ToStart, ToRetry
  <2>2. node' = [node EXCEPT ![n] = st]
    BY <1>1, <1>4 DEF DeferLaunch
  <2>3. st \in {"launching", "pending"}
    BY <1>4 DEF DeferLaunch, ToStart, ToRetry, Inductive, Children, AttachedHasChild
  <2>4. n \in Agent \/ ShellFull
    BY <2>1 DEF KindOf, ShellFull
  <2>5. /\ Done(Of[n], n, TRUE) /\ hand \subseteq {n}
        /\ UNCHANGED <<status, childVars, otherVars, wakeVars>>
    BY <1>4 DEF DeferLaunch
  <2> HIDE DEF st
  <2> QED
    BY <2>1, <2>2, <2>3, <2>4, <2>5, HandledTends
<1>5. CASE hand = {} /\ RefuseLaunch(Of[n], n)
  <2>1. PICK st \in {"failed", "decision_required"} : node' = [node EXCEPT ![n] = st]
    BY <1>5 DEF RefuseLaunch
  <2>2. /\ n \in pump[Of[n]].todo /\ child[n] # "running" /\ st \notin Busy
        /\ Done(Of[n], n, FALSE) /\ hand \subseteq {n}
        /\ UNCHANGED <<status, childVars, otherVars, wakeVars>>
    BY <1>5 DEF RefuseLaunch, Handles, ToStart, Busy
  <2> QED
    BY <2>1, <2>2, HandledTends DEF Busy
<1>6. CASE hand = {} /\ InterruptAnswers(Of[n], n)
  <2>1. n \in pump[Of[n]].todo /\ child[n] \in ChildEnded
    BY <1>1, <1>6 DEF InterruptAnswers, Inductive, Pumps, InterruptedHasEnded
  <2>2. node' = [node EXCEPT ![n] = child[n]]
    BY <1>2, <1>6, <2>1 DEF InterruptAnswers, Applied
  <2>3. child[n] \notin Busy /\ child[n] # "pending"
    BY <2>1 DEF ChildEnded, Busy
  <2>4. /\ Done(Of[n], n, FALSE) /\ hand \subseteq {n}
        /\ UNCHANGED <<status, childVars, otherVars, wakeVars>>
    BY <1>6 DEF InterruptAnswers
  <2> QED
    BY <2>1, <2>2, <2>3, <2>4, HandledTends DEF Busy
<1>7. CASE AttachChild(Of[n], n)
  <2> DEFINE st == IF child[n] = "failed" THEN "failed" ELSE "running"
  <2>1. /\ hand = {n} /\ n \in pump[Of[n]].todo /\ child[n] \in {"running", "failed"}
        /\ pump[Of[n]].at # "cancel"
    BY <1>7 DEF AttachChild, Inductive, Pumps, HandIsHandled, Handles
  <2>2. /\ node' = [node EXCEPT ![n] = st] /\ Done(Of[n], n, FALSE)
        /\ UNCHANGED <<status, childVars, otherVars, wakeVars>>
    BY <1>7 DEF AttachChild
  <2>3. /\ st \in {"failed", "running"} /\ (st = "running" <=> child[n] = "running")
    BY <2>1
  <2> HIDE DEF st
  <2> QED
    BY <2>1, <2>2, <2>3, HandledTends
<1> QED
  BY <1>3, <1>4, <1>5, <1>6, <1>7

\* A cancellation that has come to the children waits for those that run, and only them.
LEMMA CancelChildrenTends ==
  ASSUME Inductive, Tended, Inductive', hand = {}, NEW w \in Workflow, CancelChildren(w),
         pump[w].at = "reconcile", UNCHANGED <<otherVars, hand>>
  PROVE  Tended'
<1>1. ASSUME NEW n \in Node
      PROVE  \/ /\ node'[n] = node[n] /\ child'[n] = child[n]
                /\ n \in Active(w, node) => child[n] = "running" /\ n \in pump'[w].todo
             \/ /\ n \in Active(w, node) /\ n \notin pump'[w].todo
                /\ node'[n] \in {"completed", "failed", "cancelled"}
                /\ child'[n] \in {child[n], "failed", "cancelled"}
                /\ n \notin Agent => child[n] # "running"
                /\ child[n] = "none" <=> child'[n] = "none"
  BY CancelledNodes
<1>2. \A n \in Active(w, node) : n \in Node /\ Of[n] = w
  BY DEF Active, Nodes
<1>3. pump'[w].at = "cancel" /\ \A v \in Workflow \ {w} : pump'[v] = pump[v]
  <2>1. pump' = [pump EXCEPT ![w] = At("cancel", {n \in Attended(w) : child[n] = "running"})]
    BY DEF CancelChildren
  <2>2. {n \in Attended(w) : child[n] = "running"} \in SUBSET Node
    BY DEF Attended, Active, Nodes
  <2> QED
    BY <2>1, <2>2, AtTyped DEF Inductive
<1>4. w \notin scheduled /\ UNCHANGED status
  BY <1>3 DEF Tended, WakesOnce, Pumping, CancelChildren
<1>5. /\ scheduled \subseteq scheduled' /\ rerun \subseteq rerun'
      /\ \A v \in scheduled' : v \in scheduled \/ (v # w /\ ~Pumping(v))
      /\ \A v \in rerun' : v \in rerun \/ v = w \/ Pumping(v)
  <2>1. PICK ended :
          /\ rerun' = IF ended = {} THEN rerun
                      ELSE rerun \cup {w} \cup {v \in Recoverable : Pumping(v)}
          /\ scheduled' = (IF ended = {} THEN scheduled
                           ELSE scheduled \cup {v \in Recoverable \ {w} : ~Pumping(v)}) \ {w}
    BY DEF CancelChildren
  <2>2. CASE ended = {}
    BY <1>4, <2>1, <2>2
  <2>3. CASE ended # {}
    BY <1>4, <2>1, <2>3
  <2> QED
    BY <2>2, <2>3
<1>6. WakesOnce'
  BY <1>3, <1>4, <1>5 DEF Tended, WakesOnce, Pumping
<1>7. \A n \in Node \ Agent : child'[n] = "running" <=> child[n] = "running"
  BY <1>1
<1>8. CommandRuns'
  BY <1>1, <1>7 DEF Tended, CommandRuns
<1>9. ShellFull => ShellFull'
  <2>1. others'["shell"] >= others["shell"]
    BY CoordinatorAssumption DEF otherVars, Inductive, TypeOK, Kind
  <2> QED
    BY <1>7, <2>1, FullStays DEF Inductive
<1>10. ASSUME NEW v \in Workflow \ {w} PROVE Tends(v)'
  <2>1. \A n \in Nodes(v) : node'[n] = node[n] /\ child'[n] = child[n]
    BY <1>1, <1>2 DEF Nodes
  <2> QED
    BY <1>3, <1>4, <1>5, <1>9, <2>1, Untouched DEF Tended
<1>11. Tends(w)'
  <2>1. \A n \in Nodes(w) : node'[n] \in Busy => n \in pump'[w].todo
    BY <1>1 DEF Nodes, Active, Busy
  <2>2. \A n \in Nodes(w) : NodeTended(n)'
    BY <2>1 DEF NodeTended, Cared, Nodes, Busy
  <2>3. Active(w, node') \subseteq pump'[w].todo
    BY <2>1 DEF Active, Busy
  <2> QED
    BY <1>3, <2>2, <2>3 DEF Tends, CancellationGoesOn, RoundGoesOn, RestIsExcused, Pumping
<1> QED
  BY <1>6, <1>8, <1>10, <1>11 DEF Tended

\* A round reserves what is ready while there is room; when it reserves nothing, there
\* is no room, or nothing is ready.
LEMMA NothingToReserve ==
  ASSUME NEW w \in Workflow, NEW nd, {} \in Reservations(w, nd), Slots(w, nd) > 0
  PROVE  Ready(w, nd) = {}
<1>1. /\ IsFiniteSet(Ready(w, nd)) /\ Cardinality(Ready(w, nd)) \in Nat
      /\ Slots(w, nd) \in Int
  <2>1. Active(w, nd) \in SUBSET Node /\ Ready(w, nd) \in SUBSET Node
    BY DEF Active, Ready, Nodes
  <2> QED
    BY <2>1, WorkflowAssumption, FS_Subset, FS_CardinalityType DEF Slots
<1>2. 0 = IF Slots(w, nd) < Cardinality(Ready(w, nd))
          THEN Slots(w, nd) ELSE Cardinality(Ready(w, nd))
  BY FS_EmptySet DEF Reservations
<1>3. Cardinality(Ready(w, nd)) = 0
  BY <1>1, <1>2
<1> QED
  BY <1>1, <1>3, FS_EmptySet

\* The end of a pump, or its next round of launches.
LEMMA SettleTends ==
  ASSUME Inductive, Tended, Inductive', hand = {}, NEW w \in Workflow,
         Settle(w, node, ~(pump[w].at = "launch" /\ pump[w].deferred)),
         Pumping(w), pump[w].todo = {},
         ~(pump[w].at = "reconcile" /\ status[w] = "cancelling"),
         UNCHANGED <<attached, replays, childVars, otherVars, hand>>
  PROVE  Tended'
<1> DEFINE st == SettledStatus(w, status[w], node)
           settled == SettledNodes(w, status[w], node)
           again == ~(pump[w].at = "launch" /\ pump[w].deferred)
<1>1. PICK R \in (IF again /\ st = "running" THEN Reservations(w, settled) ELSE {{}}) :
        /\ node' = Reserved(R, settled)
        /\ pump' = [pump EXCEPT ![w] = IF R = {} THEN Rest ELSE At("launch", R)]
        /\ scheduled' = IF R = {} /\ w \in rerun THEN scheduled \cup {w} ELSE scheduled
        /\ rerun' = IF R = {} THEN rerun \ {w} ELSE rerun
  BY DEF Settle
<1>2. /\ node \in [Node -> NodeStatus] /\ status[w] \in Started \cup Ended \cup {"planned"}
      /\ pump[w].at \in {"reconcile", "cancel", "launch"}
  BY DEF Inductive, TypeOK, RowsOK, Pumping
<1>3. settled \in [Node -> NodeStatus]
  BY <1>2, SettledTyped
<1>4. /\ R \subseteq Nodes(w)
      /\ \A n \in Node : node'[n] = IF n \in R THEN "launching" ELSE settled[n]
      /\ \A n \in R : settled[n] = "pending"
  BY <1>1, <1>3, ReservedNodes
<1>5. ASSUME NEW n \in Node
      PROVE  \/ settled[n] = node[n]
             \/ node[n] = "pending" /\ settled[n] = "skipped" /\ Of[n] = w
  <2>1. settled = node \/ settled = Skipped(w, {"pending"}, node)
    BY DEF SettledNodes
  <2> HIDE DEF settled
  <2> QED
    BY <1>2, <2>1, SkippedNodes
<1>6. st = "running" => settled = node
  BY <1>2, SettledRows
<1>7. \A v \in Workflow : status'[v] = IF v = w THEN st ELSE status[v]
  BY DEF Settle, Inductive, TypeOK, RowsOK
<1>8. st = "cancelling" => status[w] = "cancelling" /\ Active(w, node) # {}
  BY DEF SettledStatus, Started
<1>9. R # {} => st = "running"
  BY <1>1
<1>10. st = "running" /\ again /\ R = {} /\ Slots(w, node) > 0 => Ready(w, node) = {}
  BY <1>1, <1>6, NothingToReserve
<1> HIDE DEF settled
<1>11. ASSUME NEW n \in Node
       PROVE  /\ Of[n] # w => node'[n] = node[n]
              /\ node'[n] \in Busy => n \in R \/ node'[n] = node[n]
              /\ node'[n] = "running" => node[n] = "running"
              /\ node[n] = "running" => node'[n] = "running"
  BY <1>4, <1>5 DEF Nodes, Busy
<1>12. /\ pump'[w].todo = R /\ pump'[w].at = (IF R = {} THEN "rest" ELSE "launch")
       /\ ~pump'[w].deferred /\ \A v \in Workflow \ {w} : pump'[v] = pump[v]
  <2>1. pump'[w] = IF R = {} THEN Rest ELSE At("launch", R)
    BY <1>1 DEF Inductive, TypeOK
  <2>2. \A v \in Workflow \ {w} : pump'[v] = pump[v]
    BY <1>1 DEF Inductive, TypeOK
  <2> QED
    BY <2>1, <2>2 DEF Rest, At
<1>13. w \notin scheduled
  BY DEF Tended, WakesOnce
<1>14. WakesOnce'
  BY <1>1, <1>12, <1>13 DEF Tended, WakesOnce, Pumping
<1>15. UNCHANGED child /\ (ShellFull => ShellFull')
  BY DEF childVars, otherVars, ShellFull, Free, Occupied, KindOf
<1>16. CommandRuns'
  BY <1>11, <1>15 DEF Tended, CommandRuns
<1>17. ASSUME NEW v \in Workflow \ {w} PROVE Tends(v)'
  <2>1. v \in scheduled => v \in scheduled'
    BY <1>1
  <2>2. v \in rerun => v \in rerun'
    BY <1>1
  <2> QED
    BY <1>7, <1>11, <1>12, <1>15, <2>1, <2>2, Untouched DEF Tended, Nodes
<1>18. CASE w \in rerun
  <2>1. ToCome(w)'
    BY <1>1, <1>18 DEF ToCome
  <2> QED
    BY <1>14, <1>16, <1>17, <2>1, Woken DEF Tended
<1>19. CASE w \notin rerun
  <2>1. \A n \in Nodes(w) : ~Cared(n)
    BY <1>13, <1>19 DEF Cared, ToCome, Nodes
  <2>2. ASSUME NEW n \in Nodes(w) PROVE NodeTended(n)'
    <3>1. n \in R => Cared(n)'
      BY <1>12 DEF Cared, Nodes
    <3>2. NodeTended(n) /\ n \in Node
      BY DEF Tended, Tends, Nodes
    <3>3. node'[n] = "running" => child'[n] \in {"running", "automatic"}
      BY <1>11, <1>15, <2>1, <3>2 DEF NodeTended
    <3>4. node'[n] = "launching" /\ n \notin R /\ n \notin Agent => ShellFull'
      BY <1>11, <1>15, <2>1, <3>2 DEF NodeTended, Busy
    <3> QED
      BY <3>1, <3>3, <3>4 DEF NodeTended
  <2>3. CancellationGoesOn(w)'
    <3>1. st # "cancelling"
      <4>1. status[w] # "cancelling" \/ Active(w, node) = {}
        BY <1>13, <1>19 DEF Tended, Tends, CancellationGoesOn, ToCome
      <4> QED
        BY <1>8, <4>1
    <3> QED
      BY <1>7, <3>1 DEF CancellationGoesOn
  <2>4. RoundGoesOn(w)'
    BY <1>7, <1>9, <1>12 DEF RoundGoesOn
  <2>5. RestIsExcused(w)'
    <3> SUFFICES ASSUME ~Pumping(w)', st = "running", Slots(w, node') > 0, Ready(w, node') # {}
                 PROVE  Excuse(w, Node)'
      BY <1>7 DEF RestIsExcused
    <3>1. R = {} /\ UNCHANGED node
      <4>1. R = {}
        BY <1>12 DEF Pumping
      <4>2. settled = node
        BY <1>6
      <4> QED
        BY <1>1, <1>2, <4>1, <4>2 DEF Reserved
    <3>2. pump[w].at = "launch" /\ pump[w].deferred
      BY <1>10, <3>1
    <3>3. status[w] = "running" /\ Excuse(w, Node \ {})
      BY <1>19, <3>2 DEF Tended, Tends, RoundGoesOn
    <3>4. PICK m \in Node : Of[m] = w /\ Waits(m) /\ (m \in Agent \/ ShellFull)
      BY <3>3 DEF Excuse
    <3>5. status'[w] = status[w]
      BY <1>7, <3>3
    <3>6. Waits(m)'
      BY <3>1, <3>4, <3>5 DEF Waits, Ready, Slots, Active, Nodes
    <3> QED
      BY <1>15, <3>4, <3>6 DEF Excuse
  <2>6. Tends(w)'
    BY <2>2, <2>3, <2>4, <2>5 DEF Tends
  <2> QED
    BY <1>14, <1>16, <1>17, <2>6 DEF Tended
<1> QED
  BY <1>18, <1>19

\* recover() wakes every workflow that had started.
LEMMA CrashTends ==
  ASSUME Inductive, Inductive', Crash
  PROVE  Tended'
<1>1. /\ scheduled' = Recoverable /\ rerun' = {} /\ UNCHANGED status
      /\ \A v \in Workflow : pump'[v] = Rest
  BY DEF Crash, rowVars
<1>2. WakesOnce'
  BY <1>1 DEF WakesOnce, Pumping, Rest
<1>3. CommandRuns'
  <2>1. \A n \in Node \ Agent : child'[n] # "running"
    BY DEF Crash, Staged
  <2> QED
    BY <2>1 DEF CommandRuns
<1>4. ASSUME NEW v \in Workflow PROVE Tends(v)'
  <2>1. CASE status[v] \in Started
    <3>1. ToCome(v)'
      BY <1>1, <2>1 DEF Recoverable, ToCome
    <3> QED
      BY <1>2, <3>1, Woken
  <2>2. CASE status[v] \notin Started
    <3>1. pump'[v].at # "launch"
      BY <1>1 DEF Rest
    <3> QED
      BY <1>1, <2>2, <3>1, IdleTended
  <2> QED
    BY <2>1, <2>2
<1> QED
  BY <1>2, <1>3, <1>4 DEF Tended

LEMMA InitTends == Init => Tended
<1> SUFFICES ASSUME Init PROVE Tended
  OBVIOUS
<1>1. /\ \A n \in Node : node[n] = "pending" /\ child[n] = "none"
      /\ \A v \in Workflow : status[v] = "planned" /\ pump[v] = Rest
      /\ scheduled = {} /\ rerun = {}
  BY DEF Init, Planned
<1>2. WakesOnce /\ CommandRuns
  BY <1>1 DEF WakesOnce, CommandRuns, Pumping, Rest
<1>3. \A v \in Workflow : Tends(v)
  BY <1>1 DEF Tends, NodeTended, Nodes, CancellationGoesOn, RoundGoesOn, RestIsExcused, Rest
<1> QED
  BY <1>2, <1>3 DEF Tended

LEMMA NextTends == Inductive /\ Tended /\ [Next]_vars => Tended'
<1> SUFFICES ASSUME Inductive, Tended, [Next]_vars PROVE Tended'
  OBVIOUS
<1>1. Inductive'
  BY NextInductive
<1>2. CASE hand = {} /\ Outside
  BY <1>1, <1>2, OutsideTends
<1>3. ASSUME NEW w \in Workflow, hand = {}, PumpStep(w) PROVE Tended'
  <2>1. CASE PumpStarts(w)
    BY <1>1, <1>3, <2>1, PumpStartTends
  <2>2. CASE PumpGoesOn(w)
    <3>1. /\ Pumping(w) /\ pump[w].todo = {} /\ UNCHANGED <<otherVars, hand>>
      BY <2>2 DEF PumpGoesOn
    <3>2. CASE pump[w].at = "reconcile" /\ status[w] = "cancelling"
      BY <1>1, <1>3, <2>2, <3>1, <3>2, CancelChildrenTends DEF PumpGoesOn
    <3>3. CASE ~(pump[w].at = "reconcile" /\ status[w] = "cancelling")
      BY <1>1, <1>3, <2>2, <3>1, <3>3, SettleTends DEF PumpGoesOn
    <3> QED
      BY <3>2, <3>3
  <2>3. ASSUME NEW n \in Nodes(w),
               \/ FindsChild(w, n) \/ Launch(w, n) \/ DeferLaunch(w, n) \/ RefuseLaunch(w, n)
               \/ InterruptAnswers(w, n)
        PROVE  Tended'
    <3>1. n \in Node /\ w = Of[n]
      BY DEF Nodes
    <3> QED
      BY <1>1, <1>3, <2>3, <3>1, LaunchTends, NodeStepTends
  <2> QED
    BY <1>3, <2>1, <2>2, <2>3 DEF PumpStep
<1>4. ASSUME NEW n \in Node, AttachChild(Of[n], n) PROVE Tended'
  BY <1>1, <1>4, NodeStepTends
<1>5. CASE Crash
  BY <1>1, <1>5, CrashTends
<1>6. CASE UNCHANGED vars
  <2>1. others'["shell"] >= others["shell"]
    BY <1>6, CoordinatorAssumption DEF vars, otherVars, Inductive, TypeOK, Kind
  <2> QED
    BY <1>1, <1>6, <2>1, OnlyMoreTends DEF vars, childVars
<1> QED
  BY <1>2, <1>3, <1>4, <1>5, <1>6 DEF Next

\* When every pump rests, no cancellation is half done, no end of a child has gone
\* unseen, and a command that waits waits for capacity or for a launch of its round:
\* no interleaving of pumps, ends, calls and restarts loses the wake that goes on.
THEOREM NothingIsForgotten == Spec => []NothingForgotten
<1>1. Inductive /\ Tended => NothingForgotten
  <2> SUFFICES ASSUME Inductive, Tended, Quiet
               PROVE  /\ \A w \in Workflow : status[w] # "cancelling"
                      /\ \A n \in Node : status[Of[n]] \in Started /\ node[n] = "running" =>
                           child[n] \in {"running", "automatic"}
                      /\ \A n \in Node \ Agent : Waits(n) =>
                           PutOff(n) # {} \/ \E m \in Agent : Of[m] = Of[n] /\ Waits(m)
    BY DEF NothingForgotten
  <2>1. /\ scheduled = {} /\ rerun = {}
        /\ \A v \in Workflow : pump[v].at = "rest" /\ pump[v].todo = {}
    BY DEF Quiet, Tended, WakesOnce, Pumping, Inductive, TypeOK
  <2>2. \A n \in Node : ~Cared(n) /\ NodeTended(n)
    BY <2>1, WorkflowAssumption DEF Cared, ToCome, Tended, Tends, Nodes
  <2>3. \A w \in Workflow : status[w] # "cancelling"
    BY <2>1 DEF Tended, Tends, CancellationGoesOn, ToCome
  <2>4. ASSUME NEW n \in Node \ Agent, Waits(n)
        PROVE  PutOff(n) # {} \/ \E m \in Agent : Of[m] = Of[n] /\ Waits(m)
    <3>1. ShellFull => n \in PutOff(n)
      BY <2>4 DEF PutOff, Nodes, ShellFull, KindOf
    <3>2. CASE node[n] = "launching"
      BY <2>2, <3>1, <3>2 DEF NodeTended
    <3>3. CASE status[Of[n]] = "running" /\ n \in Ready(Of[n], node) /\ Slots(Of[n], node) > 0
      <4>1. Excuse(Of[n], Node)
        BY <2>1, <3>3, WorkflowAssumption DEF Tended, Tends, RestIsExcused, Pumping
      <4> QED
        BY <3>1, <4>1 DEF Excuse
    <3> QED
      BY <2>4, <3>2, <3>3 DEF Waits
  <2> QED
    BY <2>2, <2>3, <2>4 DEF NodeTended
<1>2. Spec => []Tended
  BY InitTends, NextTends, InductiveHolds, PTL DEF Spec
<1> QED
  BY <1>1, <1>2, InductiveHolds, PTL
=============================================================================
