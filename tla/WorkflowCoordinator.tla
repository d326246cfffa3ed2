------------------------- MODULE WorkflowCoordinator -------------------------
(***************************************************************************)
(* The pump that drives workflows (workflows/coordinator.ts) over their    *)
(* rows (SessionWorkflow), with the children it starts through its port:   *)
(* shell jobs (execution/shell-jobs.ts) and subagents (pi/session-runtime).*)
(*                                                                         *)
(* schedule() puts a workflow's pump on the microtask queue, or marks a    *)
(* pump that is under way to run again.  A pump first handles the nodes    *)
(* that are launching or running, or interrupts them when the workflow is  *)
(* being cancelled; it then settles the workflow and reserves and launches *)
(* nodes until none is ready.  It waits between two nodes (`await'), where *)
(* anything may come in between; from the start of a child to the writing  *)
(* of its id (`hand') only the end of the process can.                     *)
(*                                                                         *)
(* Others hold capacity too: jobs the agent runs in the background, whose  *)
(* end the coordinator is told, and delegations that a turn waits for,     *)
(* whose end it is not told (session-runtime.ts, runSubagent).             *)
(*                                                                         *)
(* Left out: children that are gone, interrupts that throw, the limit of   *)
(* 100 workflows in listRecoverable, and calls that change no row.         *)
(***************************************************************************)
EXTENDS SessionWorkflow

CONSTANTS
  Agent,           \* nodes whose child is a subagent; the others run a command
  Capacity,        \* children of a kind at one time, with those of others
  MaxOthers,       \* bound: background jobs of others
  MaxCrashes       \* bound: restarts

ASSUME CoordinatorAssumption ==
  /\ Agent \subseteq Node /\ Capacity \in Nat \ {0}
  /\ MaxOthers \in Nat /\ MaxCrashes \in Nat

VARIABLES
  child,       \* the job under each node's admission key
  runs,        \* times the child's work was set going by a start or a decision
  others,      \* background jobs of others, of each kind
  delegating,  \* a delegation is under way
  late,        \* workflows whose deadline has passed
  scheduled, rerun,   \* the coordinator's sets
  pump,        \* each workflow's pump: where it is, and nodes it has to handle
  hand,        \* nodes whose child was set going and is not yet written
  crashes

childVars == <<child, runs>>
otherVars == <<others, delegating>>
wakeVars == <<scheduled, rerun>>
vars == <<rowVars, childVars, otherVars, late, wakeVars, pump, hand, crashes>>

Kind == {"shell", "subagent"}
KindOf(n) == IF n \in Agent THEN "subagent" ELSE "shell"
ChildEnded == {"completed", "failed", "cancelled"}

(* An idle child awaits a decision; a subagent with a safe checkpoint will *)
(* be recovered without one.                                               *)
ChildStatus == ChildEnded \cup {"none", "running", "idle", "automatic"}

Rest == [at |-> "rest", todo |-> {}, deferred |-> FALSE]
At(where, nodes) == [at |-> where, todo |-> nodes, deferred |-> FALSE]

TypeOK ==
  /\ RowsOK
  /\ child \in [Node -> ChildStatus] /\ runs \in [Node -> Nat]
  /\ others \in [Kind -> 0..MaxOthers] /\ delegating \in BOOLEAN
  /\ late \subseteq Workflow /\ scheduled \subseteq Workflow /\ rerun \subseteq Workflow
  /\ pump \in [Workflow -> [at : {"rest", "reconcile", "cancel", "launch"},
                            todo : SUBSET Node, deferred : BOOLEAN]]
  /\ hand \subseteq Node /\ crashes \in 0..MaxCrashes

Init ==
  /\ Planned
  /\ child = [n \in Node |-> "none"] /\ runs = [n \in Node |-> 0]
  /\ others = [k \in Kind |-> 0] /\ delegating = FALSE
  /\ late = {} /\ scheduled = {} /\ rerun = {}
  /\ pump = [w \in Workflow |-> Rest] /\ hand = {} /\ crashes = 0

Pumping(w) == pump[w].at # "rest"
Occupied(k) ==
  Cardinality({n \in Node : KindOf(n) = k /\ child[n] = "running"}) + others[k]
  + (IF k = "subagent" /\ delegating THEN 1 ELSE 0)
Free(k) == Occupied(k) < Capacity

(* Mutant: what comes while the pump is under way is not kept. *)
ScheduleUnlessPumping(W) ==
  /\ scheduled' = scheduled \cup {w \in W : ~Pumping(w)}
  /\ UNCHANGED rerun

(* schedule, for several workflows at once. *)
Schedule(W) ==
  /\ scheduled' = scheduled \cup {w \in W : ~Pumping(w)}
  /\ rerun' = rerun \cup {w \in W : Pumping(w)}

(* onChildTerminal: the child's workflow, and all that are recoverable. *)
Recoverable == {w \in Workflow : status[w] \in Started}
ChildTerminal(W) == Schedule(W \cup Recoverable)

(***************************************************************************)
(* Calls of the user and the agent                                         *)
(***************************************************************************)
StartWorkflow(w) ==
  /\ status[w] = "planned"
  /\ status' = [status EXCEPT ![w] = "running"]
  /\ Schedule({w})
  /\ UNCHANGED <<node, attached, replays, childVars, otherVars, late, pump, hand, crashes>>

Cancel(w) ==
  /\ CancelRequested(w)
  /\ Schedule({w})
  /\ UNCHANGED <<attached, replays, childVars, otherVars, late, pump, hand, crashes>>

DecideReplay(n) ==
  /\ \E decision \in {"retry", "skip", "cancel"} : Decided(n, decision)
  /\ Schedule({Of[n]})
  /\ UNCHANGED <<attached, childVars, otherVars, late, pump, hand, crashes>>

(* The timer of the deadline, which the start or the last pump has armed. *)
DeadlinePasses(w) ==
  /\ status[w] \in Started /\ w \notin late
  /\ late' = late \cup {w}
  /\ Schedule({w})
  /\ UNCHANGED <<rowVars, childVars, otherVars, pump, hand, crashes>>

(***************************************************************************)
(* Children, and others that hold capacity                                 *)
(***************************************************************************)
Interrupted(n) == pump[Of[n]].at = "cancel" /\ n \in pump[Of[n]].todo

ChildEnds(n) ==
  /\ child[n] = "running"
  /\ \E outcome \in {"completed", "failed"} \cup (IF Interrupted(n) THEN {"cancelled"} ELSE {}) :
       child' = [child EXCEPT ![n] = outcome]
  /\ ChildTerminal({Of[n]})
  /\ UNCHANGED <<rowVars, runs, otherVars, late, pump, hand, crashes>>

(* recoverSubagentJobs: without a decision, where there is capacity. *)
RecoverSubagent(n) ==
  /\ child[n] = "automatic" /\ Free("subagent")
  /\ child' = [child EXCEPT ![n] = "running"]
  /\ UNCHANGED <<rowVars, runs, otherVars, late, wakeVars, pump, hand, crashes>>

OtherStarts(k) ==
  /\ others[k] < MaxOthers /\ Free(k)
  /\ others' = [others EXCEPT ![k] = @ + 1]
  /\ UNCHANGED <<rowVars, childVars, delegating, late, wakeVars, pump, hand, crashes>>

OtherEnds(k) ==
  /\ others[k] > 0
  /\ others' = [others EXCEPT ![k] = @ - 1]
  /\ ChildTerminal({})
  /\ UNCHANGED <<rowVars, childVars, delegating, late, pump, hand, crashes>>

Delegate ==
  /\ IF delegating THEN delegating' = FALSE ELSE Free("subagent") /\ delegating' = TRUE
  /\ UNCHANGED <<rowVars, childVars, others, late, wakeVars, pump, hand, crashes>>

(***************************************************************************)
(* The pump                                                                *)
(***************************************************************************)
(* The end of a pump, or its next round of launches; nd are the nodes as   *)
(* the last node handled has left them, again whether a round may follow.  *)
Settle(w, nd, again) ==
  LET st == SettledStatus(w, status[w], nd)
      settled == SettledNodes(w, status[w], nd)
  IN /\ status' = [status EXCEPT ![w] = st]
     /\ \E R \in (IF again /\ st = "running" THEN Reservations(w, settled) ELSE {{}}) :
          /\ node' = Reserved(R, settled)
          /\ pump' = [pump EXCEPT ![w] = IF R = {} THEN Rest ELSE At("launch", R)]
          /\ scheduled' = IF R = {} /\ w \in rerun THEN scheduled \cup {w} ELSE scheduled
          /\ rerun' = IF R = {} THEN rerun \ {w} ELSE rerun

(* The nodes of a workflow that is being cancelled: one with no child      *)
(* fails, an idle child is cancelled on the spot (a subagent fails), and   *)
(* the pump waits for those that run.                                      *)
Unlaunched(w) == {n \in Nodes(w) : node[n] = "launching" /\ n \notin attached}
Attended(w) == Active(w, node) \ Unlaunched(w)
Stopped(n) ==
  IF child[n] \notin {"idle", "automatic"} THEN child[n]
  ELSE IF n \in Agent THEN "failed" ELSE "cancelled"

CancelChildren(w) ==
  LET running == {n \in Attended(w) : child[n] = "running"}
      stopped == Attended(w) \ running
      ended == {n \in stopped : Stopped(n) # child[n]}
  IN /\ child' = [n \in Node |-> IF n \in stopped THEN Stopped(n) ELSE child[n]]
     /\ node' = [n \in Node |-> IF n \in Unlaunched(w) THEN "failed"
                                ELSE IF n \in stopped THEN Stopped(n) ELSE node[n]]
     /\ pump' = [pump EXCEPT ![w] = At("cancel", running)]
     /\ rerun' = IF ended = {} THEN rerun
                 ELSE rerun \cup {w} \cup {v \in Recoverable : Pumping(v)}
     /\ scheduled' = (IF ended = {} THEN scheduled
                      ELSE scheduled \cup {v \in Recoverable \ {w} : ~Pumping(v)}) \ {w}
     /\ UNCHANGED <<status, attached, replays, runs>>

(* Mutant: a pump heeds the deadline of a workflow that runs only. *)
PumpStartsUnblocked(w) ==
  /\ w \in scheduled
  /\ scheduled' = scheduled \ {w}
  /\ IF w \in late /\ status[w] = "running"
     THEN CancelRequested(w) ELSE UNCHANGED <<status, node>>
  /\ pump' = [pump EXCEPT ![w] = At("reconcile",
                IF status'[w] = "cancelling" THEN {} ELSE Active(w, node))]
  /\ UNCHANGED <<attached, replays, childVars, otherVars, late, rerun, hand, crashes>>

PumpStarts(w) ==
  /\ w \in scheduled
  /\ scheduled' = scheduled \ {w}
  /\ IF w \in late /\ status[w] \in {"running", "blocked"}
     THEN /\ CancelRequested(w)
          /\ pump' = [pump EXCEPT ![w] = At("reconcile", {})]
     ELSE /\ UNCHANGED <<status, node>>
          /\ pump' = [pump EXCEPT ![w] = At("reconcile",
                        IF status[w] = "cancelling" THEN {} ELSE Active(w, node))]
  /\ UNCHANGED <<attached, replays, childVars, otherVars, late, rerun, hand, crashes>>

(* launchOrRecover, of a node that reconcileChildren or the loop is at.    *)
Handles(w, n) ==
  /\ pump[w].at \in {"reconcile", "launch"} /\ n \in pump[w].todo

Done(w, n, deferred) ==
  pump' = [pump EXCEPT ![w].todo = @ \ {n}, ![w].deferred = @ \/ deferred]

(* The child found under the admission key, or that is attached already.   *)
FindsChild(w, n) ==
  /\ Handles(w, n) /\ child[n] # "none"
  /\ ~(node[n] = "launching" /\ n \in attached /\ child[n] \in {"idle", "automatic"})
  /\ attached' = attached \cup {n}
  /\ node' = IF child[n] = "idle" THEN Applied(n, "decision_required", node)
             ELSE IF child[n] \in ChildEnded THEN Applied(n, child[n], node)
             ELSE IF n \in attached THEN node ELSE [node EXCEPT ![n] = "running"]
  /\ Done(w, n, FALSE)
  /\ UNCHANGED <<status, replays, childVars, otherVars, late, wakeVars, hand, crashes>>

(* port.start, or port.retry of an idle child. *)
ToStart(n) == child[n] = "none"
ToRetry(n) == node[n] = "launching" /\ n \in attached /\ child[n] = "idle"

Launch(w, n) ==
  /\ Handles(w, n) /\ (ToStart(n) \/ ToRetry(n))
  /\ Free(KindOf(n))
  /\ runs' = [runs EXCEPT ![n] = @ + 1]
  /\ hand' = {n}
  /\ \/ /\ child' = [child EXCEPT ![n] = "running"]
        /\ UNCHANGED wakeVars
     \/ /\ n \notin Agent                                    \* spawn error
        /\ child' = [child EXCEPT ![n] = "failed"]
        /\ ChildTerminal({w})
  /\ UNCHANGED <<rowVars, otherVars, late, pump, crashes>>

(* attachChild and applyChild after the start. *)
AttachChild(w, n) ==
  /\ n \in hand /\ Of[n] = w
  /\ hand' = {}
  /\ attached' = attached \cup {n}
  /\ node' = [node EXCEPT ![n] = IF child[n] = "failed" THEN "failed" ELSE "running"]
  /\ Done(w, n, FALSE)
  /\ UNCHANGED <<status, replays, childVars, otherVars, late, wakeVars, crashes>>

DeferLaunch(w, n) ==
  /\ Handles(w, n) /\ (ToStart(n) \/ ToRetry(n))
  /\ ~Free(KindOf(n))
  /\ node' = IF n \in attached THEN node ELSE [node EXCEPT ![n] = "pending"]
  /\ Done(w, n, TRUE)
  /\ UNCHANGED <<status, attached, replays, childVars, otherVars, late, wakeVars, hand, crashes>>

(* The port throws: the permission was withdrawn, the conversation is      *)
(* archived, no attempt is left, or the subagent would recover by itself.  *)
RefuseLaunch(w, n) ==
  /\ Handles(w, n)
  /\ \/ /\ ToStart(n)
        /\ node' = [node EXCEPT ![n] = "failed"]
     \/ /\ node[n] = "launching" /\ n \in attached /\ child[n] \in {"idle", "automatic"}
        /\ node' = [node EXCEPT ![n] = "decision_required"]
  /\ Done(w, n, FALSE)
  /\ UNCHANGED <<status, attached, replays, childVars, otherVars, late, wakeVars, hand, crashes>>

(* The answer of an interrupt. *)
InterruptAnswers(w, n) ==
  /\ pump[w].at = "cancel" /\ n \in pump[w].todo /\ child[n] # "running"
  /\ node' = Applied(n, child[n], node)
  /\ Done(w, n, FALSE)
  /\ UNCHANGED <<status, attached, replays, childVars, otherVars, late, wakeVars, hand, crashes>>

PumpGoesOn(w) ==
  /\ Pumping(w) /\ pump[w].todo = {}
  /\ IF pump[w].at = "reconcile" /\ status[w] = "cancelling"
     THEN CancelChildren(w)
     ELSE /\ Settle(w, node, ~(pump[w].at = "launch" /\ pump[w].deferred))
          /\ UNCHANGED <<attached, replays, childVars>>
  /\ UNCHANGED <<otherVars, late, hand, crashes>>

(***************************************************************************)
(* The end of the process and the next start: shell jobs are staged as     *)
(* idle, subagents as idle for a decision or for automatic recovery, and   *)
(* recover() schedules every workflow that had started.                    *)
(***************************************************************************)
Staged(n) == IF n \in Agent THEN {"idle", "automatic"} ELSE {"idle"}

Crash ==
  /\ crashes < MaxCrashes
  /\ crashes' = crashes + 1
  /\ child' \in {c \in [Node -> ChildStatus] : \A n \in Node :
                   IF child[n] = "running" THEN c[n] \in Staged(n) ELSE c[n] = child[n]}
  /\ others' = [k \in Kind |-> 0] /\ delegating' = FALSE
  /\ scheduled' = Recoverable /\ rerun' = {}
  /\ pump' = [w \in Workflow |-> Rest] /\ hand' = {}
  /\ UNCHANGED <<rowVars, runs, late>>

PumpStep(w) ==
  \/ PumpStarts(w) \/ PumpGoesOn(w)
  \/ \E n \in Nodes(w) : \/ FindsChild(w, n) \/ Launch(w, n)
                         \/ DeferLaunch(w, n) \/ RefuseLaunch(w, n)
                         \/ InterruptAnswers(w, n)

Outside ==
  \/ \E w \in Workflow : StartWorkflow(w) \/ Cancel(w) \/ DeadlinePasses(w)
  \/ \E n \in Node : DecideReplay(n) \/ ChildEnds(n) \/ RecoverSubagent(n)
  \/ \E k \in Kind : OtherStarts(k) \/ OtherEnds(k)
  \/ Delegate

Next ==
  \/ hand = {} /\ (Outside \/ \E w \in Workflow : PumpStep(w))
  \/ \E n \in Node : AttachChild(Of[n], n)
  \/ Crash

Spec == Init /\ [][Next]_vars

(* Microtasks run; a command or a subagent ends, by its own timeout if by  *)
(* nothing else; time passes the deadline.                                 *)
Fairness ==
  /\ \A w \in Workflow : WF_vars(hand = {} /\ PumpStep(w)) /\ WF_vars(DeadlinePasses(w))
  /\ \A n \in Node : WF_vars(AttachChild(Of[n], n)) /\ WF_vars(hand = {} /\ ChildEnds(n))

FairSpec == Spec /\ Fairness

-----------------------------------------------------------------------------
(* Never more nodes of a workflow run, or are about to, than its budget    *)
(* allows; and those that await a decision keep their place in it, so that *)
(* one to retry is never refused for want of a slot.                       *)
WithinBudget ==
  \A w \in Workflow :
    Cardinality(Active(w, node) \cup {n \in Nodes(w) : node[n] = "decision_required"}) <= Width

(* A node is set going only when all it depends on has been completed, or  *)
(* skipped, and none of that is taken back while it runs.                  *)
DependenciesFirst ==
  \A n \in Node : child[n] \notin {"none", "idle"} =>
    \A p \in Needs[n] : node[p] \in {"completed", "skipped"}

(* When every pump rests, nothing is left that no later event will pick    *)
(* up: no child's end has gone unseen, no cancellation is half done, and a *)
(* command that waits to be launched waits for capacity that is held (its  *)
(* own, or that of a launch of the same round, which one put off ends).    *)
Quiet == scheduled = {} /\ hand = {} /\ \A w \in Workflow : ~Pumping(w)
Waits(n) ==
  /\ status[Of[n]] \in Started
  /\ \/ node[n] = "launching"
     \/ status[Of[n]] = "running" /\ n \in Ready(Of[n], node) /\ Slots(Of[n], node) > 0
PutOff(n) == {m \in Nodes(Of[n]) : Waits(m) /\ ~Free(KindOf(m))}

NothingForgotten ==
  Quiet => /\ \A w \in Workflow : status[w] # "cancelling"
           /\ \A n \in Node : status[Of[n]] \in Started /\ node[n] = "running" =>
                child[n] \in {"running", "automatic"}
           /\ \A n \in Node \ Agent : Waits(n) =>
                PutOff(n) # {} \/ \E m \in Agent : Of[m] = Of[n] /\ Waits(m)

(* The same of every launch: one that was put off is tried again when the  *)
(* capacity it waits for is free, as launchOrRecover's comment has it.     *)
PutOffIsTriedAgain ==
  Quiet => \A n \in Node : Waits(n) => PutOff(n) # {}

(* A workflow that has ended leaves none of its commands running.          *)
EndsWithItsCommands ==
  \A n \in Node \ Agent : status[Of[n]] \in Ended => child[n] # "running"

(* The same of its subagents, those that will be recovered included.       *)
EndsWithItsSubagents ==
  \A n \in Agent : status[Of[n]] \in Ended => child[n] \notin {"running", "automatic"}

(* A command is set going once, and once more by each decision to retry:   *)
(* what it does outside is never done again unasked.                       *)
RunsOnlyAsDecided == \A n \in Node \ Agent : runs[n] <= 1 + replays[n]

(* A workflow that was started ends, by its deadline if by nothing else.   *)
StartedEnds ==
  \A w \in Workflow : status[w] \in Started ~> status[w] \in Ended
=============================================================================
