------------------------- MODULE WorkflowDefinition -------------------------
(***************************************************************************)
(* A published workflow definition as the engine sees it: what kind each   *)
(* node is, where it may lead, which signals its wait accepts and which    *)
(* lifecycle hooks the host registers.  The definition is fixed for the    *)
(* life of an instance, so everything here is constant.                    *)
(*                                                                         *)
(* Conditions are not evaluated: a node whose successor a condition        *)
(* selects lists every target the branches and the fallback name, and the  *)
(* modules that use the definition choose among them.                      *)
(***************************************************************************)
EXTENDS Naturals, FiniteSets

CONSTANTS
    Node,        \* the declared nodes
    NoNode,      \* "no node": an instance that has not entered one
    Signal,      \* the declared signals
    NoSignal,
    StartNode,   \* the one Start node
    Kind,        \* Kind[n]: "start", "end", "gateway", "wait", "user", "service"
    Successors,  \* Successors[n]: the targets of Next::To, Next::Routes, branches
    OnTimeout,   \* OnTimeout[n]: timeout.on_timeout, or NoNode
    OnError,     \* OnError[n]: on_error.next, or NoNode
    MaxRetries,  \* MaxRetries[n]: retries.max, 0 when the node has no retries
    Accepts,     \* Accepts[n]: wait_for.signals()
    Routed,      \* nodes whose successor conditions select
    Staged,      \* nodes with set_stage
    Hooks        \* lifecycle hooks in special_handlers

NodeKinds == {"start", "end", "gateway", "wait", "user", "service"}
HookPhases == {"hide_form", "stage", "complete", "show_form"}

ASSUME DefinitionTypes ==
    /\ NoNode \notin Node
    /\ NoSignal \notin Signal
    /\ Kind \in [Node -> NodeKinds]
    /\ Successors \in [Node -> SUBSET Node]
    /\ OnTimeout \in [Node -> Node \cup {NoNode}]
    /\ OnError \in [Node -> Node \cup {NoNode}]
    /\ MaxRetries \in [Node -> Nat]
    /\ Accepts \in [Node -> SUBSET Signal]
    /\ Routed \in SUBSET Node
    /\ Staged \in SUBSET Node
    /\ Hooks \in SUBSET HookPhases

(* What ProcessDefinition::validate and the Node type guarantee about every *)
(* definition the service registers.                                        *)
ASSUME DefinitionIsValid ==
    /\ StartNode \in Node
    /\ \A n \in Node : Kind[n] = "start" <=> n = StartNode
    /\ \A n \in Node : OnTimeout[n] # NoNode => Kind[n] \in {"wait", "user"}
    /\ \A n \in Node : Accepts[n] # {} => Kind[n] \in {"wait", "user"}
    /\ \A n \in Node : Kind[n] = "end" => Successors[n] = {}

(* accepts_signal and waiting_transition: only a Wait, or a UserTask with  *)
(* wait_for, consumes a signal.                                            *)
AcceptsSignal(n, sig) == n \in Node /\ sig \in Accepts[n]

(* can_wait_for_future_signal: anything but an End may still reach a wait. *)
CanWaitForFutureSignal(n) == ~ (n \in Node /\ Kind[n] = "end")

(* A node where the instance stays until a signal or a timeout.            *)
IsWait(n) == n \in Node /\ Kind[n] \in {"wait", "user"}

(* The hooks that run while `target` is prepared; `entering` is false for  *)
(* a retry of a visit that already committed.                              *)
RunsHook(current, target, entering) ==
    \/ entering /\ current \in Node /\ Kind[current] = "user" /\ "hide_form" \in Hooks
    \/ entering /\ target \in Staged /\ "stage" \in Hooks
    \/ Kind[target] = "end" /\ "complete" \in Hooks
    \/ Kind[target] = "user" /\ "show_form" \in Hooks

(* Where an instance may go from n when its task runs: a selected          *)
(* successor, on_error.next, or the node itself when a handler asks to be  *)
(* repeated.                                                               *)
RunTargets(n) ==
    Successors[n] \cup (IF Kind[n] = "service" THEN {n, OnError[n]} \ {NoNode} ELSE {})

(* Where an instance may go when an event completes its wait at n.         *)
EventTargets(n) == Successors[n] \cup ({OnTimeout[n]} \ {NoNode})
=============================================================================
