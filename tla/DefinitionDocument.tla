-------------------------- MODULE DefinitionDocument -------------------------
(***************************************************************************)
(* A workflow definition as authored (models/process_def.rs): its nodes    *)
(* with every route they name, its stages, signals, forms and escalation   *)
(* topics, and what ProcessDefinition::validate and unreachable_nodes say  *)
(* of it.                                                                  *)
(*                                                                         *)
(* Unlike WorkflowDefinition, which is one published definition and is     *)
(* constant, a document is a value: the editor changes it.  Labels, texts, *)
(* arguments and durations are left out.  Of a condition only the signals  *)
(* its text mentions are kept, and a node's flag `computable` stands for   *)
(* its deadlines, its retries and its conditions being well formed.        *)
(***************************************************************************)
EXTENDS Naturals, Sequences, FiniteSets

CONSTANTS NodeId, SignalId, FormId, TopicId, StageId, ActionId, Key, None

BlockKind == {"Start", "ServiceTask", "UserTask", "Gateway", "Wait", "End"}
Handler == {"configure_handler", "create_support_ticket", "registered"}

(* An absent field is none of the values it could have.                    *)
ASSUME NoneIsNothing ==
    /\ None \notin NodeId \cup SignalId \cup FormId \cup TopicId \cup StageId \cup Handler
    /\ \A S \in SUBSET SignalId : S # None

Optional(S) == {None} \cup S

Branch == [when: SUBSET SignalId, next: NodeId]

(* `waits` is None where there is no wait_for; `next` is Next::To, the      *)
(* default of Next::Routes, or the fallback of a Gateway; `topic` is the   *)
(* argument of create_support_ticket.  A kind has its own fields only.     *)
Fields == [id: NodeId, kind: BlockKind, next: Optional(NodeId), branches: Seq(Branch),
           on_error: Optional(NodeId), compensate: Optional(NodeId),
           on_timeout: Optional(NodeId), waits: Optional(SUBSET SignalId),
           form: Optional(FormId), handler: Optional(Handler), topic: Optional(TopicId),
           stage: Optional(StageId), computable: BOOLEAN]
OfItsKind(n) ==
    /\ n.kind = "Start" => n.next # None
    /\ n.kind = "End" => n.next = None
    /\ n.kind \in {"Start", "End"} => n.branches = <<>>
    /\ n.on_timeout # None => n.kind \in {"UserTask", "Wait"}
    /\ n.on_error # None \/ n.compensate # None => n.kind \in {"ServiceTask", "UserTask"}
    /\ n.form # None <=> n.kind = "UserTask"
    /\ n.handler # None <=> n.kind = "ServiceTask"
    /\ n.topic # None => n.handler = "create_support_ticket"
    /\ n.waits # None => n.kind \in {"UserTask", "Wait"}
    /\ n.kind = "Wait" => n.waits # None
Node == {n \in Fields : OfItsKind(n)}

StageDef == [id: StageId, initial: BOOLEAN]
SignalDef == [id: SignalId]
FormDef == [id: FormId, roles: 0 .. 1]
ActionDef == [id: ActionId, emit: Optional(SignalId)]
EscalationDef == [id: TopicId, actions: Seq(ActionDef)]

Definition == [key: Key, version: Nat, active: BOOLEAN,
               effective: Optional(Nat), deprecated: Optional(Nat),
               stages: Seq(StageDef), nodes: Seq(Node), signals: Seq(SignalDef),
               forms: Seq(FormDef), escalations: Seq(EscalationDef)]

-----------------------------------------------------------------------------
Elements(s) == {s[i] : i \in DOMAIN s}
Ids(s) == {s[i].id : i \in DOMAIN s}
Unique(s) == \A i, j \in DOMAIN s : s[i].id = s[j].id => i = j

(* find(): the first element with an identifier.                           *)
IndexOf(s, id) == CHOOSE i \in DOMAIN s : s[i].id = id /\ \A j \in 1 .. i - 1 : s[j].id # id
Find(s, id) == s[IndexOf(s, id)]

Starts(d) == {n \in Elements(d.nodes) : n.kind = "Start"}
Ends(d) == {n \in Elements(d.nodes) : n.kind = "End"}

(* Every node reference of a node: the pointer that holds it, the branch   *)
(* it belongs to, and its target.                                          *)
Routes(n) ==
    {r \in {[pointer |-> "next", branch |-> 0, target |-> n.next],
            [pointer |-> "on_error", branch |-> 0, target |-> n.on_error],
            [pointer |-> "compensate", branch |-> 0, target |-> n.compensate],
            [pointer |-> "timeout", branch |-> 0, target |-> n.on_timeout]} : r.target # None}
    \cup {[pointer |-> "branch", branch |-> i, target |-> n.branches[i].next] :
            i \in DOMAIN n.branches}

Targets(n) == {r.target : r \in Routes(n)}

(* node_targets: the routes execution may follow.  Compensation is         *)
(* reserved, and so is the error route of anything but a service task.     *)
NodeTargets(n) ==
    {r.target : r \in {q \in Routes(n) : /\ q.pointer # "compensate"
                                         /\ q.pointer = "on_error" => n.kind = "ServiceTask"}}

-----------------------------------------------------------------------------
(* ProcessDefinition::validate, one conjunct per group of checks.          *)
ValidIds(d) ==
    /\ Unique(d.nodes) /\ Unique(d.signals) /\ Unique(d.forms)
    /\ Unique(d.stages) /\ Unique(d.escalations)

ValidStages(d) == Cardinality({i \in DOMAIN d.stages : d.stages[i].initial}) = 1

ValidDates(d) == d.effective # None /\ d.deprecated # None => d.deprecated > d.effective

ValidEnds(d) ==
    /\ Cardinality({i \in DOMAIN d.nodes : d.nodes[i].kind = "Start"}) = 1
    /\ Ends(d) # {}

MutValidRoutes(d) == \A n \in Elements(d.nodes) : n.next \in Optional(Ids(d.nodes))
ValidRoutes(d) == \A n \in Elements(d.nodes) : Targets(n) \subseteq Ids(d.nodes)

ValidAssignments(d) == \A n \in Elements(d.nodes) : n.stage # None => n.stage \in Ids(d.stages)

ValidWaits(d) ==
    \A n \in Elements(d.nodes) :
        /\ n.computable
        /\ n.kind \in {"Wait", "UserTask"} /\ n.waits # None
               => n.waits # {} /\ n.waits \subseteq Ids(d.signals)

ValidTasks(d) ==
    \A n \in Elements(d.nodes) :
        /\ n.kind = "UserTask" => n.form \in Ids(d.forms)
        /\ n.handler = "create_support_ticket" => n.topic \in Ids(d.escalations)

ValidActions(d) ==
    \A e \in Elements(d.escalations) :
        /\ Unique(e.actions)
        /\ \A a \in Elements(e.actions) : a.emit # None => a.emit \in Ids(d.signals)

Validate(d) ==
    /\ ValidIds(d) /\ ValidStages(d) /\ ValidDates(d) /\ ValidEnds(d) /\ ValidRoutes(d)
    /\ ValidAssignments(d) /\ ValidWaits(d) /\ ValidTasks(d) /\ ValidActions(d)

-----------------------------------------------------------------------------
(* The worklist of unreachable_nodes and of EditorDocument::diagnostics:   *)
(* layer k holds the nodes at most k routes away from a Start, along the   *)
(* routes the engine may follow or along all those the editor draws.       *)
Followed(d) == [n \in Elements(d.nodes) |-> NodeTargets(n)]
Drawn(d) == [n \in Elements(d.nodes) |-> Targets(n)]

Follow(d, to, S) ==
    S \cup (Ids(d.nodes) \cap UNION {to[n] : n \in {m \in Elements(d.nodes) : m.id \in S}})

Layer(d, to) ==
    LET layer[k \in 0 .. Len(d.nodes)] ==
            IF k = 0 THEN {n.id : n \in Starts(d)} ELSE Follow(d, to, layer[k - 1])
    IN  layer

Reached(d, to) == Layer(d, to)[Len(d.nodes)]

UnreachableNodes(d) == Ids(d.nodes) \ Reached(d, Followed(d))

(* EditorDocument::diagnostics: the structural errors, and what a graph    *)
(* still lacks.  Its reachability follows every route it draws.            *)
Diagnostics(d) ==
    {<<"unreachable", id>> : id \in Ids(d.nodes) \ Reached(d, Drawn(d))}
    \cup {<<"no outgoing route", n.id>> :
            n \in {m \in Elements(d.nodes) : m.kind # "End" /\ Routes(m) = {}}}
    \cup {<<"choose a handler", n.id>> :
            n \in {m \in Elements(d.nodes) : m.handler = "configure_handler"}}
    \cup (IF Validate(d) THEN {} ELSE {<<"invalid", None>>})
=============================================================================
