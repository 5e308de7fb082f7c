---------------------------- MODULE EditorDocument ---------------------------
(***************************************************************************)
(* The editor's document (editor/document.rs, declarations.rs, settings.rs *)
(* and publication.rs): a definition with the coordinates of its nodes,    *)
(* and every operation the editor and its host apply to it.  An operation  *)
(* that may refuse has a condition CanXxx; the session applies it to a     *)
(* copy, so a refused operation changes nothing.                           *)
(*                                                                         *)
(* A position is a number: a row of the automatic layout, or a place the   *)
(* user chose.  Fresh identifiers are taken from the identifier sets, so   *)
(* those sets bound how many blocks and declarations a document can get.   *)
(***************************************************************************)
EXTENDS DefinitionDocument, Retention

CONSTANT FinishId    \* the literal "finish" a Start points to without an End

DeclarationKind == {"forms", "signals", "escalations"}

Document(d) ==
    /\ DOMAIN d = {"definition", "uuid", "positions"}
    /\ d.definition \in Definition
    /\ d.uuid \in Optional({"stored"})
    /\ d.positions \in [Ids(d.definition.nodes) -> Nat]

WithNodes(d, nodes) == [d EXCEPT !.definition.nodes = nodes]
NodeOf(d, id) ==
    IF id \in Ids(d.definition.nodes) THEN Find(d.definition.nodes, id) ELSE None

Replaced(s, id, value) == [s EXCEPT ![IndexOf(s, id)] = value]
Without(s, id) == Retain(s, {i \in DOMAIN s : s[i].id # id})
Mapped(s, F(_)) == [i \in DOMAIN s |-> F(s[i])]

-----------------------------------------------------------------------------
MutAutoLayout(def) ==
    LET layer   == Layer(def, Drawn(def))
        reached == layer[Len(def.nodes)]
        depth   == [id \in reached |->
                        CHOOSE k \in DOMAIN layer : id \in layer[k] /\ \A j \in 0 .. k - 1 : id \notin layer[j]]
        deepest == CHOOSE k \in DOMAIN layer :
                        /\ \A id \in reached : depth[id] <= k
                        /\ k = 0 \/ \E id \in reached : depth[id] = k
        loose   == {i \in DOMAIN def.nodes : def.nodes[i].kind # "End" /\ def.nodes[i].id \notin reached}
        before(id) == Cardinality({i \in loose : i < IndexOf(def.nodes, id)})
    IN  [id \in Ids(def.nodes) |->
            CASE Find(def.nodes, id).kind = "End" -> deepest + Cardinality(loose)
              [] Find(def.nodes, id).kind # "End" /\ id \in reached -> depth[id]
              [] OTHER -> deepest + 1 + before(id)]

(* auto_layout: breadth-first rows from Start, then the unreached nodes one *)
(* row each in document order, and every End on the row below them all.    *)
AutoLayout(def) ==
    LET layer   == Layer(def, Drawn(def))
        reached == layer[Len(def.nodes)]
        depth   == [id \in reached |->
                        CHOOSE k \in DOMAIN layer : id \in layer[k] /\ \A j \in 0 .. k - 1 : id \notin layer[j]]
        deepest == CHOOSE k \in DOMAIN layer :
                        /\ \A id \in reached : depth[id] <= k
                        /\ k = 0 \/ \E id \in reached : depth[id] = k
        loose   == {i \in DOMAIN def.nodes : def.nodes[i].kind # "End" /\ def.nodes[i].id \notin reached}
        before(id) == Cardinality({i \in loose : i < IndexOf(def.nodes, id)})
    IN  [id \in Ids(def.nodes) |->
            CASE Find(def.nodes, id).kind = "End" -> deepest + Cardinality(loose) + 1
              [] Find(def.nodes, id).kind # "End" /\ id \in reached -> depth[id]
              [] OTHER -> deepest + 1 + before(id)]

Arrange(d) == [d EXCEPT !.positions = AutoLayout(d.definition)]

(* EditorDocument::new and from_yaml: duplicate identifiers are refused,   *)
(* an incomplete draft is not; saved coordinates of known nodes are kept.  *)
CanOpen(def) ==
    /\ Unique(def.nodes) /\ Unique(def.forms) /\ Unique(def.signals) /\ Unique(def.escalations)

Open(def, uuid, saved) ==
    LET rows == AutoLayout(def)
    IN  [definition |-> def, uuid |-> uuid,
         positions |-> [id \in DOMAIN rows |-> IF id \in DOMAIN saved THEN saved[id] ELSE rows[id]]]

NewNode(id, kind) ==
    [id |-> id, kind |-> kind, next |-> None, branches |-> <<>>, on_error |-> None,
     compensate |-> None, on_timeout |-> None, waits |-> None, form |-> None,
     handler |-> None, topic |-> None, stage |-> None, computable |-> TRUE]

Unused(S, s) == S \ Ids(s)
Fresh(S, s) == CHOOSE id \in Unused(S, s) : TRUE

(* add_block: one Start at most; a task that waits brings its own signal   *)
(* and, for a user task, its own form.                                     *)
CanAddBlock(d, kind) ==
    /\ kind = "Start" => Starts(d.definition) = {}
    /\ Unused(NodeId, d.definition.nodes) # {}
    /\ kind \in {"UserTask", "Wait"} => Unused(SignalId, d.definition.signals) # {}
    /\ kind = "UserTask" => Unused(FormId, d.definition.forms) # {}

AddedId(d) == Fresh(NodeId, d.definition.nodes)

AddBlock(d, kind, place) ==
    LET def    == d.definition
        signal == Fresh(SignalId, def.signals)
        form   == Fresh(FormId, def.forms)
        blank  == NewNode(AddedId(d), kind)
        ends   == {i \in DOMAIN def.nodes : def.nodes[i].kind = "End"}
        node   == CASE kind = "Start" -> [blank EXCEPT !.next = IF ends = {} THEN FinishId
                                                                   ELSE def.nodes[CHOOSE i \in ends : \A j \in ends : i <= j].id]
                    [] kind = "ServiceTask" -> [blank EXCEPT !.handler = "configure_handler"]
                    [] kind = "Wait" -> [blank EXCEPT !.waits = {signal}]
                    [] kind = "UserTask" -> [blank EXCEPT !.waits = {signal}, !.form = form]
                    [] OTHER -> blank
    IN  [d EXCEPT !.definition.nodes = Append(@, node),
                  !.definition.signals = IF kind \in {"UserTask", "Wait"} THEN Append(@, [id |-> signal]) ELSE @,
                  !.definition.forms = IF kind = "UserTask" THEN Append(@, [id |-> form, roles |-> 0]) ELSE @,
                  !.positions = [id \in DOMAIN @ \cup {node.id} |-> IF id = node.id THEN place ELSE @[id]]]

MoveNode(d, id, place) ==
    IF id \in Ids(d.definition.nodes)
    THEN [d EXCEPT !.positions = [n \in DOMAIN @ \cup {id} |-> IF n = id THEN place ELSE @[n]]]
    ELSE d

-----------------------------------------------------------------------------
(* replace_value and update_node_yaml: identifier and kind stay.           *)
CanReplace(d, id, node) ==
    /\ id \in Ids(d.definition.nodes)
    /\ node.id = id
    /\ node.kind = NodeOf(d, id).kind

Replace(d, id, node) == WithNodes(d, Replaced(d.definition.nodes, id, node))

(* connect: a condition appends a branch, none sets the default successor. *)
CanConnect(d, source, target, when) ==
    /\ {source, target} \subseteq Ids(d.definition.nodes)
    /\ NodeOf(d, target).kind # "Start"
    /\ NodeOf(d, source).kind # "End"
    /\ when # None => NodeOf(d, source).kind # "Start"

Connect(d, source, target, when) ==
    Replace(d, source,
            IF when = None
            THEN [NodeOf(d, source) EXCEPT !.next = target]
            ELSE [NodeOf(d, source) EXCEPT !.branches = Append(@, [when |-> when, next |-> target])])

(* disconnect: the route must still be there; a Start keeps its successor. *)
CanDisconnect(d, source, route) ==
    /\ source \in Ids(d.definition.nodes)
    /\ NodeOf(d, source).kind # "Start"
    /\ route \in Routes(NodeOf(d, source))

Dropped(s, i) == [k \in 1 .. Len(s) - 1 |-> IF k < i THEN s[k] ELSE s[k + 1]]

Disconnect(d, source, route) ==
    LET node == NodeOf(d, source)
    IN  Replace(d, source,
                CASE route.pointer = "branch" -> [node EXCEPT !.branches = Dropped(@, route.branch)]
                  [] route.pointer = "next" -> [node EXCEPT !.next = None]
                  [] route.pointer = "on_error" -> [node EXCEPT !.on_error = None]
                  [] route.pointer = "compensate" -> [node EXCEPT !.compensate = None]
                  [] OTHER -> [node EXCEPT !.on_timeout = None])

(* remove_node: refused while another node leads here.                     *)
CanRemoveNode(d, id) ==
    /\ id \in Ids(d.definition.nodes)
    /\ \A n \in Elements(d.definition.nodes) : id \in Targets(n) => n.id = id

MutRemoveNode(d, id) == [d EXCEPT !.definition.nodes = Without(@, id)]
RemoveNode(d, id) ==
    [d EXCEPT !.definition.nodes = Without(@, id),
              !.positions = [n \in DOMAIN @ \ {id} |-> @[n]]]

-----------------------------------------------------------------------------
(* save_node_settings: the block must still be what the form was filled    *)
(* from; a new identifier follows into every route and the coordinates.    *)
CanSaveNode(d, id, baseline, draft) ==
    /\ id \in Ids(d.definition.nodes)
    /\ NodeOf(d, id) = baseline
    /\ draft.kind = baseline.kind
    /\ draft.id # id => draft.id \notin Ids(d.definition.nodes)

MutRetarget(n, old, new) ==
    LET to(t) == IF t = old THEN new ELSE t
    IN  [n EXCEPT !.next = to(@), !.on_error = to(@), !.compensate = to(@),
                  !.branches = Mapped(@, LAMBDA b : [b EXCEPT !.next = to(@)])]
Retarget(n, old, new) ==
    LET to(t) == IF t = old THEN new ELSE t
    IN  [n EXCEPT !.next = to(@), !.on_error = to(@), !.compensate = to(@), !.on_timeout = to(@),
                  !.branches = Mapped(@, LAMBDA b : [b EXCEPT !.next = to(@)])]

SaveNode(d, id, draft) ==
    LET nodes == Replaced(d.definition.nodes, id, draft)
        moved == (DOMAIN d.positions \ {id}) \cup {draft.id}
    IN  IF draft.id = id
        THEN WithNodes(d, nodes)
        ELSE [WithNodes(d, Mapped(nodes, LAMBDA n : Retarget(n, id, draft.id))) EXCEPT
                 !.positions = [n \in moved |-> IF n = draft.id THEN @[id] ELSE @[n]]]

ProcessSettings(d) ==
    [key |-> d.definition.key, version |-> d.definition.version, active |-> d.definition.active,
     effective |-> d.definition.effective, deprecated |-> d.definition.deprecated,
     stages |-> d.definition.stages]

(* save_process_settings: a stage still assigned cannot be removed.        *)
CanSaveProcess(d, baseline, draft) ==
    /\ ProcessSettings(d) = baseline
    /\ Unique(draft.stages)
    /\ \A n \in Elements(d.definition.nodes) : n.stage # None => n.stage \in Ids(draft.stages)

SaveProcess(d, draft) ==
    [d EXCEPT !.definition = [f \in DOMAIN @ |-> IF f \in DOMAIN draft THEN draft[f] ELSE @[f]]]

-----------------------------------------------------------------------------
Declaration(d, kind, id) ==
    IF id \in Ids(d.definition[kind]) THEN Find(d.definition[kind], id) ELSE None

InCondition(n, signal) == \E b \in Elements(n.branches) : signal \in b.when

(* Typed references of a node to a declaration.                            *)
Refers(n, kind, id) ==
    CASE kind = "forms" -> n.form = id
      [] kind = "signals" -> n.waits # None /\ id \in n.waits
      [] kind = "escalations" -> n.handler = "create_support_ticket" /\ n.topic = id

DeclarationUses(d, kind, id) ==
    {<<"node", n.id>> : n \in {m \in Elements(d.definition.nodes) :
                                 Refers(m, kind, id) \/ (kind = "signals" /\ InCondition(m, id))}}
    \cup (IF kind # "signals" THEN {}
          ELSE {<<"escalation", e.id>> : e \in {f \in Elements(d.definition.escalations) :
                                                  \E a \in Elements(f.actions) : a.emit = id}})

(* rename_declaration_references; conditions are not rewritten.            *)
RenameInNode(n, kind, old, new) ==
    CASE kind = "forms" /\ Refers(n, kind, old) -> [n EXCEPT !.form = new]
      [] kind = "signals" /\ Refers(n, kind, old) -> [n EXCEPT !.waits = (@ \ {old}) \cup {new}]
      [] kind = "escalations" /\ Refers(n, kind, old) -> [n EXCEPT !.topic = new]
      [] OTHER -> n

RenameInTopic(e, old, new) ==
    [e EXCEPT !.actions = Mapped(@, LAMBDA a : IF a.emit = old THEN [a EXCEPT !.emit = new] ELSE a)]

RenameReferences(def, kind, old, new) ==
    [def EXCEPT !.nodes = Mapped(@, LAMBDA n : RenameInNode(n, kind, old, new)),
                !.escalations = IF kind = "signals" THEN Mapped(@, LAMBDA e : RenameInTopic(e, old, new)) ELSE @]

CanSaveDeclaration(d, kind, original, value) ==
    /\ original # None => original \in Ids(d.definition[kind])
    /\ value.id # original => value.id \notin Ids(d.definition[kind])
    /\ kind = "escalations" =>
         /\ Unique(value.actions)
         /\ \A a \in Elements(value.actions) : a.emit # None => a.emit \in Ids(d.definition.signals)
    /\ kind = "signals" /\ original \notin {None, value.id} =>
         \A n \in Elements(d.definition.nodes) : ~ InCondition(n, original)

SaveDeclaration(d, kind, original, value) ==
    LET saved == [d.definition EXCEPT ![kind] =
                     IF original = None THEN Append(@, value) ELSE Replaced(@, original, value)]
    IN  [d EXCEPT !.definition =
            IF original \in {None, value.id} THEN saved
            ELSE RenameReferences(saved, kind, original, value.id)]

CanRemoveDeclaration(d, kind, id) ==
    /\ id \in Ids(d.definition[kind])
    /\ DeclarationUses(d, kind, id) = {}

RemoveDeclaration(d, kind, id) == [d EXCEPT !.definition[kind] = Without(@, id)]

-----------------------------------------------------------------------------
(* prepare_publication: a later version of the same key, active at once,   *)
(* with a fresh identity, and only if it validates.                        *)
Prepared(d, version) ==
    Open([d.definition EXCEPT !.version = version, !.active = TRUE,
                              !.effective = None, !.deprecated = None],
         None, d.positions)

\* `base` is the key and version of the newest stored definition, or None.
CanPublish(d, base, version) ==
    /\ base # None => /\ d.definition.key = base.key
                      /\ version > base.version
    /\ CanOpen(d.definition)
    /\ Validate(Prepared(d, version).definition)
=============================================================================
