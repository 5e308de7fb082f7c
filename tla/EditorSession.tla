---------------------------- MODULE EditorSession ----------------------------
(***************************************************************************)
(* One mounted ProcessEditor (editor/components.rs and its settings and    *)
(* declaration panels, and EditorState in document.rs): the document with  *)
(* its undo history, the selection, a connection or a drag under way, the  *)
(* unapplied forms, and what the host saves and publishes.                 *)
(*                                                                         *)
(* An action is a browser event with its whole handler and the reactive    *)
(* effects it triggers, which run before the next event: a clean form      *)
(* follows the document, a form with unapplied changes is kept, and a      *)
(* change of selection mounts a new block form.  A refused edit changes    *)
(* nothing but the message, which is left out with the view state (zoom,   *)
(* tabs, search).                                                          *)
(***************************************************************************)
EXTENDS EditorDocument

CONSTANTS
    Initial,          \* the documents the editor may be mounted with
    Imports,          \* the definitions a user may import
    RequireApplied,   \* require_applied_changes
    HistoryLimit,     \* undo steps kept (100 in the code)
    AddKinds, Places, NodeFields, HostFields, ProcessFields, PanelKinds, Conditions,
                      \* the inputs explored: blocks, coordinates, form fields
    MaxVersion,       \* bound: versions a host publishes
    MaxPending,       \* bound: forms with unapplied changes at a time
    Activities        \* bound: the groups of events that occur in one
                      \* behaviour, and how many history entries it makes

(* The editor is mounted with documents EditorDocument::new accepts.       *)
ASSUME EditorTypes ==
    /\ HistoryLimit \in Nat \ {0} /\ MaxVersion \in Nat /\ FinishId \in NodeId
    /\ \A d \in Initial : Document(d) /\ CanOpen(d.definition)
    /\ Imports \subseteq Definition
    /\ AddKinds \subseteq BlockKind /\ PanelKinds \subseteq DeclarationKind
    /\ Places \subseteq Nat /\ Conditions \subseteq SUBSET SignalId
    /\ NodeFields \cup HostFields \subseteq {"id", "next", "on_timeout", "on_error", "waits", "form", "ticket", "stage"}
    /\ ProcessFields \subseteq {"stages", "dates"}

VARIABLES doc, past, future, selected, connecting, drag,
          nodeForm, processForm, panel, published, edits, activity

history == <<doc, past, future, edits>>
forms == <<nodeForm, processForm, panel>>
editorVars == <<history, selected, connecting, drag, forms, published, activity>>

-----------------------------------------------------------------------------
(* Forms: the draft the user types into and the settings it started from.  *)
NoForm == [id |-> None, draft |-> None, baseline |-> None]
Filled(id, value) == [id |-> id, draft |-> value, baseline |-> value]
Dirty(f) == f.draft # f.baseline

NodeFormFor(d, id) == IF id = None THEN NoForm ELSE Filled(id, NodeOf(d, id))
ProcessFormFor(d) == Filled("process", ProcessSettings(d))

ClosedPanel == [editing |-> FALSE, original |-> None, draft |-> None, baseline |-> None]
PanelFor(d, kind, id) ==
    [editing |-> TRUE, original |-> id, draft |-> Declaration(d, kind, id), baseline |-> Declaration(d, kind, id)]

NewDeclaration(d, kind) ==
    CASE kind = "forms" -> [id |-> Fresh(FormId, d.definition.forms), roles |-> 0]
      [] kind = "signals" -> [id |-> Fresh(SignalId, d.definition.signals)]
      [] kind = "escalations" -> [id |-> Fresh(TopicId, d.definition.escalations), actions |-> <<>>]

CanAddDeclaration(d, kind) ==
    LET pool == CASE kind = "forms" -> FormId [] kind = "signals" -> SignalId [] kind = "escalations" -> TopicId
    IN  Unused(pool, d.definition[kind]) # {}

PanelDirty(p) == p.editing /\ p.draft # p.baseline

(* The effects that keep clean forms up to date with the document.         *)
RefreshNode(d, sel, f) == IF sel = f.id /\ Dirty(f) THEN f ELSE NodeFormFor(d, sel)
RefreshProcess(d, f) == IF Dirty(f) THEN f ELSE ProcessFormFor(d)
RefreshPanel(d, kind, p) ==
    CASE p.original = None -> p
      [] p.original # None /\ Declaration(d, kind, p.original) = None -> ClosedPanel
      [] OTHER -> IF p.draft = p.baseline
                  THEN [p EXCEPT !.draft = Declaration(d, kind, p.original),
                                 !.baseline = Declaration(d, kind, p.original)]
                  ELSE p

Settle(nf, pf, pn) ==
    /\ nodeForm' = RefreshNode(doc', selected', nf)
    /\ processForm' = RefreshProcess(doc', pf)
    /\ panel' = [k \in DeclarationKind |-> RefreshPanel(doc', k, pn[k])]

SettleForms == Settle(nodeForm, processForm, panel)

(* pending_forms, and guard_node_change.                                   *)
PendingForms ==
    (IF Dirty(nodeForm) THEN {"node"} ELSE {}) \cup (IF Dirty(processForm) THEN {"process"} ELSE {})
    \cup {k \in DeclarationKind : PanelDirty(panel[k])}

CanType(form) == Cardinality(PendingForms \ {form}) < MaxPending
NodeChangeGuarded == RequireApplied /\ Dirty(nodeForm)
Blocked == RequireApplied /\ PendingForms # {}

-----------------------------------------------------------------------------
(* EditorState.                                                            *)
Push(h, d) == IF Len(h) = HistoryLimit THEN Append(Tail(h), d) ELSE Append(h, d)

Checkpoint ==
    /\ edits < activity.edits
    /\ edits' = edits + 1
    /\ past' = Push(past, doc)
    /\ future' = <<>>

Edit(next) == Checkpoint /\ doc' = next

Front(s) == SubSeq(s, 1, Len(s) - 1)
Top(s) == s[Len(s)]

Undo ==
    /\ past # <<>>
    /\ doc' = Top(past)
    /\ past' = Front(past)
    /\ future' = Append(future, doc)
    /\ UNCHANGED <<edits, selected, connecting, drag, published>>
    /\ SettleForms

MutRedo ==
    /\ future # <<>>
    /\ doc' = Top(future)
    /\ future' = Front(future)
    /\ UNCHANGED <<past, edits, selected, connecting, drag, published>>
    /\ SettleForms
Redo ==
    /\ future # <<>>
    /\ doc' = Top(future)
    /\ future' = Front(future)
    /\ past' = Append(past, doc)
    /\ UNCHANGED <<edits, selected, connecting, drag, published>>
    /\ SettleForms

-----------------------------------------------------------------------------
(* The canvas.                                                             *)
AddBlockAt(kind, place) ==
    /\ ~ NodeChangeGuarded
    /\ CanAddBlock(doc, kind)
    /\ Edit(AddBlock(doc, kind, place))
    /\ selected' = AddedId(doc)
    /\ UNCHANGED <<connecting, drag, published>>
    /\ SettleForms

(* select: while connecting, the selection is the destination.             *)
Select(id) ==
    /\ id \in Ids(doc.definition.nodes)
    /\ id # selected => ~ NodeChangeGuarded
    /\ IF connecting # None /\ CanConnect(doc, connecting, id, None)
       THEN Edit(Connect(doc, connecting, id, None))
       ELSE UNCHANGED history
    /\ connecting' = None
    /\ selected' = id
    /\ UNCHANGED <<drag, published>>
    /\ SettleForms

(* The outgoing port sets the selection without asking for the guard.      *)
OutPort(id) ==
    /\ id \in Ids(doc.definition.nodes)
    /\ NodeOf(doc, id).kind # "End"
    /\ selected' = id
    /\ connecting' = id
    /\ UNCHANGED <<history, drag, published>>
    /\ SettleForms

Escape ==
    /\ connecting # None
    /\ connecting' = None
    /\ UNCHANGED <<history, selected, drag, forms, published>>

(* A drag records one history entry when it starts; its moves do not.      *)
StartDrag(id) ==
    /\ id \in Ids(doc.definition.nodes)
    /\ connecting = None
    /\ id # selected => ~ NodeChangeGuarded
    /\ Checkpoint
    /\ selected' = id
    /\ drag' = id
    /\ UNCHANGED doc
    /\ UNCHANGED <<connecting, published>>
    /\ SettleForms

DragMove(place) ==
    /\ drag # None
    /\ doc' = MoveNode(doc, drag, place)
    /\ UNCHANGED <<past, future, edits, selected, connecting, drag, forms, published>>

EndDrag ==
    /\ drag # None
    /\ drag' = None
    /\ UNCHANGED <<history, selected, connecting, forms, published>>

NudgeOrArrange ==
    /\ \/ Edit(Arrange(doc))
       \/ \E id \in Ids(doc.definition.nodes), place \in Places : Edit(MoveNode(doc, id, place))
    /\ UNCHANGED <<selected, connecting, drag, published>>
    /\ SettleForms

(* The YAML panel replaces the whole document as one edit.                 *)
Import(def) ==
    /\ ~ Blocked
    /\ CanOpen(def)
    /\ Edit(Open(def, None, <<>>))
    /\ selected' = None
    /\ connecting' = None
    /\ UNCHANGED <<drag, published>>
    /\ SettleForms

-----------------------------------------------------------------------------
(* Block and process settings.  A select offers what the document has now; *)
(* an identifier is typed.  The drafts explored differ from what the form  *)
(* was filled with in one field.                                           *)
NodeChoices(n, d) ==
    LET others == Ids(d.definition.nodes)
        waiting == n.kind \in {"UserTask", "Wait"}
        fallible == n.kind \in {"UserTask", "ServiceTask"}
    IN  [id |-> {[n EXCEPT !.id = x] : x \in NodeId},
         next |-> IF n.kind = "End" THEN {} ELSE {[n EXCEPT !.next = x] : x \in others},
         on_timeout |-> IF waiting THEN {[n EXCEPT !.on_timeout = x] : x \in others} ELSE {},
         on_error |-> IF fallible THEN {[n EXCEPT !.on_error = x] : x \in others} ELSE {},
         waits |-> IF waiting THEN {[n EXCEPT !.waits = S] : S \in SUBSET Ids(d.definition.signals)} ELSE {},
         form |-> IF n.kind = "UserTask" THEN {[n EXCEPT !.form = x] : x \in Ids(d.definition.forms)} ELSE {},
         ticket |-> IF n.kind # "ServiceTask" THEN {}
                    ELSE {[n EXCEPT !.handler = "create_support_ticket", !.topic = x] :
                             x \in Ids(d.definition.escalations)},
         stage |-> {[n EXCEPT !.stage = x] : x \in Ids(d.definition.stages)}]

(* Operations a host applies to the shared state: conditional routes,      *)
(* disconnecting, replacing a block's settings from YAML.                  *)
HostEdit ==
    /\ \E id \in Ids(doc.definition.nodes) :
        \/ \E target \in Ids(doc.definition.nodes), when \in Conditions :
              CanConnect(doc, id, target, when) /\ Edit(Connect(doc, id, target, when))
        \/ \E route \in Routes(NodeOf(doc, id)) :
              CanDisconnect(doc, id, route) /\ Edit(Disconnect(doc, id, route))
        \/ \E f \in HostFields : \E node \in NodeChoices(NodeOf(doc, id), doc)[f] :
              CanReplace(doc, id, node) /\ Edit(Replace(doc, id, node))
    /\ UNCHANGED <<selected, connecting, drag, published>>
    /\ SettleForms

TypeNode ==
    /\ nodeForm.draft # None
    /\ CanType("node")
    /\ \E f \in NodeFields : \E draft \in NodeChoices(nodeForm.baseline, doc)[f] :
           nodeForm' = [nodeForm EXCEPT !.draft = draft]
    /\ UNCHANGED <<history, selected, connecting, drag, processForm, panel, published>>

\* A clean form equals its settings already: reloading it changes nothing.
ReloadNode ==
    /\ Dirty(nodeForm)
    /\ nodeForm' = NodeFormFor(doc, nodeForm.id)
    /\ UNCHANGED <<history, selected, connecting, drag, processForm, panel, published>>

(* Apply does not ask whether the form was changed: a clean one is saved   *)
(* too, as an edit of its own that changes nothing.                        *)
ApplyNode ==
    /\ nodeForm.draft # None
    /\ CanSaveNode(doc, nodeForm.id, nodeForm.baseline, nodeForm.draft)
    /\ Edit(SaveNode(doc, nodeForm.id, nodeForm.draft))
    /\ selected' = nodeForm.draft.id
    /\ Settle(NodeFormFor(doc', selected'), processForm, panel)
    /\ UNCHANGED <<connecting, drag, published>>

(* Delete block: a block that is already gone only clears the selection.   *)
DeleteBlock ==
    /\ selected # None
    /\ IF selected \in Ids(doc.definition.nodes)
       THEN CanRemoveNode(doc, selected) /\ Edit(RemoveNode(doc, selected))
       ELSE UNCHANGED history
    /\ selected' = None
    /\ UNCHANGED <<connecting, drag, published>>
    /\ SettleForms

ProcessChoices(p) ==
    [stages |-> {[p EXCEPT !.stages = Without(p.stages, id)] : id \in Ids(p.stages)}
                \cup {[p EXCEPT !.stages = Append(@, [id |-> id, initial |-> FALSE])] : id \in StageId},
     dates |-> {[p EXCEPT !.effective = 1, !.deprecated = t] : t \in {1, 2}}]

TypeProcess ==
    /\ CanType("process")
    /\ \E f \in ProcessFields : \E draft \in ProcessChoices(processForm.baseline)[f] :
           processForm' = [processForm EXCEPT !.draft = draft]
    /\ UNCHANGED <<history, selected, connecting, drag, nodeForm, panel, published>>

ReloadProcess ==
    /\ Dirty(processForm)
    /\ processForm' = ProcessFormFor(doc)
    /\ UNCHANGED <<history, selected, connecting, drag, nodeForm, panel, published>>

ApplyProcess ==
    /\ CanSaveProcess(doc, processForm.baseline, processForm.draft)
    /\ Edit(SaveProcess(doc, processForm.draft))
    /\ UNCHANGED <<selected, connecting, drag, published>>
    /\ Settle(nodeForm, ProcessFormFor(doc'), panel)

-----------------------------------------------------------------------------
(* Declaration panels.                                                     *)
PanelGuarded(p) == RequireApplied /\ PanelDirty(p)
PanelOnly(kind, p) ==
    /\ panel' = [panel EXCEPT ![kind] = RefreshPanel(doc, kind, p)]
    /\ UNCHANGED <<history, selected, connecting, drag, nodeForm, processForm, published>>

OpenDeclaration(kind) ==
    /\ ~ PanelGuarded(panel[kind])
    /\ \/ \E id \in Ids(doc.definition[kind]) : PanelOnly(kind, PanelFor(doc, kind, id))
       \/ /\ CanAddDeclaration(doc, kind) /\ CanType(kind)
          /\ PanelOnly(kind, [editing |-> TRUE, original |-> None, draft |-> NewDeclaration(doc, kind), baseline |-> None])

DeclarationChoices(kind, v, d) ==
    CASE kind = "forms" -> {[v EXCEPT !.id = x] : x \in FormId} \cup {[v EXCEPT !.roles = 1 - @]}
      [] kind = "signals" -> {[v EXCEPT !.id = x] : x \in SignalId}
      [] kind = "escalations" ->
            {[v EXCEPT !.id = x] : x \in TopicId}
            \cup {[v EXCEPT !.actions = <<[id |-> a, emit |-> s]>>] :
                     a \in ActionId, s \in Ids(d.definition.signals)}

TypeDeclaration(kind) ==
    /\ panel[kind].editing
    /\ CanType(kind)
    /\ \E draft \in DeclarationChoices(kind, IF panel[kind].baseline = None THEN panel[kind].draft
                                             ELSE panel[kind].baseline, doc) :
           PanelOnly(kind, [panel[kind] EXCEPT !.draft = draft])

CancelDeclaration(kind) ==
    /\ panel[kind].editing
    /\ PanelOnly(kind, ClosedPanel)

(* Apply, then load the saved declaration: the load asks guard_pending,    *)
(* whose draft and baseline are still those of the form being applied.     *)
ApplyDeclaration(kind) ==
    LET p == panel[kind] IN
    /\ p.editing
    /\ p.original # None => Declaration(doc, kind, p.original) = p.baseline
    /\ CanSaveDeclaration(doc, kind, p.original, p.draft)
    /\ Edit(SaveDeclaration(doc, kind, p.original, p.draft))
    /\ UNCHANGED <<selected, connecting, drag, published>>
    /\ Settle(nodeForm, processForm,
              IF PanelGuarded(p) THEN panel
              ELSE [panel EXCEPT ![kind] = PanelFor(doc', kind, p.draft.id)])

DeleteDeclaration(kind) ==
    /\ panel[kind].original # None
    /\ CanRemoveDeclaration(doc, kind, panel[kind].original)
    /\ Edit(RemoveDeclaration(doc, kind, panel[kind].original))
    /\ UNCHANGED <<selected, connecting, drag, published>>
    /\ Settle(nodeForm, processForm,
              [panel EXCEPT ![kind] = ClosedPanel])

-----------------------------------------------------------------------------
(* Save hands the document to the host, which publishes it as the next     *)
(* version of the newest one it has (`published` is its key and version).  *)
Publish(version) ==
    /\ ~ Blocked
    /\ CanPublish(doc, published, version)
    /\ published' = [key |-> doc.definition.key, version |-> version]
    /\ UNCHANGED <<history, selected, connecting, drag, forms>>

EditorInit ==
    /\ doc \in Initial
    /\ past = <<>> /\ future = <<>> /\ edits = 0
    /\ activity \in Activities
    /\ selected = None /\ connecting = None /\ drag = None
    /\ nodeForm = NoForm
    /\ processForm = ProcessFormFor(doc)
    /\ panel = [k \in DeclarationKind |-> ClosedPanel]
    /\ published = IF doc.uuid = None THEN None
                   ELSE [key |-> doc.definition.key, version |-> doc.definition.version]

Canvas ==
    \/ Escape \/ EndDrag \/ NudgeOrArrange \/ DeleteBlock
    \/ \E kind \in AddKinds, place \in Places : AddBlockAt(kind, place)
    \/ \E id \in NodeId : OutPort(id) \/ StartDrag(id)
    \/ \E place \in Places : DragMove(place)
Host == HostEdit \/ \E def \in Imports : Import(def)
Settings == TypeNode \/ ReloadNode \/ ApplyNode \/ TypeProcess \/ ReloadProcess \/ ApplyProcess
Declarations ==
    \E kind \in PanelKinds :
        OpenDeclaration(kind) \/ TypeDeclaration(kind) \/ CancelDeclaration(kind)
        \/ ApplyDeclaration(kind) \/ DeleteDeclaration(kind)

EditorNext ==
    /\ UNCHANGED activity
    /\ \/ Undo \/ Redo \/ \E id \in NodeId : Select(id)
       \/ "canvas" \in activity.groups /\ Canvas
       \/ "host" \in activity.groups /\ Host
       \/ "settings" \in activity.groups /\ Settings
       \/ "declarations" \in activity.groups /\ Declarations
       \/ "publish" \in activity.groups /\ \E version \in 1 .. MaxVersion : Publish(version)

EditorSpec == EditorInit /\ [][EditorNext]_editorVars
-----------------------------------------------------------------------------
DocumentOK(d) ==
    /\ CanOpen(d.definition)
    /\ DOMAIN d.positions = Ids(d.definition.nodes)

History == {doc} \cup Elements(past) \cup Elements(future)

(* Identifiers stay unique and every block keeps exactly one coordinate in *)
(* the current document and in every document undo or redo can bring back. *)
DocumentsAreSound == \A d \in History : DocumentOK(d)

(* Redo does not check the limit itself; still the history never outgrows  *)
(* it.                                                                     *)
HistoryIsBounded == Len(past) + Len(future) <= HistoryLimit

EditorInv == DocumentsAreSound /\ HistoryIsBounded

(* While nothing has been dropped from the history, undoing everything     *)
(* leads back to the definition the editor was mounted with, whatever was  *)
(* edited, dragged, undone, redone or imported in between.  Coordinates    *)
(* are left out: a drag that goes on across an undo moves a block of the   *)
(* restored document without a history entry.                              *)
Oldest == IF past = <<>> THEN doc ELSE past[1]
UndoReachesTheStart ==
    edits <= HistoryLimit => \E d \in Initial : Oldest.definition = d.definition

(* What the parts of a definition refer to, and what it does not declare.  *)
NodeReferences(n) ==
    {<<"nodes", t>> : t \in Targets(n)} \cup {<<"stages", t>> : t \in {n.stage} \ {None}}
    \cup {<<"signals", t>> : t \in IF n.waits = None THEN {} ELSE n.waits}
    \cup {<<"forms", t>> : t \in {n.form} \ {None}}
    \cup {<<"escalations", t>> : t \in {n.topic} \ {None}}

References(def) ==
    (UNION {{[owner |-> <<"nodes", n.id>>, to |-> t] : t \in NodeReferences(n)} : n \in Elements(def.nodes)})
    \cup (UNION {{[owner |-> <<"escalations", e.id>>, to |-> <<"signals", a.emit>>] :
                    a \in {b \in Elements(e.actions) : b.emit # None}} : e \in Elements(def.escalations)})

Stranded(def) == {r \in References(def) : r.to[2] \notin Ids(def[r.to[1]])}

(* An edit never leaves a reference pointing at nothing that pointed at    *)
(* something before, nor any new one, except in the block whose own form   *)
(* is applied or replaced (a form may be older than the document) and in a *)
(* block just added: deletions are refused and renames follow every        *)
(* reference, whatever forms are open and whatever was undone meanwhile.   *)
Retyped == {<<"nodes", nodeForm'.id>>} \cup
           {<<"nodes", id>> : id \in {n.id : n \in Elements(doc'.definition.nodes) \ Elements(doc.definition.nodes)}
                                      \ Ids(doc.definition.nodes)}
NoEditStrands ==
    [][(edits' # edits /\ doc'.definition \notin Imports) =>
          \A r \in Stranded(doc'.definition) \ Stranded(doc.definition) : r.owner \in Retyped]_editorVars

(* A publication moves the key to a later version, keeps the nodes, the    *)
(* declarations and the coordinates of the document that was saved, and    *)
(* whatever the engine can reach from its Start exists and can be left: no *)
(* missing node, no wait nobody can end, no undeclared form, topic, stage  *)
(* or signal.                                                              *)
Runnable(def) ==
    /\ \E n \in Elements(def.nodes) : Starts(def) = {n}
    /\ \A n \in Elements(def.nodes) : n.id \in Reached(def, Drawn(def)) =>
          /\ \A t \in NodeReferences(n) : t[2] \in Ids(def[t[1]])
          /\ n.kind = "Wait" => n.waits # {}
PublishedIsRunnable ==
    [][published' # published =>
          LET new == Prepared(doc, published'.version) IN
          /\ Runnable(new.definition)
          /\ published # None => /\ new.definition.key = published.key
                                 /\ new.definition.version > published.version
          /\ \A f \in {"nodes", "stages"} \cup DeclarationKind : new.definition[f] = doc.definition[f]
          /\ new.positions = doc.positions]_editorVars

(* The worklists compute what they stand for.  unreachable_nodes leaves    *)
(* out exactly the least set that holds the Start and all the engine may   *)
(* follow from it; in the automatic layout no End is beside or above       *)
(* another block, no route of a reached block skips a row downwards, and   *)
(* every reached block has a predecessor on the row above it.              *)
Closed(def, S) ==
    (Ids(def.nodes) \cap (UNION {NodeTargets(n) : n \in {m \in Elements(def.nodes) : m.id \in S}})) \subseteq S
GraphIsExact ==
    edits > 0 =>
    LET def  == doc.definition
        ids  == Ids(def.nodes)
        starts == {n.id : n \in Starts(def)}
        row  == AutoLayout(def)
        inner == Reached(def, Drawn(def)) \ {n.id : n \in Ends(def)}
    IN  /\ ids \ UnreachableNodes(def) =
               {id \in ids : \A S \in SUBSET ids : starts \subseteq S /\ Closed(def, S) => id \in S}
        /\ \A n \in Ends(def), id \in ids \ {m.id : m \in Ends(def)} : row[id] < row[n.id]
        /\ \A id \in inner :
              /\ \A t \in Targets(NodeOf(doc, id)) \cap inner : row[t] <= row[id] + 1
              /\ id \in starts \/ \E n \in Elements(def.nodes) :
                                    n.id \in Reached(def, Drawn(def)) /\ id \in Targets(n) /\ row[n.id] + 1 = row[id]
=============================================================================
