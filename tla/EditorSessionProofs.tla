------------------------- MODULE EditorSessionProofs -------------------------
(***************************************************************************)
(* The editor, for any definitions, forms, identifiers and history limit:  *)
(* its documents stay sound through every edit, drag, undo, redo and       *)
(* import; undoing everything leads back to the start; what is published   *)
(* can run; no edit strands a reference; and the two worklist algorithms,  *)
(* unreachable_nodes and auto_layout, compute what they stand for.         *)
(*                                                                         *)
(* The parts, in order: sequences of declarations and the edits of a       *)
(* document; the inductive invariant EditorIInv; publication; references   *)
(* and what an edit does to them; the worklists.                           *)
(***************************************************************************)
EXTENDS EditorSession, RetentionProofs, FiniteSetTheorems, SequenceTheorems, TLAPS

-----------------------------------------------------------------------------
(* Sequences of declarations.                                              *)
LEMMA SeqFacts ==
    ASSUME NEW S, NEW s \in Seq(S)
    PROVE  /\ Len(s) \in Nat /\ DOMAIN s = 1 .. Len(s) /\ \A i \in DOMAIN s : s[i] \in S
           /\ \A e \in Elements(s) : e \in S /\ e.id \in Ids(s)
           /\ \A id \in Ids(s) : \E e \in Elements(s) : e.id = id
           /\ Ids(s) = {e.id : e \in Elements(s)}
BY DEF Elements, Ids

(* find() gives the first element with an identifier.                      *)
LEMMA FindFacts ==
    ASSUME NEW S, NEW s \in Seq(S), NEW id \in Ids(s)
    PROVE  /\ IndexOf(s, id) \in DOMAIN s /\ s[IndexOf(s, id)].id = id
           /\ Find(s, id) \in S /\ Find(s, id) \in Elements(s) /\ Find(s, id).id = id
           /\ Unique(s) => /\ \A i \in DOMAIN s : s[i].id = id => i = IndexOf(s, id)
                           /\ \A e \in Elements(s) : e.id = id => e = Find(s, id)
<1> DEFINE H == {i \in DOMAIN s : s[i].id = id}
<1>1. DOMAIN s \subseteq Nat /\ DOMAIN s = 1 .. Len(s) /\ Len(s) \in Nat
  OBVIOUS
<1>2. H \in SUBSET Nat /\ H # {}
  BY <1>1 DEF Ids
<1>3. PICK i \in H : \A j \in H : i <= j
  BY <1>2, LeastNat
<1>4. i \in DOMAIN s /\ s[i].id = id /\ \A j \in 1 .. i - 1 : s[j].id # id
  <2> SUFFICES ASSUME NEW j \in 1 .. i - 1, s[j].id = id PROVE FALSE
    OBVIOUS
  <2>1. j \in DOMAIN s /\ i \in Nat /\ j \in Nat
    BY <1>1
  <2>2. i <= j
    BY <1>3, <2>1
  <2> QED
    BY <2>1, <2>2
<1>5. IndexOf(s, id) \in DOMAIN s /\ s[IndexOf(s, id)].id = id
  BY <1>4 DEF IndexOf
<1> QED
  BY <1>5 DEF Find, Elements, Unique

(* What an operation makes of a sequence: `t` has the elements of `s` that *)
(* are kept, and those that are added.                                     *)
LEMMA ReplacedFacts ==
    ASSUME NEW S, NEW s \in Seq(S), NEW id \in Ids(s), NEW value \in S, Unique(s),
           value.id = id \/ value.id \notin Ids(s)
    PROVE  /\ Replaced(s, id, value) \in Seq(S) /\ Unique(Replaced(s, id, value))
           /\ Ids(Replaced(s, id, value)) = (Ids(s) \ {id}) \cup {value.id}
           /\ Elements(Replaced(s, id, value)) = {e \in Elements(s) : e.id # id} \cup {value}
           /\ Len(Replaced(s, id, value)) = Len(s)
<1> DEFINE k == IndexOf(s, id)
           t == Replaced(s, id, value)
<1>1. k \in DOMAIN s /\ s[k].id = id /\ \A i \in DOMAIN s : s[i].id = id => i = k
  BY FindFacts
<1>2. t = [s EXCEPT ![k] = value]
  BY DEF Replaced
<1>3. DOMAIN t = DOMAIN s /\ t[k] = value /\ \A i \in DOMAIN s : i # k => t[i] = s[i] /\ s[i].id # id
  BY <1>1, <1>2
<1>4. t \in Seq(S) /\ Len(t) = Len(s)
  BY <1>1, <1>2
<1> HIDE DEF t, k
<1>5. Unique(t)
  <2> SUFFICES ASSUME NEW i \in DOMAIN s, NEW j \in DOMAIN s, t[i].id = t[j].id PROVE i = j
    BY <1>3 DEF Unique
  <2>1. CASE i = k \/ j = k
    BY <1>1, <1>3, <2>1 DEF Ids
  <2>2. CASE i # k /\ j # k
    BY <1>3, <2>2 DEF Unique
  <2> QED
    BY <2>1, <2>2
<1>6. Elements(t) = {e \in Elements(s) : e.id # id} \cup {value}
  <2>1. ASSUME NEW e \in Elements(t) PROVE e \in {f \in Elements(s) : f.id # id} \cup {value}
    BY <1>1, <1>3 DEF Elements
  <2>2. ASSUME NEW e \in Elements(s), e.id # id PROVE e \in Elements(t)
    BY <1>1, <1>3, <2>2 DEF Elements
  <2>3. value \in Elements(t)
    BY <1>1, <1>3 DEF Elements
  <2> QED
    BY <2>1, <2>2, <2>3
<1>7. Ids(t) = (Ids(s) \ {id}) \cup {value.id}
  <2>1. Ids(t) = {e.id : e \in Elements(t)} /\ Ids(s) = {e.id : e \in Elements(s)}
    BY <1>4, SeqFacts
  <2> QED
    BY <1>6, <2>1
<1> QED
  BY <1>4, <1>5, <1>6, <1>7 DEF t

(* An element is appended under an identifier that is not in use.          *)
LEMMA AppendFacts ==
    ASSUME NEW S, NEW s \in Seq(S), NEW value \in S
    PROVE  /\ Append(s, value) \in Seq(S)
           /\ Len(Append(s, value)) = Len(s) + 1
           /\ Ids(Append(s, value)) = Ids(s) \cup {value.id}
           /\ Elements(Append(s, value)) = Elements(s) \cup {value}
           /\ Unique(s) /\ value.id \notin Ids(s) => Unique(Append(s, value))
<1> DEFINE t == Append(s, value)
           n == Len(s)
<1>1. n \in Nat /\ DOMAIN s = 1 .. n
  OBVIOUS
<1>2. /\ t \in Seq(S) /\ Len(t) = n + 1 /\ DOMAIN t = 1 .. n + 1
      /\ t[n + 1] = value /\ \A i \in 1 .. n : t[i] = s[i]
  OBVIOUS
<1> HIDE DEF t, n
<1>3. DOMAIN t = DOMAIN s \cup {n + 1} /\ n + 1 \notin DOMAIN s
  BY <1>1, <1>2
<1>4. Ids(t) = Ids(s) \cup {value.id} /\ Elements(t) = Elements(s) \cup {value}
  BY <1>1, <1>2, <1>3 DEF Ids, Elements
<1>5. ASSUME Unique(s), value.id \notin Ids(s) PROVE Unique(t)
  BY <1>1, <1>2, <1>3, <1>5 DEF Unique, Ids
<1> QED
  BY <1>2, <1>4, <1>5 DEF t, n

(* Removing the elements with an identifier (Vec::retain) removes exactly  *)
(* those.                                                                  *)
LEMMA WithoutFacts ==
    ASSUME NEW S, NEW s \in Seq(S), NEW id
    PROVE  /\ Without(s, id) \in Seq(S)
           /\ Elements(Without(s, id)) = {e \in Elements(s) : e.id # id}
           /\ Ids(Without(s, id)) = Ids(s) \ {id}
           /\ Unique(s) => Unique(Without(s, id))
<1> DEFINE keep == {i \in DOMAIN s : s[i].id # id}
           t == Retain(s, keep)
<1>1. t = Without(s, id)
  BY DEF Without
<1>2. t \in Seq(S) /\ KeptOf(t, s, keep)
  BY RetainFacts
<1> HIDE DEF t
<1>3. DOMAIN t \subseteq Nat
  BY <1>2
<1>4. Elements(t) = {e \in Elements(s) : e.id # id}
  <2>1. ASSUME NEW e \in Elements(t) PROVE e \in Elements(s) /\ e.id # id
    <3>1. PICK k \in DOMAIN t : e = t[k]
      BY DEF Elements
    <3>2. PICK i \in DOMAIN s \cap keep : t[k] = s[i]
      BY <1>2 DEF KeptOf
    <3> QED
      BY <3>1, <3>2 DEF Elements
  <2>2. ASSUME NEW e \in Elements(s), e.id # id PROVE e \in Elements(t)
    <3>1. PICK i \in DOMAIN s : e = s[i]
      BY DEF Elements
    <3>2. i \in DOMAIN s \cap keep
      BY <2>2, <3>1
    <3>3. PICK k \in DOMAIN t : t[k] = s[i]
      BY <1>2, <3>2 DEF KeptOf
    <3> QED
      BY <3>1, <3>3 DEF Elements
  <2> QED
    BY <2>1, <2>2
<1>5. Ids(t) = Ids(s) \ {id}
  <2>1. Ids(t) = {e.id : e \in Elements(t)} /\ Ids(s) = {e.id : e \in Elements(s)}
    BY <1>2, SeqFacts
  <2> QED
    BY <1>4, <2>1
<1>6. ASSUME Unique(s) PROVE Unique(t)
  <2>1. ASSUME NEW j \in DOMAIN t, NEW k \in DOMAIN t, j < k, t[j].id = t[k].id PROVE FALSE
    <3>1. \E h, i \in DOMAIN s \cap keep : h < i /\ t[j] = s[h] /\ t[k] = s[i]
      BY <1>2, <2>1 DEF KeptOf
    <3>2. PICK h \in DOMAIN s, i \in DOMAIN s : h < i /\ t[j] = s[h] /\ t[k] = s[i]
      BY <3>1
    <3>3. h = i
      BY <1>6, <2>1, <3>2 DEF Unique
    <3>4. h \in Nat
      OBVIOUS
    <3> QED
      BY <3>2, <3>3, <3>4
  <2> SUFFICES ASSUME NEW j \in DOMAIN t, NEW k \in DOMAIN t, t[j].id = t[k].id PROVE j = k
    BY DEF Unique
  <2>2. j \in Nat /\ k \in Nat
    BY <1>3
  <2> QED
    BY <2>1, <2>2
<1> QED
  BY <1>1, <1>2, <1>4, <1>5, <1>6

(* A sequence that is changed element by element, identifiers kept.        *)
LEMMA MappedFacts ==
    ASSUME NEW S, NEW s \in Seq(S), NEW T, NEW t, t = [i \in DOMAIN s |-> t[i]], \A i \in DOMAIN s : t[i] \in T
    PROVE  /\ t \in Seq(T) /\ DOMAIN t = DOMAIN s /\ Len(t) = Len(s)
           /\ (\A i \in DOMAIN s : t[i].id = s[i].id) => Ids(t) = Ids(s) /\ (Unique(s) => Unique(t))
<1>1. Len(s) \in Nat /\ DOMAIN s = 1 .. Len(s)
  OBVIOUS
<1>2. t \in [1 .. Len(s) -> T]
  BY <1>1
<1>3. t \in Seq(T) /\ DOMAIN t = DOMAIN s /\ Len(t) = Len(s)
  BY <1>1, <1>2
<1> QED
  BY <1>3 DEF Ids, Unique
-----------------------------------------------------------------------------
(* Definitions and their nodes.                                            *)
LEMMA DefinitionFields ==
    ASSUME NEW def \in Definition
    PROVE  /\ def.nodes \in Seq(Node) /\ def.signals \in Seq(SignalDef) /\ def.forms \in Seq(FormDef)
           /\ def.escalations \in Seq(EscalationDef) /\ def.stages \in Seq(StageDef)
           /\ def.key \in Key /\ def.version \in Nat /\ def.active \in BOOLEAN
           /\ def.effective \in Optional(Nat) /\ def.deprecated \in Optional(Nat)
           /\ DOMAIN def = {"key", "version", "active", "effective", "deprecated", "stages", "nodes",
                            "signals", "forms", "escalations"}
BY DEF Definition

(* The fields of a block.                                                  *)
LEMMA NodeFieldTypes ==
    ASSUME NEW n \in Node
    PROVE  /\ n \in Fields /\ OfItsKind(n)
           /\ n.id \in NodeId /\ n.kind \in BlockKind /\ n.next \in Optional(NodeId)
           /\ n.branches \in Seq(Branch) /\ n.on_error \in Optional(NodeId)
           /\ n.compensate \in Optional(NodeId) /\ n.on_timeout \in Optional(NodeId)
           /\ n.waits \in Optional(SUBSET SignalId) /\ n.form \in Optional(FormId)
           /\ n.handler \in Optional(Handler) /\ n.topic \in Optional(TopicId)
           /\ n.stage \in Optional(StageId)
           /\ DOMAIN n = {"id", "kind", "next", "branches", "on_error", "compensate", "on_timeout", "waits",
                          "form", "handler", "topic", "stage", "computable"}
BY DEF Node, Fields

(* The identifiers of a sequence of blocks.                                *)
LEMMA NodeIds ==
    ASSUME NEW s \in Seq(Node)
    PROVE  Ids(s) \subseteq NodeId
BY NodeFieldTypes, SeqFacts DEF Ids

-----------------------------------------------------------------------------
(* The layers of a worklist.                                               *)
LEMMA LayerFacts ==
    ASSUME NEW d, d.nodes \in Seq(Node), NEW to
    PROVE  /\ DOMAIN Layer(d, to) = 0 .. Len(d.nodes)
           /\ Layer(d, to)[0] = {n.id : n \in Starts(d)}
           /\ \A k \in 1 .. Len(d.nodes) : Layer(d, to)[k] = Follow(d, to, Layer(d, to)[k - 1])
<1> DEFINE N == Len(d.nodes)
           V == SUBSET Ids(d.nodes)
           a == {n.id : n \in Starts(d)}
           h == [p \in Nat \X V |-> Follow(d, to, p[2])]
           Body(g) == [k \in 0 .. N |-> IF k = 0 THEN a ELSE Follow(d, to, g[k - 1])]
           layer == CHOOSE g : g = Body(g)
<1>1. N \in Nat
  OBVIOUS
<1>2. a \in V
  BY SeqFacts DEF Starts
<1>3. h \in [Nat \X V -> V]
  BY DEF Follow
<1>4. PICK g \in [Nat -> V] : g[0] = a /\ \A n \in Nat : g[n + 1] = h[<<n + 1, g[n]>>]
  <2> HIDE DEF h, V, a
  <2>1. \E g \in [Nat -> V] : Iterates(g, a, h)
    BY <1>2, <1>3, Recursion
  <2> QED
    BY <2>1 DEF Iterates
<1>5. \A n \in Nat : g[n + 1] = Follow(d, to, g[n])
  <2> TAKE n \in Nat
  <2>1. <<n + 1, g[n]>> \in Nat \X V
    BY <1>4
  <2> HIDE DEF V
  <2> QED
    BY <1>4, <2>1
<1> HIDE DEF h, V, a
<1> DEFINE f == [k \in 0 .. N |-> g[k]]
<1>6. f = Body(f)
  <2>1. ASSUME NEW k \in 0 .. N PROVE f[k] = Body(f)[k]
    <3>1. CASE k = 0
      BY <1>1, <1>4, <3>1
    <3>2. CASE k # 0
      <4>1. k - 1 \in 0 .. N /\ k - 1 \in Nat /\ (k - 1) + 1 = k
        BY <1>1, <3>2
      <4>2. f[k - 1] = g[k - 1]
        BY <4>1
      <4> QED
        BY <1>5, <3>2, <4>1, <4>2
    <3> QED
      BY <3>1, <3>2
  <2>2. Body(f) = [k \in 0 .. N |-> Body(f)[k]] /\ f = [k \in 0 .. N |-> f[k]]
    OBVIOUS
  <2> HIDE DEF Body, f
  <2> QED
    BY <2>1, <2>2
<1>7. layer = Body(layer)
  <2> HIDE DEF Body, f
  <2> QED
    BY <1>6
<1>8. Layer(d, to) = layer
  BY Zenon DEF Layer, a
<1>9. DOMAIN layer = 0 .. N /\ \A k \in 0 .. N : layer[k] = IF k = 0 THEN a ELSE Follow(d, to, layer[k - 1])
  <2>1. DOMAIN Body(layer) = 0 .. N
        /\ \A k \in 0 .. N : Body(layer)[k] = IF k = 0 THEN a ELSE Follow(d, to, layer[k - 1])
    <3> HIDE DEF layer
    <3> QED
      OBVIOUS
  <2> HIDE DEF Body, layer
  <2> QED
    BY <1>7, <2>1
<1> HIDE DEF layer
<1>10. 0 \in 0 .. N /\ \A k \in 1 .. N : k \in 0 .. N /\ k # 0
  BY <1>1
<1> QED
  BY <1>8, <1>9, <1>10 DEF a

(* A finite set of numbers has a greatest one.                             *)
LEMMA GreatestNat ==
    ASSUME NEW n \in Nat, NEW S \in SUBSET (0 .. n), S # {}
    PROVE  \E m \in S : \A k \in S : k <= m
<1> DEFINE T == {n - k : k \in S}
<1>1. T \in SUBSET Nat /\ T # {}
  <2>1. \A k \in S : n - k \in Nat
    OBVIOUS
  <2> QED
    BY <2>1, Zenon
<1>2. PICK t \in T : \A u \in T : t <= u
  BY <1>1, LeastNat
<1>3. PICK m \in S : t = n - m
  OBVIOUS
<1>4. ASSUME NEW k \in S PROVE k <= m
  <2>1. n - m <= n - k
    BY <1>2, <1>3
  <2>2. k \in Nat /\ m \in Nat
    OBVIOUS
  <2> QED
    BY <2>1, <2>2
<1> QED
  BY <1>4

(* What a layout is computed from: the layers, the depth of each block     *)
(* that is reached, and the greatest depth.                                *)
DepthIn(layer, id) == CHOOSE k \in DOMAIN layer : id \in layer[k] /\ \A j \in 0 .. k - 1 : id \notin layer[j]
Depths(layer, reached) == [id \in reached |-> DepthIn(layer, id)]
Deepest(layer, reached) ==
    CHOOSE k \in DOMAIN layer :
        /\ \A id \in reached : Depths(layer, reached)[id] <= k
        /\ k = 0 \/ \E id \in reached : Depths(layer, reached)[id] = k

(* The row of a reached node: the first layer that holds it.               *)
LEMMA DepthFacts ==
    ASSUME NEW N \in Nat, NEW layer, DOMAIN layer = 0 .. N
    PROVE  /\ \A id \in layer[N] : /\ DepthIn(layer, id) \in 0 .. N
                                   /\ id \in layer[DepthIn(layer, id)]
                                   /\ \A j \in 0 .. DepthIn(layer, id) - 1 : id \notin layer[j]
           /\ Deepest(layer, layer[N]) \in 0 .. N
           /\ \A id \in layer[N] : DepthIn(layer, id) <= Deepest(layer, layer[N])
           /\ Deepest(layer, layer[N]) = 0 \/ \E id \in layer[N] : DepthIn(layer, id) = Deepest(layer, layer[N])
<1>1. ASSUME NEW id \in layer[N]
      PROVE  /\ DepthIn(layer, id) \in 0 .. N
             /\ id \in layer[DepthIn(layer, id)]
             /\ \A j \in 0 .. DepthIn(layer, id) - 1 : id \notin layer[j]
  <2> DEFINE S == {k \in 0 .. N : id \in layer[k]}
  <2>1. S \in SUBSET Nat /\ S # {}
    OBVIOUS
  <2>2. PICK k \in S : \A j \in S : k <= j
    BY <2>1, LeastNat
  <2>3. ASSUME NEW j \in 0 .. k - 1 PROVE id \notin layer[j]
    <3>1. j \in 0 .. N /\ k \in Nat /\ j \in Nat /\ ~ (k <= j)
      OBVIOUS
    <3> QED
      BY <2>2, <3>1
  <2>4. k \in DOMAIN layer /\ id \in layer[k]
    OBVIOUS
  <2> QED
    BY <2>3, <2>4 DEF DepthIn
<1> DEFINE D == {DepthIn(layer, id) : id \in layer[N]} \cup {0}
<1>2. D \in SUBSET (0 .. N) /\ D # {}
  BY <1>1
<1>3. PICK m \in D : \A k \in D : k <= m
  BY <1>2, GreatestNat
<1>4. /\ m \in DOMAIN layer
      /\ \A id \in layer[N] : DepthIn(layer, id) <= m
      /\ m = 0 \/ \E id \in layer[N] : DepthIn(layer, id) = m
  BY <1>2, <1>3
<1> HIDE DEF D
<1>5. /\ Deepest(layer, layer[N]) \in DOMAIN layer
      /\ \A id \in layer[N] : DepthIn(layer, id) <= Deepest(layer, layer[N])
      /\ Deepest(layer, layer[N]) = 0 \/ \E id \in layer[N] : DepthIn(layer, id) = Deepest(layer, layer[N])
  <2> DEFINE P(k) == /\ \A id \in layer[N] : Depths(layer, layer[N])[id] <= k
                     /\ k = 0 \/ \E id \in layer[N] : Depths(layer, layer[N])[id] = k
  <2>1. \A id \in layer[N] : Depths(layer, layer[N])[id] = DepthIn(layer, id)
    BY DEF Depths
  <2>2. \E k \in DOMAIN layer : P(k)
    BY <1>4, <2>1
  <2>3. Deepest(layer, layer[N]) = CHOOSE k \in DOMAIN layer : P(k)
    BY Zenon DEF Deepest
  <2>4. Deepest(layer, layer[N]) \in DOMAIN layer /\ P(Deepest(layer, layer[N]))
    <3> HIDE DEF P
    <3> QED
      BY <2>2, <2>3
  <2> QED
    BY <2>1, <2>4
<1> QED
  BY <1>1, <1>5

(* The automatic layout gives every block one row.                         *)
LEMMA LayoutTyped ==
    ASSUME NEW def \in Definition
    PROVE  AutoLayout(def) \in [Ids(def.nodes) -> Nat]
<1> DEFINE layer == Layer(def, Drawn(def))
           N == Len(def.nodes)
           reached == layer[N]
           depth == Depths(layer, reached)
           deepest == Deepest(layer, reached)
           loose == {i \in DOMAIN def.nodes : def.nodes[i].kind # "End" /\ def.nodes[i].id \notin reached}
           before(id) == Cardinality({i \in loose : i < IndexOf(def.nodes, id)})
           row(id) == CASE Find(def.nodes, id).kind = "End" -> deepest + Cardinality(loose) + 1
                        [] Find(def.nodes, id).kind # "End" /\ id \in reached -> depth[id]
                        [] OTHER -> deepest + 1 + before(id)
<1>1. def.nodes \in Seq(Node) /\ N \in Nat
  BY DefinitionFields
<1>2. DOMAIN layer = 0 .. N
  BY <1>1, LayerFacts
<1>3. deepest \in Nat /\ \A id \in reached : depth[id] \in Nat
  <2> HIDE DEF layer
  <2> QED
    BY <1>1, <1>2, DepthFacts DEF Depths
<1>4. IsFiniteSet(1 .. N)
  BY <1>1, FS_Interval
<1>5. Cardinality(loose) \in Nat /\ \A id : before(id) \in Nat
  <2>1. \A S \in SUBSET (1 .. N) : Cardinality(S) \in Nat
    BY <1>4, FS_Subset, FS_CardinalityType
  <2>2. loose \in SUBSET (1 .. N) /\ \A id : {i \in loose : i < IndexOf(def.nodes, id)} \in SUBSET (1 .. N)
    BY <1>1
  <2> QED
    BY <2>1, <2>2
<1>6. \A id : row(id) \in Nat
  <2> HIDE DEF layer, deepest, depth, loose, before
  <2> QED
    BY <1>3, <1>5
<1>7. AutoLayout(def) = [id \in Ids(def.nodes) |-> row(id)]
  BY Zenon DEF AutoLayout, DepthIn, Depths, Deepest
<1> HIDE DEF row
<1> QED
  BY <1>6, <1>7

-----------------------------------------------------------------------------
(* A document of the editor: well formed, accepted by EditorDocument::new. *)
Sound(d) == Document(d) /\ CanOpen(d.definition)

SettingsDef == [key: Key, version: Nat, active: BOOLEAN, effective: Optional(Nat),
                deprecated: Optional(Nat), stages: Seq(StageDef)]
Declared(kind) == CASE kind = "forms" -> FormDef [] kind = "signals" -> SignalDef [] kind = "escalations" -> EscalationDef

(* A part of a definition may be replaced by another of its type.          *)
LEMMA DefinitionWith ==
    ASSUME NEW def \in Definition
    PROVE  /\ \A s \in Seq(Node) : [def EXCEPT !.nodes = s] \in Definition
           /\ \A s \in Seq(SignalDef) : [def EXCEPT !.signals = s] \in Definition
           /\ \A s \in Seq(FormDef) : [def EXCEPT !.forms = s] \in Definition
           /\ \A s \in Seq(EscalationDef) : [def EXCEPT !.escalations = s] \in Definition
<1>1. \A s \in Seq(Node) : [def EXCEPT !.nodes = s] \in Definition
  BY DEF Definition
<1>2. \A s \in Seq(SignalDef) : [def EXCEPT !.signals = s] \in Definition
  BY DEF Definition
<1>3. \A s \in Seq(FormDef) : [def EXCEPT !.forms = s] \in Definition
  BY DEF Definition
<1>4. \A s \in Seq(EscalationDef) : [def EXCEPT !.escalations = s] \in Definition
  BY DEF Definition
<1> QED
  BY <1>1, <1>2, <1>3, <1>4

(* The parts of a sound document.                                          *)
LEMMA SoundFields ==
    ASSUME NEW d, Sound(d)
    PROVE  /\ DOMAIN d = {"definition", "uuid", "positions"}
           /\ d.definition \in Definition /\ d.uuid \in Optional({"stored"})
           /\ d.positions \in [Ids(d.definition.nodes) -> Nat]
           /\ d.definition.nodes \in Seq(Node) /\ d.definition.signals \in Seq(SignalDef)
           /\ d.definition.forms \in Seq(FormDef) /\ d.definition.escalations \in Seq(EscalationDef)
           /\ d.definition.stages \in Seq(StageDef)
           /\ Unique(d.definition.nodes) /\ Unique(d.definition.signals)
           /\ Unique(d.definition.forms) /\ Unique(d.definition.escalations)
BY DefinitionFields DEF Sound, Document, CanOpen

(* The blocks of a document change, and their coordinates follow.          *)
LEMMA NodesChange ==
    ASSUME NEW d, Sound(d), NEW nodes \in Seq(Node), Unique(nodes), Ids(nodes) = Ids(d.definition.nodes)
    PROVE  /\ Sound(WithNodes(d, nodes))
           /\ WithNodes(d, nodes).definition = [d.definition EXCEPT !.nodes = nodes]
           /\ WithNodes(d, nodes).positions = d.positions
           /\ DOMAIN WithNodes(d, nodes) = DOMAIN d
<1> DEFINE e == WithNodes(d, nodes)
           def == [d.definition EXCEPT !.nodes = nodes]
<1>1. /\ DOMAIN e = {"definition", "uuid", "positions"} /\ e.definition = def
      /\ e.uuid = d.uuid /\ e.positions = d.positions
  BY SoundFields DEF WithNodes
<1>2. def \in Definition /\ def.nodes = nodes
  BY SoundFields, DefinitionWith, DefinitionFields
<1>3. def.signals = d.definition.signals /\ def.forms = d.definition.forms /\ def.escalations = d.definition.escalations
  OBVIOUS
<1>4. CanOpen(def)
  BY <1>2, <1>3, SoundFields DEF CanOpen
<1> HIDE DEF e, def
<1>5. Document(e)
  BY <1>1, <1>2, SoundFields DEF Document
<1> QED
  BY <1>1, <1>4, <1>5, SoundFields DEF Sound, e, def

(* auto-layout: the document stays sound and its definition the same.      *)
LEMMA ArrangeSound ==
    ASSUME NEW d, Sound(d)
    PROVE  Sound(Arrange(d)) /\ Arrange(d).definition = d.definition
<1>1. /\ DOMAIN Arrange(d) = DOMAIN d /\ Arrange(d).definition = d.definition
      /\ Arrange(d).uuid = d.uuid /\ Arrange(d).positions = AutoLayout(d.definition)
  BY SoundFields DEF Arrange
<1> QED
  BY <1>1, SoundFields, LayoutTyped DEF Sound, Document

(* EditorDocument::new: any definition without duplicate identifiers opens *)
(* as a sound document that keeps its saved coordinates.                   *)
LEMMA OpenSound ==
    ASSUME NEW def \in Definition, CanOpen(def), NEW uuid \in Optional({"stored"}), NEW saved,
           \A id \in DOMAIN saved \cap Ids(def.nodes) : saved[id] \in Nat
    PROVE  /\ Sound(Open(def, uuid, saved)) /\ Open(def, uuid, saved).definition = def
           /\ Open(def, uuid, saved).uuid = uuid
           /\ DOMAIN Open(def, uuid, saved).positions = Ids(def.nodes)
           /\ \A id \in DOMAIN saved \cap Ids(def.nodes) : Open(def, uuid, saved).positions[id] = saved[id]
<1> DEFINE e == Open(def, uuid, saved)
           rows == AutoLayout(def)
           p == [id \in DOMAIN rows |-> IF id \in DOMAIN saved THEN saved[id] ELSE rows[id]]
<1>1. rows \in [Ids(def.nodes) -> Nat]
  BY LayoutTyped
<1>2. DOMAIN e = {"definition", "uuid", "positions"} /\ e.definition = def /\ e.uuid = uuid /\ e.positions = p
  BY DEF Open
<1>3. p \in [Ids(def.nodes) -> Nat] /\ \A id \in DOMAIN saved \cap Ids(def.nodes) : p[id] = saved[id]
  <2> HIDE DEF rows
  <2> QED
    BY <1>1
<1> HIDE DEF e, p
<1> QED
  BY <1>2, <1>3 DEF Sound, Document, e

(* move_node changes a coordinate only, and none for a block that is gone. *)
LEMMA MoveNodeSound ==
    ASSUME NEW d, Sound(d), NEW id, NEW place \in Nat
    PROVE  Sound(MoveNode(d, id, place)) /\ MoveNode(d, id, place).definition = d.definition
<1>1. CASE id \in Ids(d.definition.nodes)
  <2> DEFINE p == [n \in DOMAIN d.positions \cup {id} |-> IF n = id THEN place ELSE d.positions[n]]
             e == [d EXCEPT !.positions = p]
  <2>1. MoveNode(d, id, place) = e
    BY <1>1 DEF MoveNode
  <2>2. p \in [Ids(d.definition.nodes) -> Nat]
    BY <1>1, SoundFields
  <2>3. /\ DOMAIN e = DOMAIN d /\ e.definition = d.definition
        /\ e.uuid = d.uuid /\ e.positions = p
    BY SoundFields
  <2> HIDE DEF e, p
  <2> QED
    BY <2>1, <2>2, <2>3, SoundFields DEF Sound, Document
<1>2. CASE id \notin Ids(d.definition.nodes)
  BY <1>2 DEF MoveNode
<1> QED
  BY <1>1, <1>2

-----------------------------------------------------------------------------
(* Blocks.                                                                 *)
LEMMA NodeChanges ==
    ASSUME NEW n \in Node
    PROVE  /\ \A x \in NodeId : [n EXCEPT !.id = x] \in Node
           /\ n.kind # "End" => \A x \in NodeId : [n EXCEPT !.next = x] \in Node
           /\ n.kind # "Start" => [n EXCEPT !.next = None] \in Node
           /\ n.kind \in {"ServiceTask", "UserTask"} => \A x \in NodeId : [n EXCEPT !.on_error = x] \in Node
           /\ n.kind \in {"UserTask", "Wait"} => \A x \in NodeId : [n EXCEPT !.on_timeout = x] \in Node
           /\ [n EXCEPT !.on_error = None] \in Node /\ [n EXCEPT !.compensate = None] \in Node
           /\ [n EXCEPT !.on_timeout = None] \in Node
           /\ n.kind \notin {"Start", "End"} => \A b \in Seq(Branch) : [n EXCEPT !.branches = b] \in Node
           /\ n.kind \in {"UserTask", "Wait"} => \A S \in SUBSET SignalId : [n EXCEPT !.waits = S] \in Node
           /\ n.kind = "UserTask" => \A x \in FormId : [n EXCEPT !.form = x] \in Node
           /\ n.kind = "ServiceTask" =>
                \A x \in TopicId : [n EXCEPT !.handler = "create_support_ticket", !.topic = x] \in Node
           /\ n.handler = "create_support_ticket" => \A x \in TopicId : [n EXCEPT !.topic = x] \in Node
           /\ \A x \in StageId : [n EXCEPT !.stage = x] \in Node
<1>0. n \in Fields /\ OfItsKind(n)
  BY DEF Node
<1>1. \A x \in NodeId : [n EXCEPT !.id = x] \in Node
  BY <1>0 DEF Node, Fields, OfItsKind
<1>2. n.kind # "End" => \A x \in NodeId : [n EXCEPT !.next = x] \in Node
  BY <1>0, NoneIsNothing DEF Node, Fields, OfItsKind, Optional
<1>3. n.kind # "Start" => [n EXCEPT !.next = None] \in Node
  BY <1>0 DEF Node, Fields, OfItsKind, Optional
<1>4. n.kind \in {"ServiceTask", "UserTask"} => \A x \in NodeId : [n EXCEPT !.on_error = x] \in Node
  BY <1>0 DEF Node, Fields, OfItsKind, Optional
<1>5. n.kind \in {"UserTask", "Wait"} => \A x \in NodeId : [n EXCEPT !.on_timeout = x] \in Node
  BY <1>0 DEF Node, Fields, OfItsKind, Optional
<1>12. [n EXCEPT !.on_error = None] \in Node /\ [n EXCEPT !.compensate = None] \in Node
       /\ [n EXCEPT !.on_timeout = None] \in Node
  BY <1>0 DEF Node, Fields, OfItsKind, Optional
<1>6. n.kind \notin {"Start", "End"} => \A b \in Seq(Branch) : [n EXCEPT !.branches = b] \in Node
  BY <1>0 DEF Node, Fields, OfItsKind
<1>7. n.kind \in {"UserTask", "Wait"} => \A S \in SUBSET SignalId : [n EXCEPT !.waits = S] \in Node
  BY <1>0, NoneIsNothing DEF Node, Fields, OfItsKind, Optional
<1>8. n.kind = "UserTask" => \A x \in FormId : [n EXCEPT !.form = x] \in Node
  BY <1>0, NoneIsNothing DEF Node, Fields, OfItsKind, Optional
<1>9. n.kind = "ServiceTask" =>
        \A x \in TopicId : [n EXCEPT !.handler = "create_support_ticket", !.topic = x] \in Node
  BY <1>0, NoneIsNothing DEF Node, Fields, OfItsKind, Optional, Handler
<1>10. n.handler = "create_support_ticket" => \A x \in TopicId : [n EXCEPT !.topic = x] \in Node
  BY <1>0 DEF Node, Fields, OfItsKind, Optional
<1>11. \A x \in StageId : [n EXCEPT !.stage = x] \in Node
  BY <1>0 DEF Node, Fields, OfItsKind, Optional
<1> QED
  BY <1>1, <1>2, <1>3, <1>4, <1>5, <1>6, <1>7, <1>8, <1>9, <1>10, <1>11, <1>12

(* The block with an identifier is there, and it is the only one.          *)
LEMMA NodeOfFacts ==
    ASSUME NEW d, Sound(d), NEW id \in Ids(d.definition.nodes)
    PROVE  /\ NodeOf(d, id) \in Node /\ NodeOf(d, id) \in Elements(d.definition.nodes) /\ NodeOf(d, id).id = id
           /\ \A n \in Elements(d.definition.nodes) : n.id = id => n = NodeOf(d, id)
           /\ id \in NodeId
BY SoundFields, FindFacts, NodeIds DEF NodeOf

(* A block is replaced by one with its identifier.                         *)
LEMMA ReplaceSound ==
    ASSUME NEW d, Sound(d), NEW id \in Ids(d.definition.nodes), NEW n \in Node, n.id = id
    PROVE  /\ Sound(Replace(d, id, n))
           /\ Replace(d, id, n).definition = [d.definition EXCEPT !.nodes = Replaced(d.definition.nodes, id, n)]
           /\ Elements(Replaced(d.definition.nodes, id, n)) = {m \in Elements(d.definition.nodes) : m.id # id} \cup {n}
           /\ Ids(Replaced(d.definition.nodes, id, n)) = Ids(d.definition.nodes)
<1> DEFINE s == d.definition.nodes
           t == Replaced(s, id, n)
<1>1. s \in Seq(Node) /\ Unique(s) /\ id \in Ids(s)
  BY SoundFields
<1>2. /\ t \in Seq(Node) /\ Unique(t) /\ Ids(t) = (Ids(s) \ {id}) \cup {n.id}
      /\ Elements(t) = {e \in Elements(s) : e.id # id} \cup {n}
  <2> HIDE DEF s
  <2> QED
    BY <1>1, ReplacedFacts
<1>3. Ids(t) = Ids(s)
  BY <1>2
<1> HIDE DEF t
<1> QED
  BY <1>2, <1>3, NodesChange DEF Replace, t

Connected(m, target, when) ==
    IF when = None THEN [m EXCEPT !.next = target]
    ELSE [m EXCEPT !.branches = Append(@, [when |-> when, next |-> target])]

(* connect replaces the source by a block that leads to the target.        *)
LEMMA ConnectSound ==
    ASSUME NEW d, Sound(d), NEW source, NEW target, NEW when \in Optional(SUBSET SignalId),
           CanConnect(d, source, target, when)
    PROVE  /\ Connected(NodeOf(d, source), target, when) \in Node
           /\ Connected(NodeOf(d, source), target, when).id = source
           /\ Connect(d, source, target, when) = Replace(d, source, Connected(NodeOf(d, source), target, when))
<1> DEFINE m == NodeOf(d, source)
<1>1. m \in Node /\ m.id = source /\ target \in NodeId /\ m.kind # "End"
  BY NodeOfFacts DEF CanConnect
<1>2. CASE when = None
  <2> DEFINE n == [m EXCEPT !.next = target]
  <2>1. n \in Node /\ n.id = source
    BY <1>1, NodeChanges, NodeFieldTypes DEF Fields
  <2>2. Connect(d, source, target, when) = Replace(d, source, n)
    BY <1>2, Zenon DEF Connect
  <2>3. n = Connected(m, target, when)
    BY <1>2, Zenon DEF Connected
  <2> HIDE DEF n, m
  <2> QED
    BY <2>1, <2>2, <2>3 DEF m
<1>3. CASE when # None
  <2> DEFINE b == Append(m.branches, [when |-> when, next |-> target])
  <2>1. b \in Seq(Branch)
    <3>1. m.branches \in Seq(Branch)
      BY <1>1, NodeFieldTypes
    <3>2. [when |-> when, next |-> target] \in Branch
      BY <1>1, <1>3 DEF Branch, Optional
    <3> HIDE DEF m
    <3> QED
      BY <3>1, <3>2
  <2>2. [m EXCEPT !.branches = b] \in Node
    <3>1. m.kind # "Start"
      BY <1>3 DEF CanConnect
    <3> HIDE DEF b
    <3> QED
      BY <1>1, <2>1, <3>1, NodeChanges
  <2>3. [m EXCEPT !.branches = b].id = source
    BY <1>1
  <2>4. Connect(d, source, target, when) = Replace(d, source, [m EXCEPT !.branches = b])
    BY <1>3 DEF Connect
  <2>5. [m EXCEPT !.branches = b] = Connected(m, target, when)
    BY <1>3, Zenon DEF Connected
  <2> HIDE DEF m, b
  <2> QED
    BY <2>2, <2>3, <2>4, <2>5 DEF m
<1> QED
  BY <1>2, <1>3

(* Vec::remove of a branch leaves the others.                              *)
LEMMA DroppedFacts ==
    ASSUME NEW S, NEW s \in Seq(S), NEW i \in DOMAIN s
    PROVE  /\ Dropped(s, i) \in Seq(S)
           /\ \A k \in DOMAIN Dropped(s, i) : \E j \in DOMAIN s : Dropped(s, i)[k] = s[j]
<1> DEFINE n == Len(s) - 1
           t == [k \in 1 .. n |-> IF k < i THEN s[k] ELSE s[k + 1]]
<1>1. n \in Nat /\ Len(s) = n + 1 /\ DOMAIN s = 1 .. n + 1
  OBVIOUS
<1>2. \A k \in 1 .. n : k \in 1 .. n + 1 /\ k + 1 \in 1 .. n + 1
  BY <1>1
<1>3. \A k \in 1 .. n : t[k] \in S /\ \E j \in DOMAIN s : t[k] = s[j]
  BY <1>1, <1>2
<1>4. t \in [1 .. n -> S]
  <2> HIDE DEF n
  <2> QED
    BY <1>3
<1>5. t = Dropped(s, i) /\ DOMAIN t = 1 .. n
  BY DEF Dropped
<1> HIDE DEF n, t
<1>6. t \in Seq(S)
  BY <1>1, <1>4
<1> QED
  BY <1>3, <1>5, <1>6

Disconnected(m, route) ==
    CASE route.pointer = "branch" -> [m EXCEPT !.branches = Dropped(@, route.branch)]
      [] route.pointer = "next" -> [m EXCEPT !.next = None]
      [] route.pointer = "on_error" -> [m EXCEPT !.on_error = None]
      [] route.pointer = "compensate" -> [m EXCEPT !.compensate = None]
      [] OTHER -> [m EXCEPT !.on_timeout = None]

(* disconnect replaces the source by a block without the route.            *)
LEMMA DisconnectSound ==
    ASSUME NEW d, Sound(d), NEW source, NEW route, CanDisconnect(d, source, route)
    PROVE  /\ Disconnected(NodeOf(d, source), route) \in Node
           /\ Disconnected(NodeOf(d, source), route).id = source
           /\ Disconnect(d, source, route) = Replace(d, source, Disconnected(NodeOf(d, source), route))
<1> DEFINE m == NodeOf(d, source)
           n == CASE route.pointer = "branch" -> [m EXCEPT !.branches = Dropped(@, route.branch)]
                  [] route.pointer = "next" -> [m EXCEPT !.next = None]
                  [] route.pointer = "on_error" -> [m EXCEPT !.on_error = None]
                  [] route.pointer = "compensate" -> [m EXCEPT !.compensate = None]
                  [] OTHER -> [m EXCEPT !.on_timeout = None]
<1>1. m \in Node /\ m.id = source /\ m.kind # "Start"
  BY NodeOfFacts DEF CanDisconnect
<1>2. n \in Node /\ n.id = source
  <2>1. CASE route.pointer = "branch"
    <3>1. route.branch \in DOMAIN m.branches
      BY <2>1 DEF CanDisconnect, Routes
    <3>2. Dropped(m.branches, route.branch) \in Seq(Branch)
      BY <1>1, <3>1, NodeFieldTypes, DroppedFacts
    <3>3. n = [m EXCEPT !.branches = Dropped(m.branches, route.branch)]
      BY <2>1
    <3>4. n \in Node
      <4>1. m.kind # "End"
        <5>1. m.kind = "End" => m.branches = <<>>
          BY <1>1, NodeFieldTypes DEF OfItsKind
        <5> QED
          BY <3>1, <5>1
      <4> HIDE DEF m, n
      <4> QED
        BY <1>1, <3>2, <3>3, <4>1, NodeChanges
    <3> QED
      BY <1>1, <3>3, <3>4
  <2>2. CASE route.pointer = "next"
    <3>1. n = [m EXCEPT !.next = None]
      BY <2>2
    <3>2. [m EXCEPT !.next = None] \in Node /\ [m EXCEPT !.next = None].id = source
      BY <1>1, NodeChanges, NodeFieldTypes
    <3> QED
      BY <3>1, <3>2
  <2>3. CASE route.pointer = "on_error"
    <3>1. n = [m EXCEPT !.on_error = None]
      BY <2>3
    <3>2. [m EXCEPT !.on_error = None] \in Node /\ [m EXCEPT !.on_error = None].id = source
      BY <1>1, NodeChanges, NodeFieldTypes
    <3> QED
      BY <3>1, <3>2
  <2>4. CASE route.pointer = "compensate"
    <3>1. n = [m EXCEPT !.compensate = None]
      BY <2>4
    <3>2. [m EXCEPT !.compensate = None] \in Node /\ [m EXCEPT !.compensate = None].id = source
      BY <1>1, NodeChanges, NodeFieldTypes
    <3> QED
      BY <3>1, <3>2
  <2>5. CASE route.pointer \notin {"branch", "next", "on_error", "compensate"}
    <3>1. n = [m EXCEPT !.on_timeout = None]
      BY <2>5
    <3>2. [m EXCEPT !.on_timeout = None] \in Node /\ [m EXCEPT !.on_timeout = None].id = source
      BY <1>1, NodeChanges, NodeFieldTypes
    <3> QED
      BY <3>1, <3>2
  <2> QED
    BY <2>1, <2>2, <2>3, <2>4, <2>5
<1>3. Disconnect(d, source, route) = Replace(d, source, n)
  BY Zenon DEF Disconnect
<1>4. n = Disconnected(m, route)
  BY Zenon DEF Disconnected
<1> HIDE DEF n, m
<1> QED
  BY <1>2, <1>3, <1>4 DEF m

(* The identifiers of declarations and stages.                             *)
LEMMA DeclaredIds ==
    /\ \A s \in Seq(SignalDef) : Ids(s) \subseteq SignalId
    /\ \A s \in Seq(FormDef) : Ids(s) \subseteq FormId
    /\ \A s \in Seq(EscalationDef) : Ids(s) \subseteq TopicId
    /\ \A s \in Seq(StageDef) : Ids(s) \subseteq StageId
<1>1. ASSUME NEW s \in Seq(SignalDef) PROVE Ids(s) \subseteq SignalId
  <2>1. \A v \in SignalDef : v.id \in SignalId
    BY DEF SignalDef
  <2>2. \A i \in DOMAIN s : s[i] \in SignalDef
    OBVIOUS
  <2> QED
    BY <2>1, <2>2 DEF Ids
<1>2. ASSUME NEW s \in Seq(FormDef) PROVE Ids(s) \subseteq FormId
  <2>1. \A v \in FormDef : v.id \in FormId
    BY DEF FormDef
  <2>2. \A i \in DOMAIN s : s[i] \in FormDef
    OBVIOUS
  <2> QED
    BY <2>1, <2>2 DEF Ids
<1>3. ASSUME NEW s \in Seq(EscalationDef) PROVE Ids(s) \subseteq TopicId
  <2>1. \A v \in EscalationDef : v.id \in TopicId
    BY DEF EscalationDef
  <2>2. \A i \in DOMAIN s : s[i] \in EscalationDef
    OBVIOUS
  <2> QED
    BY <2>1, <2>2 DEF Ids
<1>4. ASSUME NEW s \in Seq(StageDef) PROVE Ids(s) \subseteq StageId
  <2>1. \A v \in StageDef : v.id \in StageId
    BY DEF StageDef
  <2>2. \A i \in DOMAIN s : s[i] \in StageDef
    OBVIOUS
  <2> QED
    BY <2>1, <2>2 DEF Ids
<1> QED
  BY <1>1, <1>2, <1>3, <1>4

(* The drafts of a block form and the blocks a host puts in place.         *)
LEMMA ChoicesTyped ==
    ASSUME NEW n \in Node, NEW d, Sound(d),
           NEW f \in {"id", "next", "on_timeout", "on_error", "waits", "form", "ticket", "stage"},
           NEW m \in NodeChoices(n, d)[f]
    PROVE  m \in Node /\ m.kind = n.kind
<1> DEFINE others == Ids(d.definition.nodes)
<1>1. /\ others \subseteq NodeId /\ Ids(d.definition.signals) \subseteq SignalId
      /\ Ids(d.definition.forms) \subseteq FormId /\ Ids(d.definition.escalations) \subseteq TopicId
      /\ Ids(d.definition.stages) \subseteq StageId
  BY SoundFields, NodeIds, DeclaredIds
<1>2. CASE f = "id"
  <2>1. NodeChoices(n, d)[f] = {[n EXCEPT !.id = x] : x \in NodeId}
    BY <1>2 DEF NodeChoices
  <2>2. PICK x \in NodeId : m = [n EXCEPT !.id = x]
    BY <2>1
  <2> QED
    BY <2>2, NodeChanges, NodeFieldTypes
<1>3. CASE f = "next"
  <2>1. n.kind # "End" /\ NodeChoices(n, d)[f] \subseteq {[n EXCEPT !.next = x] : x \in others}
    BY <1>3 DEF NodeChoices
  <2>2. PICK x \in NodeId : m = [n EXCEPT !.next = x]
    BY <1>1, <2>1
  <2> QED
    BY <2>1, <2>2, NodeChanges, NodeFieldTypes
<1>4. CASE f = "on_timeout"
  <2>1. n.kind \in {"UserTask", "Wait"} /\ NodeChoices(n, d)[f] \subseteq {[n EXCEPT !.on_timeout = x] : x \in others}
    BY <1>4 DEF NodeChoices
  <2>2. PICK x \in NodeId : m = [n EXCEPT !.on_timeout = x]
    BY <1>1, <2>1
  <2> QED
    BY <2>1, <2>2, NodeChanges, NodeFieldTypes
<1>5. CASE f = "on_error"
  <2>1. n.kind \in {"UserTask", "ServiceTask"} /\ NodeChoices(n, d)[f] \subseteq {[n EXCEPT !.on_error = x] : x \in others}
    BY <1>5 DEF NodeChoices
  <2>2. PICK x \in NodeId : m = [n EXCEPT !.on_error = x]
    BY <1>1, <2>1
  <2> QED
    BY <2>1, <2>2, NodeChanges, NodeFieldTypes
<1>6. CASE f = "waits"
  <2>1. n.kind \in {"UserTask", "Wait"}
        /\ NodeChoices(n, d)[f] = {[n EXCEPT !.waits = S] : S \in SUBSET Ids(d.definition.signals)}
    BY <1>6 DEF NodeChoices
  <2>2. PICK x \in SUBSET SignalId : m = [n EXCEPT !.waits = x]
    BY <1>1, <2>1
  <2> QED
    BY <2>1, <2>2, NodeChanges, NodeFieldTypes
<1>7. CASE f = "form"
  <2>1. n.kind = "UserTask" /\ NodeChoices(n, d)[f] = {[n EXCEPT !.form = x] : x \in Ids(d.definition.forms)}
    BY <1>7 DEF NodeChoices
  <2>2. PICK x \in FormId : m = [n EXCEPT !.form = x]
    BY <1>1, <2>1
  <2> QED
    BY <2>1, <2>2, NodeChanges, NodeFieldTypes
<1>8. CASE f = "ticket"
  <2>1. n.kind = "ServiceTask"
        /\ NodeChoices(n, d)[f] = {[n EXCEPT !.handler = "create_support_ticket", !.topic = x] :
                                       x \in Ids(d.definition.escalations)}
    BY <1>8 DEF NodeChoices
  <2>2. PICK x \in TopicId : m = [n EXCEPT !.handler = "create_support_ticket", !.topic = x]
    BY <1>1, <2>1
  <2> QED
    BY <2>1, <2>2, NodeChanges, NodeFieldTypes
<1>9. CASE f = "stage"
  <2>1. NodeChoices(n, d)[f] = {[n EXCEPT !.stage = x] : x \in Ids(d.definition.stages)}
    BY <1>9 DEF NodeChoices
  <2>2. PICK x \in StageId : m = [n EXCEPT !.stage = x]
    BY <1>1, <2>1
  <2> QED
    BY <2>2, NodeChanges, NodeFieldTypes
<1> QED
  BY <1>2, <1>3, <1>4, <1>5, <1>6, <1>7, <1>8, <1>9

(* A fresh identifier is none of those in use.                             *)
LEMMA FreshFacts ==
    ASSUME NEW S, NEW s, Unused(S, s) # {}
    PROVE  Fresh(S, s) \in S /\ Fresh(S, s) \notin Ids(s)
BY DEF Fresh, Unused

(* A new Start, Gateway or End.                                            *)
LEMMA NewNodeTyped ==
    ASSUME NEW id \in NodeId
    PROVE  /\ \A next \in NodeId : [NewNode(id, "Start") EXCEPT !.next = next] \in Node
           /\ \A kind \in {"Gateway", "End"} : NewNode(id, kind) \in Node
<1>1. << >> \in Seq(Branch)
  OBVIOUS
<1> QED
  BY <1>1, NoneIsNothing DEF NewNode, Node, Fields, OfItsKind, Optional, BlockKind

(* A new ServiceTask, Wait or UserTask.                                    *)
LEMMA NewTaskTyped ==
    ASSUME NEW id \in NodeId
    PROVE  /\ [NewNode(id, "ServiceTask") EXCEPT !.handler = "configure_handler"] \in Node
           /\ \A signal \in SignalId : [NewNode(id, "Wait") EXCEPT !.waits = {signal}] \in Node
           /\ \A signal \in SignalId, form \in FormId :
                [NewNode(id, "UserTask") EXCEPT !.waits = {signal}, !.form = form] \in Node
<1>1. << >> \in Seq(Branch)
  OBVIOUS
<1>2. \A signal \in SignalId : {signal} \in SUBSET SignalId /\ {signal} # None
  BY NoneIsNothing
<1>3. [NewNode(id, "ServiceTask") EXCEPT !.handler = "configure_handler"] \in Node
  BY <1>1, NoneIsNothing DEF NewNode, Node, Fields, OfItsKind, Optional, BlockKind, Handler
<1>4. ASSUME NEW signal \in SignalId PROVE [NewNode(id, "Wait") EXCEPT !.waits = {signal}] \in Node
  BY <1>1, <1>2 DEF NewNode, Node, Fields, OfItsKind, Optional, BlockKind
<1>5. ASSUME NEW signal \in SignalId, NEW form \in FormId
      PROVE  [NewNode(id, "UserTask") EXCEPT !.waits = {signal}, !.form = form] \in Node
  BY <1>1, <1>2, NoneIsNothing DEF NewNode, Node, Fields, OfItsKind, Optional, BlockKind
<1> QED
  BY <1>3, <1>4, <1>5

(* What a new block brings: its declarations and nothing else.             *)
Added(e, d, node) ==
    /\ node \in Node /\ node.id = AddedId(d) /\ node.id \notin Ids(d.definition.nodes)
    /\ e.definition.nodes = Append(d.definition.nodes, node)
    /\ Elements(d.definition.signals) \subseteq Elements(e.definition.signals)
    /\ Elements(d.definition.forms) \subseteq Elements(e.definition.forms)
    /\ e.definition.stages = d.definition.stages /\ e.definition.escalations = d.definition.escalations

(* add_block: the document stays sound, and gets one block more with its   *)
(* declarations.                                                           *)
LEMMA AddBlockSound ==
    ASSUME NEW d, Sound(d), NEW kind \in BlockKind, NEW place \in Nat, CanAddBlock(d, kind)
    PROVE  /\ Sound(AddBlock(d, kind, place))
           /\ \E node : Added(AddBlock(d, kind, place), d, node)
           /\ AddedId(d) \in NodeId
<1> DEFINE def    == d.definition
           signal == Fresh(SignalId, def.signals)
           form   == Fresh(FormId, def.forms)
           blank  == NewNode(AddedId(d), kind)
           ends   == {i \in DOMAIN def.nodes : def.nodes[i].kind = "End"}
           node   == CASE kind = "Start" -> [blank EXCEPT !.next = IF ends = {} THEN FinishId
                                                                   ELSE def.nodes[CHOOSE i \in ends : \A j \in ends : i <= j].id]
                       [] kind = "ServiceTask" -> [blank EXCEPT !.handler = "configure_handler"]
                       [] kind = "Wait" -> [blank EXCEPT !.waits = {signal}]
                       [] kind = "UserTask" -> [blank EXCEPT !.waits = {signal}, !.form = form]
                       [] OTHER -> blank
           nodes   == Append(def.nodes, node)
           signals == IF kind \in {"UserTask", "Wait"} THEN Append(def.signals, [id |-> signal]) ELSE def.signals
           forms_  == IF kind = "UserTask" THEN Append(def.forms, [id |-> form, roles |-> 0]) ELSE def.forms
           places  == [id \in DOMAIN d.positions \cup {node.id} |-> IF id = node.id THEN place ELSE d.positions[id]]
           e       == AddBlock(d, kind, place)
           D       == [[[def EXCEPT !.nodes = nodes] EXCEPT !.signals = signals] EXCEPT !.forms = forms_]
<1>1. AddedId(d) \in NodeId /\ AddedId(d) \notin Ids(def.nodes)
  BY FreshFacts DEF CanAddBlock, AddedId
<1>2. kind \in {"UserTask", "Wait"} => signal \in SignalId /\ signal \notin Ids(def.signals)
  BY FreshFacts DEF CanAddBlock
<1>3. kind = "UserTask" => form \in FormId /\ form \notin Ids(def.forms)
  BY FreshFacts DEF CanAddBlock
<1>4. node \in Node /\ node.id = AddedId(d)
  <2>0. blank.id = AddedId(d) /\ DOMAIN blank = {"id", "kind", "next", "branches", "on_error", "compensate",
                                  "on_timeout", "waits", "form", "handler", "topic", "stage", "computable"}
    BY DEF NewNode
  <2>1. CASE kind = "Start"
    <3> DEFINE next == IF ends = {} THEN FinishId ELSE def.nodes[CHOOSE i \in ends : \A j \in ends : i <= j].id
    <3>1. next \in NodeId
      <4>1. CASE ends = {}
        BY <4>1, EditorTypes
      <4>2. CASE ends # {}
        <5>1. def.nodes \in Seq(Node) /\ ends \in SUBSET Nat
          BY SoundFields
        <5>2. \E i \in ends : \A j \in ends : i <= j
          <6> HIDE DEF ends
          <6> QED
            BY <4>2, <5>1, LeastNat
        <5>3. (CHOOSE i \in ends : \A j \in ends : i <= j) \in ends
          BY <5>2
        <5>4. next \in Ids(def.nodes)
          BY <4>2, <5>3 DEF Ids
        <5> QED
          BY <5>1, <5>4, NodeIds
      <4> QED
        BY <4>1, <4>2
    <3>2. node = [blank EXCEPT !.next = next]
      BY <2>1
    <3> HIDE DEF next
    <3>3. node \in Node
      <4>1. blank = NewNode(AddedId(d), "Start")
        BY <2>1
      <4>2. [NewNode(AddedId(d), "Start") EXCEPT !.next = next] \in Node
        BY <1>1, <3>1, NewNodeTyped
      <4> HIDE DEF node, blank
      <4> QED
        BY <3>2, <4>1, <4>2
    <3>4. [blank EXCEPT !.next = next].id = blank.id
      <4> HIDE DEF blank
      <4> QED
        BY <2>0
    <3> HIDE DEF node
    <3> QED
      BY <2>0, <3>2, <3>3, <3>4
  <2>2. CASE kind = "ServiceTask"
    <3>1. node = [NewNode(AddedId(d), "ServiceTask") EXCEPT !.handler = "configure_handler"]
      BY <2>2
    <3>2. node \in Node
      BY <1>1, <3>1, NewTaskTyped
    <3> QED
      BY <2>0, <2>2, <3>1, <3>2
  <2>3. CASE kind = "Wait"
    BY <1>1, <1>2, <2>0, <2>3, NewTaskTyped
  <2>4. CASE kind = "UserTask"
    BY <1>1, <1>2, <1>3, <2>0, <2>4, NewTaskTyped
  <2>5. CASE kind \in {"Gateway", "End"}
    BY <1>1, <2>0, <2>5, NewNodeTyped
  <2> QED
    BY <2>1, <2>2, <2>3, <2>4, <2>5 DEF BlockKind
<1> HIDE DEF node, blank, ends
<1>5. nodes \in Seq(Node) /\ Unique(nodes) /\ Ids(nodes) = Ids(def.nodes) \cup {AddedId(d)}
  BY <1>1, <1>4, SoundFields, AppendFacts
<1>6. signals \in Seq(SignalDef) /\ Unique(signals) /\ Elements(def.signals) \subseteq Elements(signals)
  <2>1. CASE kind \in {"UserTask", "Wait"}
    <3> DEFINE v == [id |-> signal]
    <3>1. v \in SignalDef /\ v.id \notin Ids(def.signals)
      BY <1>2, <2>1 DEF SignalDef
    <3>2. def.signals \in Seq(SignalDef) /\ Unique(def.signals)
      BY SoundFields
    <3>3. signals = Append(def.signals, v)
      BY <2>1
    <3> HIDE DEF v, signals, def
    <3> QED
      BY <3>1, <3>2, <3>3, AppendFacts
  <2>2. CASE kind \notin {"UserTask", "Wait"}
    BY <2>2, SoundFields
  <2> QED
    BY <2>1, <2>2
<1>7. forms_ \in Seq(FormDef) /\ Unique(forms_) /\ Elements(def.forms) \subseteq Elements(forms_)
  <2>1. CASE kind = "UserTask"
    <3> DEFINE v == [id |-> form, roles |-> 0]
    <3>1. v \in FormDef /\ v.id \notin Ids(def.forms)
      BY <1>3, <2>1 DEF FormDef
    <3>2. def.forms \in Seq(FormDef) /\ Unique(def.forms)
      BY SoundFields
    <3>3. forms_ = Append(def.forms, v)
      BY <2>1
    <3> HIDE DEF v, forms_, def
    <3> QED
      BY <3>1, <3>2, <3>3, AppendFacts
  <2>2. CASE kind # "UserTask"
    BY <2>2, SoundFields
  <2> QED
    BY <2>1, <2>2
<1>8. places \in [Ids(nodes) -> Nat]
  <2>1. DOMAIN places = Ids(nodes)
    BY <1>4, <1>5, SoundFields
  <2>2. \A id \in DOMAIN places : places[id] \in Nat
    BY SoundFields
  <2> HIDE DEF nodes
  <2> QED
    BY <2>1, <2>2
<1>9. DOMAIN e = DOMAIN d /\ e.definition = D /\ e.positions = places /\ e.uuid = d.uuid
  <2>0. DOMAIN d = {"definition", "uuid", "positions"}
        /\ DOMAIN def = {"key", "version", "active", "effective", "deprecated", "stages", "nodes",
                            "signals", "forms", "escalations"}
    BY SoundFields, DefinitionFields
  <2>1. e = [d EXCEPT !.definition.nodes = nodes,
                  !.definition.signals = IF kind \in {"UserTask", "Wait"} THEN Append(@, [id |-> signal]) ELSE @,
                  !.definition.forms = IF kind = "UserTask" THEN Append(@, [id |-> form, roles |-> 0]) ELSE @,
                  !.positions = [id \in DOMAIN @ \cup {node.id} |-> IF id = node.id THEN place ELSE @[id]]]
    BY Zenon DEF AddBlock, node, blank, ends
  <2> QED
    BY <2>0, <2>1
<1>10. D \in Definition /\ D.nodes = nodes /\ D.signals = signals /\ D.forms = forms_
       /\ D.stages = def.stages /\ D.escalations = def.escalations
  <2> DEFINE D1 == [def EXCEPT !.nodes = nodes]
             D2 == [D1 EXCEPT !.signals = signals]
  <2>1. D1 \in Definition
    BY <1>5, SoundFields, DefinitionWith
  <2>2. D2 \in Definition
    <3> HIDE DEF D1, signals
    <3> QED
      BY <1>6, <2>1, DefinitionWith
  <2>3. D \in Definition
    <3>1. [D2 EXCEPT !.forms = forms_] \in Definition
      <4> HIDE DEF D2, forms_
      <4> QED
        BY <1>7, <2>2, DefinitionWith
    <3> HIDE DEF forms_, nodes, signals
    <3> QED
      BY <3>1
  <2> HIDE DEF nodes, signals, forms_
  <2> QED
    BY <2>3, SoundFields, DefinitionFields
<1> HIDE DEF D, places, e, nodes, signals, forms_
<1>11. Sound(e)
  BY <1>5, <1>6, <1>7, <1>8, <1>9, <1>10, SoundFields DEF Sound, Document, CanOpen
<1>12. Added(e, d, node)
  BY <1>1, <1>4, <1>6, <1>7, <1>9, <1>10 DEF Added, nodes
<1> QED
  BY <1>1, <1>11, <1>12 DEF e

(* remove_node: the document stays sound and loses that block alone, with  *)
(* its coordinate.                                                         *)
LEMMA RemoveNodeSound ==
    ASSUME NEW d, Sound(d), NEW id
    PROVE  /\ Sound(RemoveNode(d, id))
           /\ RemoveNode(d, id).definition = [d.definition EXCEPT !.nodes = Without(d.definition.nodes, id)]
           /\ Elements(Without(d.definition.nodes, id)) = {n \in Elements(d.definition.nodes) : n.id # id}
           /\ Ids(Without(d.definition.nodes, id)) = Ids(d.definition.nodes) \ {id}
<1> DEFINE def == d.definition
           nodes == Without(def.nodes, id)
           D == [def EXCEPT !.nodes = nodes]
           p == [n \in DOMAIN d.positions \ {id} |-> d.positions[n]]
           e == RemoveNode(d, id)
<1>1. /\ nodes \in Seq(Node) /\ Unique(nodes) /\ Ids(nodes) = Ids(def.nodes) \ {id}
      /\ Elements(nodes) = {n \in Elements(def.nodes) : n.id # id}
  BY SoundFields, WithoutFacts
<1>2. DOMAIN e = DOMAIN d /\ e.definition = D /\ e.uuid = d.uuid /\ e.positions = p
  BY SoundFields DEF RemoveNode
<1>3. p \in [Ids(nodes) -> Nat]
  BY <1>1, SoundFields
<1>4. D \in Definition /\ D.nodes = nodes
  BY <1>1, SoundFields, DefinitionWith, DefinitionFields
<1>5. D.signals = def.signals /\ D.forms = def.forms /\ D.escalations = def.escalations
  OBVIOUS
<1> HIDE DEF nodes, D, p, e
<1>6. Sound(e)
  BY <1>1, <1>2, <1>3, <1>4, <1>5, SoundFields DEF Sound, Document, CanOpen
<1> QED
  BY <1>1, <1>2, <1>6 DEF e, D, nodes

-----------------------------------------------------------------------------
(* A block's routes, but for their target, and where they lead after a     *)
(* rename.                                                                 *)
LEMMA RetargetTyped ==
    ASSUME NEW n \in Node, NEW old \in NodeId, NEW new \in NodeId
    PROVE  /\ Retarget(n, old, new) \in Node /\ Retarget(n, old, new).id = n.id
           /\ Retarget(n, old, new).next = IF n.next = old THEN new ELSE n.next
           /\ Retarget(n, old, new).on_error = IF n.on_error = old THEN new ELSE n.on_error
           /\ Retarget(n, old, new).compensate = IF n.compensate = old THEN new ELSE n.compensate
           /\ Retarget(n, old, new).on_timeout = IF n.on_timeout = old THEN new ELSE n.on_timeout
           /\ DOMAIN Retarget(n, old, new).branches = DOMAIN n.branches
           /\ \A i \in DOMAIN n.branches : Retarget(n, old, new).branches[i].next =
                                                IF n.branches[i].next = old THEN new ELSE n.branches[i].next
           /\ \A f \in {"kind", "waits", "form", "handler", "topic", "stage", "computable"} : Retarget(n, old, new)[f] = n[f]
<1> DEFINE to(t) == IF t = old THEN new ELSE t
           bs == [i \in DOMAIN n.branches |-> [n.branches[i] EXCEPT !.next = to(n.branches[i].next)]]
           m == Retarget(n, old, new)
           v == [[[[[n EXCEPT !.next = to(n.next)] EXCEPT !.on_error = to(n.on_error)] EXCEPT !.compensate = to(n.compensate)]
                     EXCEPT !.on_timeout = to(n.on_timeout)] EXCEPT !.branches = bs]
<1>1. n.branches \in Seq(Branch) /\ \A i \in DOMAIN n.branches : n.branches[i] \in Branch
  BY NodeFieldTypes
<1>2. \A b \in Branch : [b EXCEPT !.next = to(b.next)] \in Branch /\ [b EXCEPT !.next = to(b.next)].next = to(b.next)
  BY DEF Branch
<1>3. DOMAIN bs = DOMAIN n.branches /\ \A i \in DOMAIN n.branches : bs[i] \in Branch /\ bs[i].next = to(n.branches[i].next)
  BY <1>1, <1>2
<1>4. bs \in Seq(Branch)
  <2> HIDE DEF bs
  <2>1. bs = [i \in DOMAIN n.branches |-> bs[i]]
    BY DEF bs
  <2> QED
    BY <1>1, <1>3, <2>1, MappedFacts
<1>5. m = [n EXCEPT !.next = to(@), !.on_error = to(@), !.compensate = to(@), !.on_timeout = to(@),
                    !.branches = bs]
  BY Zenon DEF Retarget, Mapped
<1>6. m = v
  <2> HIDE DEF bs, to, m
  <2> QED
    BY <1>5, NodeFieldTypes DEF v
<1>7. \A t : t \in Optional(NodeId) => to(t) \in Optional(NodeId)
  BY DEF Optional
<1>9. /\ v.id = n.id /\ v.next = to(n.next) /\ v.on_error = to(n.on_error) /\ v.compensate = to(n.compensate)
      /\ v.on_timeout = to(n.on_timeout) /\ v.branches = bs
      /\ \A f \in {"kind", "waits", "form", "handler", "topic", "stage", "computable"} : v[f] = n[f]
  <2> HIDE DEF bs, to
  <2> QED
    BY NodeFieldTypes
<1>10. /\ to(None) = None /\ \A t \in NodeId : to(t) \in NodeId /\ to(t) # None
       /\ \A t \in Optional(NodeId) : to(t) = None => t = None
  BY NoneIsNothing DEF Optional
<1>11. v \in Fields
  <2> HIDE DEF bs, to
  <2> QED
    BY <1>4, <1>7, NodeFieldTypes DEF Fields
<1>12. n.branches = <<>> => v.branches = <<>>
  <2>1. ASSUME n.branches = <<>> PROVE bs = <<>>
    <3>1. DOMAIN bs = {}
      BY <1>3, <2>1
    <3> HIDE DEF bs
    <3> QED
      BY <1>4, <3>1
  <2> QED
    BY <1>9, <2>1
<1>13. OfItsKind(n) /\ n.next \in Optional(NodeId) /\ n.on_error \in Optional(NodeId)
       /\ n.compensate \in Optional(NodeId) /\ n.on_timeout \in Optional(NodeId)
  BY NodeFieldTypes
<1>14. v.kind = n.kind /\ v.waits = n.waits /\ v.form = n.form /\ v.handler = n.handler /\ v.topic = n.topic
  BY <1>9
<1>8. v \in Node
  <2> HIDE DEF v, bs, to
  <2>1. OfItsKind(v)
    BY <1>9, <1>10, <1>12, <1>13, <1>14 DEF OfItsKind
  <2> QED
    BY <1>11, <2>1 DEF Node
<1> HIDE DEF m, v, bs
<1> QED
  BY <1>3, <1>6, <1>8, <1>9 DEF m

(* A block is saved under its own or a new identifier.                     *)
NodesSaved(d, id, draft, nodes) ==
    /\ SaveNode(d, id, draft).definition = [d.definition EXCEPT !.nodes = nodes]
    /\ Ids(nodes) = (Ids(d.definition.nodes) \ {id}) \cup {draft.id}
    /\ IF draft.id = id
       THEN Elements(nodes) = {n \in Elements(d.definition.nodes) : n.id # id} \cup {draft}
       ELSE Elements(nodes) = {Retarget(n, id, draft.id) :
                                  n \in {m \in Elements(d.definition.nodes) : m.id # id} \cup {draft}}

(* save_node_settings: the document stays sound, and its blocks are the    *)
(* others, following a new identifier, and the draft.                      *)
LEMMA SaveNodeSound ==
    ASSUME NEW d, Sound(d), NEW id \in Ids(d.definition.nodes), NEW draft \in Node,
           draft.id # id => draft.id \notin Ids(d.definition.nodes)
    PROVE  Sound(SaveNode(d, id, draft)) /\ \E nodes \in Seq(Node) : NodesSaved(d, id, draft, nodes)
<1> DEFINE s == d.definition.nodes
           t == Replaced(s, id, draft)
           u == [i \in DOMAIN t |-> Retarget(t[i], id, draft.id)]
           e == SaveNode(d, id, draft)
<1>0. draft.id \in NodeId /\ id \in NodeId /\ s \in Seq(Node) /\ Unique(s) /\ id \in Ids(s)
      /\ (draft.id = id \/ draft.id \notin Ids(s))
  BY SoundFields, NodeFieldTypes, NodeIds
<1>1. /\ t \in Seq(Node) /\ Unique(t) /\ Ids(t) = (Ids(s) \ {id}) \cup {draft.id}
      /\ Elements(t) = {n \in Elements(s) : n.id # id} \cup {draft}
  <2> HIDE DEF s
  <2> QED
    BY <1>0, ReplacedFacts
<1> HIDE DEF t
<1>2. CASE draft.id = id
  <2>1. Ids(t) = Ids(s)
    BY <1>0, <1>1, <1>2
  <2>2. e = WithNodes(d, t)
    BY <1>2, Zenon DEF SaveNode, t
  <2>3. Sound(e) /\ e.definition = [d.definition EXCEPT !.nodes = t]
    BY <1>1, <2>1, <2>2, NodesChange
  <2> HIDE DEF e
  <2> QED
    BY <1>1, <1>2, <2>3 DEF e, NodesSaved
<1>3. CASE draft.id # id
  <2>1. \A i \in DOMAIN t : t[i] \in Node
    BY <1>1
  <2>2. \A i \in DOMAIN t : u[i] \in Node /\ u[i].id = t[i].id
    BY <1>0, <2>1, RetargetTyped
  <2>3. u \in Seq(Node) /\ Ids(u) = Ids(t) /\ Unique(u) /\ DOMAIN u = DOMAIN t
    <3> HIDE DEF u
    <3>1. u = [i \in DOMAIN t |-> u[i]]
      BY DEF u
    <3> QED
      BY <1>1, <2>2, <3>1, MappedFacts
  <2>4. Elements(u) = {Retarget(n, id, draft.id) : n \in Elements(t)}
    BY DEF Elements
  <2> DEFINE p == [n \in (DOMAIN d.positions \ {id}) \cup {draft.id} |->
                      IF n = draft.id THEN d.positions[id] ELSE d.positions[n]]
             D == [d.definition EXCEPT !.nodes = u]
  <2>5. e = [WithNodes(d, u) EXCEPT !.positions = p]
    <3>1. e = [WithNodes(d, Mapped(t, LAMBDA n : Retarget(n, id, draft.id))) EXCEPT
                 !.positions = [n \in (DOMAIN d.positions \ {id}) \cup {draft.id} |-> IF n = draft.id THEN @[id] ELSE @[n]]]
      BY <1>3, Zenon DEF SaveNode, t
    <3>2. Mapped(t, LAMBDA n : Retarget(n, id, draft.id)) = u
      BY DEF Mapped
    <3>3. WithNodes(d, u).positions = d.positions
      BY SoundFields DEF WithNodes
    <3> HIDE DEF e, u
    <3> QED
      BY <3>1, <3>2, <3>3
  <2>6. DOMAIN e = DOMAIN d /\ e.definition = D /\ e.uuid = d.uuid /\ e.positions = p
    <3> HIDE DEF e, u, p
    <3> QED
      BY <2>5, SoundFields DEF WithNodes
  <2>7. D \in Definition /\ D.nodes = u
    <3> HIDE DEF u
    <3> QED
      BY <2>3, SoundFields, DefinitionWith, DefinitionFields
  <2>8. D.signals = d.definition.signals /\ D.forms = d.definition.forms /\ D.escalations = d.definition.escalations
    OBVIOUS
  <2>9. p \in [Ids(u) -> Nat]
    <3> HIDE DEF u
    <3> QED
      BY <1>1, <2>3, SoundFields
  <2> HIDE DEF e, u, p, D
  <2>10. Sound(e)
    BY <2>3, <2>6, <2>7, <2>8, <2>9, SoundFields DEF Sound, Document, CanOpen
  <2> QED
    BY <1>1, <1>3, <2>3, <2>4, <2>6, <2>10 DEF D, e, NodesSaved
<1> QED
  BY <1>2, <1>3

(* The settings of a process, and a definition that takes over new ones.   *)
LEMMA SettingsTyped ==
    ASSUME NEW d, Sound(d)
    PROVE  ProcessSettings(d) \in SettingsDef
BY SoundFields, DefinitionFields DEF ProcessSettings, SettingsDef

(* save_process_settings: the document stays sound and its blocks and      *)
(* declarations the same.                                                  *)
LEMMA SaveProcessSound ==
    ASSUME NEW d, Sound(d), NEW draft \in SettingsDef
    PROVE  /\ Sound(SaveProcess(d, draft))
           /\ SaveProcess(d, draft).definition.stages = draft.stages
           /\ \A f \in {"nodes"} \cup DeclarationKind : SaveProcess(d, draft).definition[f] = d.definition[f]
<1> DEFINE def == d.definition
           D == [f \in DOMAIN def |-> IF f \in DOMAIN draft THEN draft[f] ELSE def[f]]
           e == SaveProcess(d, draft)
<1>1. def \in Definition
  BY SoundFields
<1>2. DOMAIN e = DOMAIN d /\ e.definition = D /\ e.uuid = d.uuid /\ e.positions = d.positions
  BY SoundFields DEF SaveProcess
<1>3. /\ DOMAIN draft = {"key", "version", "active", "effective", "deprecated", "stages"}
      /\ draft.key \in Key /\ draft.version \in Nat /\ draft.active \in BOOLEAN
      /\ draft.effective \in Optional(Nat) /\ draft.deprecated \in Optional(Nat) /\ draft.stages \in Seq(StageDef)
  BY DEF SettingsDef
<1> DEFINE r == [key |-> draft.key, version |-> draft.version, active |-> draft.active, effective |-> draft.effective,
                 deprecated |-> draft.deprecated, stages |-> draft.stages, nodes |-> def.nodes, signals |-> def.signals,
                 forms |-> def.forms, escalations |-> def.escalations]
<1>4. D = r
  <2> HIDE DEF def
  <2>1. DOMAIN D = DOMAIN r
    BY <1>1, DefinitionFields
  <2>2. D.key = r.key /\ D.version = r.version /\ D.active = r.active /\ D.effective = r.effective /\ D.deprecated = r.deprecated
    BY <1>1, <1>3, DefinitionFields
  <2>3. D.stages = r.stages /\ D.nodes = r.nodes /\ D.signals = r.signals /\ D.forms = r.forms /\ D.escalations = r.escalations
    BY <1>1, <1>3, DefinitionFields
  <2>4. DOMAIN r = {"key", "version", "active", "effective", "deprecated", "stages", "nodes", "signals", "forms", "escalations"}
    OBVIOUS
  <2>5. D = [f \in DOMAIN D |-> D[f]] /\ r = [f \in DOMAIN r |-> r[f]]
    OBVIOUS
  <2> HIDE DEF D, r
  <2>6. \A f \in DOMAIN r : D[f] = r[f]
    BY <2>2, <2>3, <2>4
  <2> QED
    BY <2>1, <2>5, <2>6
<1>5. D \in Definition
  <2> HIDE DEF D, def
  <2> QED
    BY <1>1, <1>3, <1>4, DefinitionFields DEF Definition
<1>6. /\ D.nodes = def.nodes /\ D.signals = def.signals /\ D.forms = def.forms /\ D.escalations = def.escalations
      /\ D.stages = draft.stages
  BY <1>4
<1> HIDE DEF D, e
<1>7. Sound(e)
  BY <1>2, <1>5, <1>6, SoundFields DEF Sound, Document, CanOpen
<1> QED
  BY <1>2, <1>6, <1>7 DEF e, DeclarationKind

-----------------------------------------------------------------------------
(* Declarations.                                                           *)
IdOf(kind) == CASE kind = "forms" -> FormId [] kind = "signals" -> SignalId [] kind = "escalations" -> TopicId

(* The declarations of a kind, and the document with others in their       *)
(* place.                                                                  *)
LEMMA DeclarationTypes ==
    ASSUME NEW d, Sound(d), NEW kind \in DeclarationKind
    PROVE  /\ d.definition[kind] \in Seq(Declared(kind)) /\ Unique(d.definition[kind])
           /\ Ids(d.definition[kind]) \subseteq IdOf(kind) /\ None \notin IdOf(kind)
           /\ \A v \in Declared(kind) : v.id \in IdOf(kind)
           /\ \A s \in Seq(Declared(kind)) : [d.definition EXCEPT ![kind] = s] \in Definition
           /\ DeclarationKind \subseteq DOMAIN d.definition
<1>1. CASE kind = "forms"
  <2>1. \A v \in FormDef : v.id \in FormId
    BY DEF FormDef
  <2> QED
    BY <1>1, <2>1, SoundFields, DefinitionFields, DeclaredIds, DefinitionWith, NoneIsNothing DEF Declared, IdOf, DeclarationKind
<1>2. CASE kind = "signals"
  <2>1. \A v \in SignalDef : v.id \in SignalId
    BY DEF SignalDef
  <2> QED
    BY <1>2, <2>1, SoundFields, DefinitionFields, DeclaredIds, DefinitionWith, NoneIsNothing DEF Declared, IdOf, DeclarationKind
<1>3. CASE kind = "escalations"
  <2>1. \A v \in EscalationDef : v.id \in TopicId
    BY DEF EscalationDef
  <2> QED
    BY <1>3, <2>1, SoundFields, DefinitionFields, DeclaredIds, DefinitionWith, NoneIsNothing DEF Declared, IdOf, DeclarationKind
<1> QED
  BY <1>1, <1>2, <1>3 DEF DeclarationKind

Saved(s, original, value) == IF original = None THEN Append(s, value) ELSE Replaced(s, original, value)

(* Saving a declaration replaces the original, or adds to the others.      *)
LEMMA SavedFacts ==
    ASSUME NEW S, NEW s \in Seq(S), Unique(s), NEW original, original # None => original \in Ids(s),
           NEW value \in S, value.id # original => value.id \notin Ids(s), None \notin Ids(s), value.id # None
    PROVE  /\ Saved(s, original, value) \in Seq(S) /\ Unique(Saved(s, original, value))
           /\ Ids(Saved(s, original, value)) = (Ids(s) \ {original}) \cup {value.id}
           /\ Elements(Saved(s, original, value)) = {e \in Elements(s) : e.id # original} \cup {value}
<1>1. CASE original = None
  <2>1. \A e \in Elements(s) : e.id # None
    BY SeqFacts
  <2> QED
    BY <1>1, <2>1, AppendFacts DEF Saved
<1>2. CASE original # None
  BY <1>2, ReplacedFacts DEF Saved
<1> QED
  BY <1>1, <1>2

(* A node whose references to a declaration follow its new identifier.     *)
LEMMA RenameInNodeTyped ==
    ASSUME NEW n \in Node, NEW kind \in DeclarationKind, NEW old \in IdOf(kind), NEW new \in IdOf(kind)
    PROVE  /\ RenameInNode(n, kind, old, new) \in Node
           /\ DOMAIN RenameInNode(n, kind, old, new) = DOMAIN n
           /\ \A f \in DOMAIN n : RenameInNode(n, kind, old, new)[f] =
                CASE f = "form" /\ kind = "forms" /\ Refers(n, kind, old) -> new
                  [] f = "waits" /\ kind = "signals" /\ Refers(n, kind, old) -> (n.waits \ {old}) \cup {new}
                  [] f = "topic" /\ kind = "escalations" /\ Refers(n, kind, old) -> new
                  [] OTHER -> n[f]
<1>1. CASE kind = "forms" /\ Refers(n, kind, old)
  <2>1. RenameInNode(n, kind, old, new) = [n EXCEPT !.form = new]
    BY <1>1 DEF RenameInNode
  <2>2. n.form = old /\ old \in FormId /\ new \in FormId
    BY <1>1 DEF Refers, IdOf
  <2>3. n.kind = "UserTask"
    BY <2>2, NodeFieldTypes, NoneIsNothing DEF OfItsKind
  <2>4. [n EXCEPT !.form = new] \in Node
    BY <2>2, <2>3, NodeChanges
  <2>5. \A f \in DOMAIN n : [n EXCEPT !.form = new][f] = IF f = "form" THEN new ELSE n[f]
    BY NodeFieldTypes
  <2> QED
    BY <1>1, <2>1, <2>4, <2>5
<1>2. CASE kind = "signals" /\ Refers(n, kind, old)
  <2> DEFINE S == (n.waits \ {old}) \cup {new}
  <2>1. RenameInNode(n, kind, old, new) = [n EXCEPT !.waits = S]
    BY <1>2 DEF RenameInNode
  <2>2. n.waits # None /\ new \in SignalId
    BY <1>2 DEF Refers, IdOf
  <2>3. S \in SUBSET SignalId /\ n.kind \in {"UserTask", "Wait"}
    BY <2>2, NodeFieldTypes DEF OfItsKind, Optional
  <2> HIDE DEF S
  <2>4. [n EXCEPT !.waits = S] \in Node
    BY <2>3, NodeChanges
  <2>5. \A f \in DOMAIN n : [n EXCEPT !.waits = S][f] = IF f = "waits" THEN S ELSE n[f]
    BY NodeFieldTypes
  <2>6. \A f \in DOMAIN n : RenameInNode(n, kind, old, new)[f] = IF f = "waits" THEN S ELSE n[f]
    BY <2>1, <2>5
  <2> QED
    BY <1>2, <2>1, <2>4, <2>6 DEF S
<1>3. CASE kind = "escalations" /\ Refers(n, kind, old)
  <2>1. RenameInNode(n, kind, old, new) = [n EXCEPT !.topic = new]
    BY <1>3 DEF RenameInNode
  <2>2. n.handler = "create_support_ticket" /\ new \in TopicId
    BY <1>3 DEF Refers, IdOf
  <2>4. [n EXCEPT !.topic = new] \in Node
    BY <2>2, NodeChanges
  <2>5. \A f \in DOMAIN n : [n EXCEPT !.topic = new][f] = IF f = "topic" THEN new ELSE n[f]
    BY NodeFieldTypes
  <2> QED
    BY <1>3, <2>1, <2>4, <2>5
<1>4. CASE ~ Refers(n, kind, old)
  <2>1. RenameInNode(n, kind, old, new) = n
    BY <1>4 DEF RenameInNode
  <2> QED
    BY <1>4, <2>1
<1> QED
  BY <1>1, <1>2, <1>3, <1>4 DEF DeclarationKind

(* An escalation topic whose actions follow a signal's new identifier.     *)
LEMMA RenameInTopicTyped ==
    ASSUME NEW e \in EscalationDef, NEW old \in SignalId, NEW new \in SignalId
    PROVE  /\ RenameInTopic(e, old, new) \in EscalationDef /\ RenameInTopic(e, old, new).id = e.id
           /\ DOMAIN RenameInTopic(e, old, new).actions = DOMAIN e.actions
           /\ \A i \in DOMAIN e.actions : RenameInTopic(e, old, new).actions[i].emit =
                                            IF e.actions[i].emit = old THEN new ELSE e.actions[i].emit
<1> DEFINE to(a) == IF a.emit = old THEN [a EXCEPT !.emit = new] ELSE a
           t == [i \in DOMAIN e.actions |-> to(e.actions[i])]
           r == RenameInTopic(e, old, new)
<1>1. e.actions \in Seq(ActionDef) /\ \A i \in DOMAIN e.actions : e.actions[i] \in ActionDef
  BY DEF EscalationDef
<1>2. \A a \in ActionDef : to(a) \in ActionDef /\ to(a).emit = IF a.emit = old THEN new ELSE a.emit
  BY DEF ActionDef, Optional
<1>3. DOMAIN t = DOMAIN e.actions /\ \A i \in DOMAIN e.actions : t[i] \in ActionDef
             /\ t[i].emit = IF e.actions[i].emit = old THEN new ELSE e.actions[i].emit
  BY <1>1, <1>2
<1>4. t \in Seq(ActionDef)
  <2> HIDE DEF t
  <2>1. t = [i \in DOMAIN e.actions |-> t[i]]
    BY DEF t
  <2> QED
    BY <1>1, <1>3, <2>1, MappedFacts
<1>5. r = [e EXCEPT !.actions = t]
  BY DEF RenameInTopic, Mapped
<1> HIDE DEF t, r
<1>6. r \in EscalationDef /\ r.id = e.id /\ r.actions = t
  BY <1>4, <1>5 DEF EscalationDef
<1> QED
  BY <1>3, <1>6 DEF r

(* Renaming follows the references of every node, and of every topic if a  *)
(* signal is renamed.                                                      *)
Follows(r, def, kind, old, new) ==
    /\ Elements(r.nodes) = {RenameInNode(n, kind, old, new) : n \in Elements(def.nodes)}
    /\ Ids(r.nodes) = Ids(def.nodes) /\ r.signals = def.signals /\ r.forms = def.forms
    /\ r.stages = def.stages /\ Ids(r.escalations) = Ids(def.escalations)
    /\ Elements(r.escalations) =
             IF kind = "signals" THEN {RenameInTopic(e, old, new) : e \in Elements(def.escalations)}
             ELSE Elements(def.escalations)

(* rename_declaration_references: the definition stays well typed, and its *)
(* parts are the renamed ones.                                             *)
LEMMA RenameReferencesTyped ==
    ASSUME NEW def \in Definition, NEW kind \in DeclarationKind, NEW old \in IdOf(kind), NEW new \in IdOf(kind)
    PROVE  /\ RenameReferences(def, kind, old, new) \in Definition
           /\ Unique(def.nodes) => Unique(RenameReferences(def, kind, old, new).nodes)
           /\ Unique(def.escalations) => Unique(RenameReferences(def, kind, old, new).escalations)
           /\ Follows(RenameReferences(def, kind, old, new), def, kind, old, new)
<1> DEFINE nodes == [i \in DOMAIN def.nodes |-> RenameInNode(def.nodes[i], kind, old, new)]
           topics == IF kind = "signals" THEN [i \in DOMAIN def.escalations |-> RenameInTopic(def.escalations[i], old, new)]
                     ELSE def.escalations
           D == [[def EXCEPT !.nodes = nodes] EXCEPT !.escalations = topics]
           r == RenameReferences(def, kind, old, new)
<1>0. def.nodes \in Seq(Node) /\ def.escalations \in Seq(EscalationDef)
      /\ (\A i \in DOMAIN def.nodes : def.nodes[i] \in Node)
      /\ (\A i \in DOMAIN def.escalations : def.escalations[i] \in EscalationDef)
  <2>1. def.nodes \in Seq(Node) /\ def.escalations \in Seq(EscalationDef)
    BY DefinitionFields
  <2> QED
    BY <2>1
<1>1. r = D
  <2>1. r = [def EXCEPT !.nodes = nodes, !.escalations = topics]
    BY Zenon DEF RenameReferences, Mapped
  <2> HIDE DEF r, nodes, topics
  <2> QED
    BY <2>1, DefinitionFields
<1>2. nodes \in Seq(Node) /\ Ids(nodes) = Ids(def.nodes) /\ (Unique(def.nodes) => Unique(nodes))
  <2>1. \A n \in Node : n.id = RenameInNode(n, kind, old, new).id
    <3> TAKE n \in Node
    <3>1. "id" \in DOMAIN n
      BY NodeFieldTypes
    <3>2. RenameInNode(n, kind, old, new)["id"] = n["id"]
      BY <3>1, RenameInNodeTyped
    <3> QED
      BY <3>2
  <2>2. \A i \in DOMAIN def.nodes : nodes[i] \in Node /\ nodes[i].id = def.nodes[i].id
    BY <1>0, <2>1, RenameInNodeTyped
  <2> HIDE DEF nodes
  <2>3. nodes = [i \in DOMAIN def.nodes |-> nodes[i]]
    BY DEF nodes
  <2> QED
    BY <1>0, <2>2, <2>3, MappedFacts
<1>3. topics \in Seq(EscalationDef) /\ Ids(topics) = Ids(def.escalations) /\ (Unique(def.escalations) => Unique(topics))
  <2>1. CASE kind = "signals"
    <3>1. old \in SignalId /\ new \in SignalId
      BY <2>1 DEF IdOf
    <3>2. \A i \in DOMAIN def.escalations : topics[i] \in EscalationDef /\ topics[i].id = def.escalations[i].id
      BY <1>0, <2>1, <3>1, RenameInTopicTyped
    <3>3. topics = [i \in DOMAIN def.escalations |-> topics[i]]
      BY <2>1
    <3> HIDE DEF topics
    <3> QED
      BY <1>0, <3>2, <3>3, MappedFacts
  <2>2. CASE kind # "signals"
    BY <1>0, <2>2
  <2> QED
    BY <2>1, <2>2
<1>4. Elements(nodes) = {RenameInNode(n, kind, old, new) : n \in Elements(def.nodes)}
  BY DEF Elements
<1>5. Elements(topics) = IF kind = "signals" THEN {RenameInTopic(e, old, new) : e \in Elements(def.escalations)}
                         ELSE Elements(def.escalations)
  BY DEF Elements
<1> HIDE DEF nodes, topics, r
<1>6. [def EXCEPT !.nodes = nodes] \in Definition
  BY <1>2, DefinitionWith
<1>7. D \in Definition
  BY <1>3, <1>6, DefinitionWith
<1>8. D.nodes = nodes /\ D.escalations = topics /\ D.signals = def.signals /\ D.forms = def.forms /\ D.stages = def.stages
  BY DefinitionFields
<1> HIDE DEF D
<1> QED
  BY <1>1, <1>2, <1>3, <1>4, <1>5, <1>7, <1>8 DEF r, Follows

(* A declaration is saved: added, changed in place, or renamed together    *)
(* with what refers to it.                                                 *)
LEMMA SaveDeclarationSound ==
    ASSUME NEW d, Sound(d), NEW kind \in DeclarationKind, NEW original, NEW value \in Declared(kind),
           CanSaveDeclaration(d, kind, original, value)
    PROVE  /\ Sound(SaveDeclaration(d, kind, original, value))
           /\ \E saved \in Definition :
                /\ saved = [d.definition EXCEPT ![kind] = Saved(d.definition[kind], original, value)]
                /\ Ids(saved[kind]) = (Ids(d.definition[kind]) \ {original}) \cup {value.id}
                /\ Elements(saved[kind]) = {e \in Elements(d.definition[kind]) : e.id # original} \cup {value}
                /\ SaveDeclaration(d, kind, original, value).definition =
                     IF original \in {None, value.id} THEN saved
                     ELSE RenameReferences(saved, kind, original, value.id)
                /\ original \notin {None, value.id} => original \in IdOf(kind) /\ value.id \in IdOf(kind)
<1> DEFINE def == d.definition
           s == def[kind]
           t == Saved(s, original, value)
           saved == [def EXCEPT ![kind] = t]
           e == SaveDeclaration(d, kind, original, value)
           D == IF original \in {None, value.id} THEN saved ELSE RenameReferences(saved, kind, original, value.id)
<1>1. /\ s \in Seq(Declared(kind)) /\ Unique(s) /\ Ids(s) \subseteq IdOf(kind) /\ None \notin IdOf(kind)
      /\ value.id \in IdOf(kind) /\ kind \in DOMAIN def /\ def \in Definition
  BY DeclarationTypes, SoundFields
<1>2. (original # None => original \in Ids(s)) /\ (value.id # original => value.id \notin Ids(s))
  BY DEF CanSaveDeclaration
<1>3. /\ t \in Seq(Declared(kind)) /\ Unique(t) /\ Ids(t) = (Ids(s) \ {original}) \cup {value.id}
      /\ Elements(t) = {x \in Elements(s) : x.id # original} \cup {value}
  <2> HIDE DEF s
  <2> QED
    BY <1>1, <1>2, SavedFacts
<1>4. saved \in Definition
  <2> HIDE DEF t
  <2> QED
    BY <1>3, DeclarationTypes
<1>5. e = [d EXCEPT !.definition = D]
  BY Zenon DEF SaveDeclaration, Saved
<1>6. saved[kind] = t /\ (\A f \in DOMAIN def \ {kind} : saved[f] = def[f]) /\ DOMAIN saved = DOMAIN def
  <2> HIDE DEF t
  <2> QED
    BY <1>1
<1>7. CanOpen(saved) /\ Ids(saved.nodes) = Ids(def.nodes)
  <2> HIDE DEF t, saved, def
  <2> QED
    BY <1>1, <1>3, <1>6, SoundFields, DefinitionFields DEF CanOpen, DeclarationKind, def
<1>8. original \notin {None, value.id} => original \in IdOf(kind)
  BY <1>1, <1>2
<1>9. D \in Definition /\ CanOpen(D) /\ Ids(D.nodes) = Ids(def.nodes)
  <2> HIDE DEF saved, def, s, t
  <2>1. CASE original \in {None, value.id}
    BY <1>4, <1>7, <2>1
  <2>2. CASE original \notin {None, value.id}
    <3> DEFINE r == RenameReferences(saved, kind, original, value.id)
    <3>1. /\ r \in Definition /\ Ids(r.nodes) = Ids(saved.nodes) /\ (Unique(saved.nodes) => Unique(r.nodes))
          /\ r.signals = saved.signals /\ r.forms = saved.forms
          /\ (Unique(saved.escalations) => Unique(r.escalations))
      BY <1>1, <1>4, <1>8, <2>2, RenameReferencesTyped DEF Follows
    <3>2. D = r
      BY <2>2
    <3> HIDE DEF D, r
    <3> QED
      BY <1>7, <3>1, <3>2 DEF CanOpen
  <2> QED
    BY <2>1, <2>2
<1> HIDE DEF saved, t
<1>10. DOMAIN e = DOMAIN d /\ e.definition = D /\ e.uuid = d.uuid /\ e.positions = d.positions
  <2> HIDE DEF D, e
  <2> QED
    BY <1>5, SoundFields
<1>11. Sound(e)
  <2> HIDE DEF D, e
  <2> QED
    BY <1>9, <1>10, SoundFields DEF Sound, Document
<1> HIDE DEF e
<1> QED
  BY <1>1, <1>3, <1>4, <1>6, <1>8, <1>10, <1>11, Zenon DEF saved, t, e

(* A declaration is removed.                                               *)
DeclarationGone(d, kind, id) ==
    LET t == Without(d.definition[kind], id)
    IN  /\ RemoveDeclaration(d, kind, id).definition = [d.definition EXCEPT ![kind] = t]
        /\ Ids(t) = Ids(d.definition[kind]) \ {id}
        /\ Elements(t) = {v \in Elements(d.definition[kind]) : v.id # id}

(* remove_declaration: the document stays sound and loses that declaration *)
(* alone.                                                                  *)
LEMMA RemoveDeclarationSound ==
    ASSUME NEW d, Sound(d), NEW kind \in DeclarationKind, NEW id
    PROVE  Sound(RemoveDeclaration(d, kind, id)) /\ DeclarationGone(d, kind, id)
<1> DEFINE def == d.definition
           s == def[kind]
           t == Without(s, id)
           D == [def EXCEPT ![kind] = t]
           e == RemoveDeclaration(d, kind, id)
<1>1. s \in Seq(Declared(kind)) /\ Unique(s) /\ kind \in DOMAIN def /\ def \in Definition
  BY DeclarationTypes, SoundFields
<1>2. /\ t \in Seq(Declared(kind)) /\ Unique(t) /\ Ids(t) = Ids(s) \ {id}
      /\ Elements(t) = {v \in Elements(s) : v.id # id}
  <2> HIDE DEF s
  <2> QED
    BY <1>1, WithoutFacts
<1> HIDE DEF t
<1>3. D \in Definition
  BY <1>2, DeclarationTypes
<1>4. D[kind] = t /\ (\A f \in DOMAIN def \ {kind} : D[f] = def[f]) /\ DOMAIN D = DOMAIN def
  BY <1>1
<1>5. e = [d EXCEPT !.definition = D]
  BY SoundFields DEF RemoveDeclaration, t
<1>6. CanOpen(D) /\ Ids(D.nodes) = Ids(def.nodes)
  <2> HIDE DEF D, def
  <2> QED
    BY <1>1, <1>2, <1>4, SoundFields, DefinitionFields DEF CanOpen, DeclarationKind, def
<1> HIDE DEF e, D
<1>7. DOMAIN e = DOMAIN d /\ e.definition = D /\ e.uuid = d.uuid /\ e.positions = d.positions
  BY <1>5, SoundFields
<1>8. Sound(e)
  BY <1>3, <1>6, <1>7, SoundFields DEF Sound, Document
<1> QED
  BY <1>2, <1>7, <1>8 DEF e, D, t, DeclarationGone

(* A form holds nothing, or a draft and the settings it started from; an   *)
(* open panel holds a declaration.                                         *)
NodeFormTyped(f) ==
    /\ f \in [id: Optional(NodeId), draft: Optional(Node), baseline: Optional(Node)]
    /\ \/ f.draft = None /\ f.baseline = None
       \/ f.draft \in Node /\ f.baseline \in Node
ProcessForms == [id: {"process"}, draft: SettingsDef, baseline: SettingsDef]
Panels(kind) == [editing: BOOLEAN, original: Optional(IdOf(kind)), draft: Optional(Declared(kind)),
                 baseline: Optional(Declared(kind))]
PanelTyped(kind, p) == p \in Panels(kind) /\ (p.editing => p.draft \in Declared(kind))

FormsTyped ==
    /\ selected \in Optional(NodeId) /\ connecting \in Optional(NodeId) /\ drag \in Optional(NodeId)
    /\ NodeFormTyped(nodeForm) /\ processForm \in ProcessForms
    /\ DOMAIN panel = DeclarationKind /\ \A kind \in DeclarationKind : PanelTyped(kind, panel[kind])
    /\ published \in Optional([key: Key, version: Nat])

-----------------------------------------------------------------------------
(* A block form is filled from the document.                               *)
LEMMA NodeFormFilled ==
    ASSUME NEW d, Sound(d), NEW sel \in Optional(NodeId)
    PROVE  NodeFormTyped(NodeFormFor(d, sel))
<1>1. CASE sel = None
  BY <1>1 DEF NodeFormFor, NoForm, NodeFormTyped, Optional
<1>2. CASE sel # None /\ sel \in Ids(d.definition.nodes)
  BY <1>2, NodeOfFacts DEF NodeFormFor, Filled, NodeFormTyped, Optional
<1>3. CASE sel # None /\ sel \notin Ids(d.definition.nodes)
  BY <1>3 DEF NodeFormFor, Filled, NodeFormTyped, Optional, NodeOf
<1> QED
  BY <1>1, <1>2, <1>3

(* A declaration that is found has the type and the identifier looked for. *)
LEMMA DeclarationFacts ==
    ASSUME NEW d, Sound(d), NEW kind \in DeclarationKind, NEW id
    PROVE  /\ id \in Ids(d.definition[kind]) => /\ Declaration(d, kind, id) \in Declared(kind)
                                                /\ Declaration(d, kind, id) = Find(d.definition[kind], id)
                                                /\ id \in IdOf(kind) /\ id # None
           /\ id \notin Ids(d.definition[kind]) => Declaration(d, kind, id) = None
           /\ Declaration(d, kind, id) \in Optional(Declared(kind))
<1>1. CASE id \in Ids(d.definition[kind])
  <2>1. d.definition[kind] \in Seq(Declared(kind)) /\ id \in IdOf(kind) /\ id # None
    BY <1>1, DeclarationTypes
  <2>2. Find(d.definition[kind], id) \in Declared(kind)
    BY <1>1, <2>1, FindFacts
  <2> QED
    BY <1>1, <2>1, <2>2 DEF Declaration, Optional
<1>2. CASE id \notin Ids(d.definition[kind])
  BY <1>2 DEF Declaration, Optional
<1> QED
  BY <1>1, <1>2

(* The effects that refresh a clean form keep the forms typed: a panel     *)
(* whose declaration is gone closes.                                       *)
LEMMA RefreshPanelTyped ==
    ASSUME NEW d, Sound(d), NEW kind \in DeclarationKind, NEW p \in Panels(kind),
           p.original = None \/ p.draft # p.baseline => PanelTyped(kind, p)
    PROVE  PanelTyped(kind, RefreshPanel(d, kind, p))
<1> DEFINE v == Declaration(d, kind, p.original)
<1>1. CASE p.original = None
  BY <1>1 DEF RefreshPanel
<1>2. CASE p.original # None /\ v = None
  <2>1. RefreshPanel(d, kind, p) = ClosedPanel
    BY <1>2 DEF RefreshPanel
  <2> QED
    BY <2>1 DEF ClosedPanel, PanelTyped, Panels, Optional
<1>3. CASE p.original # None /\ v # None /\ p.draft = p.baseline
  <2>1. RefreshPanel(d, kind, p) = [p EXCEPT !.draft = v, !.baseline = v]
    BY <1>3 DEF RefreshPanel
  <2>2. v \in Declared(kind)
    BY <1>3, DeclarationFacts
  <2> HIDE DEF v
  <2> QED
    BY <2>1, <2>2 DEF PanelTyped, Panels, Optional
<1>4. CASE p.original # None /\ v # None /\ p.draft # p.baseline
  <2>1. RefreshPanel(d, kind, p) = p
    BY <1>4 DEF RefreshPanel
  <2> QED
    BY <1>4, <2>1
<1> QED
  BY <1>1, <1>2, <1>3, <1>4

(* A panel is filled from the document, or with nothing if the declaration *)
(* is gone.                                                                *)
LEMMA PanelForTyped ==
    ASSUME NEW d, Sound(d), NEW kind \in DeclarationKind, NEW id \in IdOf(kind)
    PROVE  PanelFor(d, kind, id) \in Panels(kind) /\ PanelFor(d, kind, id).draft = PanelFor(d, kind, id).baseline
           /\ PanelFor(d, kind, id).original # None
<1>1. id # None
  BY DeclarationTypes
<1>2. Declaration(d, kind, id) \in Optional(Declared(kind))
  BY DeclarationFacts
<1> QED
  BY <1>1, <1>2 DEF PanelFor, Panels, Optional

(* All forms after the reactive effects.                                   *)
LEMMA SettleTyped ==
    ASSUME NEW nf, NodeFormTyped(nf), NEW pf \in ProcessForms, NEW pn,
           \A kind \in DeclarationKind :
               pn[kind] \in Panels(kind)
               /\ (pn[kind].original = None \/ pn[kind].draft # pn[kind].baseline => PanelTyped(kind, pn[kind])),
           Sound(doc'), selected' \in Optional(NodeId), Settle(nf, pf, pn)
    PROVE  /\ NodeFormTyped(nodeForm') /\ processForm' \in ProcessForms
           /\ DOMAIN panel' = DeclarationKind /\ \A kind \in DeclarationKind : PanelTyped(kind, panel'[kind])
<1>1. NodeFormTyped(nodeForm')
  <2>1. nodeForm' \in {nf, NodeFormFor(doc', selected')}
    BY DEF Settle, RefreshNode
  <2> QED
    BY <2>1, NodeFormFilled
<1>2. processForm' \in ProcessForms
  <2>1. processForm' \in {pf, ProcessFormFor(doc')}
    BY DEF Settle, RefreshProcess
  <2>2. ProcessFormFor(doc') \in ProcessForms
    BY SettingsTyped DEF ProcessFormFor, Filled, ProcessForms
  <2> QED
    BY <2>1, <2>2
<1>3. panel' = [kind \in DeclarationKind |-> RefreshPanel(doc', kind, pn[kind])]
  BY DEF Settle
<1>4. ASSUME NEW kind \in DeclarationKind PROVE PanelTyped(kind, panel'[kind])
  BY <1>3, RefreshPanelTyped
<1> QED
  BY <1>1, <1>2, <1>3, <1>4

-----------------------------------------------------------------------------
(* What the user types.                                                    *)
LEMMA ProcessChoicesTyped ==
    ASSUME NEW p \in SettingsDef, NEW f \in {"stages", "dates"}, NEW q \in ProcessChoices(p)[f]
    PROVE  q \in SettingsDef
<1>0. p.stages \in Seq(StageDef)
  BY DEF SettingsDef
<1>1. CASE f = "dates"
  <2>1. ProcessChoices(p)[f] = {[p EXCEPT !.effective = 1, !.deprecated = t] : t \in {1, 2}}
    BY <1>1 DEF ProcessChoices
  <2>2. PICK t \in {1, 2} : q = [p EXCEPT !.effective = 1, !.deprecated = t]
    BY <2>1
  <2>3. 1 \in Nat /\ t \in Nat
    OBVIOUS
  <2> QED
    BY <2>2, <2>3 DEF SettingsDef, Optional
<1>2. CASE f = "stages"
  <2>1. ProcessChoices(p)[f] = {[p EXCEPT !.stages = Without(p.stages, id)] : id \in Ids(p.stages)}
                               \cup {[p EXCEPT !.stages = Append(p.stages, [id |-> id, initial |-> FALSE])] : id \in StageId}
    BY <1>2 DEF ProcessChoices
  <2>2. \A t \in Seq(StageDef) : [p EXCEPT !.stages = t] \in SettingsDef
    BY DEF SettingsDef
  <2>3. \A id : Without(p.stages, id) \in Seq(StageDef)
    BY <1>0, WithoutFacts
  <2>4. \A id \in StageId : Append(p.stages, [id |-> id, initial |-> FALSE]) \in Seq(StageDef)
    <3>1. \A id \in StageId : [id |-> id, initial |-> FALSE] \in StageDef
      BY DEF StageDef
    <3>2. \A s \in Seq(StageDef) : \A x \in StageDef : Append(s, x) \in Seq(StageDef)
      OBVIOUS
    <3> QED
      BY <1>0, <3>1, <3>2
  <2> QED
    BY <2>1, <2>2, <2>3, <2>4
<1> QED
  BY <1>1, <1>2

(* What the user may type into a declaration panel.                        *)
LEMMA DeclarationChoicesTyped ==
    ASSUME NEW d, Sound(d), NEW kind \in DeclarationKind, NEW v \in Declared(kind), NEW w \in DeclarationChoices(kind, v, d)
    PROVE  w \in Declared(kind)
<1>1. CASE kind = "forms"
  <2>1. v \in FormDef /\ 1 - v.roles \in 0 .. 1
    BY <1>1 DEF Declared, FormDef
  <2>2. w \in {[v EXCEPT !.id = x] : x \in FormId} \cup {[v EXCEPT !.roles = 1 - v.roles]}
    BY <1>1 DEF DeclarationChoices
  <2>3. w \in FormDef
    BY <2>1, <2>2 DEF FormDef
  <2> QED
    BY <1>1, <2>3 DEF Declared
<1>2. CASE kind = "signals"
  <2>1. v \in SignalDef
    BY <1>2 DEF Declared
  <2>2. w \in {[v EXCEPT !.id = x] : x \in SignalId}
    BY <1>2 DEF DeclarationChoices
  <2>3. w \in SignalDef
    BY <2>1, <2>2 DEF SignalDef
  <2> QED
    BY <1>2, <2>3 DEF Declared
<1>3. CASE kind = "escalations"
  <2>1. v \in EscalationDef
    BY <1>3 DEF Declared
  <2>2. w \in {[v EXCEPT !.id = x] : x \in TopicId}
             \cup {[v EXCEPT !.actions = <<[id |-> a, emit |-> s]>>] : a \in ActionId, s \in Ids(d.definition.signals)}
    BY <1>3 DEF DeclarationChoices
  <2>3. \A a \in ActionId, s \in Ids(d.definition.signals) : <<[id |-> a, emit |-> s]>> \in Seq(ActionDef)
    <3>1. Ids(d.definition.signals) \subseteq SignalId
      BY SoundFields, DeclaredIds
    <3>2. \A a \in ActionId, s \in Ids(d.definition.signals) : [id |-> a, emit |-> s] \in ActionDef
      BY <3>1 DEF ActionDef, Optional
    <3>3. \A x \in ActionDef : <<x>> \in Seq(ActionDef)
      OBVIOUS
    <3> QED
      BY <3>2, <3>3
  <2>4. w \in EscalationDef
    <3>1. \A x \in TopicId : [v EXCEPT !.id = x] \in EscalationDef
      BY <2>1 DEF EscalationDef
    <3>2. \A t \in Seq(ActionDef) : [v EXCEPT !.actions = t] \in EscalationDef
      BY <2>1 DEF EscalationDef
    <3>3. CASE \E x \in TopicId : w = [v EXCEPT !.id = x]
      BY <3>1, <3>3
    <3>4. CASE \E a \in ActionId, s \in Ids(d.definition.signals) : w = [v EXCEPT !.actions = <<[id |-> a, emit |-> s]>>]
      <4>1. PICK a \in ActionId, s \in Ids(d.definition.signals) : w = [v EXCEPT !.actions = <<[id |-> a, emit |-> s]>>]
        BY <3>4
      <4>2. PICK t \in Seq(ActionDef) : w = [v EXCEPT !.actions = t]
        BY <2>3, <4>1
      <4> QED
        BY <3>2, <4>2
    <3> QED
      BY <2>2, <3>3, <3>4
  <2> QED
    BY <1>3, <2>4 DEF Declared
<1> QED
  BY <1>1, <1>2, <1>3 DEF DeclarationKind

(* A new declaration gets an identifier that is not in use.                *)
LEMMA NewDeclarationTyped ==
    ASSUME NEW d, NEW kind \in DeclarationKind, CanAddDeclaration(d, kind)
    PROVE  NewDeclaration(d, kind) \in Declared(kind)
<1>1. CASE kind = "forms"
  BY <1>1, FreshFacts DEF CanAddDeclaration, NewDeclaration, Declared, FormDef
<1>2. CASE kind = "signals"
  BY <1>2, FreshFacts DEF CanAddDeclaration, NewDeclaration, Declared, SignalDef
<1>3. CASE kind = "escalations"
  <2>1. << >> \in Seq(ActionDef)
    OBVIOUS
  <2> QED
    BY <1>3, <2>1, FreshFacts DEF CanAddDeclaration, NewDeclaration, Declared, EscalationDef
<1> QED
  BY <1>1, <1>2, <1>3 DEF DeclarationKind

(* Past and future hold documents, and no more of them than edits were     *)
(* made: so nothing was dropped while there are at most HistoryLimit edits. *)
HistoryTyped ==
    \E S : /\ doc \in S /\ past \in Seq(S) /\ future \in Seq(S)
           /\ \A d \in S : Sound(d)

UndoInv ==
    /\ edits \in Nat
    /\ HistoryTyped
    /\ Len(past) + Len(future) <= edits
    /\ HistoryIsBounded
    /\ UndoReachesTheStart

-----------------------------------------------------------------------------
(* A sequence of documents is one of a larger set of documents.            *)
LEMMA SeqWidens ==
    ASSUME NEW S, NEW T, S \subseteq T, NEW s \in Seq(S)
    PROVE  s \in Seq(T)
OBVIOUS

(* What recording a history entry does to the sequence it is pushed on.    *)
LEMMA PushFacts ==
    ASSUME NEW S, NEW h \in Seq(S), NEW d \in S, Len(h) <= HistoryLimit
    PROVE  /\ Push(h, d) \in Seq(S)
           /\ Len(Push(h, d)) <= HistoryLimit
           /\ Len(Push(h, d)) <= Len(h) + 1
           /\ Len(h) < HistoryLimit => /\ Push(h, d) # <<>>
                                       /\ Push(h, d)[1] = IF h = <<>> THEN d ELSE h[1]
<1>1. CASE Len(h) = HistoryLimit
  <2>1. h # <<>>
    BY <1>1, EditorTypes
  <2>2. Tail(h) \in Seq(S) /\ Len(Tail(h)) = Len(h) - 1
    BY <2>1
  <2> QED
    BY <1>1, <2>2, EditorTypes DEF Push
<1>2. CASE Len(h) # HistoryLimit
  <2>1. Push(h, d) = Append(h, d)
    BY <1>2 DEF Push
  <2>2. Len(h) + 1 <= HistoryLimit
    BY <1>2, EditorTypes
  <2>3. /\ Append(h, d) \in Seq(S) /\ Len(Append(h, d)) = Len(h) + 1
        /\ \A i \in 1 .. Len(h) : Append(h, d)[i] = h[i]
        /\ Append(h, d)[Len(h) + 1] = d
    OBVIOUS
  <2>4. Append(h, d) # <<>> /\ Append(h, d)[1] = IF h = <<>> THEN d ELSE h[1]
    <3>1. CASE h = <<>>
      BY <2>3, <3>1
    <3>2. CASE h # <<>>
      <4>1. 1 \in 1 .. Len(h)
        BY <3>2
      <4> QED
        BY <2>3, <3>2, <4>1
    <3> QED
      BY <3>1, <3>2
  <2> QED
    BY <2>1, <2>2, <2>3, <2>4
<1> QED
  BY <1>1, <1>2

(* What undo and redo leave of the sequence they take a document from.     *)
LEMMA PopFacts ==
    ASSUME NEW S, NEW h \in Seq(S), h # <<>>
    PROVE  /\ Top(h) \in S /\ Front(h) \in Seq(S)
           /\ Len(Front(h)) = Len(h) - 1
           /\ IF Front(h) = <<>> THEN Top(h) = h[1] ELSE Front(h)[1] = h[1]
<1>1. Len(h) \in Nat \ {0}
  OBVIOUS
<1>2. Top(h) \in S
  BY <1>1 DEF Top
<1>3. /\ Front(h) \in Seq(S) /\ Len(Front(h)) = Len(h) - 1
      /\ \A i \in 1 .. Len(h) - 1 : Front(h)[i] = h[i]
  <2> DEFINE n == Len(h) - 1
             f == SubSeq(h, 1, n)
  <2>1. n \in Nat /\ n \in Int /\ 1 \in Int /\ n - 1 + 1 = n
    BY <1>1
  <2>2. \A i \in 1 .. n : h[i] \in S
    BY <1>1
  <2>3. f = Front(h)
    BY DEF Front
  <2> HIDE DEF n
  <2>4. /\ f \in Seq(S) /\ Len(f) = IF 1 <= n THEN n - 1 + 1 ELSE 0
        /\ \A i \in 1 .. n - 1 + 1 : f[i] = h[1 + i - 1]
    BY <2>1, <2>2, SubSeqProperties
  <2>5. Len(f) = n /\ \A i \in 1 .. n : f[i] = h[i]
    BY <2>1, <2>4
  <2> QED
    BY <2>3, <2>4, <2>5 DEF n
<1>4. CASE Len(h) = 1
  BY <1>2, <1>3, <1>4 DEF Top
<1>5. CASE Len(h) # 1
  <2>1. Front(h) # <<>> /\ 1 \in 1 .. Len(h) - 1
    BY <1>1, <1>3, <1>5
  <2> QED
    BY <1>2, <1>3, <2>1
<1> QED
  BY <1>4, <1>5

-----------------------------------------------------------------------------
(* An edit records the document it replaces and drops the redo branch.     *)
LEMMA EditKeeps ==
    ASSUME UndoInv, Checkpoint, Sound(doc')
    PROVE  UndoInv'
<1>1. PICK S : /\ doc \in S /\ past \in Seq(S) /\ future \in Seq(S)
               /\ \A d \in S : Sound(d)
  BY DEF UndoInv, HistoryTyped
<1> DEFINE T == S \cup {doc'}
<1>2. Len(past) \in Nat /\ Len(future) \in Nat /\ Len(past) <= HistoryLimit
  BY <1>1, EditorTypes DEF UndoInv, HistoryIsBounded
<1>3. /\ past' = Push(past, doc) /\ future' = <<>>
      /\ edits' = edits + 1 /\ edits \in Nat
  BY DEF Checkpoint, UndoInv
<1>4. past' \in Seq(S)
  BY <1>1, <1>2, <1>3, PushFacts
<1>5. HistoryTyped'
  <2>1. past' \in Seq(T) /\ future' \in Seq(T)
    BY <1>3, <1>4, SeqWidens
  <2>2. doc' \in T /\ \A d \in T : Sound(d)
    BY <1>1
  <2> QED
    BY <2>1, <2>2 DEF HistoryTyped
<1>6. /\ Len(past') \in Nat /\ Len(future') = 0
      /\ Len(past') <= HistoryLimit /\ Len(past') <= Len(past) + 1
  BY <1>1, <1>2, <1>3, <1>4, PushFacts
<1>7. Len(past') + Len(future') <= edits' /\ HistoryIsBounded'
  BY <1>2, <1>3, <1>6, EditorTypes DEF UndoInv, HistoryIsBounded
<1>8. UndoReachesTheStart'
  <2> SUFFICES ASSUME edits' <= HistoryLimit
               PROVE  Oldest' = Oldest
    BY <1>3, EditorTypes DEF UndoInv, UndoReachesTheStart
  <2>1. Len(past) < HistoryLimit
    BY <1>2, <1>3, EditorTypes DEF UndoInv
  <2>2. past' # <<>> /\ past'[1] = IF past = <<>> THEN doc ELSE past[1]
    BY <1>1, <1>2, <1>3, <2>1, PushFacts
  <2> QED
    BY <2>2 DEF Oldest
<1> QED
  BY <1>3, <1>5, <1>7, <1>8 DEF UndoInv

(* undo keeps the history's invariant.                                     *)
LEMMA UndoKeeps ==
    ASSUME UndoInv, Undo
    PROVE  UndoInv'
<1>1. PICK S : /\ doc \in S /\ past \in Seq(S) /\ future \in Seq(S)
               /\ \A d \in S : Sound(d)
  BY DEF UndoInv, HistoryTyped
<1>2. /\ past # <<>> /\ doc' = Top(past) /\ past' = Front(past)
      /\ future' = Append(future, doc) /\ edits' = edits
  BY DEF Undo
<1>3. /\ doc' \in S /\ past' \in Seq(S) /\ Len(past') = Len(past) - 1
      /\ IF past' = <<>> THEN doc' = past[1] ELSE past'[1] = past[1]
  BY <1>1, <1>2, PopFacts
<1>4. future' \in Seq(S) /\ Len(future') = Len(future) + 1
  BY <1>1, <1>2
<1>5. Len(past) \in Nat /\ Len(future) \in Nat
  BY <1>1
<1>6. HistoryTyped'
  BY <1>1, <1>3, <1>4 DEF HistoryTyped
<1>7. Len(past') + Len(future') <= edits' /\ HistoryIsBounded'
  BY <1>2, <1>3, <1>4, <1>5 DEF UndoInv, HistoryIsBounded
<1>8. Oldest' = Oldest
  BY <1>2, <1>3 DEF Oldest
<1> QED
  BY <1>2, <1>6, <1>7, <1>8 DEF UndoInv, UndoReachesTheStart

(* redo keeps it too, without checking the limit.                          *)
LEMMA RedoKeeps ==
    ASSUME UndoInv, Redo
    PROVE  UndoInv'
<1>1. PICK S : /\ doc \in S /\ past \in Seq(S) /\ future \in Seq(S)
               /\ \A d \in S : Sound(d)
  BY DEF UndoInv, HistoryTyped
<1>2. /\ future # <<>> /\ doc' = Top(future) /\ future' = Front(future)
      /\ past' = Append(past, doc) /\ edits' = edits
  BY DEF Redo
<1>3. doc' \in S /\ future' \in Seq(S) /\ Len(future') = Len(future) - 1
  BY <1>1, <1>2, PopFacts
<1>4. /\ past' \in Seq(S) /\ Len(past') = Len(past) + 1
      /\ past' # <<>> /\ past'[1] = IF past = <<>> THEN doc ELSE past[1]
  <2>1. CASE past = <<>>
    BY <1>1, <1>2, <2>1
  <2>2. CASE past # <<>>
    BY <1>1, <1>2, <2>2
  <2> QED
    BY <2>1, <2>2
<1>5. Len(past) \in Nat /\ Len(future) \in Nat
  BY <1>1
<1>6. HistoryTyped'
  BY <1>1, <1>3, <1>4 DEF HistoryTyped
<1>7. Len(past') + Len(future') <= edits' /\ HistoryIsBounded'
  BY <1>2, <1>3, <1>4, <1>5 DEF UndoInv, HistoryIsBounded
<1>8. Oldest' = Oldest
  BY <1>4 DEF Oldest
<1> QED
  BY <1>2, <1>6, <1>7, <1>8 DEF UndoInv, UndoReachesTheStart

(* A drag that goes on after an undo moves a block of the restored         *)
(* document, and leaves its definition alone.                              *)
LEMMA DragKeeps ==
    ASSUME UndoInv, NEW place \in Nat, DragMove(place)
    PROVE  UndoInv'
<1>1. PICK S : /\ doc \in S /\ past \in Seq(S) /\ future \in Seq(S)
               /\ \A d \in S : Sound(d)
  BY DEF UndoInv, HistoryTyped
<1> DEFINE T == S \cup {doc'}
<1>2. UNCHANGED <<past, future, edits>> /\ doc' = MoveNode(doc, drag, place)
  BY DEF DragMove
<1>3. Sound(doc') /\ doc'.definition = doc.definition
  BY <1>1, <1>2, MoveNodeSound
<1>4. HistoryTyped'
  <2>1. past' \in Seq(T) /\ future' \in Seq(T)
    BY <1>1, <1>2, SeqWidens
  <2>2. doc' \in T /\ \A d \in T : Sound(d)
    BY <1>1, <1>3
  <2> QED
    BY <2>1, <2>2 DEF HistoryTyped
<1>5. Oldest'.definition = Oldest.definition
  BY <1>2, <1>3 DEF Oldest
<1> QED
  BY <1>2, <1>4, <1>5 DEF UndoInv, UndoReachesTheStart, HistoryIsBounded

(* Steps of the view, the forms and the host leave the history alone.      *)
LEMMA AsideKeeps ==
    ASSUME UndoInv, UNCHANGED history
    PROVE  UndoInv'
BY DEF history, UndoInv, HistoryTyped, UndoReachesTheStart, HistoryIsBounded, Oldest

-----------------------------------------------------------------------------
-----------------------------------------------------------------------------
(* Every step edits, undoes, redoes, drags or leaves the history alone.    *)
Edits == Checkpoint /\ Sound(doc')

(* Forms that settle after a step hold what they should.                   *)
LEMMA SettledForms ==
    ASSUME FormsTyped, Sound(doc'), selected' \in Optional(NodeId), connecting' \in Optional(NodeId),
           drag' \in Optional(NodeId), published' = published, SettleForms
    PROVE  FormsTyped'
<1>1. /\ NodeFormTyped(nodeForm) /\ processForm \in ProcessForms
      /\ \A kind \in DeclarationKind : PanelTyped(kind, panel[kind]) /\ panel[kind] \in Panels(kind)
  BY DEF FormsTyped, PanelTyped
<1>2. Settle(nodeForm, processForm, panel)
  BY DEF SettleForms
<1>3. /\ NodeFormTyped(nodeForm') /\ processForm' \in ProcessForms
      /\ DOMAIN panel' = DeclarationKind /\ \A kind \in DeclarationKind : PanelTyped(kind, panel'[kind])
  BY <1>1, <1>2, SettleTyped
<1> QED
  BY <1>3 DEF FormsTyped

(* A step that leaves the forms alone keeps them typed.                    *)
LEMMA KeptForms ==
    ASSUME FormsTyped, selected' \in Optional(NodeId), connecting' \in Optional(NodeId),
           drag' \in Optional(NodeId), published' = published, UNCHANGED forms
    PROVE  FormsTyped'
BY DEF FormsTyped, forms

(* What a canvas event does to the history and to the forms.               *)
LEMMA CanvasSteps ==
    ASSUME Sound(doc), FormsTyped, Canvas
    PROVE  /\ Edits \/ UNCHANGED history \/ \E place \in Places : DragMove(place)
           /\ FormsTyped'
<1>0. None \in Optional(NodeId) /\ \A id \in NodeId : id \in Optional(NodeId)
  BY DEF Optional
<1>1. CASE Escape \/ EndDrag
  <2>1. UNCHANGED history
    BY <1>1 DEF Escape, EndDrag
  <2>2. FormsTyped'
    BY <1>0, <1>1, KeptForms DEF Escape, EndDrag, FormsTyped
  <2> QED
    BY <2>1, <2>2
<1>2. CASE NudgeOrArrange
  <2>1. Checkpoint /\ (doc' = Arrange(doc) \/ \E id \in Ids(doc.definition.nodes), place \in Places : doc' = MoveNode(doc, id, place))
    BY <1>2 DEF NudgeOrArrange, Edit
  <2>2. Sound(doc')
    BY <2>1, ArrangeSound, MoveNodeSound, EditorTypes
  <2>3. FormsTyped'
    BY <1>2, <2>2, SettledForms DEF NudgeOrArrange, FormsTyped
  <2> QED
    BY <2>1, <2>2, <2>3 DEF Edits
<1>3. CASE DeleteBlock
  <2>1. UNCHANGED history \/ (Checkpoint /\ doc' = RemoveNode(doc, selected))
    BY <1>3 DEF DeleteBlock, Edit
  <2>2. Sound(doc')
    <3>1. doc' = doc \/ doc' = RemoveNode(doc, selected)
      BY <2>1 DEF history
    <3>2. CASE doc' = doc
      BY <3>2
    <3>3. CASE doc' = RemoveNode(doc, selected)
      BY <3>3, RemoveNodeSound
    <3> QED
      BY <3>1, <3>2, <3>3
  <2>3. FormsTyped'
    BY <1>0, <1>3, <2>2, SettledForms DEF DeleteBlock, FormsTyped
  <2> QED
    BY <2>1, <2>2, <2>3 DEF Edits
<1>4. ASSUME NEW kind \in AddKinds, NEW place \in Places, AddBlockAt(kind, place)
      PROVE  Edits /\ FormsTyped'
  <2>1. Checkpoint /\ doc' = AddBlock(doc, kind, place) /\ CanAddBlock(doc, kind) /\ selected' = AddedId(doc)
    BY <1>4 DEF AddBlockAt, Edit
  <2>2. kind \in BlockKind /\ place \in Nat
    BY EditorTypes
  <2>3. Sound(doc') /\ selected' \in NodeId
    BY <2>1, <2>2, AddBlockSound
  <2>4. FormsTyped'
    BY <1>0, <1>4, <2>3, SettledForms DEF AddBlockAt, FormsTyped
  <2> QED
    BY <2>1, <2>3, <2>4 DEF Edits
<1>5. ASSUME NEW id \in NodeId, OutPort(id)
      PROVE  UNCHANGED history /\ FormsTyped'
  <2>1. UNCHANGED history /\ Sound(doc')
    BY <1>5 DEF OutPort, history
  <2> QED
    BY <1>0, <1>5, <2>1, SettledForms DEF OutPort, FormsTyped
<1>6. ASSUME NEW id \in NodeId, StartDrag(id)
      PROVE  Edits /\ FormsTyped'
  <2>1. Checkpoint /\ Sound(doc')
    BY <1>6 DEF StartDrag
  <2> QED
    BY <1>0, <1>6, <2>1, SettledForms DEF StartDrag, FormsTyped, Edits
<1>7. ASSUME NEW place \in Places, DragMove(place)
      PROVE  FormsTyped'
  BY <1>7, KeptForms DEF DragMove, FormsTyped
<1> QED
  BY <1>1, <1>2, <1>3, <1>4, <1>5, <1>6, <1>7 DEF Canvas

(* What a host's edit or an import does to them.                           *)
LEMMA HostSteps ==
    ASSUME Sound(doc), FormsTyped, Host
    PROVE  Edits /\ FormsTyped'
<1>0. None \in Optional(NodeId) /\ SUBSET SignalId \subseteq Optional(SUBSET SignalId)
  BY DEF Optional
<1>1. CASE HostEdit
  <2>1. Checkpoint
    BY <1>1 DEF HostEdit, Edit
  <2>2. Sound(doc')
    <3>1. PICK id \in Ids(doc.definition.nodes) :
              \/ \E target \in Ids(doc.definition.nodes), when \in Conditions :
                    CanConnect(doc, id, target, when) /\ Edit(Connect(doc, id, target, when))
              \/ \E route \in Routes(NodeOf(doc, id)) :
                    CanDisconnect(doc, id, route) /\ Edit(Disconnect(doc, id, route))
              \/ \E f \in HostFields : \E node \in NodeChoices(NodeOf(doc, id), doc)[f] :
                    CanReplace(doc, id, node) /\ Edit(Replace(doc, id, node))
      BY <1>1 DEF HostEdit
    <3>2. ASSUME NEW target, NEW when \in Conditions, CanConnect(doc, id, target, when), doc' = Connect(doc, id, target, when)
          PROVE  Sound(doc')
      <4>1. when \in Optional(SUBSET SignalId)
        BY <1>0, EditorTypes
      <4>2. PICK n \in Node : n.id = id /\ doc' = Replace(doc, id, n)
        BY <3>2, <4>1, ConnectSound
      <4> QED
        BY <4>2, ReplaceSound
    <3>3. ASSUME NEW route, CanDisconnect(doc, id, route), doc' = Disconnect(doc, id, route)
          PROVE  Sound(doc')
      <4>1. PICK n \in Node : n.id = id /\ doc' = Replace(doc, id, n)
        BY <3>3, DisconnectSound
      <4> QED
        BY <4>1, ReplaceSound
    <3>4. ASSUME NEW f \in HostFields, NEW node \in NodeChoices(NodeOf(doc, id), doc)[f],
                 CanReplace(doc, id, node), doc' = Replace(doc, id, node)
          PROVE  Sound(doc')
      <4>1. NodeOf(doc, id) \in Node /\ f \in {"id", "next", "on_timeout", "on_error", "waits", "form", "ticket", "stage"}
        BY NodeOfFacts, EditorTypes
      <4>2. node \in Node
        BY <4>1, ChoicesTyped
      <4>3. node.id = id
        BY <3>4 DEF CanReplace
      <4> QED
        BY <3>4, <4>2, <4>3, ReplaceSound
    <3> QED
      BY <3>1, <3>2, <3>3, <3>4 DEF Edit
  <2>3. FormsTyped'
    BY <1>1, <2>2, SettledForms DEF HostEdit, FormsTyped
  <2> QED
    BY <2>1, <2>2, <2>3 DEF Edits
<1>2. ASSUME NEW def \in Imports, Import(def)
      PROVE  Edits /\ FormsTyped'
  <2>1. Checkpoint /\ doc' = Open(def, None, <<>>) /\ CanOpen(def) /\ def \in Definition
    BY <1>2, EditorTypes DEF Import, Edit
  <2>2. None \in Optional({"stored"}) /\ \A id \in DOMAIN << >> \cap Ids(def.nodes) : << >>[id] \in Nat
    BY DEF Optional
  <2>3. Sound(doc')
    BY <2>1, <2>2, OpenSound
  <2>4. FormsTyped'
    BY <1>0, <1>2, <2>3, SettledForms DEF Import, FormsTyped
  <2> QED
    BY <2>1, <2>3, <2>4 DEF Edits
<1> QED
  BY <1>1, <1>2 DEF Host

(* What the block and process forms do to them.                            *)
LEMMA SettingsSteps ==
    ASSUME Sound(doc), FormsTyped, Settings
    PROVE  (Edits \/ UNCHANGED history) /\ FormsTyped'
<1>0. FormsTyped /\ NodeFormTyped(nodeForm) /\ processForm \in ProcessForms
  BY DEF FormsTyped
<1>1. CASE TypeNode
  <2>1. PICK f \in NodeFields : \E draft \in NodeChoices(nodeForm.baseline, doc)[f] :
            nodeForm' = [nodeForm EXCEPT !.draft = draft]
    BY <1>1 DEF TypeNode
  <2>2. PICK draft \in NodeChoices(nodeForm.baseline, doc)[f] : nodeForm' = [nodeForm EXCEPT !.draft = draft]
    BY <2>1
  <2>3. nodeForm.baseline \in Node
    BY <1>0, <1>1 DEF TypeNode, NodeFormTyped
  <2>4. draft \in Node
    BY <2>3, EditorTypes, ChoicesTyped
  <2>5. NodeFormTyped(nodeForm')
    BY <1>0, <2>2, <2>3, <2>4 DEF NodeFormTyped, Optional
  <2> QED
    BY <1>0, <1>1, <2>5 DEF TypeNode, FormsTyped
<1>2. CASE ReloadNode
  <2>1. nodeForm' = NodeFormFor(doc, nodeForm.id) /\ nodeForm.id \in Optional(NodeId)
    BY <1>0, <1>2 DEF ReloadNode, NodeFormTyped
  <2>2. NodeFormTyped(nodeForm')
    BY <2>1, NodeFormFilled
  <2> QED
    BY <1>0, <1>2, <2>2 DEF ReloadNode, FormsTyped
<1>3. CASE ApplyNode
  <2> DEFINE id == nodeForm.id
             draft == nodeForm.draft
  <2>1. /\ CanSaveNode(doc, id, nodeForm.baseline, draft) /\ draft # None
        /\ Checkpoint /\ doc' = SaveNode(doc, id, draft) /\ selected' = draft.id
    BY <1>3 DEF ApplyNode, Edit
  <2>2. draft \in Node
    BY <1>0, <2>1 DEF NodeFormTyped
  <2>3. id \in Ids(doc.definition.nodes) /\ (draft.id # id => draft.id \notin Ids(doc.definition.nodes))
    BY <2>1 DEF CanSaveNode
  <2>4. Sound(doc') /\ selected' \in Optional(NodeId)
    BY <2>1, <2>2, <2>3, SaveNodeSound, NodeFieldTypes DEF Optional
  <2>5. NodeFormTyped(NodeFormFor(doc', selected'))
    BY <2>4, NodeFormFilled
  <2>6. Settle(NodeFormFor(doc', selected'), processForm, panel)
    BY <1>3 DEF ApplyNode
  <2>7. \A kind \in DeclarationKind : PanelTyped(kind, panel[kind]) /\ panel[kind] \in Panels(kind)
    BY <1>0 DEF FormsTyped, PanelTyped
  <2>8. /\ NodeFormTyped(nodeForm') /\ processForm' \in ProcessForms
        /\ DOMAIN panel' = DeclarationKind /\ \A kind \in DeclarationKind : PanelTyped(kind, panel'[kind])
    BY <1>0, <2>4, <2>5, <2>6, <2>7, SettleTyped
  <2>9. FormsTyped'
    BY <1>0, <1>3, <2>4, <2>8 DEF ApplyNode, FormsTyped
  <2> QED
    BY <2>1, <2>4, <2>9 DEF Edits
<1>4. CASE TypeProcess
  <2>1. PICK f \in ProcessFields : \E draft \in ProcessChoices(processForm.baseline)[f] :
            processForm' = [processForm EXCEPT !.draft = draft]
    BY <1>4 DEF TypeProcess
  <2>2. PICK draft \in ProcessChoices(processForm.baseline)[f] : processForm' = [processForm EXCEPT !.draft = draft]
    BY <2>1
  <2>3. processForm.baseline \in SettingsDef
    BY <1>0 DEF ProcessForms
  <2>4. draft \in SettingsDef
    BY <2>3, EditorTypes, ProcessChoicesTyped
  <2>5. processForm' \in ProcessForms
    BY <1>0, <2>2, <2>4 DEF ProcessForms
  <2> QED
    BY <1>0, <1>4, <2>5 DEF TypeProcess, FormsTyped
<1>5. CASE ReloadProcess
  <2>1. processForm' \in ProcessForms
    BY <1>5, SettingsTyped DEF ReloadProcess, ProcessFormFor, Filled, ProcessForms
  <2> QED
    BY <1>0, <1>5, <2>1 DEF ReloadProcess, FormsTyped
<1>6. CASE ApplyProcess
  <2>1. Checkpoint /\ doc' = SaveProcess(doc, processForm.draft) /\ processForm.draft \in SettingsDef
    BY <1>0, <1>6 DEF ApplyProcess, Edit, ProcessForms
  <2>2. Sound(doc')
    BY <2>1, SaveProcessSound
  <2>3. ProcessFormFor(doc') \in ProcessForms
    BY <2>2, SettingsTyped DEF ProcessFormFor, Filled, ProcessForms
  <2>4. Settle(nodeForm, ProcessFormFor(doc'), panel) /\ selected' = selected
    BY <1>6 DEF ApplyProcess
  <2>5. \A kind \in DeclarationKind : PanelTyped(kind, panel[kind]) /\ panel[kind] \in Panels(kind)
    BY <1>0 DEF FormsTyped, PanelTyped
  <2>6. selected' \in Optional(NodeId)
    BY <1>0, <2>4 DEF FormsTyped
  <2>7. /\ NodeFormTyped(nodeForm') /\ processForm' \in ProcessForms
        /\ DOMAIN panel' = DeclarationKind /\ \A kind \in DeclarationKind : PanelTyped(kind, panel'[kind])
    BY <1>0, <2>2, <2>3, <2>4, <2>5, <2>6, SettleTyped
  <2>8. FormsTyped'
    BY <1>0, <1>6, <2>7 DEF ApplyProcess, FormsTyped
  <2> QED
    BY <2>1, <2>2, <2>8 DEF Edits
<1> QED
  BY <1>1, <1>2, <1>3, <1>4, <1>5, <1>6 DEF Settings, TypeNode, ReloadNode, TypeProcess, ReloadProcess

(* A panel alone changes.                                                  *)
LEMMA PanelOnlyKeeps ==
    ASSUME Sound(doc), FormsTyped, NEW kind \in DeclarationKind, NEW p \in Panels(kind),
           p.original = None \/ p.draft # p.baseline => PanelTyped(kind, p), PanelOnly(kind, p)
    PROVE  UNCHANGED history /\ FormsTyped'
<1>1. PanelTyped(kind, RefreshPanel(doc, kind, p))
  BY RefreshPanelTyped
<1>2. panel' = [panel EXCEPT ![kind] = RefreshPanel(doc, kind, p)] /\ DOMAIN panel = DeclarationKind
  BY DEF PanelOnly, FormsTyped
<1>3. DOMAIN panel' = DeclarationKind /\ \A k \in DeclarationKind : PanelTyped(k, panel'[k])
  BY <1>1, <1>2 DEF FormsTyped
<1> QED
  BY <1>3 DEF PanelOnly, FormsTyped

(* What the declaration panels do to them.                                 *)
LEMMA DeclarationSteps ==
    ASSUME Sound(doc), FormsTyped, Declarations
    PROVE  (Edits \/ UNCHANGED history) /\ FormsTyped'
<1>0. PICK kind \in PanelKinds :
        OpenDeclaration(kind) \/ TypeDeclaration(kind) \/ CancelDeclaration(kind)
        \/ ApplyDeclaration(kind) \/ DeleteDeclaration(kind)
  BY DEF Declarations
<1> DEFINE p == panel[kind]
<1>1. kind \in DeclarationKind /\ PanelTyped(kind, p) /\ p \in Panels(kind)
      /\ \A k \in DeclarationKind : PanelTyped(k, panel[k]) /\ panel[k] \in Panels(k)
  BY EditorTypes DEF FormsTyped, PanelTyped
<1>2. PanelTyped(kind, ClosedPanel) /\ ClosedPanel \in Panels(kind)
  BY DEF ClosedPanel, PanelTyped, Panels, Optional
<1>3. CASE OpenDeclaration(kind)
  <2>1. ASSUME NEW id \in Ids(doc.definition[kind]), PanelOnly(kind, PanelFor(doc, kind, id))
        PROVE  UNCHANGED history /\ FormsTyped'
    <3>1. id \in IdOf(kind)
      BY <1>1, DeclarationTypes
    <3> QED
      BY <1>1, <2>1, <3>1, PanelForTyped, PanelOnlyKeeps
  <2>2. ASSUME CanAddDeclaration(doc, kind),
               PanelOnly(kind, [editing |-> TRUE, original |-> None, draft |-> NewDeclaration(doc, kind), baseline |-> None])
        PROVE  UNCHANGED history /\ FormsTyped'
    <3> DEFINE q == [editing |-> TRUE, original |-> None, draft |-> NewDeclaration(doc, kind), baseline |-> None]
    <3>1. NewDeclaration(doc, kind) \in Declared(kind)
      BY <1>1, <2>2, NewDeclarationTyped
    <3>2. PanelTyped(kind, q) /\ q \in Panels(kind)
      BY <3>1 DEF PanelTyped, Panels, Optional
    <3> HIDE DEF q
    <3> QED
      BY <1>1, <2>2, <3>2, PanelOnlyKeeps DEF q
  <2> QED
    BY <1>3, <2>1, <2>2 DEF OpenDeclaration
<1>4. CASE TypeDeclaration(kind)
  <2> DEFINE v == IF p.baseline = None THEN p.draft ELSE p.baseline
  <2>1. p.editing /\ \E draft \in DeclarationChoices(kind, v, doc) : PanelOnly(kind, [p EXCEPT !.draft = draft])
    BY <1>4 DEF TypeDeclaration
  <2>2. v \in Declared(kind)
    BY <1>1, <2>1 DEF PanelTyped, Panels, Optional
  <2>3. PICK draft \in DeclarationChoices(kind, v, doc) : PanelOnly(kind, [p EXCEPT !.draft = draft])
    BY <2>1
  <2>4. draft \in Declared(kind)
    <3> HIDE DEF v
    <3> QED
      BY <1>1, <2>2, <2>3, DeclarationChoicesTyped
  <2> DEFINE q == [p EXCEPT !.draft = draft]
  <2>5. q \in Panels(kind) /\ PanelTyped(kind, q)
    BY <1>1, <2>4 DEF PanelTyped, Panels, Optional
  <2>6. PanelOnly(kind, q)
    BY <2>3
  <2> HIDE DEF q
  <2> QED
    BY <1>1, <2>5, <2>6, PanelOnlyKeeps
<1>5. CASE CancelDeclaration(kind)
  BY <1>1, <1>2, <1>5, PanelOnlyKeeps DEF CancelDeclaration
<1>6. CASE ApplyDeclaration(kind)
  <2> DEFINE pn == IF PanelGuarded(p) THEN panel ELSE [panel EXCEPT ![kind] = PanelFor(doc', kind, p.draft.id)]
  <2>1. /\ p.editing /\ CanSaveDeclaration(doc, kind, p.original, p.draft)
        /\ Checkpoint /\ doc' = SaveDeclaration(doc, kind, p.original, p.draft)
        /\ UNCHANGED <<selected, connecting, drag, published>>
        /\ Settle(nodeForm, processForm, pn)
    BY <1>6 DEF ApplyDeclaration, Edit
  <2>2. p.draft \in Declared(kind)
    BY <1>1, <2>1 DEF PanelTyped
  <2>3. Sound(doc')
    BY <1>1, <2>1, <2>2, SaveDeclarationSound
  <2>4. p.draft.id \in IdOf(kind)
    BY <1>1, <2>2, DeclarationTypes
  <2>5. ASSUME NEW k \in DeclarationKind
        PROVE  pn[k] \in Panels(k) /\ (pn[k].original = None \/ pn[k].draft # pn[k].baseline => PanelTyped(k, pn[k]))
    <3>1. CASE PanelGuarded(p) \/ k # kind
      <4>1. pn[k] = panel[k]
        BY <3>1
      <4> HIDE DEF pn
      <4> QED
        BY <1>1, <4>1
    <3>2. CASE ~ PanelGuarded(p) /\ k = kind
      <4>1. pn[k] = PanelFor(doc', kind, p.draft.id)
        BY <1>1, <3>2 DEF FormsTyped
      <4> HIDE DEF pn
      <4> QED
        BY <1>1, <2>3, <2>4, <3>2, <4>1, PanelForTyped
    <3> QED
      BY <3>1, <3>2
  <2>6. selected' \in Optional(NodeId) /\ NodeFormTyped(nodeForm) /\ processForm \in ProcessForms
    BY <2>1 DEF FormsTyped
  <2> HIDE DEF pn
  <2>7. /\ NodeFormTyped(nodeForm') /\ processForm' \in ProcessForms
        /\ DOMAIN panel' = DeclarationKind /\ \A k \in DeclarationKind : PanelTyped(k, panel'[k])
    BY <2>1, <2>3, <2>5, <2>6, SettleTyped
  <2>8. FormsTyped'
    BY <2>1, <2>7 DEF FormsTyped
  <2> QED
    BY <2>1, <2>3, <2>8 DEF Edits
<1>7. CASE DeleteDeclaration(kind)
  <2> DEFINE pn == [panel EXCEPT ![kind] = ClosedPanel]
  <2>1. /\ Checkpoint /\ doc' = RemoveDeclaration(doc, kind, p.original)
        /\ UNCHANGED <<selected, connecting, drag, published>>
        /\ Settle(nodeForm, processForm, pn)
    BY <1>7 DEF DeleteDeclaration, Edit
  <2>2. Sound(doc')
    BY <1>1, <2>1, RemoveDeclarationSound
  <2>3. \A k \in DeclarationKind : PanelTyped(k, pn[k]) /\ pn[k] \in Panels(k)
    BY <1>1, <1>2 DEF FormsTyped
  <2>4. selected' \in Optional(NodeId) /\ NodeFormTyped(nodeForm) /\ processForm \in ProcessForms
    BY <2>1 DEF FormsTyped
  <2> HIDE DEF pn
  <2>5. /\ NodeFormTyped(nodeForm') /\ processForm' \in ProcessForms
        /\ DOMAIN panel' = DeclarationKind /\ \A k \in DeclarationKind : PanelTyped(k, panel'[k])
    BY <2>1, <2>2, <2>3, <2>4, SettleTyped
  <2>6. FormsTyped'
    BY <2>1, <2>5 DEF FormsTyped
  <2> QED
    BY <2>1, <2>2, <2>6 DEF Edits
<1> QED
  BY <1>0, <1>3, <1>4, <1>5, <1>6, <1>7

(* What a selection does to them: while connecting, it edits.              *)
LEMMA SelectSteps ==
    ASSUME Sound(doc), FormsTyped, NEW id \in NodeId, Select(id)
    PROVE  (Edits \/ UNCHANGED history) /\ FormsTyped'
<1>0. None \in Optional(NodeId) /\ id \in Optional(NodeId) /\ None \in Optional(SUBSET SignalId)
  BY DEF Optional
<1>1. CASE UNCHANGED history
  <2>1. Sound(doc')
    BY <1>1 DEF history
  <2> QED
    BY <1>0, <1>1, <2>1, SettledForms DEF Select, FormsTyped
<1>2. CASE CanConnect(doc, connecting, id, None) /\ Edit(Connect(doc, connecting, id, None))
  <2>1. PICK n \in Node : n.id = connecting /\ doc' = Replace(doc, connecting, n)
    BY <1>0, <1>2, ConnectSound DEF Edit
  <2>2. connecting \in Ids(doc.definition.nodes)
    BY <1>2 DEF CanConnect
  <2>3. Sound(doc')
    BY <2>1, <2>2, ReplaceSound
  <2> QED
    BY <1>0, <1>2, <2>3, SettledForms DEF Select, FormsTyped, Edit, Edits
<1> QED
  BY <1>1, <1>2 DEF Select

(* A publication leaves the history and the forms alone.                   *)
LEMMA PublishSteps ==
    ASSUME Sound(doc), FormsTyped, NEW version \in 1 .. MaxVersion, Publish(version)
    PROVE  UNCHANGED history /\ FormsTyped'
<1>1. UNCHANGED history /\ UNCHANGED <<selected, connecting, drag, forms>>
      /\ published' = [key |-> doc.definition.key, version |-> version]
  BY DEF Publish
<1>2. doc.definition.key \in Key /\ version \in Nat
  BY SoundFields, DefinitionFields, EditorTypes
<1>3. published' \in Optional([key: Key, version: Nat])
  BY <1>1, <1>2 DEF Optional
<1> QED
  BY <1>1, <1>3 DEF FormsTyped, forms

-----------------------------------------------------------------------------
(* The editor's inductive invariant.                                       *)
EditorIInv == UndoInv /\ FormsTyped

(* The invariant holds of every document the editor is mounted with.       *)
LEMMA EditorStarts == EditorInit => EditorIInv
<1> SUFFICES ASSUME EditorInit PROVE EditorIInv
  OBVIOUS
<1>1. doc \in Initial /\ past = <<>> /\ future = <<>> /\ edits = 0
  BY DEF EditorInit
<1>2. Sound(doc)
  BY <1>1, EditorTypes DEF Sound
<1>3. HistoryTyped
  <2>1. past \in Seq(Initial) /\ future \in Seq(Initial)
    BY <1>1
  <2> QED
    BY <1>1, <2>1, EditorTypes DEF HistoryTyped, Sound
<1>4. UndoInv
  BY <1>1, <1>3, EditorTypes DEF UndoInv, HistoryIsBounded, UndoReachesTheStart, Oldest
<1>5. NodeFormTyped(nodeForm)
  BY DEF EditorInit, NoForm, NodeFormTyped, Optional
<1>6. processForm \in ProcessForms
  BY <1>2, SettingsTyped DEF EditorInit, ProcessFormFor, Filled, ProcessForms
<1>7. \A kind \in DeclarationKind : PanelTyped(kind, ClosedPanel)
  BY DEF ClosedPanel, PanelTyped, Panels, Optional
<1>8. published \in Optional([key: Key, version: Nat])
  BY <1>2, SoundFields, DefinitionFields DEF EditorInit, Optional
<1>9. FormsTyped
  BY <1>5, <1>6, <1>7, <1>8 DEF EditorInit, FormsTyped, Optional
<1> QED
  BY <1>4, <1>9 DEF EditorIInv

(* Every step of the editor keeps the invariant.                           *)
LEMMA EditorSteps == EditorIInv /\ [EditorNext]_editorVars => EditorIInv'
<1> SUFFICES ASSUME EditorIInv, [EditorNext]_editorVars PROVE EditorIInv'
  OBVIOUS
<1>1. UndoInv /\ FormsTyped /\ Sound(doc)
  BY DEF EditorIInv, UndoInv, HistoryTyped
<1>2. ASSUME Edits, FormsTyped' PROVE EditorIInv'
  BY <1>1, <1>2, EditKeeps DEF Edits, EditorIInv
<1>3. ASSUME UNCHANGED history, FormsTyped' PROVE EditorIInv'
  BY <1>1, <1>3, AsideKeeps DEF EditorIInv
<1>4. CASE Undo
  <2>1. UndoInv'
    BY <1>1, <1>4, UndoKeeps
  <2>2. Sound(doc')
    BY <2>1 DEF UndoInv, HistoryTyped
  <2>3. FormsTyped'
    BY <1>1, <1>4, <2>2, SettledForms DEF Undo, FormsTyped
  <2> QED
    BY <2>1, <2>3 DEF EditorIInv
<1>5. CASE Redo
  <2>1. UndoInv'
    BY <1>1, <1>5, RedoKeeps
  <2>2. Sound(doc')
    BY <2>1 DEF UndoInv, HistoryTyped
  <2>3. FormsTyped'
    BY <1>1, <1>5, <2>2, SettledForms DEF Redo, FormsTyped
  <2> QED
    BY <2>1, <2>3 DEF EditorIInv
<1>6. ASSUME NEW place \in Places, DragMove(place), FormsTyped' PROVE EditorIInv'
  BY <1>1, <1>6, DragKeeps, EditorTypes DEF EditorIInv
<1>7. CASE Canvas
  BY <1>1, <1>2, <1>3, <1>6, <1>7, CanvasSteps
<1>8. CASE Host
  BY <1>1, <1>2, <1>8, HostSteps
<1>9. CASE Settings \/ Declarations
  BY <1>1, <1>2, <1>3, <1>9, SettingsSteps, DeclarationSteps
<1>10. ASSUME NEW id \in NodeId, Select(id) PROVE EditorIInv'
  BY <1>1, <1>2, <1>3, <1>10, SelectSteps
<1>11. ASSUME NEW version \in 1 .. MaxVersion, Publish(version) PROVE EditorIInv'
  BY <1>1, <1>3, <1>11, PublishSteps
<1>12. CASE UNCHANGED editorVars
  <2>1. UNCHANGED history /\ FormsTyped'
    BY <1>1, <1>12 DEF editorVars, forms, FormsTyped
  <2> QED
    BY <1>3, <2>1
<1> QED
  BY <1>4, <1>5, <1>7, <1>8, <1>9, <1>10, <1>11, <1>12 DEF EditorNext

\* The history's invariant holds whatever is edited, dragged, undone, redone,
\* imported or published (EditorState), and the forms hold what they should.
THEOREM HistoryHolds == EditorSpec => []EditorIInv
BY EditorStarts, EditorSteps, PTL DEF EditorSpec

\* In the current document and in every document undo or redo can bring back,
\* identifiers are unique and every block has exactly one coordinate; and undo
\* and redo together never keep more than HistoryLimit documents, although redo
\* does not check the limit.
THEOREM DocumentsStaySound == EditorSpec => []EditorInv
<1>1. EditorIInv => EditorInv
  <2> SUFFICES ASSUME EditorIInv PROVE EditorInv
    OBVIOUS
  <2>1. PICK S : /\ doc \in S /\ past \in Seq(S) /\ future \in Seq(S)
                 /\ \A d \in S : Sound(d)
    BY DEF EditorIInv, UndoInv, HistoryTyped
  <2>2. History \subseteq S
    BY <2>1, SeqFacts DEF History
  <2>3. \A d : Sound(d) => DocumentOK(d)
    BY SoundFields DEF Sound, DocumentOK
  <2> QED
    BY <2>1, <2>2, <2>3 DEF EditorInv, DocumentsAreSound, EditorIInv, UndoInv
<1> QED
  BY <1>1, HistoryHolds, PTL

\* Until the limit drops an entry, undoing everything leads back to the
\* definition the editor was mounted with.
THEOREM UndoLeadsBack == EditorSpec => []UndoReachesTheStart
<1>1. EditorIInv => UndoReachesTheStart
  BY DEF EditorIInv, UndoInv
<1> QED
  BY <1>1, HistoryHolds, PTL

(* What a publication opens: the saved document under another version.     *)
LEMMA PreparedFacts ==
    ASSUME NEW d, Sound(d), NEW version \in Nat
    PROVE  /\ Sound(Prepared(d, version))
           /\ Prepared(d, version).definition.key = d.definition.key
           /\ Prepared(d, version).definition.version = version
           /\ \A f \in {"nodes", "stages"} \cup DeclarationKind : Prepared(d, version).definition[f] = d.definition[f]
           /\ Prepared(d, version).positions = d.positions
<1> DEFINE def == [d.definition EXCEPT !.version = version, !.active = TRUE, !.effective = None, !.deprecated = None]
           e == Prepared(d, version)
<1>1. def \in Definition
  <2>1. d.definition \in Definition
    BY SoundFields
  <2> QED
    BY <2>1 DEF Definition, Optional
<1>2. /\ def.key = d.definition.key /\ def.version = version /\ def.nodes = d.definition.nodes
      /\ def.stages = d.definition.stages /\ def.signals = d.definition.signals
      /\ def.forms = d.definition.forms /\ def.escalations = d.definition.escalations
  BY SoundFields, DefinitionFields
<1>3. e = Open(def, None, d.positions) /\ None \in Optional({"stored"})
  BY DEF Prepared, Optional
<1> HIDE DEF def
<1>4. CanOpen(def)
  BY <1>2, SoundFields DEF CanOpen
<1>5. d.positions \in [Ids(def.nodes) -> Nat]
  BY <1>2, SoundFields
<1>6. \A id \in DOMAIN d.positions \cap Ids(def.nodes) : d.positions[id] \in Nat
  BY <1>5
<1>7. /\ Sound(e) /\ e.definition = def /\ DOMAIN e.positions = Ids(def.nodes)
      /\ \A id \in Ids(def.nodes) : e.positions[id] = d.positions[id]
  <2>1. DOMAIN d.positions \cap Ids(def.nodes) = Ids(def.nodes)
    BY <1>5
  <2> HIDE DEF e
  <2> QED
    BY <1>1, <1>3, <1>4, <1>6, <2>1, OpenSound
<1>8. e.positions = d.positions
  <2>1. e.positions \in [Ids(def.nodes) -> Nat]
    BY <1>7, SoundFields
  <2> HIDE DEF e
  <2> QED
    BY <1>5, <1>7, <2>1
<1> HIDE DEF e
<1> QED
  BY <1>2, <1>7, <1>8 DEF e, DeclarationKind

(* A definition that validates can be run: it has one Start, and no block  *)
(* refers to anything it does not declare.                                 *)
LEMMA ValidIsRunnable ==
    ASSUME NEW def \in Definition, Validate(def)
    PROVE  Runnable(def)
<1>1. def.nodes \in Seq(Node) /\ \A n \in Elements(def.nodes) : n \in Node
  <2>1. def.nodes \in Seq(Node)
    BY DefinitionFields
  <2> QED
    BY <2>1, SeqFacts
<1>2. \E n \in Elements(def.nodes) : Starts(def) = {n}
  <2> DEFINE S == {i \in DOMAIN def.nodes : def.nodes[i].kind = "Start"}
             N == Len(def.nodes)
  <2>1. IsFiniteSet(1 .. N) /\ S \subseteq 1 .. N
    BY <1>1, FS_Interval
  <2>2. IsFiniteSet(S) /\ Cardinality(S) = 1
    BY <2>1, FS_Subset DEF Validate, ValidEnds
  <2>3. PICK i : S = {i}
    <3> HIDE DEF S
    <3> QED
      BY <2>2, FS_Singleton
  <2>4. Starts(def) = {def.nodes[i]} /\ def.nodes[i] \in Elements(def.nodes)
    BY <2>3 DEF Starts, Elements
  <2> QED
    BY <2>4
<1>3. ASSUME NEW n \in Elements(def.nodes)
      PROVE  /\ \A t \in NodeReferences(n) : t[2] \in Ids(def[t[1]])
             /\ n.kind = "Wait" => n.waits # {}
  <2>1. n \in Node /\ OfItsKind(n)
    BY <1>1, NodeFieldTypes
  <2>2. \A t \in Targets(n) : t \in Ids(def.nodes)
    BY DEF Validate, ValidRoutes
  <2>3. n.stage # None => n.stage \in Ids(def.stages)
    BY DEF Validate, ValidAssignments
  <2>4. n.waits # None => n.waits # {} /\ n.waits \subseteq Ids(def.signals)
    BY <2>1 DEF Validate, ValidWaits, OfItsKind
  <2>5. n.form # None => n.form \in Ids(def.forms)
    BY <2>1 DEF Validate, ValidTasks, OfItsKind
  <2>6. n.topic # None => n.topic \in Ids(def.escalations)
    BY <2>1 DEF Validate, ValidTasks, OfItsKind
  <2>7. ASSUME NEW t \in NodeReferences(n) PROVE t[2] \in Ids(def[t[1]])
    <3>1. CASE \E u \in Targets(n) : t = <<"nodes", u>>
      BY <2>2, <3>1
    <3>2. CASE n.stage # None /\ t = <<"stages", n.stage>>
      BY <2>3, <3>2
    <3>3. CASE n.waits # None /\ \E u \in n.waits : t = <<"signals", u>>
      BY <2>4, <3>3
    <3>4. CASE n.form # None /\ t = <<"forms", n.form>>
      BY <2>5, <3>4
    <3>5. CASE n.topic # None /\ t = <<"escalations", n.topic>>
      BY <2>6, <3>5
    <3> QED
      BY <3>1, <3>2, <3>3, <3>4, <3>5 DEF NodeReferences
  <2>8. n.kind = "Wait" => n.waits # {}
    BY <2>1, <2>4 DEF OfItsKind
  <2> QED
    BY <2>7, <2>8
<1> QED
  BY <1>2, <1>3 DEF Runnable

\* A publication moves the key to a later version, keeps the nodes, declarations
\* and coordinates of the saved document, and publishes only what can be run
\* (prepare_publication and ProcessDefinition::validate).
THEOREM PublicationsCanRun == EditorSpec => PublishedIsRunnable
<1>1. ASSUME EditorIInv, [EditorNext]_editorVars, published' # published
      PROVE  LET new == Prepared(doc, published'.version) IN
             /\ Runnable(new.definition)
             /\ published # None => /\ new.definition.key = published.key
                                    /\ new.definition.version > published.version
             /\ \A f \in {"nodes", "stages"} \cup DeclarationKind : new.definition[f] = doc.definition[f]
             /\ new.positions = doc.positions
  <2>1. PICK version \in 1 .. MaxVersion : Publish(version)
    BY <1>1 DEF EditorNext, editorVars, Undo, Redo, Select, Canvas, Escape, EndDrag, NudgeOrArrange, DeleteBlock,
               AddBlockAt, OutPort, StartDrag, DragMove, Host, HostEdit, Import, Settings, TypeNode, ReloadNode,
               ApplyNode, TypeProcess, ReloadProcess, ApplyProcess, Declarations, OpenDeclaration, TypeDeclaration,
               CancelDeclaration, ApplyDeclaration, DeleteDeclaration, PanelOnly
  <2>2. Sound(doc) /\ version \in Nat
    BY <1>1, EditorTypes DEF EditorIInv, UndoInv, HistoryTyped
  <2>3. CanPublish(doc, published, version) /\ published'.version = version
    BY <2>1 DEF Publish
  <2> DEFINE new == Prepared(doc, version)
  <2>4. /\ Sound(new) /\ new.definition.key = doc.definition.key /\ new.definition.version = version
        /\ \A f \in {"nodes", "stages"} \cup DeclarationKind : new.definition[f] = doc.definition[f]
        /\ new.positions = doc.positions
    BY <2>2, PreparedFacts
  <2>5. Validate(new.definition) /\ (published # None => doc.definition.key = published.key /\ version > published.version)
    BY <2>3 DEF CanPublish
  <2>6. Runnable(new.definition)
    BY <2>4, <2>5, SoundFields, ValidIsRunnable
  <2> HIDE DEF new
  <2> QED
    BY <2>3, <2>4, <2>5, <2>6 DEF new
<1> QED
  BY <1>1, HistoryHolds, PTL DEF EditorSpec, PublishedIsRunnable

-----------------------------------------------------------------------------
(* References.                                                             *)
PartKind == {"nodes", "stages", "signals", "forms", "escalations"}
Links(n, kind) ==
    CASE kind = "nodes" -> Targets(n)
      [] kind = "stages" -> {n.stage} \ {None}
      [] kind = "signals" -> IF n.waits = None THEN {} ELSE n.waits
      [] kind = "forms" -> {n.form} \ {None}
      [] kind = "escalations" -> {n.topic} \ {None}

(* The references of a block, kind by kind.                                *)
LEMMA LinkFacts ==
    ASSUME NEW n
    PROVE  /\ \A t \in NodeReferences(n) : \E kind \in PartKind : \E u \in Links(n, kind) : t = <<kind, u>>
           /\ \A kind \in PartKind : \A u \in Links(n, kind) : <<kind, u>> \in NodeReferences(n)
<1>1. ASSUME NEW t \in NodeReferences(n)
      PROVE  \E kind \in PartKind : \E u \in Links(n, kind) : t = <<kind, u>>
  <2>1. CASE \E u \in Targets(n) : t = <<"nodes", u>>
    BY <2>1 DEF Links, PartKind
  <2>2. CASE n.stage # None /\ t = <<"stages", n.stage>>
    BY <2>2 DEF Links, PartKind
  <2>3. CASE n.waits # None /\ \E u \in n.waits : t = <<"signals", u>>
    BY <2>3 DEF Links, PartKind
  <2>4. CASE n.form # None /\ t = <<"forms", n.form>>
    BY <2>4 DEF Links, PartKind
  <2>5. CASE n.topic # None /\ t = <<"escalations", n.topic>>
    BY <2>5 DEF Links, PartKind
  <2> QED
    BY <2>1, <2>2, <2>3, <2>4, <2>5 DEF NodeReferences
<1>2. ASSUME NEW kind \in PartKind, NEW u \in Links(n, kind) PROVE <<kind, u>> \in NodeReferences(n)
  BY DEF Links, PartKind, NodeReferences
<1> QED
  BY <1>1, <1>2

(* The targets of a block, pointer by pointer.                             *)
LEMMA TargetFacts ==
    ASSUME NEW n, NEW u
    PROVE  u \in Targets(n) <=> \/ u # None /\ u \in {n.next, n.on_error, n.compensate, n.on_timeout}
                                \/ \E i \in DOMAIN n.branches : u = n.branches[i].next
<1>1. ASSUME u \in Targets(n)
      PROVE  \/ u # None /\ u \in {n.next, n.on_error, n.compensate, n.on_timeout}
             \/ \E i \in DOMAIN n.branches : u = n.branches[i].next
  BY <1>1 DEF Targets, Routes
<1>2. ASSUME u # None, u \in {n.next, n.on_error, n.compensate, n.on_timeout} PROVE u \in Targets(n)
  <2>1. CASE u = n.next
    <3>1. [pointer |-> "next", branch |-> 0, target |-> u] \in Routes(n)
      BY <1>2, <2>1 DEF Routes
    <3> QED
      BY <3>1 DEF Targets
  <2>2. CASE u = n.on_error
    <3>1. [pointer |-> "on_error", branch |-> 0, target |-> u] \in Routes(n)
      BY <1>2, <2>2 DEF Routes
    <3> QED
      BY <3>1 DEF Targets
  <2>3. CASE u = n.compensate
    <3>1. [pointer |-> "compensate", branch |-> 0, target |-> u] \in Routes(n)
      BY <1>2, <2>3 DEF Routes
    <3> QED
      BY <3>1 DEF Targets
  <2>4. CASE u = n.on_timeout
    <3>1. [pointer |-> "timeout", branch |-> 0, target |-> u] \in Routes(n)
      BY <1>2, <2>4 DEF Routes
    <3> QED
      BY <3>1 DEF Targets
  <2> QED
    BY <1>2, <2>1, <2>2, <2>3, <2>4
<1>3. ASSUME NEW i \in DOMAIN n.branches, u = n.branches[i].next PROVE u \in Targets(n)
  <2>1. [pointer |-> "branch", branch |-> i, target |-> u] \in Routes(n)
    BY <1>3 DEF Routes
  <2> QED
    BY <2>1 DEF Targets
<1> QED
  BY <1>1, <1>2, <1>3

NodeOwned(n) == {[owner |-> <<"nodes", n.id>>, to |-> t] : t \in NodeReferences(n)}
TopicOwned(e) == {[owner |-> <<"escalations", e.id>>, to |-> <<"signals", a.emit>>] :
                    a \in {b \in Elements(e.actions) : b.emit # None}}

(* The references of a definition: those of its blocks and of its topics.  *)
LEMMA ReferenceFacts ==
    ASSUME NEW def, NEW r
    PROVE  r \in References(def) <=>
              \/ \E n \in Elements(def.nodes) : \E t \in NodeReferences(n) : r = [owner |-> <<"nodes", n.id>>, to |-> t]
              \/ \E e \in Elements(def.escalations) : \E a \in Elements(e.actions) :
                    a.emit # None /\ r = [owner |-> <<"escalations", e.id>>, to |-> <<"signals", a.emit>>]
<1>1. References(def) = (UNION {NodeOwned(n) : n \in Elements(def.nodes)}) \cup (UNION {TopicOwned(e) : e \in Elements(def.escalations)})
  BY Zenon DEF References, NodeOwned, TopicOwned
<1>2. \A n : r \in NodeOwned(n) <=> \E t \in NodeReferences(n) : r = [owner |-> <<"nodes", n.id>>, to |-> t]
  BY DEF NodeOwned
<1>3. \A e : r \in TopicOwned(e) <=> \E a \in Elements(e.actions) :
                    a.emit # None /\ r = [owner |-> <<"escalations", e.id>>, to |-> <<"signals", a.emit>>]
  BY DEF TopicOwned
<1>4. r \in References(def) <=> \/ \E n \in Elements(def.nodes) : r \in NodeOwned(n)
                                \/ \E e \in Elements(def.escalations) : r \in TopicOwned(e)
  <2> DEFINE U == UNION {NodeOwned(n) : n \in Elements(def.nodes)}
             V == UNION {TopicOwned(e) : e \in Elements(def.escalations)}
  <2>1. r \in U <=> \E n \in Elements(def.nodes) : r \in NodeOwned(n)
    OBVIOUS
  <2>2. r \in V <=> \E e \in Elements(def.escalations) : r \in TopicOwned(e)
    OBVIOUS
  <2>3. References(def) = U \cup V
    BY <1>1
  <2> HIDE DEF U, V
  <2> QED
    BY <2>1, <2>2, <2>3
<1>5. (\E n \in Elements(def.nodes) : r \in NodeOwned(n)) <=>
        \E n \in Elements(def.nodes) : \E t \in NodeReferences(n) : r = [owner |-> <<"nodes", n.id>>, to |-> t]
  BY <1>2, Zenon
<1>6. (\E e \in Elements(def.escalations) : r \in TopicOwned(e)) <=>
        \E e \in Elements(def.escalations) : \E a \in Elements(e.actions) :
            a.emit # None /\ r = [owner |-> <<"escalations", e.id>>, to |-> <<"signals", a.emit>>]
  BY <1>3, Zenon
<1> QED
  BY <1>4, <1>5, <1>6, Zenon

(* What an edit from definition D to E must do with every reference: find  *)
(* its target in E, belong to an excused owner, or be stranded in D        *)
(* already.                                                                *)
NodeKept(D, E, X, n) ==
    \A kind \in PartKind : \A u \in Links(n, kind) :
        \/ u \in Ids(E[kind])
        \/ <<"nodes", n.id>> \in X
        \/ \E m \in Elements(D.nodes) : m.id = n.id /\ u \in Links(m, kind) /\ u \notin Ids(D[kind])
TopicKept(D, E, e) ==
    \A a \in Elements(e.actions) :
        \/ a.emit = None
        \/ a.emit \in Ids(E.signals)
        \/ \E f \in Elements(D.escalations) : f.id = e.id /\ \E b \in Elements(f.actions) : b.emit = a.emit /\ a.emit \notin Ids(D.signals)

(* If every reference is kept in that sense, only excused owners get a     *)
(* reference to something missing.                                         *)
LEMMA KeptStrandsNothing ==
    ASSUME NEW D, NEW E, NEW X, \A n \in Elements(E.nodes) : NodeKept(D, E, X, n),
           \A e \in Elements(E.escalations) : TopicKept(D, E, e),
           NEW r \in Stranded(E) \ Stranded(D)
    PROVE  r.owner \in X
<1>1. r \in References(E) /\ r.to[2] \notin Ids(E[r.to[1]])
  BY DEF Stranded
<1>2. CASE \E n \in Elements(E.nodes) : \E t \in NodeReferences(n) : r = [owner |-> <<"nodes", n.id>>, to |-> t]
  <2>0. PICK n \in Elements(E.nodes) : \E t \in NodeReferences(n) : r = [owner |-> <<"nodes", n.id>>, to |-> t]
    BY <1>2
  <2>1. PICK t \in NodeReferences(n) : r = [owner |-> <<"nodes", n.id>>, to |-> t]
    BY <2>0
  <2>2. PICK kind \in PartKind : \E u \in Links(n, kind) : t = <<kind, u>>
    BY LinkFacts
  <2>3. PICK u \in Links(n, kind) : t = <<kind, u>>
    BY <2>2
  <2>4. r.to = t /\ r.owner = <<"nodes", n.id>> /\ t[1] = kind /\ t[2] = u
    BY <2>1, <2>3
  <2>5. u \notin Ids(E[kind])
    BY <1>1, <2>4
  <2>6. <<"nodes", n.id>> \in X \/ \E m \in Elements(D.nodes) : m.id = n.id /\ u \in Links(m, kind) /\ u \notin Ids(D[kind])
    BY <2>5 DEF NodeKept
  <2>7. ASSUME NEW m \in Elements(D.nodes), m.id = n.id, u \in Links(m, kind), u \notin Ids(D[kind])
        PROVE  FALSE
    <3>1. t \in NodeReferences(m)
      BY <2>3, <2>7, LinkFacts
    <3>2. r \in References(D)
      BY <2>1, <2>7, <3>1, ReferenceFacts
    <3> QED
      BY <2>4, <2>7, <3>2 DEF Stranded
  <2> QED
    BY <2>4, <2>6, <2>7
<1>3. CASE \E e \in Elements(E.escalations) : \E a \in Elements(e.actions) :
             a.emit # None /\ r = [owner |-> <<"escalations", e.id>>, to |-> <<"signals", a.emit>>]
  <2>0. PICK e \in Elements(E.escalations) : \E a \in Elements(e.actions) :
             a.emit # None /\ r = [owner |-> <<"escalations", e.id>>, to |-> <<"signals", a.emit>>]
    BY <1>3
  <2>1. PICK a \in Elements(e.actions) :
             a.emit # None /\ r = [owner |-> <<"escalations", e.id>>, to |-> <<"signals", a.emit>>]
    BY <2>0
  <2>2. r.to[1] = "signals" /\ r.to[2] = a.emit
    BY <2>1
  <2>3. a.emit \notin Ids(E.signals)
    BY <1>1, <2>2
  <2>4. PICK f \in Elements(D.escalations) : f.id = e.id /\ \E b \in Elements(f.actions) : b.emit = a.emit /\ a.emit \notin Ids(D.signals)
    BY <2>1, <2>3 DEF TopicKept
  <2>5. PICK b \in Elements(f.actions) : b.emit = a.emit /\ a.emit \notin Ids(D.signals)
    BY <2>4
  <2>6. r \in References(D)
    <3>1. b \in {c \in Elements(f.actions) : c.emit # None}
      BY <2>1, <2>5
    <3>2. r = [owner |-> <<"escalations", f.id>>, to |-> <<"signals", b.emit>>]
      BY <2>1, <2>4, <2>5
    <3> QED
      BY <2>1, <2>4, <2>5, <3>2, ReferenceFacts
  <2> QED
    BY <2>2, <2>5, <2>6 DEF Stranded
<1> QED
  BY <1>1, <1>2, <1>3, ReferenceFacts

(* A block or a topic that stays, while no identifier it may refer to goes.*)
LEMMA UnchangedKept ==
    ASSUME NEW D, NEW E, NEW X, \A kind \in PartKind : Ids(D[kind]) \subseteq Ids(E[kind])
    PROVE  /\ \A n \in Elements(D.nodes) : NodeKept(D, E, X, n)
           /\ \A e \in Elements(D.escalations) : TopicKept(D, E, e)
<1>1. ASSUME NEW n \in Elements(D.nodes) PROVE NodeKept(D, E, X, n)
  BY DEF NodeKept
<1>2. ASSUME NEW e \in Elements(D.escalations), NEW a \in Elements(e.actions)
      PROVE  \/ a.emit = None
             \/ a.emit \in Ids(E.signals)
             \/ \E f \in Elements(D.escalations) : f.id = e.id /\ \E b \in Elements(f.actions) : b.emit = a.emit /\ a.emit \notin Ids(D.signals)
  <2>1. Ids(D.signals) \subseteq Ids(E.signals)
    <3>1. Ids(D["signals"]) \subseteq Ids(E["signals"])
      BY DEF PartKind
    <3> QED
      BY <3>1
  <2> QED
    BY <2>1
<1>3. ASSUME NEW e \in Elements(D.escalations) PROVE TopicKept(D, E, e)
  BY <1>2 DEF TopicKept
<1> QED
  BY <1>1, <1>3

(* A block that is changed, where it refers to something new only if that  *)
(* exists.                                                                 *)
LEMMA ChangedKept ==
    ASSUME NEW D, NEW E, NEW X, NEW m \in Elements(D.nodes), NEW n, n.id = m.id,
           \A kind \in PartKind : Ids(D[kind]) \subseteq Ids(E[kind]),
           \A kind \in PartKind : \A u \in Links(n, kind) : u \in Links(m, kind) \/ u \in Ids(E[kind])
    PROVE  NodeKept(D, E, X, n)
BY DEF NodeKept

StrandsOnly(D, E, X) == \A r \in Stranded(E) \ Stranded(D) : r.owner \in X

(* An edit that keeps the definition strands nothing.                      *)
LEMMA SameStrands ==
    ASSUME NEW D, NEW E, D = E, NEW X
    PROVE  StrandsOnly(D, E, X)
BY DEF StrandsOnly

(* Excusing more owners.                                                   *)
LEMMA StrandsWiden ==
    ASSUME NEW D, NEW E, NEW X, NEW Y, X \subseteq Y, StrandsOnly(D, E, X)
    PROVE  StrandsOnly(D, E, Y)
BY DEF StrandsOnly

(* The parts a reference may point into.                                   *)
LEMMA PartsOfDefinition ==
    ASSUME NEW def \in Definition
    PROVE  PartKind \subseteq DOMAIN def /\ DeclarationKind \subseteq PartKind /\ "nodes" \in PartKind
           /\ DeclarationKind = PartKind \ {"nodes", "stages"}
BY DefinitionFields DEF PartKind, DeclarationKind

(* A block is replaced by one that refers to nothing else that is missing. *)
LEMMA ReplaceStrands ==
    ASSUME NEW d, Sound(d), NEW id \in Ids(d.definition.nodes), NEW n \in Node, n.id = id,
           \A kind \in PartKind : \A u \in Links(n, kind) : u \in Links(NodeOf(d, id), kind) \/ u \in Ids(d.definition[kind])
    PROVE  StrandsOnly(d.definition, Replace(d, id, n).definition, {})
<1> DEFINE D == d.definition
           t == Replaced(D.nodes, id, n)
           E == Replace(d, id, n).definition
<1>1. /\ E = [D EXCEPT !.nodes = t] /\ Ids(t) = Ids(D.nodes)
      /\ Elements(t) = {m \in Elements(D.nodes) : m.id # id} \cup {n}
  BY ReplaceSound
<1>2. D \in Definition
  BY SoundFields
<1> HIDE DEF t
<1>3. E.nodes = t /\ E.escalations = D.escalations /\ \A kind \in PartKind : Ids(E[kind]) = Ids(D[kind])
  <2> HIDE DEF E, D
  <2> QED
    BY <1>1, <1>2, PartsOfDefinition, DefinitionFields DEF PartKind
<1>4. NodeOf(d, id) \in Elements(D.nodes) /\ NodeOf(d, id).id = id
  BY NodeOfFacts
<1> HIDE DEF E
<1>5. ASSUME NEW m \in Elements(E.nodes) PROVE NodeKept(D, E, {}, m)
  <2>1. CASE m \in Elements(D.nodes)
    <3> HIDE DEF D
    <3> QED
      BY <1>3, <2>1, UnchangedKept
  <2>2. CASE m = n
    <3>1. \A kind \in PartKind : \A u \in Links(n, kind) : u \in Links(NodeOf(d, id), kind) \/ u \in Ids(E[kind])
      BY <1>3
    <3> HIDE DEF D
    <3> QED
      BY <1>3, <1>4, <2>2, <3>1, ChangedKept
  <2> QED
    BY <1>1, <1>3, <2>1, <2>2
<1>6. \A e \in Elements(E.escalations) : TopicKept(D, E, e)
  <2> HIDE DEF D
  <2> QED
    BY <1>3, UnchangedKept
<1>7. StrandsOnly(D, E, {})
  <2> DEFINE X == {}
  <2>1. \A m \in Elements(E.nodes) : NodeKept(D, E, X, m)
    BY <1>5
  <2> HIDE DEF D, X
  <2>2. StrandsOnly(D, E, X)
    BY <1>6, <2>1, KeptStrandsNothing DEF StrandsOnly
  <2> QED
    BY <2>2 DEF X
<1> QED
  BY <1>7 DEF E

(* connect and disconnect.                                                 *)
LEMMA ConnectStrands ==
    ASSUME NEW d, Sound(d), NEW source, NEW target, NEW when \in Optional(SUBSET SignalId),
           CanConnect(d, source, target, when)
    PROVE  StrandsOnly(d.definition, Connect(d, source, target, when).definition, {})
<1> DEFINE m == NodeOf(d, source)
           n == Connected(m, target, when)
<1>1. n \in Node /\ n.id = source /\ Connect(d, source, target, when) = Replace(d, source, n)
  BY ConnectSound
<1>2. source \in Ids(d.definition.nodes) /\ target \in Ids(d.definition.nodes)
  BY DEF CanConnect
<1>3. m \in Node
  BY <1>2, NodeOfFacts
<1>4. /\ n.stage = m.stage /\ n.waits = m.waits /\ n.form = m.form /\ n.topic = m.topic
      /\ n.on_error = m.on_error /\ n.compensate = m.compensate /\ n.on_timeout = m.on_timeout
  <2> HIDE DEF m
  <2> QED
    BY <1>3, NodeFieldTypes DEF Connected
<1>5. (n.next = m.next \/ n.next = target)
      /\ \A i \in DOMAIN n.branches : n.branches[i].next = target \/ \E j \in DOMAIN m.branches : n.branches[i].next = m.branches[j].next
  <2>1. CASE when = None
    <3> HIDE DEF m
    <3> QED
      BY <1>3, <2>1, NodeFieldTypes DEF Connected
  <2>2. CASE when # None
    <3> DEFINE b == [when |-> when, next |-> target]
    <3>1. n.branches = Append(m.branches, b) /\ n.next = m.next
      <4> HIDE DEF m
      <4> QED
        BY <1>3, <2>2, NodeFieldTypes DEF Connected
    <3>2. m.branches \in Seq(Branch)
      BY <1>3, NodeFieldTypes
    <3>3. \A i \in DOMAIN Append(m.branches, b) : Append(m.branches, b)[i] = b \/ (i \in DOMAIN m.branches /\ Append(m.branches, b)[i] = m.branches[i])
      <4> HIDE DEF m, b
      <4> QED
        BY <3>2
    <3>4. b.next = target
      OBVIOUS
    <3> HIDE DEF m, b, n
    <3> QED
      BY <3>1, <3>3, <3>4
  <2> QED
    BY <2>1, <2>2
<1>6. \A u \in Targets(n) : u \in Targets(m) \/ u = target
  <2> HIDE DEF m, n
  <2> QED
    BY <1>4, <1>5, TargetFacts
<1>7. ASSUME NEW kind \in PartKind, NEW u \in Links(n, kind)
      PROVE  u \in Links(m, kind) \/ u \in Ids(d.definition[kind])
  <2> HIDE DEF m, n
  <2>1. CASE kind = "nodes"
    BY <1>2, <1>6, <2>1 DEF Links
  <2>2. CASE kind # "nodes"
    BY <1>4, <2>2 DEF Links, PartKind
  <2> QED
    BY <2>1, <2>2
<1> HIDE DEF n
<1> QED
  BY <1>1, <1>2, <1>7, ReplaceStrands

(* disconnect only takes a route away.                                     *)
LEMMA DisconnectStrands ==
    ASSUME NEW d, Sound(d), NEW source, NEW route, CanDisconnect(d, source, route)
    PROVE  StrandsOnly(d.definition, Disconnect(d, source, route).definition, {})
<1> DEFINE m == NodeOf(d, source)
           n == Disconnected(m, route)
<1>1. n \in Node /\ n.id = source /\ Disconnect(d, source, route) = Replace(d, source, n)
  BY DisconnectSound
<1>2. source \in Ids(d.definition.nodes)
  BY DEF CanDisconnect
<1>3. m \in Node
  BY <1>2, NodeOfFacts
<1>4. n.stage = m.stage /\ n.waits = m.waits /\ n.form = m.form /\ n.topic = m.topic
  <2> HIDE DEF m
  <2> QED
    BY <1>3, NodeFieldTypes DEF Disconnected
<1>5. n.next \in {m.next, None} /\ n.on_error \in {m.on_error, None} /\ n.compensate \in {m.compensate, None}
      /\ n.on_timeout \in {m.on_timeout, None}
  <2> HIDE DEF m
  <2> QED
    BY <1>3, NodeFieldTypes DEF Disconnected
<1>6. \A i \in DOMAIN n.branches : \E j \in DOMAIN m.branches : n.branches[i] = m.branches[j]
  <2>1. CASE route.pointer = "branch"
    <3>1. route.branch \in DOMAIN m.branches
      BY <2>1 DEF CanDisconnect, Routes
    <3>2. n.branches = Dropped(m.branches, route.branch)
      <4> HIDE DEF m
      <4> QED
        BY <1>3, <2>1, NodeFieldTypes DEF Disconnected
    <3>3. m.branches \in Seq(Branch)
      BY <1>3, NodeFieldTypes
    <3> HIDE DEF m, n
    <3> QED
      BY <3>1, <3>2, <3>3, DroppedFacts
  <2>2. CASE route.pointer # "branch"
    <3>1. n.branches = m.branches
      <4> HIDE DEF m
      <4> QED
        BY <1>3, <2>2, NodeFieldTypes DEF Disconnected
    <3> QED
      BY <3>1
  <2> QED
    BY <2>1, <2>2
<1>7. \A u \in Targets(n) : u \in Targets(m)
  <2> HIDE DEF m, n
  <2> QED
    BY <1>5, <1>6, TargetFacts
<1>8. ASSUME NEW kind \in PartKind, NEW u \in Links(n, kind)
      PROVE  u \in Links(m, kind) \/ u \in Ids(d.definition[kind])
  <2> HIDE DEF m, n
  <2>1. CASE kind = "nodes"
    BY <1>7, <2>1 DEF Links
  <2>2. CASE kind # "nodes"
    BY <1>4, <2>2 DEF Links, PartKind
  <2> QED
    BY <2>1, <2>2
<1> HIDE DEF n
<1> QED
  BY <1>1, <1>2, <1>8, ReplaceStrands

(* A select offers only what the document has.                             *)
LEMMA ChoiceStrands ==
    ASSUME NEW d, Sound(d), NEW id, NEW f \in {"id", "next", "on_timeout", "on_error", "waits", "form", "ticket", "stage"},
           NEW n \in NodeChoices(NodeOf(d, id), d)[f], CanReplace(d, id, n)
    PROVE  StrandsOnly(d.definition, Replace(d, id, n).definition, {})
<1> DEFINE m == NodeOf(d, id)
           def == d.definition
<1>1. id \in Ids(def.nodes) /\ n.id = id
  BY DEF CanReplace
<1>2. m \in Node
  BY <1>1, NodeOfFacts
<1>3. n \in Node
  BY <1>2, ChoicesTyped
<1>4. ASSUME NEW kind \in PartKind, NEW u \in Links(n, kind)
      PROVE  u \in Links(m, kind) \/ u \in Ids(def[kind])
  <2> HIDE DEF m
  <2>1. CASE f \in {"next", "on_timeout", "on_error"}
    <3>1. PICK x \in Ids(def.nodes) : n \in {[m EXCEPT !.next = x], [m EXCEPT !.on_timeout = x], [m EXCEPT !.on_error = x]}
      <4>1. CASE f = "next"
        BY <4>1 DEF NodeChoices, m
      <4>2. CASE f = "on_timeout"
        BY <4>2 DEF NodeChoices, m
      <4>3. CASE f = "on_error"
        BY <4>3 DEF NodeChoices, m
      <4> QED
        BY <2>1, <4>1, <4>2, <4>3
    <3>2. n.stage = m.stage /\ n.waits = m.waits /\ n.form = m.form /\ n.topic = m.topic /\ n.branches = m.branches
          /\ n.compensate = m.compensate
      BY <1>2, <3>1, NodeFieldTypes
    <3>3. n.next \in {m.next, x} /\ n.on_error \in {m.on_error, x} /\ n.on_timeout \in {m.on_timeout, x}
      BY <1>2, <3>1, NodeFieldTypes
    <3>4. \A v \in Targets(n) : v \in Targets(m) \/ v = x
      BY <3>2, <3>3, TargetFacts
    <3>5. CASE kind = "nodes"
      BY <3>1, <3>4, <3>5 DEF Links
    <3>6. CASE kind # "nodes"
      BY <3>2, <3>6 DEF Links, PartKind
    <3> QED
      BY <3>5, <3>6
  <2>2. CASE f \in {"id", "waits", "form", "ticket", "stage"}
    <3>1. /\ n.next = m.next /\ n.on_error = m.on_error /\ n.compensate = m.compensate
          /\ n.on_timeout = m.on_timeout /\ n.branches = m.branches
          /\ n.stage = m.stage \/ n.stage \in Ids(def.stages)
          /\ n.waits = m.waits \/ (n.waits # None /\ n.waits \subseteq Ids(def.signals))
          /\ n.form = m.form \/ n.form \in Ids(def.forms)
          /\ n.topic = m.topic \/ n.topic \in Ids(def.escalations)
      <4>1. CASE f = "id"
        <5>1. PICK x : n = [m EXCEPT !.id = x]
          BY <4>1 DEF NodeChoices, m
        <5> QED
          BY <1>2, <5>1, NodeFieldTypes
      <4>2. CASE f = "waits"
        <5>1. PICK x \in SUBSET Ids(def.signals) : n = [m EXCEPT !.waits = x]
          BY <4>2 DEF NodeChoices, m
        <5>2. x \in SUBSET SignalId /\ x # None
          BY SoundFields, DeclaredIds, NoneIsNothing
        <5> QED
          BY <1>2, <5>1, <5>2, NodeFieldTypes
      <4>3. CASE f = "form"
        <5>1. PICK x \in Ids(def.forms) : n = [m EXCEPT !.form = x]
          BY <4>3 DEF NodeChoices, m
        <5> QED
          BY <1>2, <5>1, NodeFieldTypes
      <4>4. CASE f = "ticket"
        <5>1. PICK x \in Ids(def.escalations) : n = [m EXCEPT !.handler = "create_support_ticket", !.topic = x]
          BY <4>4 DEF NodeChoices, m
        <5> QED
          BY <1>2, <5>1, NodeFieldTypes
      <4>5. CASE f = "stage"
        <5>1. PICK x \in Ids(def.stages) : n = [m EXCEPT !.stage = x]
          BY <4>5 DEF NodeChoices, m
        <5> QED
          BY <1>2, <5>1, NodeFieldTypes
      <4> QED
        BY <2>2, <4>1, <4>2, <4>3, <4>4, <4>5
    <3>2. CASE kind = "nodes"
      <4>1. \A v : v \in Targets(n) <=> v \in Targets(m)
        BY <3>1, TargetFacts
      <4> QED
        BY <3>2, <4>1 DEF Links
    <3>3. CASE kind # "nodes"
      BY <3>1, <3>3 DEF Links, PartKind
    <3> QED
      BY <3>2, <3>3
  <2> QED
    BY <2>1, <2>2
<1> QED
  BY <1>1, <1>3, <1>4, ReplaceStrands

(* Only the blocks change: what topics refer to stays as it was.           *)
LEMMA NodesStrand ==
    ASSUME NEW D \in Definition, NEW t, NEW E, E = [D EXCEPT !.nodes = t], NEW X,
           \A n \in Elements(t) : NodeKept(D, E, X, n)
    PROVE  StrandsOnly(D, E, X)
<1>1. E.nodes = t /\ E.escalations = D.escalations /\ E.signals = D.signals
  BY DefinitionFields
<1>2. ASSUME NEW e \in Elements(D.escalations), NEW a \in Elements(e.actions)
      PROVE  \/ a.emit = None
             \/ a.emit \in Ids(E.signals)
             \/ \E f \in Elements(D.escalations) : f.id = e.id /\ \E b \in Elements(f.actions) : b.emit = a.emit /\ a.emit \notin Ids(D.signals)
  BY <1>1
<1>3. \A e \in Elements(E.escalations) : TopicKept(D, E, e)
  BY <1>1, <1>2 DEF TopicKept
<1>4. \A n \in Elements(E.nodes) : NodeKept(D, E, X, n)
  BY <1>1
<1> QED
  BY <1>3, <1>4, KeptStrandsNothing DEF StrandsOnly

(* A block is added with the declarations it brings.                       *)
LEMMA AddStrands ==
    ASSUME NEW d, Sound(d), NEW kind \in BlockKind, NEW place \in Nat, CanAddBlock(d, kind)
    PROVE  /\ StrandsOnly(d.definition, AddBlock(d, kind, place).definition, {<<"nodes", AddedId(d)>>})
           /\ AddedId(d) \notin Ids(d.definition.nodes)
           /\ \E n \in Elements(AddBlock(d, kind, place).definition.nodes) \ Elements(d.definition.nodes) : n.id = AddedId(d)
<1> DEFINE D == d.definition
           E == AddBlock(d, kind, place).definition
           X == {<<"nodes", AddedId(d)>>}
<1>1. PICK node : Added(AddBlock(d, kind, place), d, node)
  BY AddBlockSound
<1>2. D.nodes \in Seq(Node) /\ Unique(D.nodes)
  BY SoundFields
<1>3. /\ node \in Node /\ node.id = AddedId(d) /\ node.id \notin Ids(D.nodes)
      /\ E.nodes = Append(D.nodes, node)
      /\ Elements(D.signals) \subseteq Elements(E.signals)
      /\ Elements(D.forms) \subseteq Elements(E.forms)
      /\ E.stages = D.stages /\ E.escalations = D.escalations
  BY <1>1 DEF Added
<1> HIDE DEF D, E
<1>4. Elements(E.nodes) = Elements(D.nodes) \cup {node} /\ Ids(D.nodes) \subseteq Ids(E.nodes)
  BY <1>2, <1>3, AppendFacts
<1>5. \A kd \in PartKind : Ids(D[kd]) \subseteq Ids(E[kd])
  <2>1. Ids(D.signals) \subseteq Ids(E.signals) /\ Ids(D.forms) \subseteq Ids(E.forms)
    <3>1. \A s, x : x \in Ids(s) <=> \E v \in Elements(s) : v.id = x
      BY DEF Elements, Ids
    <3> QED
      BY <1>3, <3>1
  <2>2. Ids(D.stages) = Ids(E.stages) /\ Ids(D.escalations) = Ids(E.escalations)
    BY <1>3
  <2> QED
    BY <1>4, <2>1, <2>2 DEF PartKind
<1>6. NodeKept(D, E, X, node)
  BY <1>3 DEF NodeKept
<1> HIDE DEF X
<1>7. \A n \in Elements(E.nodes) : NodeKept(D, E, X, n)
  BY <1>4, <1>5, <1>6, UnchangedKept
<1>8. \A e \in Elements(E.escalations) : TopicKept(D, E, e)
  BY <1>3, <1>5, UnchangedKept
<1>9. StrandsOnly(D, E, X)
  BY <1>7, <1>8, KeptStrandsNothing DEF StrandsOnly
<1>10. node \notin Elements(D.nodes)
  BY <1>3 DEF Elements, Ids
<1> QED
  BY <1>3, <1>4, <1>9, <1>10 DEF D, E, X

(* A block is removed: nothing else led to it.                             *)
LEMMA RemoveStrands ==
    ASSUME NEW d, Sound(d), NEW id, CanRemoveNode(d, id)
    PROVE  StrandsOnly(d.definition, RemoveNode(d, id).definition, {})
<1> DEFINE D == d.definition
           t == Without(D.nodes, id)
           E == RemoveNode(d, id).definition
           X == {}
<1>1. /\ E = [D EXCEPT !.nodes = t] /\ Ids(t) = Ids(D.nodes) \ {id}
      /\ Elements(t) = {n \in Elements(D.nodes) : n.id # id}
  BY RemoveNodeSound
<1>2. D \in Definition
  BY SoundFields
<1>3. \A n \in Elements(D.nodes) : id \in Targets(n) => n.id = id
  BY DEF CanRemoveNode
<1> HIDE DEF E, D, t, X
<1>4. E.nodes = t /\ E.stages = D.stages /\ E.signals = D.signals /\ E.forms = D.forms /\ E.escalations = D.escalations
  BY <1>1, <1>2, DefinitionFields
<1>5. ASSUME NEW n \in Elements(t) PROVE NodeKept(D, E, X, n)
  <2>1. n \in Elements(D.nodes) /\ id \notin Targets(n)
    BY <1>1, <1>3
  <2>2. ASSUME NEW kind \in PartKind, NEW u \in Links(n, kind), u \notin Ids(E[kind]) PROVE u \notin Ids(D[kind])
    <3>1. CASE kind = "nodes"
      BY <1>1, <1>4, <2>1, <2>2, <3>1 DEF Links
    <3>2. CASE kind # "nodes"
      BY <1>4, <2>2, <3>2 DEF PartKind
    <3> QED
      BY <3>1, <3>2
  <2> QED
    BY <2>1, <2>2 DEF NodeKept
<1>6. StrandsOnly(D, E, X)
  BY <1>1, <1>2, <1>5, NodesStrand
<1> QED
  BY <1>6 DEF D, E, X

(* A block's settings are applied; every other reference follows a new     *)
(* identifier.                                                             *)
LEMMA SaveNodeStrands ==
    ASSUME NEW d, Sound(d), NEW id \in Ids(d.definition.nodes), NEW draft \in Node,
           draft.id # id => draft.id \notin Ids(d.definition.nodes)
    PROVE  StrandsOnly(d.definition, SaveNode(d, id, draft).definition, {<<"nodes", draft.id>>})
<1> DEFINE D == d.definition
           E == SaveNode(d, id, draft).definition
           X == {<<"nodes", draft.id>>}
<1>0. PICK t \in Seq(Node) : NodesSaved(d, id, draft, t)
  BY SaveNodeSound
<1>1.           /\ E = [D EXCEPT !.nodes = t]
                /\ Ids(t) = (Ids(D.nodes) \ {id}) \cup {draft.id}
                /\ IF draft.id = id
                   THEN Elements(t) = {n \in Elements(D.nodes) : n.id # id} \cup {draft}
                   ELSE Elements(t) = {Retarget(n, id, draft.id) :
                                              n \in {m \in Elements(D.nodes) : m.id # id} \cup {draft}}
  BY <1>0 DEF NodesSaved
<1>2. D \in Definition /\ D.nodes \in Seq(Node)
  BY SoundFields
<1>3. draft.id \in NodeId /\ id \in NodeId
  BY <1>2, NodeFieldTypes, NodeIds
<1>4. id \in Ids(D.nodes)
  OBVIOUS
<1> HIDE DEF E, D
<1>5. E.nodes = t /\ E.stages = D.stages /\ E.signals = D.signals /\ E.forms = D.forms /\ E.escalations = D.escalations
  BY <1>1, <1>2, DefinitionFields
<1>6. ASSUME NEW n, n.id = draft.id PROVE NodeKept(D, E, X, n)
  BY <1>6 DEF NodeKept
<1> HIDE DEF X
<1>7. CASE draft.id = id
  <2>1. \A kd \in PartKind : Ids(D[kd]) \subseteq Ids(E[kd])
    BY <1>1, <1>5, <1>7 DEF PartKind
  <2>2. ASSUME NEW n \in Elements(t) PROVE NodeKept(D, E, X, n)
    <3>1. CASE n \in Elements(D.nodes)
      BY <2>1, <3>1, UnchangedKept
    <3>2. CASE n = draft
      BY <1>6, <3>2
    <3> QED
      BY <1>1, <1>7, <3>1, <3>2
  <2> QED
    <3>1. StrandsOnly(D, E, X)
      BY <1>1, <1>2, <2>2, NodesStrand
    <3> QED
      BY <3>1 DEF D, E, X
<1>8. CASE draft.id # id
  <2>1. ASSUME NEW n \in Elements(t) PROVE NodeKept(D, E, X, n)
    <3>1. PICK m \in {m \in Elements(D.nodes) : m.id # id} \cup {draft} : n = Retarget(m, id, draft.id)
      BY <1>1, <1>8
    <3>2. m \in Node
      BY <1>2, <3>1, SeqFacts
    <3>3. /\ n.id = m.id
          /\ n.next = IF m.next = id THEN draft.id ELSE m.next
          /\ n.on_error = IF m.on_error = id THEN draft.id ELSE m.on_error
          /\ n.compensate = IF m.compensate = id THEN draft.id ELSE m.compensate
          /\ n.on_timeout = IF m.on_timeout = id THEN draft.id ELSE m.on_timeout
          /\ DOMAIN n.branches = DOMAIN m.branches
          /\ \A i \in DOMAIN m.branches : n.branches[i].next = IF m.branches[i].next = id THEN draft.id ELSE m.branches[i].next
      BY <1>3, <3>1, <3>2, RetargetTyped
    <3>4. n.waits = m.waits /\ n.form = m.form /\ n.topic = m.topic /\ n.stage = m.stage
      <4>1. \A f \in {"kind", "waits", "form", "handler", "topic", "stage", "computable"} : n[f] = m[f]
        BY <1>3, <3>1, <3>2, RetargetTyped
      <4> QED
        BY <4>1
    <3>5. CASE m = draft
      BY <1>6, <3>3, <3>5
    <3>6. CASE m \in Elements(D.nodes) /\ m.id # id
      <4>1. ASSUME NEW u \in Targets(n) PROVE u = draft.id \/ (u \in Targets(m) /\ u # id)
        <5>1. CASE u # None /\ u \in {n.next, n.on_error, n.compensate, n.on_timeout}
          BY <3>3, <5>1, TargetFacts
        <5>2. CASE \E i \in DOMAIN n.branches : u = n.branches[i].next
          <6>1. PICK i \in DOMAIN n.branches : u = n.branches[i].next
            BY <5>2
          <6> QED
            BY <3>3, <6>1, TargetFacts
        <5> QED
          BY <4>1, <5>1, <5>2, TargetFacts
      <4>2. ASSUME NEW kind \in PartKind, NEW u \in Links(n, kind), u \notin Ids(E[kind])
            PROVE  u \in Links(m, kind) /\ u \notin Ids(D[kind])
        <5>1. CASE kind = "nodes"
          BY <1>1, <1>5, <4>1, <4>2, <5>1 DEF Links
        <5>2. CASE kind # "nodes"
          BY <1>5, <3>4, <4>2, <5>2 DEF PartKind, Links
        <5> QED
          BY <5>1, <5>2
      <4> QED
        BY <3>3, <3>6, <4>2 DEF NodeKept
    <3> QED
      BY <3>1, <3>5, <3>6
  <2>2. StrandsOnly(D, E, X)
    BY <1>1, <1>2, <2>1, NodesStrand
  <2> QED
    BY <2>2 DEF D, E, X
<1> QED
  BY <1>7, <1>8

(* Process settings keep every stage that is assigned.                     *)
LEMMA ProcessStrands ==
    ASSUME NEW d, Sound(d), NEW draft \in SettingsDef, NEW baseline, CanSaveProcess(d, baseline, draft)
    PROVE  StrandsOnly(d.definition, SaveProcess(d, draft).definition, {})
<1> DEFINE D == d.definition
           E == SaveProcess(d, draft).definition
           X == {}
<1>1. /\ E.stages = draft.stages
      /\ \A f \in {"nodes"} \cup DeclarationKind : E[f] = D[f]
  BY SaveProcessSound
<1>2. \A n \in Elements(D.nodes) : n.stage # None => n.stage \in Ids(draft.stages)
  BY DEF CanSaveProcess
<1> HIDE DEF E, D, X
<1>3. E.nodes = D.nodes /\ E.signals = D.signals /\ E.forms = D.forms /\ E.escalations = D.escalations
  BY <1>1 DEF DeclarationKind
<1>4. ASSUME NEW n \in Elements(E.nodes) PROVE NodeKept(D, E, X, n)
  <2>1. ASSUME NEW kind \in PartKind, NEW u \in Links(n, kind), u \notin Ids(E[kind]) PROVE u \notin Ids(D[kind])
    <3>1. CASE kind = "stages"
      BY <1>1, <1>2, <1>3, <2>1, <3>1 DEF Links
    <3>2. CASE kind # "stages"
      BY <1>3, <2>1, <3>2 DEF PartKind
    <3> QED
      BY <3>1, <3>2
  <2> QED
    BY <1>3, <2>1 DEF NodeKept
<1>5. ASSUME NEW e \in Elements(E.escalations) PROVE TopicKept(D, E, e)
  BY <1>3 DEF TopicKept
<1>6. StrandsOnly(D, E, X)
  BY <1>4, <1>5, KeptStrandsNothing DEF StrandsOnly
<1> QED
  BY <1>6 DEF D, E, X

(* A declaration is removed that nothing refers to.                        *)
LEMMA RemoveDeclarationStrands ==
    ASSUME NEW d, Sound(d), NEW kind \in DeclarationKind, NEW id, CanRemoveDeclaration(d, kind, id)
    PROVE  StrandsOnly(d.definition, RemoveDeclaration(d, kind, id).definition, {})
<1> DEFINE D == d.definition
           t == Without(D[kind], id)
           E == RemoveDeclaration(d, kind, id).definition
           X == {}
<1>1. /\ E = [D EXCEPT ![kind] = t] /\ Ids(t) = Ids(D[kind]) \ {id}
      /\ Elements(t) = {v \in Elements(D[kind]) : v.id # id}
  <2>1. DeclarationGone(d, kind, id)
    BY RemoveDeclarationSound
  <2> QED
    BY <2>1, Zenon DEF DeclarationGone
<1>2. D \in Definition /\ D.nodes \in Seq(Node)
  BY SoundFields
<1>3. DeclarationUses(d, kind, id) = {}
  BY DEF CanRemoveDeclaration
<1>4. \A n \in Elements(D.nodes) : ~ Refers(n, kind, id)
  <2>1. ASSUME NEW n \in Elements(D.nodes), Refers(n, kind, id) PROVE FALSE
    <3>1. <<"node", n.id>> \in DeclarationUses(d, kind, id)
      BY <2>1 DEF DeclarationUses
    <3> QED
      BY <1>3, <3>1
  <2> QED
    BY <2>1
<1>5. kind = "signals" => \A e \in Elements(D.escalations) : \A a \in Elements(e.actions) : a.emit # id
  <2>1. ASSUME kind = "signals", NEW e \in Elements(D.escalations), NEW a \in Elements(e.actions), a.emit = id PROVE FALSE
    <3>1. <<"escalation", e.id>> \in DeclarationUses(d, kind, id)
      BY <2>1 DEF DeclarationUses
    <3> QED
      BY <1>3, <3>1
  <2> QED
    BY <2>1
<1>6. kind \in DOMAIN D /\ DOMAIN D = {"key", "version", "active", "effective", "deprecated", "stages", "nodes",
                            "signals", "forms", "escalations"}
  BY <1>2, DefinitionFields DEF DeclarationKind
<1> HIDE DEF E, D, t, X
<1>7. E[kind] = t /\ E.nodes = D.nodes /\ \A kd \in PartKind \ {kind} : E[kd] = D[kd]
  BY <1>1, <1>6 DEF PartKind, DeclarationKind
<1>8. ASSUME NEW n \in Elements(E.nodes) PROVE NodeKept(D, E, X, n)
  <2>1. n \in Elements(D.nodes) /\ ~ Refers(n, kind, id)
    BY <1>4, <1>7
  <2>2. n \in Node
    BY <1>2, <2>1, SeqFacts
  <2>3. id \in Links(n, kind) => id = None
    <3>1. n.topic # None => n.handler = "create_support_ticket"
      BY <2>2, NodeFieldTypes DEF OfItsKind
    <3> QED
      BY <2>1, <3>1 DEF Links, Refers, DeclarationKind
  <2>4. None \notin Links(n, kind)
    BY <2>2, NodeFieldTypes, NoneIsNothing DEF Links, DeclarationKind, Optional
  <2>5. ASSUME NEW kd \in PartKind, NEW u \in Links(n, kd), u \notin Ids(E[kd]) PROVE u \notin Ids(D[kd])
    <3>1. CASE kd = kind
      BY <1>1, <1>7, <2>3, <2>4, <2>5, <3>1
    <3>2. CASE kd # kind
      BY <1>7, <2>5, <3>2
    <3> QED
      BY <3>1, <3>2
  <2> QED
    BY <2>1, <2>5 DEF NodeKept
<1>9. ASSUME NEW e \in Elements(E.escalations) PROVE TopicKept(D, E, e)
  <2>1. e \in Elements(D.escalations)
    <3>1. CASE kind = "escalations"
      BY <1>1, <1>7, <3>1
    <3>2. CASE kind # "escalations"
      BY <1>7, <3>2 DEF PartKind
    <3> QED
      BY <3>1, <3>2
  <2>2. ASSUME NEW a \in Elements(e.actions), a.emit \notin Ids(E.signals) PROVE a.emit \notin Ids(D.signals)
    <3>1. CASE kind = "signals"
      BY <1>1, <1>5, <1>7, <2>1, <2>2, <3>1
    <3>2. CASE kind # "signals"
      BY <1>7, <2>2, <3>2 DEF PartKind
    <3> QED
      BY <3>1, <3>2
  <2> QED
    BY <2>1, <2>2 DEF TopicKept
<1>10. StrandsOnly(D, E, X)
  BY <1>8, <1>9, KeptStrandsNothing DEF StrandsOnly
<1> QED
  BY <1>10 DEF D, E, X

(* After a rename a block refers to the new identifier or to what it       *)
(* referred to before.                                                     *)
LEMMA RenamedLinks ==
    ASSUME NEW n \in Node, NEW kind \in DeclarationKind, NEW old \in IdOf(kind), NEW new \in IdOf(kind),
           NEW kd \in PartKind, NEW u \in Links(RenameInNode(n, kind, old, new), kd)
    PROVE  (kd = kind /\ u = new) \/ (u \in Links(n, kd) /\ (kd = kind => u # old))
<1> DEFINE r == RenameInNode(n, kind, old, new)
<1>1. \A f \in DOMAIN n : r[f] =
                CASE f = "form" /\ kind = "forms" /\ Refers(n, kind, old) -> new
                  [] f = "waits" /\ kind = "signals" /\ Refers(n, kind, old) -> (n.waits \ {old}) \cup {new}
                  [] f = "topic" /\ kind = "escalations" /\ Refers(n, kind, old) -> new
                  [] OTHER -> n[f]
  BY RenameInNodeTyped
<1>2. DOMAIN n = {"id", "kind", "next", "branches", "on_error", "compensate",
                  "on_timeout", "waits", "form", "handler", "topic", "stage", "computable"}
  BY NodeFieldTypes
<1> HIDE DEF r
<1>3. /\ r.next = n.next /\ r.on_error = n.on_error /\ r.compensate = n.compensate /\ r.on_timeout = n.on_timeout
      /\ r.branches = n.branches /\ r.stage = n.stage
      /\ r.form = (IF kind = "forms" /\ Refers(n, kind, old) THEN new ELSE n.form)
      /\ r.waits = (IF kind = "signals" /\ Refers(n, kind, old) THEN (n.waits \ {old}) \cup {new} ELSE n.waits)
      /\ r.topic = (IF kind = "escalations" /\ Refers(n, kind, old) THEN new ELSE n.topic)
  BY <1>1, <1>2
<1>4. u \in Links(r, kd)
  BY DEF r
<1>5. CASE kd = "nodes"
  <2>1. u \in Targets(r) => u \in Targets(n)
    BY <1>3, TargetFacts
  <2> QED
    BY <1>4, <1>5, <2>1 DEF Links, DeclarationKind
<1>6. CASE kd = "stages"
  BY <1>3, <1>4, <1>6 DEF Links, DeclarationKind
<1>7. CASE kd = "forms"
  BY <1>3, <1>4, <1>7 DEF Links, Refers
<1>8. CASE kd = "signals"
  <2>1. CASE kind = "signals" /\ Refers(n, kind, old)
    <3>1. n.waits # None /\ n.waits \in SUBSET SignalId
      BY <2>1, NodeFieldTypes DEF Refers, Optional
    <3>2. r.waits = (n.waits \ {old}) \cup {new} /\ new \in SignalId
      BY <1>3, <2>1 DEF IdOf
    <3>3. r.waits # None
      BY <3>1, <3>2, NoneIsNothing
    <3> QED
      BY <1>4, <1>8, <2>1, <3>1, <3>2, <3>3 DEF Links
  <2>2. CASE kind = "signals" /\ ~ Refers(n, kind, old)
    <3>1. r.waits = n.waits /\ (n.waits # None => old \notin n.waits)
      BY <1>3, <2>2 DEF Refers
    <3> QED
      BY <1>4, <1>8, <2>2, <3>1 DEF Links
  <2>3. CASE kind # "signals"
    BY <1>3, <1>4, <1>8, <2>3 DEF Links
  <2> QED
    BY <2>1, <2>2, <2>3
<1>9. CASE kd = "escalations"
  <2>1. n.topic # None => n.handler = "create_support_ticket"
    BY NodeFieldTypes DEF OfItsKind
  <2> QED
    BY <1>3, <1>4, <1>9, <2>1 DEF Links, Refers
<1> QED
  BY <1>5, <1>6, <1>7, <1>8, <1>9 DEF PartKind

(* A topic whose actions emit what is declared.                            *)
LEMMA ValueKept ==
    ASSUME NEW D, NEW E, NEW v, \A a \in Elements(v.actions) : a.emit # None => a.emit \in Ids(E.signals)
    PROVE  TopicKept(D, E, v)
BY DEF TopicKept

(* A declaration is saved: references follow its new identifier.           *)
LEMMA SaveDeclarationStrands ==
    ASSUME NEW d, Sound(d), NEW kind \in DeclarationKind, NEW original, NEW value \in Declared(kind),
           CanSaveDeclaration(d, kind, original, value)
    PROVE  StrandsOnly(d.definition, SaveDeclaration(d, kind, original, value).definition, {})
<1> DEFINE D == d.definition
           E == SaveDeclaration(d, kind, original, value).definition
           X == {}
           new == value.id
<1>1. PICK saved \in Definition :
                /\ saved = [D EXCEPT ![kind] = Saved(D[kind], original, value)]
                /\ Ids(saved[kind]) = (Ids(D[kind]) \ {original}) \cup {value.id}
                /\ Elements(saved[kind]) = {e \in Elements(D[kind]) : e.id # original} \cup {value}
                /\ E = IF original \in {None, value.id} THEN saved
                       ELSE RenameReferences(saved, kind, original, value.id)
                /\ original \notin {None, value.id} => original \in IdOf(kind) /\ value.id \in IdOf(kind)
  BY SaveDeclarationSound, Zenon
<1>2. D \in Definition /\ D.nodes \in Seq(Node) /\ D.escalations \in Seq(EscalationDef)
  BY SoundFields
<1>3. kind = "escalations" => \A a \in Elements(value.actions) : a.emit # None => a.emit \in Ids(D.signals)
  BY DEF CanSaveDeclaration
<1>4. kind \in DOMAIN D /\ DOMAIN D = {"key", "version", "active", "effective", "deprecated", "stages", "nodes",
                            "signals", "forms", "escalations"}
  BY <1>2, DefinitionFields DEF DeclarationKind
<1>5. original # None => original \in Ids(D[kind])
  BY DEF CanSaveDeclaration
<1>6. Ids(D[kind]) \subseteq IdOf(kind) /\ None \notin IdOf(kind)
  BY DeclarationTypes
<1> HIDE DEF E, D, X, new
<1>7. \A kd \in PartKind \ {kind} : saved[kd] = D[kd]
  BY <1>1, <1>4 DEF PartKind
<1>8. "nodes" \in PartKind \ {kind} /\ kind \in PartKind /\ "stages" \in PartKind \ {kind}
  BY DEF PartKind, DeclarationKind
<1>9. CASE original \in {None, new}
  <2>1. E = saved
    BY <1>1, <1>9 DEF new
  <2>2. Ids(D[kind]) \subseteq Ids(E[kind])
    BY <1>1, <1>6, <1>9, <2>1 DEF new
  <2>3. \A kd \in PartKind : Ids(D[kd]) \subseteq Ids(E[kd])
    BY <1>7, <2>1, <2>2
  <2>4. \A n \in Elements(E.nodes) : NodeKept(D, E, X, n)
    <3>1. E.nodes = D.nodes
      BY <1>7, <1>8, <2>1
    <3> QED
      BY <2>3, <3>1, UnchangedKept
  <2>5. ASSUME NEW e \in Elements(E.escalations) PROVE TopicKept(D, E, e)
    <3>1. CASE e \in Elements(D.escalations)
      BY <2>3, <3>1, UnchangedKept
    <3>2. CASE e \notin Elements(D.escalations)
      <4>1. kind = "escalations" /\ e = value
        <5>1. CASE kind = "escalations"
          BY <1>1, <2>1, <2>5, <3>2, <5>1
        <5>2. CASE kind # "escalations"
          <6>1. E.escalations = D.escalations
            BY <1>7, <2>1, <5>2 DEF PartKind
          <6> QED
            BY <2>5, <3>2, <6>1
        <5> QED
          BY <5>1, <5>2
      <4>2. E.signals = D.signals
        BY <1>7, <2>1, <4>1 DEF PartKind
      <4> QED
        BY <1>3, <4>1, <4>2, ValueKept
    <3> QED
      BY <3>1, <3>2
  <2>6. StrandsOnly(D, E, X)
    BY <2>4, <2>5, KeptStrandsNothing DEF StrandsOnly
  <2> QED
    BY <2>6 DEF D, E, X
<1>10. CASE original \notin {None, new}
  <2>1. E = RenameReferences(saved, kind, original, new) /\ original \in IdOf(kind) /\ new \in IdOf(kind)
    BY <1>1, <1>10 DEF new
  <2>2. /\ Elements(E.nodes) = {RenameInNode(n, kind, original, new) : n \in Elements(saved.nodes)}
        /\ Ids(E.nodes) = Ids(saved.nodes) /\ E.signals = saved.signals /\ E.forms = saved.forms
        /\ E.stages = saved.stages /\ Ids(E.escalations) = Ids(saved.escalations)
        /\ Elements(E.escalations) =
                 IF kind = "signals" THEN {RenameInTopic(e, original, new) : e \in Elements(saved.escalations)}
                 ELSE Elements(saved.escalations)
    <3>1. Follows(E, saved, kind, original, new)
      BY <2>1, RenameReferencesTyped
    <3> QED
      BY <3>1 DEF Follows
  <2>3. \A kd \in PartKind : Ids(E[kd]) = Ids(saved[kd])
    BY <2>2 DEF PartKind
  <2>4. \A kd \in PartKind : \A u : u \notin Ids(E[kd]) /\ (kd = kind => u # original) => u \notin Ids(D[kd])
    <3> TAKE kd \in PartKind
    <3> TAKE u
    <3>1. CASE kd = kind
      BY <1>1, <2>3, <3>1
    <3>2. CASE kd # kind
      BY <1>7, <2>3, <3>2
    <3> QED
      BY <3>1, <3>2
  <2>5. new \in Ids(E[kind])
    BY <1>1, <1>8, <2>3 DEF new
  <2>6. ASSUME NEW n \in Elements(E.nodes) PROVE NodeKept(D, E, X, n)
    <3>1. saved.nodes = D.nodes
      BY <1>7, <1>8
    <3>2. PICK m \in Elements(D.nodes) : n = RenameInNode(m, kind, original, new)
      BY <2>2, <3>1
    <3>3. m \in Node
      BY <1>2, SeqFacts
    <3>4. n.id = m.id
      <4>1. "id" \in DOMAIN m
        BY <3>3, NodeFieldTypes
      <4>2. RenameInNode(m, kind, original, new)["id"] = m["id"]
        BY <2>1, <3>3, <4>1, RenameInNodeTyped
      <4> QED
        BY <3>2, <4>2
    <3>5. ASSUME NEW kd \in PartKind, NEW u \in Links(n, kd), u \notin Ids(E[kd])
          PROVE  u \in Links(m, kd) /\ u \notin Ids(D[kd])
      <4>1. (kd = kind /\ u = new) \/ (u \in Links(m, kd) /\ (kd = kind => u # original))
        BY <2>1, <3>2, <3>3, RenamedLinks
      <4> QED
        BY <2>4, <2>5, <3>5, <4>1
    <3> QED
      BY <3>4, <3>5 DEF NodeKept
  <2>7. ASSUME NEW e \in Elements(E.escalations) PROVE TopicKept(D, E, e)
    <3>1. CASE kind = "signals"
      <4>1. saved.escalations = D.escalations
        BY <1>7, <3>1 DEF PartKind
      <4>2. PICK f \in Elements(D.escalations) : e = RenameInTopic(f, original, new)
        BY <2>2, <3>1, <4>1
      <4>3. f \in EscalationDef
        BY <1>2, SeqFacts
      <4>4. original \in SignalId /\ new \in SignalId
        BY <2>1, <3>1 DEF IdOf
      <4>5. /\ e.id = f.id /\ DOMAIN e.actions = DOMAIN f.actions
            /\ \A i \in DOMAIN f.actions : e.actions[i].emit =
                                            IF f.actions[i].emit = original THEN new ELSE f.actions[i].emit
        BY <4>2, <4>3, <4>4, RenameInTopicTyped
      <4>6. ASSUME NEW a \in Elements(e.actions), a.emit \notin Ids(E.signals)
            PROVE  \E b \in Elements(f.actions) : b.emit = a.emit /\ a.emit \notin Ids(D.signals)
        <5>1. PICK i \in DOMAIN f.actions : a = e.actions[i]
          BY <4>5 DEF Elements
        <5>2. a.emit = f.actions[i].emit /\ a.emit # original
          BY <2>5, <3>1, <4>5, <4>6, <5>1
        <5>3. a.emit \notin Ids(D.signals)
          BY <2>4, <4>6, <5>2 DEF PartKind
        <5>4. f.actions[i] \in Elements(f.actions)
          BY DEF Elements
        <5> QED
          BY <5>2, <5>3, <5>4
      <4> QED
        BY <4>5, <4>6 DEF TopicKept
    <3>2. CASE kind # "signals"
      <4>1. e \in Elements(saved.escalations)
        BY <2>2, <2>7, <3>2
      <4>2. E.signals = D.signals
        BY <1>7, <2>2, <3>2 DEF PartKind
      <4>3. CASE e \in Elements(D.escalations)
        BY <4>2, <4>3 DEF TopicKept
      <4>4. CASE e \notin Elements(D.escalations)
        <5>1. kind = "escalations"
          <6>1. ASSUME kind # "escalations" PROVE FALSE
            <7>1. saved.escalations = D.escalations
              BY <1>7, <6>1 DEF PartKind
            <7> QED
              BY <4>1, <4>4, <7>1
          <6> QED
            BY <6>1
        <5>2. e = value
          BY <1>1, <4>1, <4>4, <5>1
        <5> QED
          BY <1>3, <4>2, <5>1, <5>2, ValueKept
      <4> QED
        BY <4>3, <4>4
    <3> QED
      BY <3>1, <3>2
  <2>8. StrandsOnly(D, E, X)
    BY <2>6, <2>7, KeptStrandsNothing DEF StrandsOnly
  <2> QED
    BY <2>8 DEF D, E, X
<1> QED
  BY <1>9, <1>10

(* Between two states: an edit strands no reference but those excused.     *)
Strandless == StrandsOnly(doc.definition, doc'.definition, Retyped)

(* An edit that strands nothing needs no excuse.                           *)
LEMMA NothingStranded ==
    ASSUME StrandsOnly(doc.definition, doc'.definition, {})
    PROVE  Strandless
BY StrandsWiden DEF Strandless

(* Canvas events: only add_block makes a reference that may miss its       *)
(* target.                                                                 *)
LEMMA CanvasStrands ==
    ASSUME Sound(doc), Canvas, edits' # edits
    PROVE  Strandless
<1>1. CASE Escape \/ EndDrag \/ (\E id \in NodeId : OutPort(id)) \/ \E place \in Places : DragMove(place)
  BY <1>1 DEF Escape, EndDrag, OutPort, DragMove, history
<1>2. CASE NudgeOrArrange \/ \E id \in NodeId : StartDrag(id)
  <2>1. doc' = doc \/ doc' = Arrange(doc) \/ \E id \in Ids(doc.definition.nodes), place \in Places : doc' = MoveNode(doc, id, place)
    BY <1>2 DEF NudgeOrArrange, StartDrag, Edit
  <2>2. doc'.definition = doc.definition
    BY <2>1, ArrangeSound, MoveNodeSound, EditorTypes
  <2> QED
    BY <2>2, SameStrands, NothingStranded
<1>3. CASE DeleteBlock
  <2>1. CanRemoveNode(doc, selected) /\ doc' = RemoveNode(doc, selected)
    BY <1>3 DEF DeleteBlock, Edit, history
  <2> QED
    BY <2>1, RemoveStrands, NothingStranded
<1>4. ASSUME NEW kind \in AddKinds, NEW place \in Places, AddBlockAt(kind, place) PROVE Strandless
  <2>1. doc' = AddBlock(doc, kind, place) /\ CanAddBlock(doc, kind)
    BY <1>4 DEF AddBlockAt, Edit
  <2>2. kind \in BlockKind /\ place \in Nat
    BY EditorTypes
  <2>3. /\ StrandsOnly(doc.definition, doc'.definition, {<<"nodes", AddedId(doc)>>})
        /\ AddedId(doc) \notin Ids(doc.definition.nodes)
        /\ \E n \in Elements(doc'.definition.nodes) \ Elements(doc.definition.nodes) : n.id = AddedId(doc)
    BY <2>1, <2>2, AddStrands
  <2>4. {<<"nodes", AddedId(doc)>>} \subseteq Retyped
    BY <2>3 DEF Retyped
  <2> QED
    BY <2>3, <2>4, StrandsWiden DEF Strandless
<1> QED
  BY <1>1, <1>2, <1>3, <1>4 DEF Canvas

(* A host's edits offer only what the document has; an import is not such  *)
(* an edit.                                                                *)
LEMMA HostStrands ==
    ASSUME Sound(doc), Host, doc'.definition \notin Imports
    PROVE  Strandless
<1>0. None \in Optional(SUBSET SignalId) /\ SUBSET SignalId \subseteq Optional(SUBSET SignalId)
  BY DEF Optional
<1>1. CASE HostEdit
  <2>1. PICK id \in Ids(doc.definition.nodes) :
              \/ \E target \in Ids(doc.definition.nodes), when \in Conditions :
                    CanConnect(doc, id, target, when) /\ Edit(Connect(doc, id, target, when))
              \/ \E route \in Routes(NodeOf(doc, id)) :
                    CanDisconnect(doc, id, route) /\ Edit(Disconnect(doc, id, route))
              \/ \E f \in HostFields : \E node \in NodeChoices(NodeOf(doc, id), doc)[f] :
                    CanReplace(doc, id, node) /\ Edit(Replace(doc, id, node))
    BY <1>1 DEF HostEdit
  <2>2. ASSUME NEW target, NEW when \in Conditions, CanConnect(doc, id, target, when), doc' = Connect(doc, id, target, when)
        PROVE  StrandsOnly(doc.definition, doc'.definition, {})
    BY <1>0, <2>2, EditorTypes, ConnectStrands
  <2>3. ASSUME NEW route, CanDisconnect(doc, id, route), doc' = Disconnect(doc, id, route)
        PROVE  StrandsOnly(doc.definition, doc'.definition, {})
    BY <2>3, DisconnectStrands
  <2>4. ASSUME NEW f \in HostFields, NEW node \in NodeChoices(NodeOf(doc, id), doc)[f],
               CanReplace(doc, id, node), doc' = Replace(doc, id, node)
        PROVE  StrandsOnly(doc.definition, doc'.definition, {})
    BY <2>4, EditorTypes, ChoiceStrands
  <2> QED
    BY <2>1, <2>2, <2>3, <2>4, NothingStranded DEF Edit
<1>2. ASSUME NEW def \in Imports, Import(def) PROVE FALSE
  <2>1. doc' = Open(def, None, <<>>) /\ CanOpen(def) /\ def \in Definition
    BY <1>2, EditorTypes DEF Import, Edit
  <2>2. None \in Optional({"stored"}) /\ \A id \in DOMAIN << >> \cap Ids(def.nodes) : << >>[id] \in Nat
    BY DEF Optional
  <2>3. doc'.definition = def
    BY <2>1, <2>2, OpenSound
  <2> QED
    BY <2>3
<1> QED
  BY <1>1, <1>2 DEF Host

(* The forms: only the block whose form is applied may refer to what is    *)
(* missing.                                                                *)
LEMMA SettingsStrand ==
    ASSUME Sound(doc), FormsTyped, Settings, edits' # edits
    PROVE  Strandless
<1>1. CASE TypeNode \/ ReloadNode \/ TypeProcess \/ ReloadProcess
  BY <1>1 DEF TypeNode, ReloadNode, TypeProcess, ReloadProcess, history
<1>2. CASE ApplyNode
  <2> DEFINE id == nodeForm.id
             draft == nodeForm.draft
  <2>1. /\ CanSaveNode(doc, id, nodeForm.baseline, draft) /\ draft # None
        /\ doc' = SaveNode(doc, id, draft) /\ selected' = draft.id
        /\ nodeForm' = RefreshNode(doc', selected', NodeFormFor(doc', selected'))
    BY <1>2 DEF ApplyNode, Edit, Settle
  <2>2. draft \in Node
    BY <2>1 DEF FormsTyped, NodeFormTyped
  <2>3. id \in Ids(doc.definition.nodes) /\ (draft.id # id => draft.id \notin Ids(doc.definition.nodes))
    BY <2>1 DEF CanSaveNode
  <2>4. StrandsOnly(doc.definition, doc'.definition, {<<"nodes", draft.id>>})
    BY <2>1, <2>2, <2>3, SaveNodeStrands
  <2>5. draft.id # None
    BY <2>2, NodeFieldTypes, NoneIsNothing
  <2>6. nodeForm'.id = draft.id
    BY <2>1, <2>5 DEF RefreshNode, NodeFormFor, Filled
  <2>7. {<<"nodes", draft.id>>} \subseteq Retyped
    BY <2>6 DEF Retyped
  <2> QED
    BY <2>4, <2>7, StrandsWiden DEF Strandless
<1>3. CASE ApplyProcess
  <2>1. CanSaveProcess(doc, processForm.baseline, processForm.draft) /\ doc' = SaveProcess(doc, processForm.draft)
        /\ processForm.draft \in SettingsDef
    BY <1>3 DEF ApplyProcess, Edit, ProcessForms, FormsTyped
  <2> QED
    BY <2>1, ProcessStrands, NothingStranded
<1> QED
  BY <1>1, <1>2, <1>3 DEF Settings

(* The declaration panels: removals are refused while in use, renames are  *)
(* followed.                                                               *)
LEMMA DeclarationsStrand ==
    ASSUME Sound(doc), FormsTyped, Declarations, edits' # edits
    PROVE  Strandless
<1>0. PICK kind \in PanelKinds :
        OpenDeclaration(kind) \/ TypeDeclaration(kind) \/ CancelDeclaration(kind)
        \/ ApplyDeclaration(kind) \/ DeleteDeclaration(kind)
  BY DEF Declarations
<1>1. kind \in DeclarationKind /\ PanelTyped(kind, panel[kind])
  BY EditorTypes DEF FormsTyped
<1>2. CASE OpenDeclaration(kind) \/ TypeDeclaration(kind) \/ CancelDeclaration(kind)
  BY <1>2 DEF OpenDeclaration, TypeDeclaration, CancelDeclaration, PanelOnly, history
<1>3. CASE ApplyDeclaration(kind)
  <2>1. /\ CanSaveDeclaration(doc, kind, panel[kind].original, panel[kind].draft)
        /\ doc' = SaveDeclaration(doc, kind, panel[kind].original, panel[kind].draft)
        /\ panel[kind].editing
    BY <1>3 DEF ApplyDeclaration, Edit
  <2>2. panel[kind].draft \in Declared(kind)
    BY <1>1, <2>1 DEF PanelTyped
  <2> QED
    BY <1>1, <2>1, <2>2, SaveDeclarationStrands, NothingStranded
<1>4. CASE DeleteDeclaration(kind)
  <2>1. /\ CanRemoveDeclaration(doc, kind, panel[kind].original)
        /\ doc' = RemoveDeclaration(doc, kind, panel[kind].original)
    BY <1>4 DEF DeleteDeclaration, Edit
  <2> QED
    BY <1>1, <2>1, RemoveDeclarationStrands, NothingStranded
<1> QED
  BY <1>0, <1>2, <1>3, <1>4

(* Every step of the editor, from a state where the invariant holds.       *)
LEMMA EditStrands ==
    EditorIInv /\ [EditorNext]_editorVars =>
        (edits' # edits /\ doc'.definition \notin Imports =>
            \A r \in Stranded(doc'.definition) \ Stranded(doc.definition) : r.owner \in Retyped)
<1> SUFFICES ASSUME EditorIInv, [EditorNext]_editorVars, edits' # edits, doc'.definition \notin Imports
             PROVE  Strandless
  BY DEF Strandless, StrandsOnly
<1>1. Sound(doc) /\ FormsTyped
  BY DEF EditorIInv, UndoInv, HistoryTyped
<1>2. CASE Undo \/ Redo \/ (\E version \in 1 .. MaxVersion : Publish(version)) \/ UNCHANGED editorVars
  BY <1>2 DEF Undo, Redo, Publish, history, editorVars
<1>3. ASSUME NEW id \in NodeId, Select(id) PROVE Strandless
  <2>1. CanConnect(doc, connecting, id, None) /\ doc' = Connect(doc, connecting, id, None)
    BY <1>3 DEF Select, Edit, history
  <2>2. None \in Optional(SUBSET SignalId)
    BY DEF Optional
  <2> QED
    BY <1>1, <2>1, <2>2, ConnectStrands, NothingStranded
<1> QED
  BY <1>1, <1>2, <1>3, CanvasStrands, HostStrands, SettingsStrand, DeclarationsStrand DEF EditorNext

\* No edit leaves a reference pointing at nothing that pointed at something
\* before (remove_node, save_node_settings, save_process_settings and the
\* declaration panels), whatever forms are open and whatever was undone: only
\* the block whose own form is applied and a block just added may refer to what
\* is missing.
THEOREM EditsStrandNothing == EditorSpec => NoEditStrands
BY HistoryHolds, EditStrands, PTL DEF EditorSpec, NoEditStrands

-----------------------------------------------------------------------------
(* What a step of the worklist adds, and what a closed set holds.          *)
LEMMA FollowFacts ==
    ASSUME NEW def, NEW to, NEW S, NEW id
    PROVE  id \in Follow(def, to, S) <=>
              id \in S \/ (id \in Ids(def.nodes) /\ \E m \in Elements(def.nodes) : m.id \in S /\ id \in to[m])
<1>1. (\E v \in {to[n] : n \in {m \in Elements(def.nodes) : m.id \in S}} : id \in v) <=>
        \E m \in Elements(def.nodes) : m.id \in S /\ id \in to[m]
  OBVIOUS
<1> QED
  BY <1>1 DEF Follow

\* A set is closed when every declared target of its members is in it.
LEMMA ClosedFacts ==
    ASSUME NEW def, NEW S
    PROVE  Closed(def, S) <=> \A m \in Elements(def.nodes) : m.id \in S =>
                                  \A t \in NodeTargets(m) : t \in Ids(def.nodes) => t \in S
<1> DEFINE U == UNION {NodeTargets(n) : n \in {m \in Elements(def.nodes) : m.id \in S}}
<1>1. \A t : t \in U <=> \E m \in Elements(def.nodes) : m.id \in S /\ t \in NodeTargets(m)
  OBVIOUS
<1>2. Closed(def, S) <=> \A t : t \in Ids(def.nodes) /\ t \in U => t \in S
  BY DEF Closed
<1> HIDE DEF U
<1> QED
  BY <1>1, <1>2

(* There are no more identifiers than blocks.                              *)
LEMMA FewIds ==
    ASSUME NEW s, NEW T, s \in Seq(T)
    PROVE  IsFiniteSet(Ids(s)) /\ Cardinality(Ids(s)) \in Nat /\ Cardinality(Ids(s)) <= Len(s)
<1> DEFINE f == [i \in 1 .. Len(s) |-> s[i].id]
<1>1. Len(s) \in Nat /\ DOMAIN s = 1 .. Len(s)
  OBVIOUS
<1>2. f \in Surjection(1 .. Len(s), Ids(s))
  BY <1>1 DEF Surjection, Ids
<1>3. IsFiniteSet(1 .. Len(s)) /\ Cardinality(1 .. Len(s)) = Len(s)
  BY <1>1, FS_Interval
<1> HIDE DEF f
<1>4. IsFiniteSet(Ids(s)) /\ Cardinality(Ids(s)) <= Len(s)
  BY <1>2, <1>3, FS_Surjection
<1> QED
  BY <1>4, FS_CardinalityType

(* The worklist ends: a layer that is not the last word has more           *)
(* identifiers than its number, and there are only so many.                *)
LEMMA LayersSettle ==
    ASSUME NEW def, def.nodes \in Seq(Node), NEW to
    PROVE  /\ \A k \in 0 .. Len(def.nodes) : Layer(def, to)[k] \subseteq Ids(def.nodes)
           /\ \A k \in 1 .. Len(def.nodes) : Layer(def, to)[k - 1] \subseteq Layer(def, to)[k]
           /\ Follow(def, to, Layer(def, to)[Len(def.nodes)]) = Layer(def, to)[Len(def.nodes)]
<1> DEFINE N == Len(def.nodes)
           L == Layer(def, to)
           ids == Ids(def.nodes)
           F(S) == Follow(def, to, S)
           P(k) == L[k] \subseteq ids /\ (F(L[k]) = L[k] \/ Cardinality(L[k]) >= k + 1)
           Good == {k \in Nat : k <= N => P(k)}
<1>1. N \in Nat
  OBVIOUS
<1>2. L[0] = {n.id : n \in Starts(def)} /\ \A k \in 1 .. N : L[k] = F(L[k - 1])
  BY LayerFacts
<1>3. IsFiniteSet(ids) /\ Cardinality(ids) \in Nat /\ Cardinality(ids) <= N
  BY FewIds
<1>4. \A S : S \subseteq F(S) /\ (S \subseteq ids => F(S) \subseteq ids)
  BY FollowFacts
<1>5. \A S \in SUBSET ids : IsFiniteSet(S) /\ Cardinality(S) \in Nat /\ Cardinality(S) <= Cardinality(ids)
  BY <1>3, FS_Subset, FS_CardinalityType
<1>6. \A S \in SUBSET ids : F(S) # S => Cardinality(F(S)) >= Cardinality(S) + 1
  <2> SUFFICES ASSUME NEW S \in SUBSET ids, F(S) # S PROVE Cardinality(F(S)) >= Cardinality(S) + 1
    OBVIOUS
  <2>1. F(S) \in SUBSET ids /\ S \in SUBSET F(S)
    BY <1>4
  <2>2. Cardinality(S) <= Cardinality(F(S)) /\ Cardinality(F(S)) # Cardinality(S)
    BY <1>5, <2>1, FS_Subset
  <2> HIDE DEF F, ids
  <2> QED
    BY <1>5, <2>1, <2>2
<1>7. L[0] \subseteq ids
  BY <1>2, SeqFacts DEF Starts
<1>8. F({}) = {}
  BY FollowFacts
<1>9. 0 \in Good
  <2>1. CASE L[0] = {}
    BY <1>7, <1>8, <2>1
  <2>2. CASE L[0] # {}
    <3>1. PICK x : x \in L[0]
      BY <2>2
    <3>2. IsFiniteSet(L[0]) /\ Cardinality(L[0]) \in Nat
      BY <1>5, <1>7
    <3>3. Cardinality(L[0]) # 0
      BY <3>1, <3>2, FS_EmptySet
    <3> HIDE DEF L, F, ids, N
    <3> QED
      BY <1>7, <3>2, <3>3
  <2> QED
    BY <2>1, <2>2
<1> HIDE DEF L, F, ids, N
<1>10. ASSUME NEW k \in Nat, k \in Good PROVE k + 1 \in Good
  <2> SUFFICES ASSUME k + 1 <= N PROVE P(k + 1)
    BY DEF Good
  <2>1. P(k) /\ k + 1 \in 1 .. N /\ (k + 1) - 1 = k
    BY <1>1, <1>10
  <2>2. L[k + 1] = F(L[k])
    BY <1>2, <2>1
  <2>3. L[k + 1] \in SUBSET ids /\ L[k] \in SUBSET ids
    BY <1>4, <2>1, <2>2
  <2>4. CASE F(L[k]) = L[k]
    BY <2>2, <2>3, <2>4
  <2>5. CASE F(L[k]) # L[k]
    <3>1. Cardinality(L[k]) >= k + 1
      BY <2>1, <2>5
    <3>2. Cardinality(L[k + 1]) >= Cardinality(L[k]) + 1
      BY <1>6, <2>2, <2>3, <2>5
    <3>3. Cardinality(L[k]) \in Nat /\ Cardinality(L[k + 1]) \in Nat
      BY <1>5, <2>3
    <3>4. Cardinality(L[k + 1]) >= (k + 1) + 1
      BY <3>1, <3>2, <3>3
    <3> QED
      BY <2>3, <3>4
  <2> QED
    BY <2>4, <2>5
<1>11. \A k \in Nat : k \in Good
  <2> HIDE DEF Good
  <2> QED
    BY <1>9, <1>10, NatSetInduction
<1>12. \A k \in 0 .. N : P(k)
  <2> TAKE k \in 0 .. N
  <2>1. k \in Nat /\ k <= N
    BY <1>1
  <2> QED
    BY <1>11, <2>1
<1>13. F(L[N]) = L[N]
  <2>1. N \in 0 .. N
    BY <1>1
  <2>2. P(N)
    BY <1>12, <2>1
  <2>3. Cardinality(L[N]) \in Nat /\ Cardinality(L[N]) <= N
    BY <1>1, <1>3, <1>5, <2>2
  <2> QED
    BY <1>1, <2>2, <2>3
<1>14. \A k \in 1 .. N : L[k - 1] \subseteq L[k]
  BY <1>2, <1>4
<1> QED
  BY <1>12, <1>13, <1>14 DEF L, F, ids, N

(* The last layer is the least set that holds the Starts and whatever the  *)
(* engine may follow.                                                      *)
LEMMA ReachedIsLeast ==
    ASSUME NEW def, def.nodes \in Seq(Node)
    PROVE  /\ {n.id : n \in Starts(def)} \subseteq Reached(def, Followed(def))
           /\ Reached(def, Followed(def)) \subseteq Ids(def.nodes)
           /\ Closed(def, Reached(def, Followed(def)))
           /\ \A S : {n.id : n \in Starts(def)} \subseteq S /\ Closed(def, S) => Reached(def, Followed(def)) \subseteq S
<1> DEFINE N == Len(def.nodes)
           to == Followed(def)
           L == Layer(def, to)
           starts == {n.id : n \in Starts(def)}
<1>1. N \in Nat /\ Reached(def, to) = L[N]
  BY DEF Reached
<1>2. L[0] = starts /\ \A k \in 1 .. N : L[k] = Follow(def, to, L[k - 1]) /\ L[k - 1] \subseteq L[k]
  BY LayerFacts, LayersSettle
<1>3. \A m \in Elements(def.nodes) : to[m] = NodeTargets(m)
  BY DEF Followed
<1>4. L[N] \subseteq Ids(def.nodes) /\ Follow(def, to, L[N]) = L[N]
  <2>1. N \in 0 .. N
    BY <1>1
  <2> QED
    BY <2>1, LayersSettle
<1> HIDE DEF L, to, starts
<1>5. Closed(def, L[N])
  <2>1. ASSUME NEW m \in Elements(def.nodes), m.id \in L[N], NEW t \in NodeTargets(m), t \in Ids(def.nodes) PROVE t \in L[N]
    BY <1>3, <1>4, <2>1, FollowFacts
  <2> QED
    BY <2>1, ClosedFacts
<1>6. starts \subseteq L[N]
  <2> DEFINE Good == {k \in Nat : k <= N => starts \subseteq L[k]}
  <2>1. 0 \in Good
    BY <1>2
  <2>2. ASSUME NEW k \in Nat, k \in Good PROVE k + 1 \in Good
    <3> SUFFICES ASSUME k + 1 <= N PROVE starts \subseteq L[k + 1]
      OBVIOUS
    <3>1. k + 1 \in 1 .. N /\ (k + 1) - 1 = k
      BY <1>1
    <3>2. L[k] \subseteq L[k + 1]
      BY <1>2, <3>1
    <3>3. starts \subseteq L[k]
      BY <1>1, <2>2
    <3> QED
      BY <3>2, <3>3
  <2> HIDE DEF Good
  <2>3. \A k \in Nat : k \in Good
    BY <2>1, <2>2, NatSetInduction
  <2> QED
    BY <1>1, <2>3 DEF Good
<1>7. ASSUME NEW S, starts \subseteq S, Closed(def, S) PROVE L[N] \subseteq S
  <2> DEFINE Good == {k \in Nat : k <= N => L[k] \subseteq S}
  <2>1. 0 \in Good
    BY <1>2, <1>7
  <2>2. ASSUME NEW k \in Nat, k \in Good PROVE k + 1 \in Good
    <3> SUFFICES ASSUME k + 1 <= N PROVE L[k + 1] \subseteq S
      OBVIOUS
    <3>1. k + 1 \in 1 .. N /\ (k + 1) - 1 = k
      BY <1>1
    <3>2. L[k + 1] = Follow(def, to, L[k])
      BY <1>2, <3>1
    <3>3. L[k] \subseteq S
      BY <1>1, <2>2
    <3> SUFFICES ASSUME NEW id \in L[k + 1] PROVE id \in S
      OBVIOUS
    <3>4. id \in L[k] \/ (id \in Ids(def.nodes) /\ \E m \in Elements(def.nodes) : m.id \in L[k] /\ id \in to[m])
      BY <3>2, FollowFacts
    <3> QED
      BY <1>3, <1>7, <3>3, <3>4, ClosedFacts
  <2> HIDE DEF Good
  <2>3. \A k \in Nat : k \in Good
    BY <2>1, <2>2, NatSetInduction
  <2> QED
    BY <1>1, <2>3 DEF Good
<1> QED
  BY <1>1, <1>4, <1>5, <1>6, <1>7 DEF starts, to

(* unreachable_nodes leaves out exactly that set.                          *)
ReachIsExact(def) ==
    Ids(def.nodes) \ UnreachableNodes(def) =
        {id \in Ids(def.nodes) : \A S \in SUBSET Ids(def.nodes) : {n.id : n \in Starts(def)} \subseteq S /\ Closed(def, S) => id \in S}
\* Hence what is not unreachable is the least closed set with the Start.
LEMMA UnreachedIsExact ==
    ASSUME NEW def, def.nodes \in Seq(Node)
    PROVE  ReachIsExact(def)
<1> DEFINE R == Reached(def, Followed(def))
           starts == {n.id : n \in Starts(def)}
<1>1. starts \subseteq R /\ R \in SUBSET Ids(def.nodes) /\ Closed(def, R) /\ \A S : starts \subseteq S /\ Closed(def, S) => R \subseteq S
  BY ReachedIsLeast
<1>2. Ids(def.nodes) \ UnreachableNodes(def) = R
  BY <1>1 DEF UnreachableNodes
<1> HIDE DEF R, starts
<1>3. R = {id \in Ids(def.nodes) : \A S \in SUBSET Ids(def.nodes) : starts \subseteq S /\ Closed(def, S) => id \in S}
  BY <1>1
<1> QED
  BY <1>2, <1>3 DEF ReachIsExact, starts

-----------------------------------------------------------------------------
(* Every layer is part of the last one.                                    *)
LEMMA LayersNest ==
    ASSUME NEW def, def.nodes \in Seq(Node), NEW to, NEW k \in 0 .. Len(def.nodes)
    PROVE  Layer(def, to)[k] \subseteq Layer(def, to)[Len(def.nodes)]
<1> DEFINE N == Len(def.nodes)
           L == Layer(def, to)
           Good == {j \in Nat : j <= N => L[N - j] \subseteq L[N]}
<1>1. N \in Nat /\ \A j \in 1 .. N : L[j - 1] \subseteq L[j]
  BY LayersSettle
<1> HIDE DEF L, N
<1>2. 0 \in Good
  BY <1>1
<1>3. ASSUME NEW j \in Nat, j \in Good PROVE j + 1 \in Good
  <2> SUFFICES ASSUME j + 1 <= N PROVE L[N - (j + 1)] \subseteq L[N]
    OBVIOUS
  <2>1. N - j \in 1 .. N /\ N - (j + 1) = (N - j) - 1
    BY <1>1
  <2>2. L[N - (j + 1)] \subseteq L[N - j]
    BY <1>1, <2>1
  <2>3. L[N - j] \subseteq L[N]
    BY <1>1, <1>3
  <2> QED
    BY <2>2, <2>3
<1> HIDE DEF Good
<1>4. \A j \in Nat : j \in Good
  BY <1>2, <1>3, NatSetInduction
<1>5. N - k \in Nat /\ N - k <= N /\ N - (N - k) = k
  BY <1>1 DEF N
<1>6. L[k] \subseteq L[N]
  BY <1>4, <1>5 DEF Good
<1> QED
  BY <1>6 DEF L, N

(* auto_layout: the row of a block.                                        *)
LEMMA RowFacts ==
    ASSUME NEW def \in Definition, Unique(def.nodes)
    PROVE  /\ \A n \in Ends(def), id \in Ids(def.nodes) \ {m.id : m \in Ends(def)} :
                 AutoLayout(def)[id] < AutoLayout(def)[n.id]
           /\ \A id \in Reached(def, Drawn(def)) \ {m.id : m \in Ends(def)} :
                 AutoLayout(def)[id] = DepthIn(Layer(def, Drawn(def)), id)
<1> DEFINE layer == Layer(def, Drawn(def))
           N == Len(def.nodes)
           reached == layer[N]
           depth == Depths(layer, reached)
           deepest == Deepest(layer, reached)
           loose == {i \in DOMAIN def.nodes : def.nodes[i].kind # "End" /\ def.nodes[i].id \notin reached}
           before(id) == Cardinality({i \in loose : i < IndexOf(def.nodes, id)})
           row(id) == CASE Find(def.nodes, id).kind = "End" -> deepest + Cardinality(loose) + 1
                        [] Find(def.nodes, id).kind # "End" /\ id \in reached -> depth[id]
                        [] OTHER -> deepest + 1 + before(id)
           ends == {m.id : m \in Ends(def)}
           ids == Ids(def.nodes)
<1>1. def.nodes \in Seq(Node) /\ N \in Nat /\ DOMAIN def.nodes = 1 .. N
  BY DefinitionFields
<1>2. DOMAIN layer = 0 .. N
  BY <1>1, LayerFacts
<1>3. deepest \in Nat /\ \A id \in reached : depth[id] = DepthIn(layer, id) /\ depth[id] \in Nat /\ depth[id] <= deepest
  <2> HIDE DEF layer
  <2> QED
    BY <1>1, <1>2, DepthFacts DEF Depths
<1>4. IsFiniteSet(1 .. N)
  BY <1>1, FS_Interval
<1>5. IsFiniteSet(loose) /\ Cardinality(loose) \in Nat
  <2>1. loose \in SUBSET (1 .. N)
    BY <1>1
  <2> QED
    BY <1>4, <2>1, FS_Subset, FS_CardinalityType
<1>6. AutoLayout(def) = [id \in Ids(def.nodes) |-> row(id)]
  BY Zenon DEF AutoLayout, DepthIn, Depths, Deepest
<1>7. Reached(def, Drawn(def)) = reached /\ reached \subseteq ids
  <2>1. N \in 0 .. N
    BY <1>1
  <2> QED
    BY <1>1, <2>1, LayersSettle DEF Reached
<1>8. \A id \in ids : /\ IndexOf(def.nodes, id) \in DOMAIN def.nodes /\ def.nodes[IndexOf(def.nodes, id)] = Find(def.nodes, id)
                      /\ Find(def.nodes, id) \in Elements(def.nodes) /\ Find(def.nodes, id).id = id
                      /\ \A e \in Elements(def.nodes) : e.id = id => e = Find(def.nodes, id)
  BY <1>1, FindFacts DEF Find
<1>9. \A n \in Ends(def) : n.id \in ids /\ Find(def.nodes, n.id).kind = "End"
  BY <1>1, <1>8, SeqFacts DEF Ends
<1>10. \A id \in ids \ ends : Find(def.nodes, id).kind # "End"
  BY <1>8 DEF Ends
<1>11. ASSUME NEW id \in ids \ ends, id \notin reached
       PROVE  before(id) \in Nat /\ before(id) < Cardinality(loose)
  <2> DEFINE i == IndexOf(def.nodes, id)
             B == {j \in loose : j < i}
  <2>1. i \in loose
    BY <1>8, <1>10, <1>11
  <2>2. B \in SUBSET loose /\ i \notin B
    BY <1>1, <2>1
  <2> HIDE DEF B, loose, i
  <2>3. IsFiniteSet(B) /\ Cardinality(B) <= Cardinality(loose) /\ Cardinality(B) # Cardinality(loose)
    BY <1>5, <2>1, <2>2, FS_Subset
  <2>4. Cardinality(B) \in Nat
    BY <2>3, FS_CardinalityType
  <2>5. Cardinality(B) < Cardinality(loose)
    BY <1>5, <2>3, <2>4
  <2> QED
    BY <2>4, <2>5 DEF B, i
<1> HIDE DEF layer, deepest, depth, loose, before, reached
<1>12. \A n \in Ends(def) : row(n.id) = deepest + Cardinality(loose) + 1
  BY <1>9
<1>13. \A id \in reached \ ends : row(id) = depth[id]
  BY <1>7, <1>10
<1>14. \A id \in (ids \ ends) \ reached : row(id) = deepest + 1 + before(id)
  BY <1>10
<1> HIDE DEF row
<1>15. ASSUME NEW n \in Ends(def), NEW id \in ids \ ends PROVE row(id) < row(n.id)
  <2>1. CASE id \in reached
    BY <1>3, <1>5, <1>12, <1>13, <2>1
  <2>2. CASE id \notin reached
    <3>1. before(id) \in Nat /\ before(id) < Cardinality(loose)
      BY <1>11, <2>2
    <3> QED
      BY <1>3, <1>5, <1>12, <1>14, <2>2, <3>1
  <2> QED
    BY <2>1, <2>2
<1>16. \A id \in ids : AutoLayout(def)[id] = row(id)
  BY <1>6
<1>17. \A id \in reached \ ends : row(id) = DepthIn(layer, id)
  BY <1>3, <1>13
<1> QED
  BY <1>7, <1>9, <1>15, <1>16, <1>17 DEF layer, reached, N

(* The rows of reached blocks: one below a predecessor, none skipped.      *)
LEMMA RowsFollow ==
    ASSUME NEW d, Sound(d), NEW id \in Reached(d.definition, Drawn(d.definition)) \ {m.id : m \in Ends(d.definition)}
    PROVE  LET def == d.definition
               row == AutoLayout(def)
               inner == Reached(def, Drawn(def)) \ {n.id : n \in Ends(def)}
           IN  /\ \A t \in Targets(NodeOf(d, id)) \cap inner : row[t] <= row[id] + 1
               /\ id \in {n.id : n \in Starts(def)} \/ \E n \in Elements(def.nodes) :
                                    n.id \in Reached(def, Drawn(def)) /\ id \in Targets(n) /\ row[n.id] + 1 = row[id]
<1> DEFINE def == d.definition
           row == AutoLayout(def)
           ends == {n.id : n \in Ends(def)}
           starts == {n.id : n \in Starts(def)}
           R == Reached(def, Drawn(def))
           L == Layer(def, Drawn(def))
           N == Len(def.nodes)
           D(t) == DepthIn(L, t)
           k == D(id)
<1>1. def \in Definition /\ def.nodes \in Seq(Node) /\ Unique(def.nodes) /\ N \in Nat
  BY SoundFields
<1>2. DOMAIN L = 0 .. N /\ L[0] = starts /\ \A j \in 1 .. N : L[j] = Follow(def, Drawn(def), L[j - 1])
  BY <1>1, LayerFacts
<1>3. R = L[N] /\ R \subseteq Ids(def.nodes)
  <2>1. N \in 0 .. N
    BY <1>1
  <2> QED
    BY <1>1, <2>1, LayersSettle DEF Reached
<1>4. \A j \in 0 .. N : L[j] \subseteq R
  BY <1>1, <1>3, LayersNest
<1>5. \A t \in R \ ends : row[t] = D(t)
  BY <1>1, RowFacts
<1>6. \A m \in Elements(def.nodes) : Drawn(def)[m] = Targets(m)
  BY DEF Drawn
<1> HIDE DEF L, N, R
<1>7. \A t \in R : D(t) \in 0 .. N /\ t \in L[D(t)] /\ \A j \in 0 .. D(t) - 1 : t \notin L[j]
  BY <1>1, <1>2, <1>3, DepthFacts
<1> HIDE DEF def, D
<1>8. id \in R /\ id \notin ends
  BY DEF R, def
<1>9. k \in 0 .. N /\ id \in L[k] /\ \A j \in 0 .. k - 1 : id \notin L[j]
  BY <1>7, <1>8
<1> HIDE DEF k
<1>10. ASSUME NEW j \in 0 .. N, NEW t \in L[j] PROVE D(t) <= j
  <2>1. t \in R
    BY <1>4, <1>10
  <2>2. ~ (j \in 0 .. D(t) - 1)
    BY <1>7, <1>10, <2>1
  <2> QED
    BY <1>1, <1>7, <2>1, <2>2
<1>11. ASSUME NEW t \in R \ ends, t \in Targets(NodeOf(d, id)) PROVE row[t] <= row[id] + 1
  <2>1. NodeOf(d, id) \in Elements(def.nodes) /\ NodeOf(d, id).id = id /\ t \in Ids(def.nodes)
    BY <1>3, <1>8, NodeOfFacts DEF def
  <2>2. D(t) <= k + 1
    <3>1. CASE k + 1 <= N
      <4>1. k + 1 \in 1 .. N /\ (k + 1) - 1 = k /\ k + 1 \in 0 .. N
        BY <1>1, <1>9, <3>1
      <4>2. t \in L[k + 1]
        BY <1>2, <1>6, <1>9, <1>11, <2>1, <4>1, FollowFacts
      <4> QED
        BY <1>10, <4>1, <4>2
    <3>2. CASE ~ (k + 1 <= N)
      BY <1>1, <1>7, <1>9, <3>2
    <3> QED
      BY <3>1, <3>2
  <2>3. row[t] = D(t) /\ row[id] = k
    BY <1>5, <1>8 DEF k
  <2> QED
    BY <2>2, <2>3
<1>12. CASE k = 0
  <2>1. id \in starts
    BY <1>2, <1>9, <1>12
  <2> QED
    BY <1>11, <2>1 DEF def, R
<1>13. CASE k # 0
  <2>1. k \in 1 .. N /\ k - 1 \in 0 .. N /\ k - 1 \in 0 .. k - 1
    BY <1>1, <1>9, <1>13
  <2>2. id \in Follow(def, Drawn(def), L[k - 1]) /\ id \notin L[k - 1]
    BY <1>2, <1>9, <2>1
  <2>3. PICK m \in Elements(def.nodes) : m.id \in L[k - 1] /\ id \in Targets(m)
    BY <1>6, <2>2, FollowFacts
  <2>4. m.id \in R
    BY <1>4, <2>1, <2>3
  <2>5. D(m.id) <= k - 1 /\ D(m.id) \in 0 .. N /\ m.id \in L[D(m.id)]
    BY <1>7, <1>10, <2>1, <2>3, <2>4
  <2>6. D(m.id) = k - 1
    <3>1. ASSUME D(m.id) < k - 1 PROVE FALSE
      <4> DEFINE j == D(m.id) + 1
      <4>1. j \in 1 .. N /\ j - 1 = D(m.id) /\ j \in 0 .. k - 1
        BY <1>1, <1>9, <2>5, <3>1
      <4>2. id \in L[j]
        BY <1>2, <1>3, <1>6, <1>8, <2>3, <2>5, <4>1, FollowFacts
      <4> QED
        BY <1>9, <4>1, <4>2
    <3> QED
      BY <1>9, <2>5, <3>1
  <2>7. m.id \notin ends
    <3>1. ASSUME NEW n \in Ends(def), n.id = m.id PROVE FALSE
      <4>1. n = m
        BY <1>1, <2>3, <3>1, SeqFacts, FindFacts DEF Ends
      <4>2. m.kind = "End" /\ m \in Node
        BY <1>1, <2>3, <3>1, <4>1, SeqFacts DEF Ends
      <4>3. m.next = None /\ m.branches = <<>> /\ m.on_error = None /\ m.compensate = None /\ m.on_timeout = None
        BY <4>2, NodeFieldTypes DEF OfItsKind
      <4>4. id \notin Targets(m)
        BY <4>3, TargetFacts
      <4> QED
        BY <2>3, <4>4
    <3> QED
      BY <3>1
  <2>8. row[m.id] = k - 1 /\ row[id] = k
    BY <1>5, <1>8, <2>4, <2>6, <2>7 DEF k
  <2>9. row[m.id] + 1 = row[id]
    BY <1>9, <2>8
  <2> QED
    BY <1>11, <2>3, <2>4, <2>9 DEF def, R
<1> QED
  BY <1>12, <1>13

\* Both parts of GraphIsExact follow from the soundness of the document.
LEMMA GraphExact == EditorIInv => GraphIsExact
<1> SUFFICES ASSUME EditorIInv PROVE GraphIsExact
  OBVIOUS
<1>1. Sound(doc)
  BY DEF EditorIInv, UndoInv, HistoryTyped
<1>2. doc.definition \in Definition /\ doc.definition.nodes \in Seq(Node) /\ Unique(doc.definition.nodes)
  BY <1>1, SoundFields
<1>3. ReachIsExact(doc.definition)
  BY <1>2, UnreachedIsExact
<1>4. \A n \in Ends(doc.definition), id \in Ids(doc.definition.nodes) \ {m.id : m \in Ends(doc.definition)} :
          AutoLayout(doc.definition)[id] < AutoLayout(doc.definition)[n.id]
  BY <1>2, RowFacts
<1> QED
  BY <1>1, <1>3, <1>4, RowsFollow, Zenon DEF GraphIsExact, ReachIsExact

\* unreachable_nodes and auto_layout compute what they stand for, in every
\* document the editor reaches: the worklist ends at the least set that holds
\* the Start and all the engine may follow, and the rows are breadth-first.
THEOREM WorklistsAreExact == EditorSpec => []GraphIsExact
BY HistoryHolds, GraphExact, PTL
==============================================================================
