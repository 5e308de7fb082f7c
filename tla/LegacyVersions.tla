---------------------------- MODULE LegacyVersions ----------------------------
(***************************************************************************)
(* The repair of duplicate versions before migration 7                     *)
(* (migrations/legacy_versions.rs): an operator plans from a snapshot,     *)
(* reviews the plan, perhaps changes it, and applies it later under a      *)
(* table lock.  Meanwhile old writers, which should be stopped but need    *)
(* not be, register versions and change their lifecycle, other operators   *)
(* apply their plans, and time passes.                                     *)
(*                                                                         *)
(* A version is its three components; the text of one only orders groups,  *)
(* and is taken to order them as the numbers do.  Creation time and UUID,  *)
(* the last tie-breaks, are one order of the identities.                   *)
(***************************************************************************)
EXTENDS Naturals, Sequences, FiniteSets

CONSTANTS
    Uuid,          \* identities of definitions: naturals, in order of creation
    Legacy,        \* the tables an old release may have left
    LegacyRow,     \* the rows old writers may still add
    LastPart,      \* u32::MAX
    Operator, NoPlan,
    MaxPlans,      \* bound: plans made
    MaxWrites,     \* bound: writes by old writers
    LastTime       \* bound on the clock

VARIABLES
    table,         \* process_definition: [a set of identities -> rows]
    migrated,      \* migration 7 has made (key_, version) unique
    plan,          \* plan[o]: [rows, at, changes] or NoPlan
    planned, written, \* how many plans and such writes were made
    clock

counts == <<planned, written>>
repairVars == <<table, migrated, plan, counts, clock>>

\* Rows as an old release may have written them.
Version == (0 .. LastPart) \X (0 .. LastPart) \X (0 .. LastPart)
Key == UNION {{t[u].key : u \in DOMAIN t} : t \in Legacy} \cup {row.key : row \in LegacyRow}
DefinitionRow == [key : Key, version : Version, stated : Version, index : Nat,
                  active : BOOLEAN, from : Nat, until : Nat]

ASSUME RepairTypes ==
    /\ LastPart \in Nat
    /\ Legacy \subseteq Seq(DefinitionRow)
    /\ LegacyRow \subseteq DefinitionRow

Eligible(row, at) == row.active /\ row.from <= at /\ at < row.until

Same(a, b) == a.key = b.key /\ a.version = b.version
Group(t, u) == {v \in DOMAIN t : Same(t[u], t[v])}
Duplicated(t) == {u \in DOMAIN t : Group(t, u) # {u}}

\* Every row of every key with a duplicate.
Affected(t) == [u \in {v \in DOMAIN t : \E d \in Duplicated(t) : t[d].key = t[v].key} |-> t[u]]

(* VersionId's order, and successor(), which carries at u32::MAX.          *)
Below(v, w) ==
    \/ v[1] < w[1]
    \/ v[1] = w[1] /\ v[2] < w[2]
    \/ v[1] = w[1] /\ v[2] = w[2] /\ v[3] < w[3]

NoVersion == <<>>
Successor(v) ==
    CASE v # NoVersion /\ v[3] < LastPart -> <<v[1], v[2], v[3] + 1>>
      [] v # NoVersion /\ v[3] = LastPart /\ v[2] < LastPart -> <<v[1], v[2] + 1, 0>>
      [] v # NoVersion /\ v[3] = LastPart /\ v[2] = LastPart /\ v[1] < LastPart -> <<v[1] + 1, 0, 0>>
      [] OTHER -> NoVersion

Highest(t, key) ==
    CHOOSE v \in {t[u].version : u \in DOMAIN t} :
        /\ \E u \in DOMAIN t : t[u].key = key /\ t[u].version = v
        /\ \A u \in DOMAIN t : t[u].key = key => ~ Below(v, t[u].version)

-----------------------------------------------------------------------------
(* assignments: in each group the eligible row registered last keeps its   *)
(* version; the others get the next ones above the highest of their key.   *)
Prefers(t, at, u, v) ==
    \/ Eligible(t[u], at) /\ ~ Eligible(t[v], at)
    \/ /\ Eligible(t[u], at) = Eligible(t[v], at)
       /\ t[u].index > t[v].index \/ (t[u].index = t[v].index /\ u > v)

Retained(t, at, u) == CHOOSE r \in Group(t, u) : \A v \in Group(t, u) \ {r} : Prefers(t, at, r, v)
Moved(t, at) == {u \in Duplicated(t) : Retained(t, at, u) # u}

Sooner(t, at, u, v) ==
    Below(t[u].version, t[v].version) \/ (Same(t[u], t[v]) /\ Prefers(t, at, u, v))

NewVersion(t, at, u) ==
    LET above[n \in Nat] == IF n = 0 THEN Highest(t, t[u].key) ELSE Successor(above[n - 1])
    IN  above[1 + Cardinality({v \in Moved(t, at) : t[v].key = t[u].key /\ Sooner(t, at, v, u)})]

Assignments(t, at) ==
    [u \in Moved(t, at) |-> [new |-> NewVersion(t, at, u), retained |-> Retained(t, at, u)]]

(* repaired_rows: the version changes in the row, its JSON and its YAML,   *)
(* which must have agreed (`stated` is what they say).                     *)
Repairable(t, changes) ==
    \A u \in DOMAIN changes : changes[u].new # NoVersion /\ t[u].stated = t[u].version

Repaired(t, changes) ==
    [u \in DOMAIN t |-> IF u \in DOMAIN changes
                        THEN [t[u] EXCEPT !.version = changes[u].new, !.stated = changes[u].new]
                        ELSE t[u]]

\* plan_legacy_versions
Plan(o) ==
    /\ LET rows == Affected(table)
           changes == Assignments(rows, clock)
       IN  /\ Repairable(rows, changes)
           /\ plan' = [plan EXCEPT ![o] = [rows |-> rows, at |-> clock, changes |-> changes]]
    /\ planned < MaxPlans /\ planned' = planned + 1
    /\ UNCHANGED <<table, migrated, written, clock>>

\* Once reviewed, another member of a group is to keep the version.
EditPlan(o) ==
    /\ plan[o] # NoPlan
    /\ plan[o].changes = Assignments(plan[o].rows, plan[o].at)
    /\ \E u \in DOMAIN plan[o].changes :
           LET keeps == plan[o].changes[u].retained
           IN  plan' = [plan EXCEPT ![o].changes =
                   [v \in (DOMAIN @ \ {u}) \cup {keeps} |->
                       IF v = keeps THEN [new |-> @[u].new, retained |-> u] ELSE @[v]]]
    /\ UNCHANGED <<table, migrated, counts, clock>>

MutOutcome(p) ==
    LET expected == Repaired(p.rows, p.changes)
        keys     == {p.rows[u].key : u \in DOMAIN p.rows}
        current  == [u \in {v \in DOMAIN table : table[v].key \in keys} |-> table[u]]
        result   == [u \in DOMAIN table |-> IF u \in DOMAIN expected THEN expected[u] ELSE table[u]]
    IN  CASE Assignments(p.rows, p.at) # p.changes -> [is |-> "refused", table |-> table]
          [] Assignments(p.rows, p.at) = p.changes /\ current = expected ->
                [is |-> IF Duplicated(table) = {} THEN "already" ELSE "refused", table |-> table]
          [] OTHER ->
                IF current = p.rows /\ Duplicated(result) = {}
                THEN [is |-> "applied", table |-> result]
                ELSE [is |-> "refused", table |-> table]
(* apply_legacy_version_plan: the plan must be the one its rows give, the  *)
(* rows of its keys must be exactly those it was made from, or exactly     *)
(* those it leads to, and the choice must still be the same.  A refusal,   *)
(* and an apply that finds its work done, change nothing.                  *)
Outcome(p) ==
    LET expected == Repaired(p.rows, p.changes)
        keys     == {p.rows[u].key : u \in DOMAIN p.rows}
        current  == [u \in {v \in DOMAIN table : table[v].key \in keys} |-> table[u]]
        result   == [u \in DOMAIN table |-> IF u \in DOMAIN expected THEN expected[u] ELSE table[u]]
    IN  CASE Assignments(p.rows, p.at) # p.changes -> [is |-> "refused", table |-> table]
          [] Assignments(p.rows, p.at) = p.changes /\ current = expected ->
                [is |-> IF Duplicated(table) = {} THEN "already" ELSE "refused", table |-> table]
          [] OTHER ->
                IF current = p.rows /\ Assignments(current, clock) = p.changes /\ Duplicated(result) = {}
                THEN [is |-> "applied", table |-> result]
                ELSE [is |-> "refused", table |-> table]

Apply(o) ==
    /\ plan[o] # NoPlan
    /\ table' = Outcome(plan[o]).table
    /\ UNCHANGED <<migrated, plan, counts, clock>>

-----------------------------------------------------------------------------
Writes == written < MaxWrites /\ written' = written + 1

\* A registration by an old release takes any version and index; after the
\* migration it needs a new version and the next index.
RegisterOld(u, row) ==
    /\ u = Cardinality(DOMAIN table) + 1
    /\ migrated => \A v \in DOMAIN table : table[v].key = row.key =>
                       table[v].version # row.version /\ table[v].index < row.index
    /\ Writes
    /\ table' = [v \in DOMAIN table \cup {u} |-> IF v = u THEN row ELSE table[v]]
    /\ UNCHANGED <<migrated, plan, planned, clock>>

\* Lifecycle changes, which the triggers of migration 7 allow too.
Deactivate(u) ==
    /\ u \in DOMAIN table /\ table[u].active
    /\ Writes
    /\ table' = [table EXCEPT ![u].active = FALSE]
    /\ UNCHANGED <<migrated, plan, planned, clock>>

\* Migration 7 fails while duplicates exist.
Migrate ==
    /\ Duplicated(table) = {}
    /\ migrated' = TRUE
    /\ UNCHANGED <<table, plan, counts, clock>>

Tick ==
    /\ clock < LastTime
    /\ clock' = clock + 1
    /\ UNCHANGED <<table, migrated, plan, counts>>

RepairInit ==
    /\ table \in Legacy
    /\ migrated = FALSE
    /\ plan = [o \in Operator |-> NoPlan] /\ planned = 0 /\ written = 0
    /\ clock = 0

RepairNext ==
    \/ \E o \in Operator : Plan(o) \/ EditPlan(o) \/ Apply(o)
    \/ \E u \in Uuid, row \in LegacyRow : RegisterOld(u, row)
    \/ \E u \in Uuid : Deactivate(u)
    \/ Migrate \/ Tick

RepairSpec == RepairInit /\ [][RepairNext]_repairVars
-----------------------------------------------------------------------------
\* What get_current_process_def may return for a key and a set of versions.
Selectable(t, key, versions) ==
    LET found == {u \in DOMAIN t : t[u].key = key /\ Eligible(t[u], clock) /\ t[u].version \in versions}
    IN  {u \in found : \A v \in found : t[v].index <= t[u].index}

(* A repair is exact: whatever was written, planned, edited or applied     *)
(* before, an apply that reports success leaves no duplicate of any key;   *)
(* one that writes changes versions only, to numbers above all the key     *)
(* has used; and it disturbs no start: the default version of a key is     *)
(* selected as before, and a request for a number a moved row had is       *)
(* answered by a row that could answer it before, if there was any.  An    *)
(* apply that finds its work done looks for duplicates itself and changes  *)
(* nothing: it is a stuttering step, and the property is about the others. *)
RepairIsExact ==
    [][\A o \in Operator : Apply(o) =>
          /\ Outcome(plan[o]).is # "refused" => Duplicated(table') = {}
          /\ ~ migrated \/ table' = table
          /\ \A u \in DOMAIN table :
                /\ [table'[u] EXCEPT !.version = 0, !.stated = 0] = [table[u] EXCEPT !.version = 0, !.stated = 0]
                /\ table'[u].version # table[u].version =>
                      /\ \A v \in DOMAIN table : table[v].key = table[u].key => Below(table[v].version, table'[u].version)
                      /\ LET before == Selectable(table, table[u].key, {table[u].version})
                             after  == Selectable(table', table[u].key, {table[u].version})
                         IN  after \subseteq before /\ (after = {} => before = {})
                      /\ LET every == {t.version : t \in {table[v] : v \in DOMAIN table} \cup {table'[v] : v \in DOMAIN table'}}
                         IN  Selectable(table', table[u].key, every) = Selectable(table, table[u].key, every)]_repairVars
=============================================================================
