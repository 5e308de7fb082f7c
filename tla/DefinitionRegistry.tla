------------------------- MODULE DefinitionRegistry -------------------------
(***************************************************************************)
(* Registration, publication and selection of the versions of one process  *)
(* key, and the start of instances on them; keys share no row and no lock. *)
(*                                                                         *)
(* A registration holds the key's advisory lock while it checks, inserts   *)
(* and commits.  A start selects a version in one query and binds to it in *)
(* a later transaction; hosts deprecate versions and edit drafts in SQL,   *)
(* within what the triggers of migration 7 allow.  Versions are their      *)
(* ordinals in VersionId's order; a body stands for the graph and the      *)
(* declarations of a version.                                              *)
(***************************************************************************)
EXTENDS Integers

CONSTANTS
    Version,       \* ordinals of versions
    Uuid,          \* identities of stored versions
    NoUuid,
    Body,
    Command,       \* the registrations hosts and authors ask for
    Registrar,     \* concurrent register_process_definition calls
    Starter,       \* concurrent start_process_instance calls
    ProcessId,     \* business identities of instances
    MaxTime,       \* bound on the clock
    MaxIndex       \* bound on the registrations of the key

Time == 0 .. MaxTime
Never == MaxTime + 1
Status == {"draft", "active", "deprecated"}

ASSUME RegistryTypes ==
    /\ Version \subseteq Nat
    /\ NoUuid \notin Uuid
    /\ MaxTime \in Nat /\ MaxIndex \in Nat
    /\ Command \subseteq [version : Version, status : Status, effective : Time,
                         body : Body, publication : BOOLEAN, base : Uuid \cup {NoUuid}]

VARIABLES
    stored,     \* process_definition
    registrar,  \* each registration in progress: its checked command
    advisory,   \* the registrations that hold the advisory lock of the key
    starter,    \* each start in progress
    instance,   \* process_instance: the version and the body it was started with
    now

vars == <<stored, registrar, advisory, starter, instance, now>>

\* published tells which rows publish_process_def_from_source wrote.
Definition == [version : Version, index : 1 .. MaxIndex, status : Status,
               effective : Time, deprecated : Time \cup {Never}, body : Body,
               published : BOOLEAN]

Absent == [status |-> "absent"]
Idle == [pc |-> "idle"]

Rows == {u \in Uuid : stored[u] # Absent}

RegistryTypeOK ==
    /\ stored \in [Uuid -> Definition \cup {Absent}]
    /\ registrar \in [Registrar -> {Idle} \cup
           [pc : {"checked"}, command : Command, index : 1 .. MaxIndex]]
    /\ advisory \subseteq Registrar
    /\ starter \in [Starter -> {Idle} \cup
           [pc : {"selected", "shared"}, uuid : Uuid, body : Body, at : Time]]
    /\ instance \in [ProcessId -> {Absent} \cup
           [status : {"started"}, uuid : Uuid, body : Body, at : Time]]
    /\ now \in Time

Init ==
    /\ stored = [u \in Uuid |-> Absent]
    /\ registrar = [r \in Registrar |-> Idle]
    /\ advisory = {}
    /\ starter = [s \in Starter |-> Idle]
    /\ instance = [p \in ProcessId |-> Absent]
    /\ now = 0

(***************************************************************************)
(* register_process_definition                                             *)
(***************************************************************************)
MutAccepts(c) ==
    c.publication =>
        IF c.base = NoUuid THEN Rows = {}
        ELSE c.base \in Rows /\ stored[c.base].version < c.version
\* A publication is active; the first one needs a new key, a later one a base
\* of the key and a version above all others.  Plain registrations are not
\* checked.
Accepts(c) ==
    c.publication =>
        /\ c.status = "active"
        /\ IF c.base = NoUuid THEN Rows = {}
           ELSE c.base \in Rows /\ \A u \in Rows : stored[u].version < c.version

\* coalesce(max(index_id), 0) + 1
IsNextIndex(n) ==
    /\ n - 1 \in {0} \cup {stored[u].index : u \in Rows}
    /\ \A u \in Rows : stored[u].index < n

MutCheck(r, c) ==
    /\ registrar[r] = Idle
    /\ Accepts(c)
    /\ \E n \in 0 .. MaxIndex :
          /\ IsNextIndex(n)
          /\ registrar' = [registrar EXCEPT ![r] = [pc |-> "checked", command |-> c, index |-> n]]
    /\ UNCHANGED <<stored, advisory, starter, instance, now>>
\* pg_advisory_xact_lock, the check and max(index_id).  What runs between the
\* lock and the checks changes no other row of the key but by hosts.
Check(r, c) ==
    /\ registrar[r] = Idle
    /\ advisory = {}
    /\ Accepts(c)
    /\ advisory' = {r}
    /\ \E n \in 0 .. MaxIndex :
          /\ IsNextIndex(n)
          /\ registrar' = [registrar EXCEPT ![r] = [pc |-> "checked", command |-> c, index |-> n]]
    /\ UNCHANGED <<stored, starter, instance, now>>

\* INSERT as a draft with its declarations, the final status, COMMIT; the
\* unique (key_, version) must hold.
Register(r) ==
    LET c == registrar[r].command
    IN  /\ registrar[r] # Idle
        /\ \A u \in Rows : stored[u].version # c.version
        /\ \E u \in Uuid \ Rows :
              stored' = [stored EXCEPT ![u] =
                  [version |-> c.version, index |-> registrar[r].index,
                   status |-> c.status, effective |-> c.effective, deprecated |-> Never,
                   body |-> c.body, published |-> c.publication]]
        /\ registrar' = [registrar EXCEPT ![r] = Idle]
        /\ advisory' = advisory \ {r}
        /\ UNCHANGED <<starter, instance, now>>

\* A constraint or a failure rolls the transaction back.
Fail(r) ==
    /\ registrar[r] # Idle
    /\ registrar' = [registrar EXCEPT ![r] = Idle]
    /\ advisory' = advisory \ {r}
    /\ UNCHANGED <<stored, starter, instance, now>>

(***************************************************************************)
(* start_process_instance                                                  *)
(***************************************************************************)
Eligible(u) ==
    /\ stored[u].status = "active"
    /\ stored[u].effective <= now
    /\ stored[u].deprecated > now

\* get_current_process_def: the eligible row registered last, of the
\* requested version if there is one.
Select(s, versions) ==
    LET found == {u \in Rows : Eligible(u) /\ stored[u].version \in versions}
    IN  /\ starter[s] = Idle
        /\ \E u \in found :
              /\ \A v \in found : stored[v].index <= stored[u].index
              /\ starter' = [starter EXCEPT ![s] = 
                     [pc |-> "selected", uuid |-> u, body |-> stored[u].body, at |-> now]]
        /\ UNCHANGED <<stored, registrar, advisory, instance, now>>

MutRecheck(s) ==
    /\ starter[s].pc = "selected"
    /\ stored[starter[s].uuid] # Absent
    /\ starter' = [starter EXCEPT ![s].pc = "shared", ![s].at = now]
    /\ UNCHANGED <<stored, registrar, advisory, instance, now>>
\* SELECT ... FOR SHARE: still eligible, and kept from updates until COMMIT.
Recheck(s) ==
    /\ starter[s].pc = "selected"
    /\ Eligible(starter[s].uuid)
    /\ starter' = [starter EXCEPT ![s].pc = "shared", ![s].at = now]
    /\ UNCHANGED <<stored, registrar, advisory, instance, now>>

\* The instance, its context, stage and Start task, and COMMIT; the business
\* identity is unique.
Bind(s, p) ==
    /\ starter[s].pc = "shared"
    /\ instance[p] = Absent
    /\ instance' = [instance EXCEPT ![p] =
               [status |-> "started", uuid |-> starter[s].uuid, body |-> starter[s].body,
                at |-> starter[s].at]]
    /\ starter' = [starter EXCEPT ![s] = Idle]
    /\ UNCHANGED <<stored, registrar, advisory, now>>

\* No longer eligible, a business identity in use, or a failure.
GiveUp(s) ==
    /\ starter[s] # Idle
    /\ starter' = [starter EXCEPT ![s] = Idle]
    /\ UNCHANGED <<stored, registrar, advisory, instance, now>>

(***************************************************************************)
(* SQL by hosts, under the triggers of migration 7                         *)
(***************************************************************************)
Shared(u) == \E s \in Starter : starter[s] # Idle /\ starter[s].pc = "shared" /\ starter[s].uuid = u
Writable(u) == stored[u] # Absent /\ ~Shared(u)

MutSetStatus(u, status) ==
    /\ Writable(u)
    /\ stored' = [stored EXCEPT ![u].status = status]
    /\ UNCHANGED <<registrar, advisory, starter, instance, now>>
\* A published row may change its status, but never back to a draft.
SetStatus(u, status) ==
    /\ Writable(u)
    /\ status = "draft" => stored[u].status = "draft"
    /\ stored' = [stored EXCEPT ![u].status = status]
    /\ UNCHANGED <<registrar, advisory, starter, instance, now>>

SetDeprecatedAt(u, t) ==
    /\ Writable(u)
    /\ stored' = [stored EXCEPT ![u].deprecated = t]
    /\ UNCHANGED <<registrar, advisory, starter, instance, now>>

\* Only a draft can be edited or deleted.
Edit(u, body) ==
    /\ Writable(u)
    /\ stored[u].status = "draft"
    /\ stored' = [stored EXCEPT ![u].body = body]
    /\ UNCHANGED <<registrar, advisory, starter, instance, now>>

Delete(u) ==
    /\ Writable(u)
    /\ stored[u].status = "draft"
    /\ stored' = [stored EXCEPT ![u] = Absent]
    /\ UNCHANGED <<registrar, advisory, starter, instance, now>>

Tick ==
    /\ now < MaxTime
    /\ now' = now + 1
    /\ UNCHANGED <<stored, registrar, advisory, starter, instance>>

Next ==
    \/ \E r \in Registrar :
          \/ \E c \in Command : Check(r, c)
          \/ Register(r) \/ Fail(r)
    \/ \E s \in Starter :
          \/ \E versions \in {Version} \cup {{v} : v \in Version} : Select(s, versions)
          \/ Recheck(s) \/ GiveUp(s)
          \/ \E p \in ProcessId : Bind(s, p)
    \/ \E u \in Uuid :
          \/ \E status \in Status : SetStatus(u, status)
          \/ \E t \in Time \cup {Never} : SetDeprecatedAt(u, t)
          \/ \E body \in Body : Edit(u, body)
          \/ Delete(u)
    \/ Tick

Spec == Init /\ [][Next]_vars

(***************************************************************************)
(* Properties                                                              *)
(***************************************************************************)
\* The registration order of a key, by which a start selects, has no ties:
\* neither concurrent registrations nor deleted drafts make two rows share an
\* index (register_process_definition).
RegistrationOrderIsTotal ==
    \A u, v \in Rows : stored[u].index = stored[v].index => u = v

\* A publication is above every version of its key that was registered before
\* it, whatever was published while its author was editing.
PublicationsIncrease ==
    \A u, v \in Rows :
        stored[v].published /\ stored[u].index < stored[v].index
        => stored[u].version < stored[v].version

\* No instance starts on a version that was deprecated, or left its dates,
\* between its selection and its start (start_process_instance_atomic).
StartsOnEligibleVersion ==
    [][\A p \in ProcessId : instance[p] = Absent /\ instance'[p] # Absent =>
          LET d == stored[instance'[p].uuid]
          IN  /\ d.status = "active"
              /\ d.effective <= instance'[p].at
              /\ d.deprecated > instance'[p].at]_vars

\* The body an instance was started with, which was read before its
\* transaction, is the body of the version it is bound to, then and for ever,
\* through every sequence of status changes, edits and deletions that the
\* triggers allow.
BoundVersionIsStable ==
    \A p \in ProcessId : instance[p] # Absent =>
        /\ stored[instance[p].uuid] # Absent
        /\ stored[instance[p].uuid].body = instance[p].body

(***************************************************************************)
(* The inductive invariant of DefinitionRegistryProofs                     *)
(***************************************************************************)
\* What a registration checked under the lock holds until it commits.
ChecksHold ==
    /\ \A r, q \in Registrar : registrar[r] # Idle /\ registrar[q] # Idle => r = q
    /\ \A r \in Registrar : registrar[r] # Idle =>
          /\ r \in advisory
          /\ \A u \in Rows : stored[u].index < registrar[r].index
          /\ registrar[r].command.publication =>
                \A u \in Rows : stored[u].version < registrar[r].command.version

\* What a start read stays true, and the locked row stays eligible.
StartsHold ==
    \A s \in Starter : starter[s] # Idle =>
        LET d == stored[starter[s].uuid]
        IN  /\ d # Absent /\ d.status # "draft" /\ d.body = starter[s].body
            /\ starter[s].pc = "shared" =>
                  d.status = "active" /\ d.effective <= starter[s].at /\ d.deprecated > starter[s].at

\* Versions with instances left the drafts.
BoundIsPublished ==
    \A p \in ProcessId : instance[p] # Absent => stored[instance[p].uuid].status # "draft"

\* Everything that is inductive: types, checked registrations, started
\* instances and the properties above.
RegistryInv ==
    /\ RegistryTypeOK
    /\ ChecksHold /\ RegistrationOrderIsTotal /\ PublicationsIncrease
    /\ StartsHold /\ BoundVersionIsStable /\ BoundIsPublished
=============================================================================
