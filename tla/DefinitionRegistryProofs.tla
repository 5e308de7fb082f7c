---------------------- MODULE DefinitionRegistryProofs ----------------------
(***************************************************************************)
(* Proofs for DefinitionRegistry: RegistryInv is inductive for any set of  *)
(* versions, registrars, starters and identities.                          *)
(***************************************************************************)
EXTENDS DefinitionRegistry, TLAPS

USE DEF Absent, Idle

\* A row's status tells stored rows from absent ones.
LEMMA AbsentIsNoRow ==
    ASSUME NEW d \in Definition
    PROVE  d # Absent /\ d.status \in Status
BY DEF Definition, Status

LEMMA InitRegistry == Init => RegistryInv
BY RegistryTypes DEF Init, RegistryInv, RegistryTypeOK, ChecksHold, RegistrationOrderIsTotal,
    PublicationsIncrease, StartsHold, BoundVersionIsStable, BoundIsPublished, Rows, Time

\* The checks hold for the command when the lock is taken.
LEMMA CheckKeeps ==
    ASSUME RegistryInv, NEW r \in Registrar, NEW c \in Command, Check(r, c)
    PROVE  RegistryInv'
<1> USE DEF RegistryInv
<1>0. UNCHANGED <<stored, starter, instance, now>>
  BY DEF Check
<1>1. PICK n \in 0 .. MaxIndex :
        IsNextIndex(n) /\ registrar' = [registrar EXCEPT ![r] = [pc |-> "checked", command |-> c, index |-> n]]
  BY DEF Check
<1>2. \A u \in Rows : stored[u].index \in Nat
  BY RegistryTypes DEF RegistryTypeOK, Rows, Definition
<1>3. n \in 1 .. MaxIndex /\ \A u \in Rows : stored[u].index < n
  BY <1>1, <1>2, RegistryTypes DEF IsNextIndex
<1>4. \A q \in Registrar : registrar[q] = Idle
  BY DEF Check, ChecksHold
<1>5. RegistryTypeOK'
  BY <1>0, <1>1, <1>3 DEF RegistryTypeOK, Check, Rows
<1>6. c.publication => \A u \in Rows : stored[u].version < c.version
  <2>1. CASE c.base = NoUuid
    BY <2>1 DEF Check, Accepts
  <2>2. CASE c.base # NoUuid
    BY <2>2 DEF Check, Accepts
  <2> QED BY <2>1, <2>2
<1>7. \A q \in Registrar : registrar'[q] # Idle =>
        q = r /\ registrar'[q] = [pc |-> "checked", command |-> c, index |-> n]
  BY <1>1, <1>4 DEF RegistryTypeOK
<1>8. ChecksHold'
  <2>1. r \in advisory'
    BY DEF Check
  <2> QED BY <1>0, <1>3, <1>6, <1>7, <2>1 DEF ChecksHold, Rows
<1> QED
  BY <1>0, <1>5, <1>8 DEF RegistrationOrderIsTotal, PublicationsIncrease, StartsHold,
      BoundVersionIsStable, BoundIsPublished, Rows

LEMMA RegisterKeeps ==
    ASSUME RegistryInv, NEW r \in Registrar, Register(r)
    PROVE  RegistryInv'
<1> DEFINE c == registrar[r].command
           n == registrar[r].index
<1> USE DEF RegistryInv
<1>1. PICK w \in Uuid \ Rows : stored' = [stored EXCEPT ![w] =
          [version |-> c.version, index |-> n, status |-> c.status, effective |-> c.effective,
           deprecated |-> Never, body |-> c.body, published |-> c.publication]]
  BY DEF Register
<1>2. UNCHANGED <<starter, instance, now>> /\ registrar' = [registrar EXCEPT ![r] = Idle]
        /\ registrar[r] # Idle /\ advisory' = advisory \ {r}
  BY DEF Register
<1>3. c \in Command /\ n \in 1 .. MaxIndex
  BY <1>2 DEF RegistryTypeOK
<1>4. stored[w] = Absent /\ w \in Uuid
  BY DEF Rows
<1>5. stored'[w] \in Definition /\ stored'[w].index = n /\ stored'[w].version = c.version
        /\ stored'[w].published = c.publication /\ stored'[w] # Absent
  BY <1>1, <1>3, <1>4, RegistryTypes, AbsentIsNoRow DEF RegistryTypeOK, Definition, Never
<1>6. Rows' = Rows \cup {w} /\ \A u \in Rows : stored'[u] = stored[u]
  BY <1>1, <1>4, <1>5 DEF Rows, RegistryTypeOK
<1>7. RegistryTypeOK'
  BY <1>1, <1>2, <1>5 DEF RegistryTypeOK
<1>8. \A q \in Registrar : registrar'[q] = Idle
  BY <1>2 DEF ChecksHold, RegistryTypeOK
<1>9. /\ \A u \in Rows : stored[u].index < n
      /\ c.publication => \A u \in Rows : stored[u].version < c.version
  BY <1>2 DEF ChecksHold
<1>10. \A u \in Rows : stored[u].index \in Nat /\ stored[u].version \in Nat
  <2> SUFFICES ASSUME NEW u \in Rows PROVE stored[u].index \in Nat /\ stored[u].version \in Nat
    OBVIOUS
  <2>1. stored[u] \in Definition
    BY DEF RegistryTypeOK, Rows
  <2>2. stored[u].version \in Version /\ stored[u].index \in 1 .. MaxIndex
    BY <2>1 DEF Definition
  <2>3. Version \subseteq Nat /\ MaxIndex \in Nat
    BY RegistryTypes
  <2>4. stored[u].version \in Nat
    BY <2>2, <2>3
  <2>5. stored[u].index \in Nat
    BY <2>2, <2>3
  <2> QED BY <2>4, <2>5
<1>11. RegistrationOrderIsTotal'
  BY <1>3, <1>5, <1>6, <1>9, <1>10 DEF RegistrationOrderIsTotal
<1>12. PublicationsIncrease'
  BY <1>3, <1>5, <1>6, <1>9, <1>10 DEF PublicationsIncrease
<1>13. \A u \in Uuid : stored[u] # Absent => stored'[u] = stored[u]
  BY <1>6 DEF Rows
<1>14. \A s \in Starter : starter[s] # Idle => starter[s].uuid \in Uuid
  BY DEF RegistryTypeOK
<1>15. \A p \in ProcessId : instance[p] # Absent => instance[p].uuid \in Uuid
  BY DEF RegistryTypeOK
<1>16. StartsHold'
  BY <1>2, <1>13, <1>14 DEF StartsHold
<1>17. BoundVersionIsStable' /\ BoundIsPublished'
  BY <1>2, <1>13, <1>15 DEF BoundVersionIsStable, BoundIsPublished
<1> QED BY <1>7, <1>8, <1>11, <1>12, <1>16, <1>17 DEF ChecksHold

LEMMA FailKeeps ==
    ASSUME RegistryInv, NEW r \in Registrar, Fail(r)
    PROVE  RegistryInv'
<1>1. RegistryTypeOK'
  BY DEF RegistryInv, RegistryTypeOK, Fail
<1>2. ChecksHold'
  BY DEF RegistryInv, RegistryTypeOK, ChecksHold, Fail, Rows
<1> QED
  BY <1>1, <1>2 DEF RegistryInv, RegistrationOrderIsTotal, PublicationsIncrease, StartsHold,
      BoundVersionIsStable, BoundIsPublished, Rows, Fail

\* A step of one start, or of the clock, touches no stored version.
LEMMA StartKeeps ==
    ASSUME RegistryInv, NEW s \in Starter,
           \/ \E versions \in SUBSET Version : Select(s, versions)
           \/ Recheck(s) \/ GiveUp(s)
           \/ \E p \in ProcessId : Bind(s, p)
    PROVE  RegistryInv'
<1> USE DEF RegistryInv
<1>1. UNCHANGED <<stored, registrar, advisory, now>>
  BY DEF Select, Recheck, GiveUp, Bind
<1>2. ChecksHold' /\ RegistrationOrderIsTotal' /\ PublicationsIncrease'
  BY <1>1 DEF ChecksHold, RegistrationOrderIsTotal, PublicationsIncrease, Rows
<1>3. ASSUME NEW versions \in SUBSET Version, Select(s, versions) PROVE RegistryInv'
  <2>1. PICK u \in Rows : Eligible(u) /\ starter' = [starter EXCEPT ![s] =
            [pc |-> "selected", uuid |-> u, body |-> stored[u].body, at |-> now]]
    BY <1>3 DEF Select
  <2>2. stored[u] \in Definition /\ u \in Uuid
    BY DEF Rows, RegistryTypeOK
  <2>3. RegistryTypeOK'
    BY <1>1, <1>3, <2>1, <2>2 DEF RegistryTypeOK, Select, Definition
  <2>4. StartsHold'
    BY <1>1, <2>1, <2>2, AbsentIsNoRow DEF StartsHold, Eligible, RegistryTypeOK
  <2> QED
    BY <1>1, <1>2, <1>3, <2>3, <2>4 DEF BoundVersionIsStable, BoundIsPublished, Select
<1>4. CASE Recheck(s)
  <2>1. starter[s] # Idle /\ Eligible(starter[s].uuid) /\ UNCHANGED instance
          /\ starter' = [starter EXCEPT ![s].pc = "shared", ![s].at = now]
    BY <1>4 DEF Recheck
  <2>2. RegistryTypeOK'
    <3>1. starter[s] \in [pc : {"selected", "shared"}, uuid : Uuid, body : Body, at : Time]
      BY <2>1 DEF RegistryTypeOK
    <3>2. starter'[s] \in [pc : {"selected", "shared"}, uuid : Uuid, body : Body, at : Time]
      BY <2>1, <3>1 DEF RegistryTypeOK
    <3> QED BY <1>1, <2>1, <3>2 DEF RegistryTypeOK
  <2>3. StartsHold'
    BY <1>1, <2>1 DEF StartsHold, Eligible, RegistryTypeOK
  <2> QED
    BY <1>1, <1>2, <2>1, <2>2, <2>3 DEF BoundVersionIsStable, BoundIsPublished
<1>5. CASE GiveUp(s)
  <2>1. RegistryTypeOK'
    BY <1>1, <1>5 DEF RegistryTypeOK, GiveUp
  <2>2. StartsHold'
    BY <1>1, <1>5 DEF StartsHold, GiveUp, RegistryTypeOK
  <2> QED
    BY <1>1, <1>2, <1>5, <2>1, <2>2 DEF BoundVersionIsStable, BoundIsPublished, GiveUp
<1>6. ASSUME NEW p \in ProcessId, Bind(s, p) PROVE RegistryInv'
  <2>1. starter[s] # Idle /\ starter' = [starter EXCEPT ![s] = Idle]
          /\ instance' = [instance EXCEPT ![p] = [status |-> "started", uuid |-> starter[s].uuid,
                body |-> starter[s].body, at |-> starter[s].at]]
    BY <1>6 DEF Bind
  <2>2. RegistryTypeOK'
    BY <1>1, <2>1 DEF RegistryTypeOK
  <2>3. StartsHold'
    BY <1>1, <2>1 DEF StartsHold, RegistryTypeOK
  <2>4. BoundVersionIsStable' /\ BoundIsPublished'
    BY <1>1, <2>1 DEF BoundVersionIsStable, BoundIsPublished, StartsHold, RegistryTypeOK
  <2> QED BY <1>2, <2>2, <2>3, <2>4
<1> QED BY <1>3, <1>4, <1>5, <1>6

\* What the triggers and the FOR SHARE lock let a host change in a row: its
\* identity, version, index and origin stay; a published row keeps its body
\* and never becomes a draft; a row shared by a start stays as it is.
HostEdit(w, d) ==
    /\ w \in Uuid /\ stored[w] # Absent /\ ~Shared(w)
    /\ stored' = [stored EXCEPT ![w] = d]
    /\ d \in Definition \cup {Absent}
    /\ d = Absent => stored[w].status = "draft"
    /\ d # Absent =>
          /\ d.version = stored[w].version /\ d.index = stored[w].index
          /\ d.published = stored[w].published
          /\ d.status = "draft" => stored[w].status = "draft"
          /\ stored[w].status # "draft" => d.body = stored[w].body
    /\ UNCHANGED <<registrar, advisory, starter, instance, now>>

LEMMA HostEditKeeps ==
    ASSUME RegistryInv, NEW w, NEW d, HostEdit(w, d)
    PROVE  RegistryInv'
<1> USE DEF RegistryInv, HostEdit
<1>1. RegistryTypeOK'
  BY DEF RegistryTypeOK
<1>2. Rows' \subseteq Rows
  BY DEF Rows, RegistryTypeOK
<1>3. \A u \in Rows' : /\ stored'[u].version = stored[u].version
                       /\ stored'[u].index = stored[u].index
                       /\ stored'[u].published = stored[u].published
  BY DEF Rows, RegistryTypeOK
<1>4. ChecksHold' /\ RegistrationOrderIsTotal' /\ PublicationsIncrease'
  BY <1>2, <1>3 DEF ChecksHold, RegistrationOrderIsTotal, PublicationsIncrease
<1>5. \A u \in Uuid : stored[u] # Absent /\ stored[u].status # "draft" =>
        stored'[u] # Absent /\ stored'[u].status # "draft" /\ stored'[u].body = stored[u].body
  BY DEF RegistryTypeOK
<1>6. \A u \in Uuid : Shared(u) => stored'[u] = stored[u]
  BY DEF RegistryTypeOK
<1>7. StartsHold'
  <2> SUFFICES ASSUME NEW s \in Starter, starter[s] # Idle
               PROVE  LET e == stored'[starter[s].uuid]
                      IN  /\ e # Absent /\ e.status # "draft" /\ e.body = starter[s].body
                          /\ starter[s].pc = "shared" =>
                                e.status = "active" /\ e.effective <= starter[s].at
                                /\ e.deprecated > starter[s].at
    BY DEF StartsHold
  <2>1. starter[s].uuid \in Uuid
    BY DEF RegistryTypeOK
  <2>2. starter[s].pc = "shared" => Shared(starter[s].uuid)
    BY DEF Shared
  <2> QED BY <1>5, <1>6, <2>1, <2>2 DEF StartsHold
<1>8. BoundVersionIsStable' /\ BoundIsPublished'
  <2>1. \A p \in ProcessId : instance[p] # Absent => instance[p].uuid \in Uuid
    BY DEF RegistryTypeOK
  <2> QED BY <1>5, <2>1 DEF BoundVersionIsStable, BoundIsPublished
<1> QED BY <1>1, <1>4, <1>7, <1>8

LEMMA HostsKeep ==
    ASSUME RegistryInv, NEW w \in Uuid,
           \/ \E status \in Status : SetStatus(w, status)
           \/ \E t \in Time \cup {Never} : SetDeprecatedAt(w, t)
           \/ \E body \in Body : Edit(w, body)
           \/ Delete(w)
    PROVE  RegistryInv'
<1>1. stored[w] \in Definition
  BY DEF SetStatus, SetDeprecatedAt, Edit, Delete, Writable, RegistryInv, RegistryTypeOK
<1>2. ASSUME NEW status \in Status, SetStatus(w, status) PROVE RegistryInv'
  <2>1. HostEdit(w, [stored[w] EXCEPT !.status = status])
    BY <1>1, <1>2, AbsentIsNoRow DEF HostEdit, SetStatus, Writable, Definition
  <2> QED BY <2>1, HostEditKeeps
<1>3. ASSUME NEW t \in Time \cup {Never}, SetDeprecatedAt(w, t) PROVE RegistryInv'
  <2>1. HostEdit(w, [stored[w] EXCEPT !.deprecated = t])
    BY <1>1, <1>3, AbsentIsNoRow DEF HostEdit, SetDeprecatedAt, Writable, Definition
  <2> QED BY <2>1, HostEditKeeps
<1>4. ASSUME NEW body \in Body, Edit(w, body) PROVE RegistryInv'
  <2>1. HostEdit(w, [stored[w] EXCEPT !.body = body])
    BY <1>1, <1>4, AbsentIsNoRow DEF HostEdit, Edit, Writable, Definition
  <2> QED BY <2>1, HostEditKeeps
<1>5. CASE Delete(w)
  <2>1. HostEdit(w, Absent)
    BY <1>1, <1>5 DEF HostEdit, Delete, Writable
  <2> QED BY <2>1, HostEditKeeps
<1> QED BY <1>2, <1>3, <1>4, <1>5

LEMMA TickKeeps == RegistryInv /\ Tick => RegistryInv'
<1> SUFFICES ASSUME RegistryInv, Tick PROVE RegistryInv'
  OBVIOUS
<1>1. RegistryTypeOK'
  BY RegistryTypes DEF RegistryInv, RegistryTypeOK, Tick, Time
<1> QED
  BY <1>1 DEF RegistryInv, ChecksHold, RegistrationOrderIsTotal, PublicationsIncrease,
      StartsHold, BoundVersionIsStable, BoundIsPublished, Rows, Tick

LEMMA NextKeeps == RegistryInv /\ [Next]_vars => RegistryInv'
<1> SUFFICES ASSUME RegistryInv, [Next]_vars PROVE RegistryInv'
  OBVIOUS
<1>1. CASE UNCHANGED vars
  BY <1>1 DEF vars, RegistryInv, RegistryTypeOK, ChecksHold, RegistrationOrderIsTotal,
      PublicationsIncrease, StartsHold, BoundVersionIsStable, BoundIsPublished, Rows
<1>2. ASSUME NEW r \in Registrar,
             (\E c \in Command : Check(r, c)) \/ Register(r) \/ Fail(r)
      PROVE RegistryInv'
  BY <1>2, CheckKeeps, RegisterKeeps, FailKeeps
<1>3. ASSUME NEW s \in Starter,
             \/ \E versions \in {Version} \cup {{v} : v \in Version} : Select(s, versions)
             \/ Recheck(s) \/ GiveUp(s) \/ \E p \in ProcessId : Bind(s, p)
      PROVE RegistryInv'
  <2>1. \A versions \in {Version} \cup {{v} : v \in Version} : versions \in SUBSET Version
    OBVIOUS
  <2> QED BY <1>3, <2>1, StartKeeps
<1>4. ASSUME NEW u \in Uuid,
             \/ \E status \in Status : SetStatus(u, status)
             \/ \E t \in Time \cup {Never} : SetDeprecatedAt(u, t)
             \/ \E body \in Body : Edit(u, body)
             \/ Delete(u)
      PROVE RegistryInv'
  BY <1>4, HostsKeep
<1>5. CASE Tick
  BY <1>5, TickKeeps
<1> QED BY <1>1, <1>2, <1>3, <1>4, <1>5 DEF Next

\* What a start reads and rechecks, and what the key's registrations check
\* under its lock, stay true in every reachable state.
THEOREM RegistryHolds == Spec => []RegistryInv
BY InitRegistry, NextKeeps, PTL DEF Spec

\* Registrations never tie (register_process_definition).
THEOREM RegistrationIsOrdered == Spec => []RegistrationOrderIsTotal
<1>1. RegistryInv => RegistrationOrderIsTotal
  BY DEF RegistryInv
<1> QED BY <1>1, RegistryHolds, PTL

\* A publication is above every version registered before it.
THEOREM PublicationsOnlyIncrease == Spec => []PublicationsIncrease
<1>1. RegistryInv => PublicationsIncrease
  BY DEF RegistryInv
<1> QED BY <1>1, RegistryHolds, PTL

\* A running instance keeps the body it was started with
\* (protect_published_definition).
THEOREM BoundVersionStays == Spec => []BoundVersionIsStable
<1>1. RegistryInv => BoundVersionIsStable
  BY DEF RegistryInv
<1> QED BY <1>1, RegistryHolds, PTL

LEMMA BindsEligible ==
    ASSUME RegistryInv, [Next]_vars, NEW p \in ProcessId, instance[p] = Absent, instance'[p] # Absent
    PROVE  LET d == stored[instance'[p].uuid]
           IN  d.status = "active" /\ d.effective <= instance'[p].at /\ d.deprecated > instance'[p].at
<1>1. PICK s \in Starter, q \in ProcessId : Bind(s, q)
  BY DEF Next, vars, Check, Register, Fail, Select, Recheck, GiveUp, SetStatus, SetDeprecatedAt,
      Edit, Delete, Tick
<1>2. instance'[p] = [status |-> "started", uuid |-> starter[s].uuid,
                      body |-> starter[s].body, at |-> starter[s].at]
  BY <1>1 DEF Bind, RegistryInv, RegistryTypeOK
<1> QED BY <1>1, <1>2 DEF Bind, RegistryInv, StartsHold

\* An instance starts only on a version that is eligible when its transaction
\* locks it (start_process_instance_atomic).
THEOREM StartsAreEligible == Spec => StartsOnEligibleVersion
<1>1. RegistryInv /\ [Next]_vars =>
        [\A p \in ProcessId : instance[p] = Absent /\ instance'[p] # Absent =>
          LET d == stored[instance'[p].uuid]
          IN  /\ d.status = "active"
              /\ d.effective <= instance'[p].at
              /\ d.deprecated > instance'[p].at]_vars
  BY BindsEligible
<1> QED BY <1>1, RegistryHolds, PTL DEF Spec, StartsOnEligibleVersion
=============================================================================
