-------------------------- MODULE HostSurfacesProofs --------------------------
(***************************************************************************)
(* Proofs for the surfaces a host application uses.  MonitorSession: for   *)
(* any versions, instances, filters and limits, any number of requests and *)
(* log rows, and answers in any order.  HostService: for any definition,   *)
(* any number of calls and runners at once, and any interleaving of their  *)
(* transactions.                                                           *)
(***************************************************************************)
EXTENDS MonitorSession, HostService, LegacyVersions, RetentionProofs, FiniteSetTheorems

-----------------------------------------------------------------------------
(* The monitor: the states of a session.                                   *)
Asked == [uuid : Instance, limit : Nat \ {0}]
Request == [scope : Scope, revision : Nat, query : [filter : DOMAIN Filter, offset : Nat],
            instances : Seq(Asked)]
Detail == [logs : Seq(Nat), total : Nat, error : BOOLEAN, old : Seq(Nat)]
Details == UNION {[D -> Detail] : D \in SUBSET Instance}
LoadState == [request : Request, mount : Nat, details : Details, logs : Seq(Nat),
              counted : BOOLEAN, count : Nat, total : Nat, old : Seq(Nat)]
Snapshot == [request : Request, mount : Nat, items : SUBSET Instance, details : Details]

MonitorTypeOK ==
    /\ scope \in Scope /\ mount \in Nat /\ revision \in Nat
    /\ request \in Request
    /\ accepted \in Snapshot \cup {NoSnapshot}
    /\ tabs \in Seq(Instance)
    /\ chosen \in Instance \cup {NoInstance}
    /\ loading \subseteq LoadState
    /\ rows \in [Instance -> Seq(Nat)]

Distinct(s) == \A j, k \in DOMAIN s : s[j] = s[k] => j = k

\* The details of a load are those of the instances it has read, which are
\* the first ones its request names.
Read(l) == Cardinality(DOMAIN l.details)
ReadsInOrder(l) ==
    /\ Distinct(Uuids(l.request))
    /\ IsFiniteSet(DOMAIN l.details)
    /\ Read(l) \in 0 .. Len(l.request.instances)
    /\ DOMAIN l.details = {l.request.instances[k].uuid : k \in 1 .. Read(l)}

\* A revision names one load, and one that answers the request of the session
\* was started by this mount.
LoadsAreFenced ==
    /\ \A l \in loading :
          /\ l.request.revision < revision
          /\ l.request = request => l.mount = mount
          /\ ReadsInOrder(l)
    /\ \A k, l \in loading : k.request.revision = l.request.revision => k = l

\* The open tabs, in their order, are what the request asks for.
TabsAreRequested ==
    /\ request.scope = scope
    /\ tabs = Uuids(request)
    /\ Distinct(tabs) /\ Len(tabs) <= MaxTabs
    /\ \A i \in Entries(tabs) : Contains(scope, i)

AcceptedIsCurrent ==
    accepted # NoSnapshot =>
        /\ accepted.mount = mount
        /\ accepted.request.scope = scope
        /\ accepted.request.revision <= request.revision
        /\ \A i \in accepted.items \cup DOMAIN accepted.details : Contains(scope, i)

SessionInv ==
    /\ MonitorTypeOK
    /\ TabsAreRequested
    /\ active \in Entries(tabs) \cup {NoInstance}
    /\ request.revision < revision
    /\ AcceptedIsCurrent
    /\ LoadsAreFenced

-----------------------------------------------------------------------------
(* A sequence without repetition has as many elements as places.           *)
LEMMA DistinctCounts ==
    ASSUME NEW S, NEW s \in Seq(S), Distinct(s)
    PROVE  IsFiniteSet(Entries(s)) /\ Cardinality(Entries(s)) = Len(s)
<1>1. Len(s) \in Nat /\ DOMAIN s = 1 .. Len(s)
  OBVIOUS
<1>2. s \in Bijection(1 .. Len(s), Entries(s))
  <2>1. s \in [1 .. Len(s) -> Entries(s)]
    BY <1>1 DEF Entries
  <2> QED
    BY <1>1, <2>1 DEF Entries, Distinct, Bijection, Injection, Surjection, IsInjective
<1>3. ExistsBijection(1 .. Len(s), Entries(s))
  BY <1>2 DEF ExistsBijection
<1> QED
  BY <1>1, <1>3, FS_CountingElements, FS_NatBijection

\* The instances a request names, in its order.
LEMMA UuidsFacts ==
    ASSUME NEW r, r.instances \in Seq(Asked)
    PROVE  /\ Uuids(r) \in Seq(Instance) /\ Len(Uuids(r)) = Len(r.instances)
           /\ DOMAIN Uuids(r) = 1 .. Len(r.instances)
           /\ \A k \in 1 .. Len(r.instances) : Uuids(r)[k] = r.instances[k].uuid /\ r.instances[k] \in Asked
<1> DEFINE s == r.instances
<1>1. Len(s) \in Nat /\ DOMAIN s = 1 .. Len(s) /\ \A k \in 1 .. Len(s) : s[k] \in Asked
  OBVIOUS
<1>2. Uuids(r) = [k \in 1 .. Len(s) |-> s[k].uuid]
  BY <1>1 DEF Uuids
<1> HIDE DEF s
<1>3. \A k \in 1 .. Len(s) : s[k].uuid \in Instance
  BY <1>1 DEF Asked
<1>4. Uuids(r) \in Seq(Instance) /\ Len(Uuids(r)) = Len(s) /\ DOMAIN Uuids(r) = 1 .. Len(s)
  BY <1>1, <1>2, <1>3
<1> QED
  BY <1>1, <1>2, <1>4 DEF s

(* The fields of typed values.                                             *)
LEMMA LoadFields ==
    ASSUME NEW l \in LoadState
    PROVE  /\ l.request \in Request /\ l.request.instances \in Seq(Asked)
           /\ l.mount \in Nat /\ l.logs \in Seq(Nat) /\ l.counted \in BOOLEAN
           /\ l.count \in Nat /\ l.total \in Nat /\ l.old \in Seq(Nat)
           /\ l.details \in [DOMAIN l.details -> Detail] /\ DOMAIN l.details \subseteq Instance
<1>1. l.details \in Details /\ l.request \in Request
  BY DEF LoadState
<1>2. PICK D \in SUBSET Instance : l.details \in [D -> Detail]
  BY <1>1 DEF Details
<1>3. l.request.instances \in Seq(Asked)
  BY <1>1 DEF Request
<1> QED
  BY <1>2, <1>3 DEF LoadState

(* A request counts as changed from `new` when it differs in the revision. *)
LEMMA ChangeGives ==
    ASSUME SessionInv, NEW new \in Request, Change(new)
    PROVE  /\ request' \in Request /\ revision' = revision + 1
           /\ request'.scope = new.scope /\ request'.query = new.query
           /\ request'.instances = new.instances /\ request'.revision = revision
           /\ Uuids(request') = Uuids(new)
           /\ loading' = loading \cup {Load(request', mount')}
<1>1. request' = [new EXCEPT !.revision = revision] /\ revision \in Nat
  BY DEF Change, SessionInv, MonitorTypeOK
<1>2. /\ request' \in Request
      /\ request'.scope = new.scope /\ request'.query = new.query
      /\ request'.instances = new.instances /\ request'.revision = revision
  BY <1>1 DEF Request
<1> QED
  BY <1>2 DEF Change, Uuids

\* What every load that is started looks like.
LEMMA LoadGives ==
    ASSUME NEW r \in Request, NEW m \in Nat, rows \in [Instance -> Seq(Nat)], Distinct(Uuids(r))
    PROVE  /\ Load(r, m) \in LoadState /\ ReadsInOrder(Load(r, m))
           /\ Load(r, m).request = r /\ Load(r, m).mount = m
           /\ DOMAIN Load(r, m).details = {} /\ Load(r, m).logs = <<>> /\ ~ Load(r, m).counted
           /\ Load(r, m).old = IF Ready(Load(r, m)) THEN <<>> ELSE rows[Turn(Load(r, m)).uuid]
<1> DEFINE l == Load(r, m)
           first == IF r.instances = <<>> THEN <<>> ELSE rows[r.instances[1].uuid]
<1>1. l = [request |-> r, mount |-> m, details |-> <<>>, logs |-> <<>>, counted |-> FALSE,
           count |-> 0, total |-> 0, old |-> first]
  BY DEF Load
<1>2. first \in Seq(Nat)
  <2>1. CASE r.instances = <<>>
    BY <2>1
  <2>2. CASE r.instances # <<>>
    <3>1. r.instances \in Seq(Asked)
      BY DEF Request
    <3>2. r.instances[1] \in Asked
      BY <2>2, <3>1
    <3> QED
      BY <2>2, <3>2 DEF Asked
  <2> QED
    BY <2>1, <2>2
<1> HIDE DEF first
<1>3. <<>> \in Details /\ DOMAIN <<>> = {} /\ <<>> \in Seq(Nat)
  <2>1. DOMAIN <<>> = {} /\ <<>> \in [{} -> Detail] /\ <<>> \in Seq(Nat)
    OBVIOUS
  <2> QED
    BY <2>1 DEF Details
<1>4. l \in LoadState
  BY <1>1, <1>2, <1>3 DEF LoadState
<1>5. Read(l) = 0 /\ IsFiniteSet(DOMAIN l.details) /\ DOMAIN l.details = {}
  BY <1>1, <1>3, FS_EmptySet DEF Read
<1>6. ReadsInOrder(l)
  <2>1. l.request = r /\ Len(r.instances) \in Nat
    BY <1>1 DEF Request
  <2>2. 0 \in 0 .. Len(r.instances) /\ 1 .. 0 = {}
    BY <2>1
  <2> QED
    BY <1>5, <2>1, <2>2 DEF ReadsInOrder
<1>7. l.old = IF Ready(l) THEN <<>> ELSE rows[Turn(l).uuid]
  <2>1. Turn(l) = r.instances[1]
    BY <1>1, <1>5 DEF Turn, Read
  <2>2. Ready(l) <=> r.instances = <<>>
    <3>1. r.instances \in Seq(Asked)
      BY DEF Request
    <3>2. Len(r.instances) = 0 <=> r.instances = <<>>
      BY <3>1
    <3> QED
      BY <1>1, <1>5, <3>2 DEF Ready, Read
  <2>3. l.old = first
    BY <1>1
  <2> QED
    BY <2>1, <2>2, <2>3 DEF first
<1> QED
  BY <1>1, <1>4, <1>5, <1>6, <1>7

-----------------------------------------------------------------------------
(* The instance whose history a load reads next is not among those read.   *)
LEMMA TurnFacts ==
    ASSUME NEW l \in LoadState, ReadsInOrder(l), ~ Ready(l)
    PROVE  /\ Read(l) + 1 \in 1 .. Len(l.request.instances)
           /\ Turn(l) = l.request.instances[Read(l) + 1] /\ Turn(l) \in Asked
           /\ Turn(l).uuid \in Instance /\ Turn(l).limit \in Nat \ {0}
           /\ Turn(l).uuid \notin DOMAIN l.details
<1> DEFINE s == l.request.instances
<1>1. s \in Seq(Asked) /\ Len(s) \in Nat
  BY LoadFields
<1>2. Read(l) \in 0 .. Len(s) /\ Read(l) # Len(s) /\ Turn(l) = s[Read(l) + 1]
  BY DEF ReadsInOrder, Ready, Turn, Read
<1>3. Read(l) + 1 \in 1 .. Len(s)
  BY <1>1, <1>2
<1>4. Turn(l) \in Asked
  BY <1>1, <1>2, <1>3
<1>5. Turn(l).uuid \notin {s[k].uuid : k \in 1 .. Read(l)}
  <2> SUFFICES ASSUME NEW k \in 1 .. Read(l), s[k].uuid = Turn(l).uuid PROVE FALSE
    OBVIOUS
  <2>1. k \in 1 .. Len(s) /\ k # Read(l) + 1
    BY <1>2, <1>1
  <2>2. /\ DOMAIN Uuids(l.request) = 1 .. Len(s)
        /\ \A j \in 1 .. Len(s) : Uuids(l.request)[j] = s[j].uuid
    BY <1>1, UuidsFacts
  <2>3. Distinct(Uuids(l.request))
    BY DEF ReadsInOrder
  <2> QED
    BY <1>2, <1>3, <2>1, <2>2, <2>3 DEF Distinct
<1> QED
  BY <1>2, <1>3, <1>4, <1>5 DEF Asked, ReadsInOrder

\* It is named in one place of the request only.
LEMMA TurnIsNamed ==
    ASSUME NEW l \in LoadState, ReadsInOrder(l), ~ Ready(l),
           NEW k \in DOMAIN l.request.instances, l.request.instances[k].uuid = Turn(l).uuid
    PROVE  l.request.instances[k] = Turn(l)
<1> DEFINE s == l.request.instances
<1>1. s \in Seq(Asked) /\ DOMAIN s = 1 .. Len(s)
  BY LoadFields
<1>2. Read(l) + 1 \in 1 .. Len(s) /\ Turn(l) = s[Read(l) + 1]
  BY TurnFacts
<1>3. /\ DOMAIN Uuids(l.request) = 1 .. Len(s)
      /\ \A j \in 1 .. Len(s) : Uuids(l.request)[j] = s[j].uuid
  BY <1>1, UuidsFacts
<1>4. k = Read(l) + 1
  BY <1>1, <1>2, <1>3 DEF ReadsInOrder, Distinct
<1> QED
  BY <1>2, <1>4

(* Finishing a history adds its detail and turns to the next instance.     *)
LEMMA WithDetailFacts ==
    ASSUME NEW l \in LoadState, ReadsInOrder(l), ~ Ready(l), NEW failed \in BOOLEAN,
           rows \in [Instance -> Seq(Nat)]
    PROVE  LET n == WithDetail(l, failed) IN
           /\ n \in LoadState /\ ReadsInOrder(n)
           /\ n.request = l.request /\ n.mount = l.mount
           /\ n.details = [i \in DOMAIN l.details \cup {Turn(l).uuid} |->
                              IF i = Turn(l).uuid
                              THEN [logs |-> l.logs, total |-> l.total, error |-> failed, old |-> l.old]
                              ELSE l.details[i]]
           /\ n.logs = <<>> /\ ~ n.counted
           /\ n.old = IF Ready(n) THEN <<>> ELSE rows[Turn(n).uuid]
<1> DEFINE t == Turn(l).uuid
           s == l.request.instances
           done == [i \in DOMAIN l.details \cup {t} |->
                       IF i = t THEN [logs |-> l.logs, total |-> l.total, error |-> failed, old |-> l.old]
                       ELSE l.details[i]]
           next == Cardinality(DOMAIN done) + 1
           old == IF next > Len(s) THEN <<>> ELSE rows[s[next].uuid]
           n == WithDetail(l, failed)
<1>1. n = [l EXCEPT !.details = done, !.logs = <<>>, !.counted = FALSE, !.count = 0, !.total = 0,
                   !.old = old]
  BY DEF WithDetail
<1>2. /\ Read(l) + 1 \in 1 .. Len(s) /\ t = s[Read(l) + 1].uuid
      /\ t \in Instance /\ t \notin DOMAIN l.details
  BY TurnFacts
<1>3. done \in Details /\ DOMAIN done = DOMAIN l.details \cup {t}
  <2>1. l.details \in [DOMAIN l.details -> Detail] /\ DOMAIN l.details \subseteq Instance
        /\ l.logs \in Seq(Nat) /\ l.total \in Nat /\ l.old \in Seq(Nat)
    BY LoadFields
  <2>2. [logs |-> l.logs, total |-> l.total, error |-> failed, old |-> l.old] \in Detail
    BY <2>1 DEF Detail
  <2>3. done \in [DOMAIN l.details \cup {t} -> Detail]
    BY <2>1, <2>2
  <2>4. DOMAIN l.details \cup {t} \in SUBSET Instance
    BY <1>2, <2>1
  <2> QED
    BY <2>3, <2>4 DEF Details
<1>4. s \in Seq(Asked) /\ Len(s) \in Nat /\ l.request \in Request
  BY LoadFields
<1> HIDE DEF done
<1>5. IsFiniteSet(DOMAIN done) /\ Cardinality(DOMAIN done) = Read(l) + 1
  <2> DEFINE D == DOMAIN l.details
  <2>1. IsFiniteSet(D) /\ t \notin D /\ Cardinality(D) = Read(l) /\ DOMAIN done = D \cup {t}
    BY <1>2, <1>3 DEF ReadsInOrder, Read
  <2> HIDE DEF D, t
  <2> QED
    BY <2>1, FS_AddElement
<1>6. old \in Seq(Nat)
  <2>1. CASE next > Len(s)
    BY <2>1
  <2>2. CASE ~ next > Len(s)
    <3>1. next \in 1 .. Len(s)
      BY <1>2, <1>4, <1>5, <2>2
    <3>2. s[next] \in Asked
      BY <1>4, <3>1
    <3> QED
      BY <2>2, <3>2 DEF Asked
  <2> QED
    BY <2>1, <2>2
<1> HIDE DEF old, t, n
<1>7. /\ n \in LoadState /\ n.request = l.request /\ n.mount = l.mount /\ n.details = done
      /\ n.logs = <<>> /\ n.old = old /\ ~ n.counted
  <2>1. <<>> \in Seq(Nat)
    OBVIOUS
  <2> QED
    BY <1>1, <1>3, <1>6, <2>1 DEF LoadState
<1>8. Read(n) = Read(l) + 1 /\ Read(n) \in 0 .. Len(s)
  BY <1>2, <1>4, <1>5, <1>7 DEF Read
<1>9. ReadsInOrder(n)
  <2>1. Read(l) \in Nat
    BY DEF ReadsInOrder
  <2>2. {s[k].uuid : k \in 1 .. Read(l) + 1} = {s[k].uuid : k \in 1 .. Read(l)} \cup {t}
    <3>1. 1 .. Read(l) + 1 = 1 .. Read(l) \cup {Read(l) + 1}
      BY <2>1
    <3> QED
      BY <1>2, <3>1
  <2>3. DOMAIN n.details = {n.request.instances[k].uuid : k \in 1 .. Read(n)}
    BY <1>3, <1>7, <1>8, <2>2 DEF ReadsInOrder
  <2> QED
    BY <1>5, <1>7, <1>8, <2>3 DEF ReadsInOrder
<1>10. n.old = IF Ready(n) THEN <<>> ELSE rows[Turn(n).uuid]
  <2>1. Ready(n) <=> next > Len(s)
    BY <1>4, <1>5, <1>7, <1>8 DEF Ready, Read
  <2>2. Turn(n) = s[next]
    BY <1>7 DEF Turn
  <2> QED
    BY <1>7, <2>1, <2>2 DEF old
<1> QED
  BY <1>7, <1>9, <1>10 DEF done, t, n

(* A page of a history adds rows to those read.                            *)
Page(l) ==
    LET visible == rows[Turn(l).uuid]
        from    == Len(l.logs)
        amount  == Smaller(Turn(l).limit - from, LogPage)
    IN  SubSeq(visible, from + 1, Smaller(from + amount, Len(visible)))
WithPage(l) == [l EXCEPT !.logs = @ \o Page(l), !.counted = FALSE, !.count = 0, !.total = l.count]

\* When the page just read is the last one of its history.
Ends(l) == \/ Page(l) = <<>> \/ Len(WithPage(l).logs) >= WithPage(l).total
           \/ Len(WithPage(l).logs) >= Turn(l).limit

\* A page starts where the reading stopped and stays within what is logged.
LEMMA PageFacts ==
    ASSUME NEW l \in LoadState, ReadsInOrder(l), ~ Ready(l), rows \in [Instance -> Seq(Nat)]
    PROVE  LET visible == rows[Turn(l).uuid]
               last == Smaller(Len(l.logs) + Smaller(Turn(l).limit - Len(l.logs), LogPage), Len(visible))
           IN  /\ Page(l) \in Seq(Nat) /\ last \in Int /\ last <= Len(visible)
               /\ Len(Page(l)) = IF Len(l.logs) + 1 <= last THEN last - Len(l.logs) ELSE 0
               /\ \A k \in 1 .. Len(Page(l)) : Page(l)[k] = visible[Len(l.logs) + k]
               /\ l.logs = <<>> /\ visible # <<>> => Page(l) # <<>>
<1> DEFINE visible == rows[Turn(l).uuid]
           from == Len(l.logs)
           last == Smaller(from + Smaller(Turn(l).limit - from, LogPage), Len(visible))
<1>1. /\ visible \in Seq(Nat) /\ Len(visible) \in Nat /\ from \in Nat
      /\ Turn(l).limit \in Nat \ {0} /\ LogPage \in Nat \ {0}
  BY TurnFacts, LoadFields, MonitorConstants
<1>2. last \in Int /\ last <= Len(visible) /\ (from = 0 /\ Len(visible) > 0 => last > 0)
  <2> DEFINE amount == Smaller(Turn(l).limit - from, LogPage)
  <2>2. amount \in Int /\ (from = 0 => amount > 0)
    <3>1. Turn(l).limit - from \in Int /\ (from = 0 => Turn(l).limit - from > 0)
      BY <1>1
    <3> QED
      BY <1>1, <3>1 DEF Smaller
  <2>3. from + amount \in Int /\ (from = 0 => from + amount > 0)
    BY <1>1, <2>2
  <2> HIDE DEF amount
  <2> QED
    <3> DEFINE reach == from + amount
    <3>1. reach \in Int /\ (from = 0 => reach > 0)
      BY <2>3
    <3>2. last = Smaller(reach, Len(visible))
      BY DEF amount
    <3> HIDE DEF reach, last
    <3> QED
      BY <1>1, <3>1, <3>2 DEF Smaller
<1>3. Page(l) = SubSeq(visible, from + 1, last)
  BY DEF Page
<1> HIDE DEF visible, last, from
<1>4. \A k \in from + 1 .. last : visible[k] \in Nat
  BY <1>1, <1>2
<1>5. /\ Page(l) \in Seq(Nat)
      /\ Len(Page(l)) = IF from + 1 <= last THEN last - (from + 1) + 1 ELSE 0
      /\ \A k \in 1 .. last - (from + 1) + 1 : Page(l)[k] = visible[from + 1 + k - 1]
  <2>1. from + 1 \in Int /\ last \in Int
    BY <1>1, <1>2
  <2> QED
    BY <1>3, <1>4, <2>1, SubSeqProperties
<1>6. Len(Page(l)) = IF from + 1 <= last THEN last - from ELSE 0
  BY <1>1, <1>2, <1>5
<1>7. \A k \in 1 .. Len(Page(l)) : Page(l)[k] = visible[from + k]
  <2> TAKE k \in 1 .. Len(Page(l))
  <2>1. k \in 1 .. last - (from + 1) + 1 /\ from + 1 + k - 1 = from + k
    BY <1>1, <1>2, <1>6
  <2> QED
    BY <1>5, <2>1
<1>8. l.logs = <<>> /\ visible # <<>> => Page(l) # <<>>
  <2> SUFFICES ASSUME l.logs = <<>>, visible # <<>> PROVE Len(Page(l)) > 0
    OBVIOUS
  <2>1. from = 0 /\ Len(visible) > 0
    BY <1>1 DEF from
  <2> QED
    BY <1>2, <1>6, <2>1
<1> QED
  BY <1>2, <1>5, <1>6, <1>7, <1>8 DEF visible, last, from

\* A load with one more page is still typed and reads in order.
LEMMA WithPageFacts ==
    ASSUME NEW l \in LoadState, ReadsInOrder(l), ~ Ready(l), rows \in [Instance -> Seq(Nat)]
    PROVE  LET n == WithPage(l) IN
           /\ n \in LoadState /\ ReadsInOrder(n) /\ ~ Ready(n) /\ Turn(n) = Turn(l)
           /\ n.request = l.request /\ n.mount = l.mount /\ n.details = l.details
           /\ n.logs = l.logs \o Page(l) /\ n.old = l.old /\ ~ n.counted /\ n.total = l.count
<1> DEFINE n == WithPage(l)
<1>1. l.logs \in Seq(Nat) /\ l.count \in Nat /\ Page(l) \in Seq(Nat) /\ l.logs \o Page(l) \in Seq(Nat)
  BY LoadFields, PageFacts, ConcatProperties
<1>2. /\ n \in LoadState /\ n.request = l.request /\ n.mount = l.mount /\ n.details = l.details
      /\ n.logs = l.logs \o Page(l) /\ n.old = l.old /\ ~ n.counted /\ n.total = l.count
  BY <1>1 DEF WithPage, LoadState
<1> HIDE DEF n
<1>3. ReadsInOrder(n) /\ ~ Ready(n) /\ Turn(n) = Turn(l)
  BY <1>2 DEF ReadsInOrder, Read, Ready, Turn
<1> QED
  BY <1>2, <1>3 DEF n

-----------------------------------------------------------------------------
(* Whatever changes the request keeps the session's invariant, if the tabs *)
(* become what it asks for and the view is kept or emptied.                *)
LEMMA ChangeKeeps ==
    ASSUME SessionInv, NEW new \in Request, Change(new),
           scope' \in Scope, mount' \in Nat, rows' = rows,
           chosen' \in Instance \cup {NoInstance},
           new.scope = scope', tabs' = Uuids(new), Distinct(tabs'), Len(tabs') <= MaxTabs,
           \A i \in Entries(tabs') : Contains(scope', i),
           active' \in Entries(tabs') \cup {NoInstance},
           accepted' = NoSnapshot \/ UNCHANGED <<scope, mount, accepted>>
    PROVE  SessionInv'
<1> DEFINE l == Load(request', mount')
<1>1. /\ request' \in Request /\ revision' = revision + 1 /\ revision \in Nat
      /\ request'.scope = scope' /\ request'.revision = revision
      /\ tabs' = Uuids(request') /\ request'.instances = new.instances
      /\ loading' = loading \cup {l}
  BY ChangeGives DEF SessionInv, MonitorTypeOK
<1>2. request.revision \in Nat /\ request.revision < revision
  BY DEF SessionInv, MonitorTypeOK, Request
<1>3. /\ l \in LoadState /\ ReadsInOrder(l) /\ l.request = request' /\ l.mount = mount'
  BY <1>1, LoadGives DEF SessionInv, MonitorTypeOK
<1> HIDE DEF l
<1>4. \A k \in loading : /\ k \in LoadState /\ k.request.revision \in Nat
                         /\ k.request.revision < revision /\ ReadsInOrder(k)
  BY DEF SessionInv, MonitorTypeOK, LoadsAreFenced, LoadState, Request
<1>5. MonitorTypeOK'
  <2>1. tabs' \in Seq(Instance)
    BY <1>1, UuidsFacts DEF Request
  <2>2. accepted' \in Snapshot \cup {NoSnapshot} /\ rows' \in [Instance -> Seq(Nat)]
    BY DEF SessionInv, MonitorTypeOK
  <2>3. loading' \subseteq LoadState
    BY <1>1, <1>3, <1>4
  <2> QED
    BY <1>1, <2>1, <2>2, <2>3 DEF MonitorTypeOK
<1>6. TabsAreRequested'
  BY <1>1 DEF TabsAreRequested
<1>7. AcceptedIsCurrent'
  <2>1. CASE accepted' = NoSnapshot
    BY <2>1 DEF AcceptedIsCurrent
  <2>2. CASE UNCHANGED <<scope, mount, accepted>> /\ accepted # NoSnapshot
    <3>1. accepted.request.revision \in Nat /\ accepted.request.revision <= request.revision
      BY <2>2 DEF SessionInv, MonitorTypeOK, AcceptedIsCurrent, Snapshot, Request
    <3>2. accepted.request.revision <= request'.revision
      BY <1>1, <1>2, <3>1
    <3> QED
      BY <2>2, <3>2 DEF SessionInv, AcceptedIsCurrent, Contains
  <2> QED
    BY <2>1, <2>2
<1>8. LoadsAreFenced'
  <2>1. ASSUME NEW k \in loading'
        PROVE  k.request.revision < revision' /\ (k.request = request' => k.mount = mount') /\ ReadsInOrder(k)
    <3>1. CASE k = l
      BY <1>1, <1>3, <3>1
    <3>2. CASE k \in loading
      BY <1>1, <1>4, <3>2
    <3> QED
      BY <1>1, <3>1, <3>2
  <2>2. ASSUME NEW k \in loading', NEW j \in loading', k.request.revision = j.request.revision
        PROVE  k = j
    <3>1. CASE k \in loading /\ j \in loading
      BY <2>2, <3>1 DEF SessionInv, LoadsAreFenced
    <3>2. CASE k = l \/ j = l
      BY <1>1, <1>3, <1>4, <2>2, <3>2
    <3> QED
      BY <1>1, <3>1, <3>2
  <2> QED
    BY <2>1, <2>2 DEF LoadsAreFenced, ReadsInOrder, Read
<1> QED
  BY <1>1, <1>5, <1>6, <1>7, <1>8 DEF SessionInv

(* A request for other rows of the same tabs.                              *)
LEMMA SameTabsKeep ==
    ASSUME SessionInv, NEW new \in Request, Change(new),
           new.scope = request.scope, Uuids(new) = Uuids(request),
           UNCHANGED <<scope, mount, accepted, tabs, chosen, rows>>,
           active' \in {active, NoInstance}
    PROVE  SessionInv'
<1>1. /\ scope \in Scope /\ mount \in Nat /\ chosen \in Instance \cup {NoInstance}
      /\ request.scope = scope /\ tabs = Uuids(request) /\ Distinct(tabs) /\ Len(tabs) <= MaxTabs
      /\ \A i \in Entries(tabs) : Contains(scope, i)
      /\ active \in Entries(tabs) \cup {NoInstance}
  BY DEF SessionInv, MonitorTypeOK, TabsAreRequested
<1>2. Distinct(tabs') /\ \A i \in Entries(tabs') : Contains(scope', i)
  BY <1>1
<1>3. active' \in Entries(tabs') \cup {NoInstance}
  BY <1>1
<1> QED
  BY <1>1, <1>2, <1>3, ChangeKeeps

\* Asking with the tabs as they are.
LEMMA AskKeeps ==
    ASSUME SessionInv, NEW new \in Request, Ask(new),
           new.scope = request.scope, Uuids(new) = Uuids(request)
    PROVE  SessionInv'
BY SameTabsKeep DEF Ask

\* A query, or a click on a block, asks for other rows of the same tabs.
LEMMA QueryKeeps ==
    ASSUME SessionInv, NEW f \in DOMAIN Filter, Query(f) \/ ClickBlock(f)
    PROVE  SessionInv'
<1> DEFINE new == [request EXCEPT !.query = [filter |-> f, offset |-> 0]]
<1>1. new \in Request /\ new.scope = request.scope /\ Uuids(new) = Uuids(request)
  BY DEF SessionInv, MonitorTypeOK, Request, Uuids
<1>2. CASE Query(f)
  BY <1>1, <1>2, AskKeeps DEF Query
<1>3. CASE ClickBlock(f)
  BY <1>1, <1>3, SameTabsKeep DEF ClickBlock
<1> QED
  BY <1>2, <1>3

\* So do the next and the previous page.
LEMMA PagesKeep ==
    ASSUME SessionInv, NextPage \/ PreviousPage
    PROVE  SessionInv'
<1> DEFINE Paged(n) == [request EXCEPT !.query.offset = n]
<1>1. \A n \in Nat : Paged(n) \in Request /\ Paged(n).scope = request.scope /\ Uuids(Paged(n)) = Uuids(request)
  BY DEF SessionInv, MonitorTypeOK, Request, Uuids
<1>2. request.query.offset \in Nat /\ PageSize \in Nat
  BY MonitorConstants DEF SessionInv, MonitorTypeOK, Request
<1>3. CASE NextPage
  <2> DEFINE n == request.query.offset + PageSize
  <2>1. n \in Nat /\ Ask(Paged(n))
    BY <1>2, <1>3 DEF NextPage
  <2> HIDE DEF n, Paged
  <2> QED
    BY <1>1, <2>1, AskKeeps
<1>4. CASE PreviousPage
  <2> DEFINE n == IF request.query.offset < PageSize THEN 0 ELSE request.query.offset - PageSize
  <2>1. n \in Nat /\ Ask(Paged(n))
    BY <1>2, <1>4 DEF PreviousPage
  <2> HIDE DEF n, Paged
  <2> QED
    BY <1>1, <2>1, AskKeeps
<1> QED
  BY <1>3, <1>4

\* Load more: a longer history of one tab.
LEMMA LoadMoreKeeps ==
    ASSUME SessionInv, NEW i \in Instance, LoadMore(i)
    PROVE  SessionInv'
<1> DEFINE s == request.instances
           more == [k \in DOMAIN s |-> IF s[k].uuid = i THEN Longer(s[k]) ELSE s[k]]
           new == [request EXCEPT !.instances = more]
<1>1. s \in Seq(Asked) /\ Len(s) \in Nat /\ DOMAIN s = 1 .. Len(s) /\ \A k \in 1 .. Len(s) : s[k] \in Asked
  BY DEF SessionInv, MonitorTypeOK, Request
<1>2. \A a \in Asked : Longer(a) \in Asked /\ Longer(a).uuid = a.uuid
  BY MonitorConstants DEF Longer, Asked, Smaller
<1>3. \A k \in 1 .. Len(s) : more[k] \in Asked /\ more[k].uuid = s[k].uuid
  BY <1>1, <1>2
<1>4. more \in Seq(Asked) /\ DOMAIN more = DOMAIN s
  <2>1. more \in [1 .. Len(s) -> Asked]
    BY <1>1, <1>3
  <2> QED
    BY <1>1, <2>1
<1>5. Ask(new)
  BY DEF LoadMore
<1> HIDE DEF more
<1>6. new \in Request /\ new.scope = request.scope /\ new.instances = more
  BY <1>4 DEF SessionInv, MonitorTypeOK, Request
<1>7. Uuids(new) = Uuids(request)
  BY <1>1, <1>3, <1>4, <1>6 DEF Uuids
<1> QED
  BY <1>5, <1>6, <1>7, AskKeeps

-----------------------------------------------------------------------------
(* A step that leaves the request, the view and the loads alone.           *)
LEMMA AsideKeeps ==
    ASSUME SessionInv, UNCHANGED <<scope, mount, request, accepted, tabs, revision, loading>>,
           active' \in Entries(tabs) \cup {NoInstance},
           chosen' \in Instance \cup {NoInstance}, rows' \in [Instance -> Seq(Nat)]
    PROVE  SessionInv'
<1>1. MonitorTypeOK'
  BY DEF SessionInv, MonitorTypeOK
<1>2. TabsAreRequested' /\ active' \in Entries(tabs') \cup {NoInstance}
  BY DEF SessionInv, TabsAreRequested, Contains
<1>3. AcceptedIsCurrent'
  BY DEF SessionInv, AcceptedIsCurrent, Contains
<1>4. LoadsAreFenced'
  BY DEF SessionInv, LoadsAreFenced, ReadsInOrder, Read
<1> QED
  BY <1>1, <1>2, <1>3, <1>4 DEF SessionInv

(* Tabs.                                                                   *)
LEMMA OpenKeeps ==
    ASSUME SessionInv, NEW i \in Instance, OpenTab(i),
           UNCHANGED <<scope, mount, accepted, rows>>, chosen' \in Instance \cup {NoInstance}
    PROVE  SessionInv'
<1>1. CASE UNCHANGED <<request, tabs, revision, loading>> /\ (active' = active \/ active' \in Entries(tabs))
  <2>1. active' \in Entries(tabs) \cup {NoInstance} /\ rows' \in [Instance -> Seq(Nat)]
    BY <1>1 DEF SessionInv, MonitorTypeOK
  <2> QED
    BY <1>1, <2>1, AsideKeeps
<1>2. CASE /\ Contains(scope, i) /\ i \notin Entries(tabs) /\ ~ Len(tabs) >= MaxTabs
           /\ tabs' = Append(tabs, i)
           /\ Change([request EXCEPT !.instances = Append(@, Requested(i))])
           /\ active' = i
  <2> DEFINE s == request.instances
             new == [request EXCEPT !.instances = Append(s, Requested(i))]
  <2>1. s \in Seq(Asked) /\ Len(s) \in Nat /\ Requested(i) \in Asked /\ Requested(i).uuid = i
    BY MonitorConstants DEF SessionInv, MonitorTypeOK, Request, Asked, Requested
  <2>2. /\ new \in Request /\ new.scope = request.scope /\ new.instances = Append(s, Requested(i))
    <3> DEFINE longer == Append(s, Requested(i))
    <3>1. longer \in Seq(Asked) /\ request \in Request
      BY <2>1 DEF SessionInv, MonitorTypeOK
    <3> HIDE DEF longer
    <3>2. /\ [request EXCEPT !.instances = longer] \in Request
          /\ [request EXCEPT !.instances = longer].scope = request.scope
          /\ [request EXCEPT !.instances = longer].instances = longer
      BY <3>1 DEF Request
    <3> QED
      BY <3>2 DEF longer
  <2> HIDE DEF new
  <2>3. /\ tabs = Uuids(request) /\ tabs \in Seq(Instance) /\ Len(tabs) = Len(s)
        /\ \A k \in 1 .. Len(s) : tabs[k] = s[k].uuid
    BY <2>1, UuidsFacts DEF SessionInv, TabsAreRequested
  <2>4. /\ Append(s, Requested(i)) \in Seq(Asked) /\ Len(Append(s, Requested(i))) = Len(s) + 1
        /\ \A k \in 1 .. Len(s) : Append(s, Requested(i))[k] = s[k]
        /\ Append(s, Requested(i))[Len(s) + 1] = Requested(i)
    BY <2>1
  <2>5. /\ tabs' \in Seq(Instance) /\ Len(tabs') = Len(s) + 1 /\ DOMAIN tabs' = 1 .. Len(s) + 1
        /\ \A k \in 1 .. Len(s) : tabs'[k] = tabs[k]
        /\ tabs'[Len(s) + 1] = i
    BY <1>2, <2>1, <2>3
  <2>6. tabs' = Uuids(new)
    <3>1. /\ Uuids(new) \in Seq(Instance) /\ Len(Uuids(new)) = Len(s) + 1
          /\ \A k \in 1 .. Len(s) + 1 : Uuids(new)[k] = new.instances[k].uuid
      BY <2>2, <2>4, UuidsFacts
    <3>2. \A k \in 1 .. Len(s) + 1 : Uuids(new)[k] = tabs'[k]
      <4> TAKE k \in 1 .. Len(s) + 1
      <4>1. CASE k = Len(s) + 1
        BY <2>1, <2>2, <2>4, <2>5, <3>1, <4>1
      <4>2. CASE k \in 1 .. Len(s)
        BY <2>2, <2>3, <2>4, <2>5, <3>1, <4>2
      <4> QED
        BY <2>1, <4>1, <4>2
    <3> QED
      BY <2>5, <3>1, <3>2, SeqEqual
  <2>7. Entries(tabs') = Entries(tabs) \cup {i}
    <3>1. DOMAIN tabs = 1 .. Len(s) /\ 1 .. Len(s) + 1 = 1 .. Len(s) \cup {Len(s) + 1}
      BY <2>1, <2>3
    <3> QED
      BY <2>5, <3>1 DEF Entries
  <2>8. Distinct(tabs')
    <3>1. DOMAIN tabs = 1 .. Len(s) /\ 1 .. Len(s) + 1 = 1 .. Len(s) \cup {Len(s) + 1}
      BY <2>1, <2>3
    <3>2. \A k \in 1 .. Len(s) : tabs[k] # i
      BY <1>2, <3>1 DEF Entries
    <3> QED
      BY <2>5, <3>1, <3>2 DEF SessionInv, TabsAreRequested, Distinct
  <2>9. Len(tabs') <= MaxTabs
    BY <1>2, <2>1, <2>3, <2>5, MonitorConstants
  <2>10. Change(new) /\ new.scope = scope'
    BY <1>2, <2>2 DEF SessionInv, TabsAreRequested, new
  <2>11. \A t \in Entries(tabs') : Contains(scope', t)
    BY <1>2, <2>7 DEF SessionInv, TabsAreRequested, Contains
  <2>12. scope' \in Scope /\ mount' \in Nat /\ active' \in Entries(tabs') \cup {NoInstance}
    BY <1>2, <2>7 DEF SessionInv, MonitorTypeOK
  <2> QED
    BY <2>2, <2>6, <2>8, <2>9, <2>10, <2>11, <2>12, ChangeKeeps
<1> QED
  BY <1>1, <1>2 DEF OpenTab

\* Closing a tab: Retain leaves the others in their order.
LEMMA CloseKeeps ==
    ASSUME SessionInv, NEW i \in Instance, Close(i)
    PROVE  SessionInv'
<1> DEFINE s == request.instances
           keep == {k \in DOMAIN s : s[k].uuid # i}
           new == [request EXCEPT !.instances = Retain(s, keep)]
<1>1. s \in Seq(Asked) /\ Len(s) \in Nat /\ DOMAIN s = 1 .. Len(s)
  BY DEF SessionInv, MonitorTypeOK, Request
<1>2. /\ tabs = Uuids(request) /\ tabs \in Seq(Instance) /\ Len(tabs) = Len(s) /\ DOMAIN tabs = 1 .. Len(s)
      /\ \A k \in 1 .. Len(s) : tabs[k] = s[k].uuid
  BY <1>1, UuidsFacts DEF SessionInv, TabsAreRequested
<1>3. {k \in DOMAIN tabs : tabs[k] # i} = keep
  BY <1>1, <1>2
<1>4. tabs' = Retain(tabs, keep) /\ Change(new)
  BY <1>3 DEF Close
<1> HIDE DEF keep
<1>5. Retain(s, keep) \in Seq(Asked)
  BY <1>1, RetainFacts
<1>6. /\ tabs' \in Seq(Instance) /\ Len(tabs') <= Len(tabs)
      /\ KeptOf(tabs', tabs, keep)
  BY <1>2, <1>4, RetainFacts
<1>15. /\ \A k \in DOMAIN tabs' : \E h \in DOMAIN tabs \cap keep : tabs'[k] = tabs[h]
       /\ \A h \in DOMAIN tabs \cap keep : \E k \in DOMAIN tabs' : tabs'[k] = tabs[h]
       /\ \A j, k \in DOMAIN tabs' : j < k =>
             \E g, h \in DOMAIN tabs \cap keep : g < h /\ tabs'[j] = tabs[g] /\ tabs'[k] = tabs[h]
  BY <1>6 DEF KeptOf
<1>7. /\ DOMAIN Retain(s, keep) = DOMAIN tabs'
      /\ \A k \in DOMAIN tabs' : tabs'[k] = Retain(s, keep)[k].uuid
  <2>1. /\ DOMAIN Retain(s, keep) = DOMAIN Retain(tabs, keep)
        /\ KeptAlike(Retain(s, keep), Retain(tabs, keep), s, tabs, keep)
    BY <1>1, <1>2, RetainAlike
  <2> QED
    BY <1>1, <1>2, <1>4, <2>1 DEF KeptAlike
<1>8. new \in Request /\ new.scope = request.scope /\ new.instances = Retain(s, keep)
  BY <1>5 DEF SessionInv, MonitorTypeOK, Request
<1>9. tabs' = Uuids(new)
  <2>1. Uuids(new) = [k \in DOMAIN tabs' |-> tabs'[k]]
    BY <1>7, <1>8 DEF Uuids
  <2>2. tabs' = [k \in DOMAIN tabs' |-> tabs'[k]]
    BY <1>6
  <2> QED
    BY <2>1, <2>2
<1>10. Distinct(tabs')
  <2> SUFFICES ASSUME NEW j \in DOMAIN tabs', NEW k \in DOMAIN tabs', tabs'[j] = tabs'[k], j # k PROVE FALSE
    BY DEF Distinct
  <2>1. j \in Nat /\ k \in Nat /\ Distinct(tabs)
    BY <1>6 DEF SessionInv, TabsAreRequested
  <2>2. \A g, h \in DOMAIN tabs : g < h => tabs[g] # tabs[h]
    BY <1>2, <2>1 DEF Distinct
  <2>3. CASE j < k
    BY <1>15, <2>2, <2>3
  <2>4. CASE k < j
    BY <1>15, <2>2, <2>4
  <2> QED
    BY <2>1, <2>3, <2>4
<1>11. Len(tabs') <= MaxTabs
  BY <1>2, <1>6, MonitorConstants DEF SessionInv, TabsAreRequested
<1>12. \A t \in Entries(tabs') : Contains(scope', t)
  BY <1>15 DEF SessionInv, TabsAreRequested, Entries, Contains, Close
<1>13. active' \in Entries(tabs') \cup {NoInstance}
  <2>1. CASE active # i /\ active \in Entries(tabs)
    <3>1. PICK h \in DOMAIN tabs : tabs[h] = active
      BY <2>1 DEF Entries
    <3>2. h \in keep
      BY <1>1, <1>2, <2>1, <3>1 DEF keep
    <3>3. \E k \in DOMAIN tabs' : tabs'[k] = tabs[h]
      <4>1. h \in DOMAIN tabs \cap keep
        BY <3>1, <3>2
      <4> QED
        BY <1>15, <4>1
    <3> QED
      BY <2>1, <3>1, <3>3 DEF Close, Entries
  <2>2. CASE active = i /\ tabs' # <<>>
    <3>1. Len(tabs') \in DOMAIN tabs'
      BY <1>6, <2>2
    <3> QED
      BY <2>2, <3>1 DEF Close, Entries
  <2>3. CASE active = i /\ tabs' = <<>>
    BY <2>3 DEF Close
  <2>4. CASE active # i /\ active = NoInstance
    BY <2>4 DEF Close
  <2> QED
    BY <2>1, <2>2, <2>3, <2>4 DEF SessionInv
<1>14. /\ UNCHANGED <<scope, mount, accepted, rows, chosen>> /\ new.scope = scope'
       /\ scope' \in Scope /\ mount' \in Nat /\ chosen' \in Instance \cup {NoInstance}
  BY <1>8 DEF Close, SessionInv, MonitorTypeOK, TabsAreRequested
<1> HIDE DEF new
<1> QED
  BY <1>4, <1>8, <1>9, <1>10, <1>11, <1>12, <1>13, <1>14, ChangeKeeps

\* A new mount starts from a first request, with at most the chosen tab.
LEMMA MountKeeps ==
    ASSUME SessionInv, NEW s \in Scope, Mount(s)
    PROVE  SessionInv'
<1> DEFINE first == IF chosen # NoInstance /\ Contains(s, chosen) THEN <<chosen>> ELSE <<>>
           new == FirstRequest(s, first)
<1>1. /\ first \in Seq(Instance) /\ Len(first) <= 1 /\ Len(first) \in Nat /\ Distinct(first)
      /\ \A t \in Entries(first) : Contains(s, t)
      /\ first # <<>> => chosen \in Entries(first)
  <2>1. CASE chosen # NoInstance /\ Contains(s, chosen)
    <3>1. chosen \in Instance /\ first = <<chosen>>
      BY <2>1 DEF SessionInv, MonitorTypeOK
    <3>2. first \in Seq(Instance) /\ Len(first) = 1 /\ DOMAIN first = {1} /\ first[1] = chosen
      BY <3>1
    <3> QED
      BY <2>1, <3>2 DEF Distinct, Entries
  <2>2. CASE ~ (chosen # NoInstance /\ Contains(s, chosen))
    <3>1. first = <<>> /\ first \in Seq(Instance) /\ Len(first) = 0 /\ DOMAIN first = {}
      BY <2>2
    <3> QED
      BY <3>1 DEF Distinct, Entries
  <2> QED
    BY <2>1, <2>2
<1>2. /\ scope' = s /\ mount' = mount + 1 /\ accepted' = NoSnapshot /\ tabs' = first
      /\ active' = IF first = <<>> THEN NoInstance ELSE chosen
      /\ Change(new) /\ UNCHANGED <<chosen, rows>>
  BY DEF Mount
<1> HIDE DEF first
<1>3. /\ new \in Request /\ new.scope = s /\ tabs' = Uuids(new)
  <2> DEFINE asked == [k \in DOMAIN first |-> Requested(first[k])]
  <2>1. DOMAIN first = 1 .. Len(first) /\ \A k \in 1 .. Len(first) : first[k] \in Instance
    BY <1>1
  <2>2. \A k \in 1 .. Len(first) : Requested(first[k]) \in Asked /\ Requested(first[k]).uuid = first[k]
    BY <2>1, MonitorConstants DEF Requested, Asked
  <2>3. asked \in [1 .. Len(first) -> Asked]
    BY <2>1, <2>2
  <2>4. asked \in Seq(Asked)
    BY <1>1, <2>3
  <2>5. new = [scope |-> s, revision |-> 0, query |-> [filter |-> "all", offset |-> 0], instances |-> asked]
    BY DEF FirstRequest
  <2> HIDE DEF asked, new
  <2>6. new \in Request /\ new.scope = s /\ new.instances = asked
    BY <2>4, <2>5, MonitorConstants DEF Request
  <2>7. Uuids(new) = [k \in 1 .. Len(first) |-> first[k]]
    BY <2>1, <2>2, <2>6 DEF Uuids, asked
  <2>8. first = [k \in 1 .. Len(first) |-> first[k]]
    BY <1>1, <2>1
  <2> QED
    BY <1>2, <2>6, <2>7, <2>8
<1>4. mount' \in Nat /\ chosen' \in Instance \cup {NoInstance} /\ rows' = rows
  BY <1>2 DEF SessionInv, MonitorTypeOK
<1>5. Len(tabs') <= MaxTabs
  BY <1>1, <1>2, MonitorConstants
<1> HIDE DEF new
<1> QED
  BY <1>1, <1>2, <1>3, <1>4, <1>5, ChangeKeeps

-----------------------------------------------------------------------------
(* Loads.                                                                  *)
LEMMA UpdateKeeps ==
    ASSUME SessionInv, NEW l \in loading, NEW n \in LoadState, Update(l, n),
           n.request = l.request, n.mount = l.mount, ReadsInOrder(n)
    PROVE  SessionInv'
<1>1. /\ loading' = (loading \ {l}) \cup {n}
      /\ UNCHANGED <<scope, mount, request, accepted, error, active, tabs, live, chosen, revision, rows>>
  BY DEF Update, session
<1>2. MonitorTypeOK'
  BY <1>1 DEF SessionInv, MonitorTypeOK
<1>3. TabsAreRequested' /\ active' \in Entries(tabs') \cup {NoInstance} /\ request'.revision < revision'
  BY <1>1 DEF SessionInv, TabsAreRequested, Contains
<1>4. AcceptedIsCurrent'
  BY <1>1 DEF SessionInv, AcceptedIsCurrent, Contains
<1>5. LoadsAreFenced'
  <2>1. \A k \in loading' : /\ k.request.revision < revision'
                            /\ k.request = request' => k.mount = mount'
                            /\ ReadsInOrder(k)
    BY <1>1 DEF SessionInv, LoadsAreFenced
  <2>2. \A j, k \in loading' : j.request.revision = k.request.revision => j = k
    BY <1>1 DEF SessionInv, LoadsAreFenced
  <2> QED
    BY <2>1, <2>2 DEF LoadsAreFenced, ReadsInOrder, Read
<1> QED
  BY <1>2, <1>3, <1>4, <1>5 DEF SessionInv

(* What a step of a load makes of it.                                      *)
LoadSteps(l, n) ==
    \/ /\ ~ l.counted
       /\ n = [l EXCEPT !.counted = TRUE, !.count = Len(rows[Turn(l).uuid])]
    \/ l.counted /\ n = WithPage(l)
    \/ l.counted /\ Ends(l) /\ n = WithDetail(WithPage(l), FALSE)
    \/ n = WithDetail(l, TRUE)

\* The steps of a load are what LoadSteps lists.
LEMMA LoadActions ==
    ASSUME NEW l, CountRows(l) \/ ReadRows(l) \/ HistoryFails(l)
    PROVE  l \in loading /\ ~ Ready(l) /\ \E n : Update(l, n) /\ LoadSteps(l, n)
<1>1. CASE CountRows(l)
  BY <1>1 DEF CountRows, LoadSteps
<1>2. CASE ReadRows(l)
  <2> DEFINE n == IF Ends(l) THEN WithDetail(WithPage(l), FALSE) ELSE WithPage(l)
  <2>1. l \in loading /\ ~ Ready(l) /\ l.counted /\ Update(l, n)
    BY <1>2 DEF ReadRows, WithPage, Page, Ends
  <2>2. LoadSteps(l, n)
    BY <2>1 DEF LoadSteps
  <2> HIDE DEF n
  <2> QED
    BY <2>1, <2>2
<1>3. CASE HistoryFails(l)
  BY <1>3 DEF HistoryFails, LoadSteps
<1> QED
  BY <1>1, <1>2, <1>3

\* Counting changes nothing that was read.
LEMMA CountedFacts ==
    ASSUME NEW l \in LoadState, ReadsInOrder(l), ~ Ready(l), rows \in [Instance -> Seq(Nat)]
    PROVE  LET n == [l EXCEPT !.counted = TRUE, !.count = Len(rows[Turn(l).uuid])] IN
           /\ n \in LoadState /\ ReadsInOrder(n) /\ ~ Ready(n) /\ Turn(n) = Turn(l)
           /\ n.request = l.request /\ n.mount = l.mount /\ n.details = l.details
           /\ n.logs = l.logs /\ n.old = l.old /\ n.count = Len(rows[Turn(l).uuid])
<1> DEFINE n == [l EXCEPT !.counted = TRUE, !.count = Len(rows[Turn(l).uuid])]
<1>1. Len(rows[Turn(l).uuid]) \in Nat
  BY TurnFacts
<1>2. /\ n \in LoadState /\ n.request = l.request /\ n.mount = l.mount /\ n.details = l.details
      /\ n.logs = l.logs /\ n.old = l.old /\ n.count = Len(rows[Turn(l).uuid])
  BY <1>1 DEF LoadState
<1> HIDE DEF n
<1>3. ReadsInOrder(n) /\ ~ Ready(n) /\ Turn(n) = Turn(l)
  BY <1>2 DEF ReadsInOrder, Read, Ready, Turn
<1> QED
  BY <1>2, <1>3 DEF n

\* Every step of a load keeps it typed and in order.
LEMMA LoadStepFacts ==
    ASSUME NEW l \in LoadState, NEW n, ReadsInOrder(l), ~ Ready(l), rows \in [Instance -> Seq(Nat)],
           LoadSteps(l, n)
    PROVE  n \in LoadState /\ ReadsInOrder(n) /\ n.request = l.request /\ n.mount = l.mount
<1>1. /\ WithPage(l) \in LoadState /\ ReadsInOrder(WithPage(l)) /\ ~ Ready(WithPage(l))
      /\ WithPage(l).request = l.request /\ WithPage(l).mount = l.mount
  BY WithPageFacts
<1>2. CASE n = [l EXCEPT !.counted = TRUE, !.count = Len(rows[Turn(l).uuid])]
  BY <1>2, CountedFacts
<1>3. CASE n = WithPage(l)
  BY <1>1, <1>3
<1>4. CASE n = WithDetail(WithPage(l), FALSE)
  BY <1>1, <1>4, WithDetailFacts
<1>5. CASE n = WithDetail(l, TRUE)
  BY <1>5, WithDetailFacts
<1> QED
  BY <1>2, <1>3, <1>4, <1>5 DEF LoadSteps

\* Hence a load that goes on keeps the invariant.
LEMMA LoadingKeeps ==
    ASSUME SessionInv, NEW l \in loading, CountRows(l) \/ ReadRows(l) \/ HistoryFails(l)
    PROVE  SessionInv'
<1>1. PICK n : ~ Ready(l) /\ Update(l, n) /\ LoadSteps(l, n)
  BY LoadActions
<1>2. l \in LoadState /\ ReadsInOrder(l) /\ rows \in [Instance -> Seq(Nat)]
  BY DEF SessionInv, MonitorTypeOK, LoadsAreFenced
<1> QED
  BY <1>1, <1>2, LoadStepFacts, UpdateKeeps

(* The three ways a load is answered.                                      *)
LEMMA AnswerActions ==
    ASSUME NEW l, AnswerPage(l) \/ AnswerForeign(l) \/ AnswerError(l)
    PROVE  /\ l \in loading /\ loading' = loading \ {l}
           /\ UNCHANGED <<scope, mount, request, active, tabs, live, chosen, revision, rows>>
           /\ \/ UNCHANGED accepted
              \/ /\ Ready(l) /\ l.request = request
                 /\ \E P \in Pages(l.request.scope, l.request.query) :
                       LET s == [request |-> l.request, mount |-> l.mount, items |-> P, details |-> l.details]
                       IN  /\ ValidSnapshot(s, request)
                           /\ accepted' = [s EXCEPT !.details = KeepReadable(@)]
<1>1. CASE AnswerPage(l)
  BY <1>1 DEF AnswerPage, Answer, Receive
<1>2. CASE AnswerForeign(l)
  <2>1. PICK i \in Instance : ~ Contains(l.request.scope, i) /\ Answer(l, {i}, l.details, FALSE)
    BY <1>2 DEF AnswerForeign
  <2> DEFINE s == [request |-> l.request, mount |-> l.mount, items |-> {i}, details |-> l.details]
  <2>2. s.request = l.request /\ s.items = {i} /\ s.details = l.details
    OBVIOUS
  <2>3. Receive(s, FALSE) /\ loading' = loading \ {l}
        /\ UNCHANGED <<scope, mount, request, active, tabs, live, chosen, revision, rows>>
    BY <2>1 DEF Answer
  <2> HIDE DEF s
  <2>4. s.request = request => ~ ValidSnapshot(s, request)
    BY <2>1, <2>2 DEF ValidSnapshot
  <2>5. UNCHANGED accepted
    BY <2>3, <2>4 DEF Receive
  <2> QED
    BY <1>2, <2>3, <2>5 DEF AnswerForeign
<1>3. CASE AnswerError(l)
  <2> DEFINE s == [request |-> l.request, mount |-> l.mount, items |-> {}, details |-> <<>>]
  <2>1. /\ Receive(s, TRUE) /\ loading' = loading \ {l}
        /\ UNCHANGED <<scope, mount, request, active, tabs, live, chosen, revision, rows>>
    BY <1>3 DEF AnswerError, Answer
  <2> HIDE DEF s
  <2>2. UNCHANGED accepted
    BY <2>1 DEF Receive
  <2> QED
    BY <1>3, <2>1, <2>2 DEF AnswerError
<1> QED
  BY <1>1, <1>2, <1>3

(* The details on screen are typed, those of no snapshot too.              *)
LEMMA AcceptedDetails ==
    ASSUME SessionInv
    PROVE  accepted.details \in [DOMAIN accepted.details -> Detail]
<1>1. CASE accepted = NoSnapshot
  <2>1. accepted.details = <<>>
    BY <1>1 DEF NoSnapshot
  <2> QED
    BY <2>1
<1>2. CASE accepted \in Snapshot
  <2>1. accepted.details \in Details
    BY <1>2 DEF Snapshot
  <2> QED
    BY <2>1 DEF Details
<1> QED
  BY <1>1, <1>2 DEF SessionInv, MonitorTypeOK

(* A snapshot keeps the readable details of the one before.                *)
LEMMA KeepReadableFacts ==
    ASSUME SessionInv, NEW details, details \in [DOMAIN details -> Detail], DOMAIN details \subseteq Instance
    PROVE  /\ KeepReadable(details) \in [DOMAIN details -> Detail]
           /\ KeepReadable(details) \in Details
<1>1. accepted.details \in [DOMAIN accepted.details -> Detail]
  BY AcceptedDetails
<1>2. \A i \in DOMAIN accepted.details : [accepted.details[i] EXCEPT !.error = TRUE] \in Detail
  BY <1>1 DEF Detail
<1>3. KeepReadable(details) \in [DOMAIN details -> Detail]
  BY <1>2 DEF KeepReadable
<1> QED
  BY <1>3 DEF Details

\* An answer: accepted only if its mount and revision are current.
LEMMA AnswerKeeps ==
    ASSUME SessionInv, NEW l \in loading, AnswerPage(l) \/ AnswerForeign(l) \/ AnswerError(l)
    PROVE  SessionInv'
<1>1. /\ loading' = loading \ {l}
      /\ UNCHANGED <<scope, mount, request, active, tabs, live, chosen, revision, rows>>
  BY AnswerActions
<1>2. l \in LoadState /\ l.details \in [DOMAIN l.details -> Detail] /\ DOMAIN l.details \subseteq Instance
      /\ (l.request = request => l.mount = mount)
  BY LoadFields DEF SessionInv, MonitorTypeOK, LoadsAreFenced
<1>3. accepted' \in Snapshot \cup {NoSnapshot} /\ AcceptedIsCurrent'
  <2>1. CASE UNCHANGED accepted
    BY <1>1, <2>1 DEF SessionInv, MonitorTypeOK, AcceptedIsCurrent, Contains
  <2>2. ASSUME NEW P \in Pages(l.request.scope, l.request.query), l.request = request,
               ValidSnapshot([request |-> l.request, mount |-> l.mount, items |-> P, details |-> l.details], request),
               accepted' = [[request |-> l.request, mount |-> l.mount, items |-> P, details |-> l.details]
                               EXCEPT !.details = KeepReadable(@)]
        PROVE  accepted' \in Snapshot \cup {NoSnapshot} /\ AcceptedIsCurrent'
    <3> DEFINE kept == KeepReadable(l.details)
    <3>1. accepted' = [request |-> request, mount |-> mount, items |-> P, details |-> kept]
      BY <1>2, <2>2
    <3>2. kept \in Details /\ DOMAIN kept = DOMAIN l.details
      BY <1>2, KeepReadableFacts
    <3>3. \A i \in P \cup DOMAIN l.details : Contains(scope, i)
      BY <2>2 DEF ValidSnapshot, SessionInv, TabsAreRequested, Contains
    <3>4. request.scope = scope /\ request.revision \in Nat /\ request \in Request /\ mount \in Nat
      BY DEF SessionInv, TabsAreRequested, MonitorTypeOK, Request
    <3>5. P \subseteq Instance
      <4>1. l.request.query.filter \in DOMAIN Filter
        BY <1>2 DEF LoadState, Request
      <4>2. P \subseteq Filter[l.request.query.filter]
        BY DEF Pages, Matching
      <4> QED
        BY <4>1, <4>2, MonitorConstants
    <3> QED
      BY <1>1, <3>1, <3>2, <3>3, <3>4, <3>5 DEF Snapshot, AcceptedIsCurrent, Contains
  <2> QED
    BY <2>1, <2>2, AnswerActions
<1>4. MonitorTypeOK'
  BY <1>1, <1>3 DEF SessionInv, MonitorTypeOK
<1>5. TabsAreRequested' /\ active' \in Entries(tabs') \cup {NoInstance} /\ request'.revision < revision'
  BY <1>1 DEF SessionInv, TabsAreRequested, Contains
<1>6. LoadsAreFenced'
  BY <1>1 DEF SessionInv, LoadsAreFenced, ReadsInOrder, Read
<1> QED
  BY <1>3, <1>4, <1>5, <1>6 DEF SessionInv

-----------------------------------------------------------------------------
\* A row inserted among those of an instance keeps them typed.
LEMMA LogRowTyped ==
    ASSUME rows \in [Instance -> Seq(Nat)], NEW i \in Instance, LogRow(i)
    PROVE  rows' \in [Instance -> Seq(Nat)]
<1>1. PICK below \in {0, 1} :
          /\ below <= Len(rows[i])
          /\ rows' = [rows EXCEPT ![i] = SubSeq(@, 1, below) \o <<Len(@) + 1>> \o SubSeq(@, below + 1, Len(@))]
  BY DEF LogRow
<1> DEFINE s == rows[i]
<1>2. s \in Seq(Nat) /\ Len(s) \in Nat /\ \A k \in 1 .. Len(s) : s[k] \in Nat
  OBVIOUS
<1>3. SubSeq(s, 1, below) \in Seq(Nat) /\ SubSeq(s, below + 1, Len(s)) \in Seq(Nat)
  <2>1. (\A k \in 1 .. below : s[k] \in Nat) /\ (\A k \in below + 1 .. Len(s) : s[k] \in Nat)
    BY <1>1, <1>2
  <2>2. 1 \in Int /\ below \in Int /\ below + 1 \in Int /\ Len(s) \in Int
    BY <1>2
  <2> QED
    BY <2>1, <2>2, SubSeqProperties
<1>4. SubSeq(s, 1, below) \o <<Len(s) + 1>> \o SubSeq(s, below + 1, Len(s)) \in Seq(Nat)
  BY <1>2, <1>3, ConcatProperties
<1> QED
  BY <1>1, <1>4

\* The session as mounted satisfies the invariant.
LEMMA SessionInit == MonitorInit => SessionInv
<1> SUFFICES ASSUME MonitorInit PROVE SessionInv
  OBVIOUS
<1>1. /\ scope \in Scope /\ mount = 1 /\ revision = 2
      /\ request = [FirstRequest(scope, <<>>) EXCEPT !.revision = 1]
      /\ accepted = NoSnapshot /\ active = NoInstance /\ tabs = <<>> /\ chosen = NoInstance
      /\ rows = [i \in Instance |-> [k \in 1 .. FirstRows[i] |-> FirstRows[i] + 1 - k]]
      /\ loading = {Load(request, 1)}
  BY DEF MonitorInit
<1>2. /\ request = [scope |-> scope, revision |-> 1, query |-> [filter |-> "all", offset |-> 0], instances |-> <<>>]
  <2>1. [k \in DOMAIN <<>> |-> Requested(<<>>[k])] = <<>>
    OBVIOUS
  <2>2. FirstRequest(scope, <<>>) =
            [scope |-> scope, revision |-> 0, query |-> [filter |-> "all", offset |-> 0], instances |-> <<>>]
    BY <2>1 DEF FirstRequest
  <2> QED
    BY <1>1, <2>2
<1>3. <<>> \in Seq(Asked) /\ <<>> \in Seq(Instance) /\ Len(<<>>) = 0 /\ DOMAIN <<>> = {}
  OBVIOUS
<1>4. request \in Request /\ request.scope = scope /\ request.revision = 1 /\ request.instances = <<>>
  <2> DEFINE none == <<>>
  <2>1. none \in Seq(Asked)
    BY <1>3
  <2>2. request = [scope |-> scope, revision |-> 1, query |-> [filter |-> "all", offset |-> 0], instances |-> none]
    BY <1>2
  <2> HIDE DEF none
  <2>3. request \in Request /\ request.scope = scope /\ request.revision = 1 /\ request.instances = none
    <3>1. scope \in Scope
      BY <1>1
    <3> QED
      BY <2>1, <2>2, <3>1, MonitorConstants DEF Request
  <2> QED
    BY <2>3 DEF none
<1>5. Uuids(request) = <<>>
  BY <1>3, <1>4 DEF Uuids
<1>6. rows \in [Instance -> Seq(Nat)]
  <2>1. ASSUME NEW i \in Instance PROVE [k \in 1 .. FirstRows[i] |-> FirstRows[i] + 1 - k] \in Seq(Nat)
    <3>1. FirstRows[i] \in Nat
      BY MonitorConstants
    <3>2. \A k \in 1 .. FirstRows[i] : FirstRows[i] + 1 - k \in Nat
      BY <3>1
    <3> QED
      BY <3>1, <3>2
  <2> QED
    BY <1>1, <2>1
<1>7. Distinct(<<>>)
  BY <1>3 DEF Distinct
<1>8. /\ Load(request, 1) \in LoadState /\ ReadsInOrder(Load(request, 1))
      /\ Load(request, 1).request = request /\ Load(request, 1).mount = 1
  <2>1. 1 \in Nat
    OBVIOUS
  <2> QED
    BY <1>4, <1>5, <1>6, <1>7, <2>1, LoadGives
<1>9. MonitorTypeOK
  BY <1>1, <1>3, <1>4, <1>6, <1>8 DEF MonitorTypeOK
<1>10. TabsAreRequested
  BY <1>1, <1>3, <1>4, <1>5, <1>7, MonitorConstants DEF TabsAreRequested, Entries
<1>11. LoadsAreFenced
  <2> DEFINE l == Load(request, 1)
  <2>1. /\ loading = {l} /\ revision = 2 /\ mount = 1
        /\ l.request.revision = 1 /\ l.mount = 1 /\ ReadsInOrder(l)
    BY <1>1, <1>4, <1>8
  <2> HIDE DEF l
  <2> QED
    BY <2>1 DEF LoadsAreFenced
<1> QED
  BY <1>1, <1>4, <1>9, <1>10, <1>11 DEF SessionInv, AcceptedIsCurrent

\* Every step of the session, of its loads and of the log keeps it.
LEMMA SessionNext == SessionInv /\ [MonitorNext]_monitorVars => SessionInv'
<1> SUFFICES ASSUME SessionInv, [MonitorNext]_monitorVars PROVE SessionInv'
  OBVIOUS
<1>1. /\ rows \in [Instance -> Seq(Nat)] /\ chosen \in Instance \cup {NoInstance} /\ request \in Request
      /\ active \in Entries(tabs) \cup {NoInstance} /\ scope \in Scope /\ mount \in Nat
  BY DEF SessionInv, MonitorTypeOK
<1>2. ASSUME NEW i \in Instance, OpenInstance(i) PROVE SessionInv'
  BY <1>1, <1>2, OpenKeeps DEF OpenInstance
<1>3. ASSUME NEW i \in Instance, HostSelects(i) PROVE SessionInv'
  BY <1>1, <1>3, OpenKeeps DEF HostSelects
<1>4. ASSUME NEW i \in Instance, LogRow(i) PROVE SessionInv'
  BY <1>1, <1>4, LogRowTyped, AsideKeeps DEF LogRow, session
<1>5. ASSUME NEW i, ShowTab(i) PROVE SessionInv'
  BY <1>1, <1>5, AsideKeeps DEF ShowTab
<1>6. CASE ToggleLive
  BY <1>1, <1>6, AsideKeeps DEF ToggleLive
<1>7. CASE Refresh \/ Poll
  BY <1>1, <1>7, AskKeeps DEF Refresh, Poll
<1>8. CASE UNCHANGED monitorVars
  BY <1>1, <1>8, AsideKeeps DEF monitorVars, session
<1>9. CASE MonitorNext
  BY <1>2, <1>3, <1>4, <1>5, <1>6, <1>7, <1>9, CloseKeeps, LoadMoreKeeps, QueryKeeps, PagesKeep, MountKeeps,
     LoadingKeeps, AnswerKeeps DEF MonitorNext
<1> QED
  BY <1>8, <1>9

-----------------------------------------------------------------------------
(* What a step does to the requests being answered.                        *)
Starts ==
    /\ loading' = loading \cup {Load(request', mount')} /\ request'.revision = revision
    /\ rows' = rows
    /\ \/ UNCHANGED <<mount, accepted>>
       \/ mount' # mount /\ accepted' = NoSnapshot
Reads == \E l \in loading : \E n : ~ Ready(l) /\ Update(l, n) /\ LoadSteps(l, n)
Answers == \E l \in loading : AnswerPage(l) \/ AnswerForeign(l) \/ AnswerError(l)
Logs == \E i \in Instance : LogRow(i)
Aside == UNCHANGED <<mount, request, accepted, tabs, loading, rows>>

\* Every step starts loads, reads, answers, logs or leaves all that alone.
LEMMA StepKinds ==
    ASSUME SessionInv, SessionInv', [MonitorNext]_monitorVars
    PROVE  Starts \/ Reads \/ Answers \/ Logs \/ Aside
<1>1. ASSUME NEW new, Change(new) PROVE request'.revision = revision /\ loading' = loading \cup {Load(request', mount')}
  <2>1. request' = [new EXCEPT !.revision = revision] /\ request' \in Request
    BY <1>1 DEF Change, SessionInv, MonitorTypeOK
  <2>2. "revision" \in DOMAIN new
    BY <2>1 DEF Request
  <2> QED
    BY <1>1, <2>1, <2>2 DEF Change
<1>2. ASSUME NEW i, OpenTab(i), UNCHANGED <<mount, accepted, rows>> PROVE Starts \/ Aside
  BY <1>1, <1>2 DEF OpenTab, Starts, Aside
<1>3. ASSUME NEW new, Ask(new) PROVE Starts
  BY <1>1, <1>3 DEF Ask, Starts
<1>4. ASSUME NEW i, OpenInstance(i) \/ HostSelects(i) PROVE Starts \/ Aside
  BY <1>2, <1>4 DEF OpenInstance, HostSelects
<1>5. ASSUME NEW i, Close(i) PROVE Starts
  BY <1>1, <1>5 DEF Close, Starts
<1>6. ASSUME NEW i, LoadMore(i) PROVE Starts
  BY <1>3, <1>6 DEF LoadMore
<1>7. ASSUME NEW f, Query(f) \/ ClickBlock(f) PROVE Starts
  BY <1>1, <1>3, <1>7 DEF Query, ClickBlock, Starts
<1>8. CASE NextPage \/ PreviousPage \/ Refresh \/ Poll
  BY <1>3, <1>8 DEF NextPage, PreviousPage, Refresh, Poll
<1>9. ASSUME NEW s, Mount(s) PROVE Starts
  <2>1. mount' = mount + 1 /\ mount \in Nat
    BY <1>9 DEF Mount, SessionInv, MonitorTypeOK
  <2>2. mount' # mount /\ accepted' = NoSnapshot /\ rows' = rows
    BY <1>9, <2>1 DEF Mount
  <2>3. \E new : Change(new)
    BY <1>9 DEF Mount
  <2> QED
    BY <1>1, <2>2, <2>3 DEF Starts
<1>10. ASSUME NEW l \in loading, CountRows(l) \/ ReadRows(l) \/ HistoryFails(l) PROVE Reads
  BY <1>10, LoadActions DEF Reads
<1>11. ASSUME NEW i, ShowTab(i) PROVE Aside
  BY <1>11 DEF ShowTab, Aside
<1>12. CASE ToggleLive \/ UNCHANGED monitorVars
  BY <1>12 DEF ToggleLive, monitorVars, session, Aside
<1> QED
  BY <1>4, <1>5, <1>6, <1>7, <1>8, <1>9, <1>10, <1>11, <1>12 DEF MonitorNext, Answers, Logs

-----------------------------------------------------------------------------
(* The histories.  Log rows are numbered as they are written, so they are  *)
(* all different.                                                          *)
RowsAreDistinct ==
    \A i \in Instance : Distinct(rows[i]) /\ \A k \in DOMAIN rows[i] : rows[i][k] <= Len(rows[i])

\* The rows that were there when a history began are still there, in their
\* order, and those among the first ones it has passed are read.
Follows(old, now, logs) ==
    /\ \A j \in DOMAIN old : \E p \in DOMAIN now : now[p] = old[j]
    /\ \A j, k \in DOMAIN old : \A p, q \in DOMAIN now :
          j < k /\ now[p] = old[j] /\ now[q] = old[k] => p < q
    /\ \A j \in DOMAIN old : \A p \in DOMAIN now :
          p <= Len(logs) /\ now[p] = old[j] => old[j] \in Entries(logs)

\* A count is at most the rows there are now: none is removed.
LoadFollows(l) ==
    /\ NoGap(l.old, l.logs)
    /\ Ready(l) => l.old = <<>>
    /\ ~ Ready(l) => /\ Follows(l.old, rows[Turn(l).uuid], l.logs)
                     /\ l.counted => l.count <= Len(rows[Turn(l).uuid])

(* A history that begins.                                                  *)
LEMMA BeginsFollowing ==
    ASSUME NEW s \in Seq(Nat), Distinct(s)
    PROVE  Follows(s, s, <<>>) /\ NoGap(s, <<>>)
<1>1. Len(<<>>) = 0 /\ Entries(<<>>) = {} /\ DOMAIN s = 1 .. Len(s) /\ Len(s) \in Nat
  BY DEF Entries
<1> QED
  BY <1>1 DEF Follows, NoGap, Distinct

(* Places in a sequence that is prolonged.                                 *)
LEMMA Places ==
    ASSUME NEW a \in Nat, NEW b \in Nat, NEW k \in Nat
    PROVE  /\ k > a /\ k <= a + b => k - a \in 1 .. b /\ a + (k - a) = k
           /\ 1 <= k /\ k <= b => a + k \in 1 .. a + b /\ \A c \in Nat : a + b <= c => a + k \in 1 .. c
  OBVIOUS

(* A page that is read.                                                    *)
LEMMA PageFollows ==
    ASSUME NEW old \in Seq(Nat), NEW now \in Seq(Nat), NEW logs \in Seq(Nat), NEW page \in Seq(Nat),
           Follows(old, now, logs), NoGap(old, logs),
           Len(page) > 0 => Len(logs) + Len(page) <= Len(now),
           \A k \in 1 .. Len(page) : page[k] = now[Len(logs) + k]
    PROVE  Follows(old, now, logs \o page) /\ NoGap(old, logs \o page)
<1> DEFINE both == logs \o page
<1>1. /\ Len(logs) \in Nat /\ Len(page) \in Nat /\ Len(now) \in Nat /\ Len(old) \in Nat
      /\ DOMAIN logs = 1 .. Len(logs) /\ DOMAIN page = 1 .. Len(page)
      /\ DOMAIN now = 1 .. Len(now) /\ DOMAIN old = 1 .. Len(old)
  OBVIOUS
<1>2. /\ both \in Seq(Nat) /\ Len(both) = Len(logs) + Len(page) /\ DOMAIN both = 1 .. Len(logs) + Len(page)
      /\ \A k \in 1 .. Len(logs) : both[k] = logs[k]
      /\ \A k \in 1 .. Len(page) : both[Len(logs) + k] = page[k]
  OBVIOUS
<1> HIDE DEF both
<1>3. Entries(logs) \subseteq Entries(both)
  BY <1>1, <1>2 DEF Entries
<1>4. ASSUME NEW k \in 1 .. Len(page) PROVE page[k] \in Entries(both)
  <2>1. Len(logs) + k \in DOMAIN both
    BY <1>1, <1>2
  <2> QED
    BY <1>2, <2>1 DEF Entries
<1>5. ASSUME NEW v \in Entries(both)
      PROVE  v \in Entries(logs) \/ \E k \in 1 .. Len(page) : page[k] = v
  <2>1. PICK k \in 1 .. Len(logs) + Len(page) : both[k] = v
    BY <1>2 DEF Entries
  <2>2. CASE k \in 1 .. Len(logs)
    BY <1>1, <1>2, <2>1, <2>2 DEF Entries
  <2>3. CASE k \notin 1 .. Len(logs)
    <3>1. k - Len(logs) \in 1 .. Len(page) /\ Len(logs) + (k - Len(logs)) = k
      BY <1>1, <2>3
    <3> QED
      BY <1>2, <2>1, <3>1
  <2> QED
    BY <2>2, <2>3
<1>6. ASSUME NEW j \in DOMAIN old, NEW p \in DOMAIN now, p <= Len(both), now[p] = old[j]
      PROVE  old[j] \in Entries(both)
  <2>1. CASE p <= Len(logs)
    BY <1>3, <1>6, <2>1 DEF Follows
  <2>2. CASE p > Len(logs)
    <3>1. p - Len(logs) \in 1 .. Len(page) /\ Len(logs) + (p - Len(logs)) = p
      <4>1. p \in Nat /\ Len(logs) \in Nat /\ Len(page) \in Nat
        BY <1>1
      <4>2. p <= Len(logs) + Len(page)
        BY <1>2, <1>6
      <4> QED
        BY <4>1, <4>2, <2>2, Places
    <3>2. page[p - Len(logs)] = now[p]
      BY <3>1
    <3> QED
      BY <1>4, <1>6, <3>1, <3>2
  <2> QED
    BY <1>1, <2>1, <2>2
<1>7. Follows(old, now, both)
  BY <1>6 DEF Follows
<1>8. ASSUME NEW j \in DOMAIN old, NEW k \in DOMAIN old, j < k, old[k] \in Entries(both)
      PROVE  old[j] \in Entries(both)
  <2>1. CASE old[k] \in Entries(logs)
    BY <1>3, <1>8, <2>1 DEF NoGap
  <2>2. CASE \E m \in 1 .. Len(page) : page[m] = old[k]
    <3>1. PICK m \in 1 .. Len(page) : page[m] = old[k]
      BY <2>2
    <3>2. Len(logs) + m \in DOMAIN now /\ now[Len(logs) + m] = old[k] /\ Len(logs) + m <= Len(both)
      <4>1. m \in Nat /\ 1 <= m /\ m <= Len(page) /\ Len(logs) \in Nat /\ Len(page) \in Nat /\ Len(now) \in Nat
        BY <1>1
      <4>2. Len(logs) + Len(page) <= Len(now)
        BY <4>1
      <4>3. Len(logs) + m \in 1 .. Len(now) /\ Len(logs) + m \in 1 .. Len(logs) + Len(page)
        BY <4>1, <4>2, Places
      <4>4. now[Len(logs) + m] = old[k]
        BY <3>1
      <4> QED
        BY <1>1, <1>2, <4>3, <4>4
    <3>3. PICK p \in DOMAIN now : now[p] = old[j]
      BY DEF Follows
    <3>4. p < Len(logs) + m
      BY <1>8, <3>2, <3>3 DEF Follows
    <3>5. p <= Len(both)
      BY <1>1, <1>2, <3>2, <3>4
    <3> QED
      BY <1>6, <3>3, <3>5
  <2> QED
    BY <1>5, <1>8, <2>1, <2>2
<1> QED
  BY <1>7, <1>8 DEF NoGap, both

(* A row that is written, on top or in the second place.                   *)
Inserted(t, s, b) ==
    /\ t \in Seq(Nat) /\ Len(t) = Len(s) + 1
    /\ \A k \in 1 .. b : t[k] = s[k]
    /\ t[b + 1] = Len(s) + 1
    /\ \A k \in b + 1 .. Len(s) : t[k + 1] = s[k]

\* LogRow inserts in this way, at the top or below the newest row.
LEMMA InsertFacts ==
    ASSUME NEW s \in Seq(Nat), NEW b \in {0, 1}, b <= Len(s)
    PROVE  Inserted(SubSeq(s, 1, b) \o <<Len(s) + 1>> \o SubSeq(s, b + 1, Len(s)), s, b)
<1> DEFINE head == SubSeq(s, 1, b)
           tail == SubSeq(s, b + 1, Len(s))
           row == <<Len(s) + 1>>
           top == head \o row
           t == top \o tail
<1>1. Len(s) \in Nat /\ b \in Nat /\ \A k \in 1 .. Len(s) : s[k] \in Nat
  OBVIOUS
<1>2. head \in Seq(Nat) /\ Len(head) = b /\ \A k \in 1 .. b : head[k] = s[k]
  <2>1. \A k \in 1 .. b : s[k] \in Nat
    BY <1>1
  <2>2. /\ head \in Seq(Nat) /\ Len(head) = IF 1 <= b THEN b - 1 + 1 ELSE 0
        /\ \A k \in 1 .. b - 1 + 1 : head[k] = s[1 + k - 1]
    BY <1>1, <2>1, SubSeqProperties
  <2> HIDE DEF head
  <2> QED
    BY <1>1, <2>2
<1>3. tail \in Seq(Nat) /\ Len(tail) = Len(s) - b /\ \A k \in 1 .. Len(s) - b : tail[k] = s[b + k]
  <2>1. \A k \in b + 1 .. Len(s) : s[k] \in Nat
    BY <1>1
  <2>2. b + 1 \in Int /\ Len(s) \in Int
    BY <1>1
  <2>3. /\ tail \in Seq(Nat) /\ Len(tail) = IF b + 1 <= Len(s) THEN Len(s) - (b + 1) + 1 ELSE 0
        /\ \A k \in 1 .. Len(s) - (b + 1) + 1 : tail[k] = s[b + 1 + k - 1]
    BY <2>1, <2>2, SubSeqProperties
  <2> HIDE DEF tail
  <2>4. Len(s) - (b + 1) + 1 = Len(s) - b /\ \A k \in 1 .. Len(s) - b : b + 1 + k - 1 = b + k
    BY <1>1
  <2>5. Len(tail) = Len(s) - b
    BY <1>1, <2>3
  <2> QED
    BY <2>3, <2>4, <2>5
<1>4. row \in Seq(Nat) /\ Len(row) = 1 /\ row[1] = Len(s) + 1
  BY <1>1
<1> HIDE DEF head, tail, row
<1>5. /\ top \in Seq(Nat) /\ Len(top) = b + 1
      /\ \A k \in 1 .. b : top[k] = s[k]
      /\ top[b + 1] = Len(s) + 1
  <2>1. /\ top \in Seq(Nat) /\ Len(top) = Len(head) + Len(row)
        /\ \A k \in 1 .. Len(head) + Len(row) : top[k] = IF k <= Len(head) THEN head[k] ELSE row[k - Len(head)]
    BY <1>2, <1>4, ConcatProperties
  <2> HIDE DEF top
  <2>2. ASSUME NEW k \in 1 .. b PROVE top[k] = s[k]
    BY <1>1, <1>2, <1>4, <2>1
  <2>3. top[b + 1] = row[1]
    <3> DEFINE m == b + 1
    <3>1. m \in 1 .. Len(head) + Len(row) /\ ~ (m <= Len(head)) /\ m - Len(head) = 1
      BY <1>1, <1>2, <1>4
    <3> HIDE DEF m
    <3>2. top[m] = IF m <= Len(head) THEN head[m] ELSE row[m - Len(head)]
      BY <2>1, <3>1
    <3> QED
      BY <3>1, <3>2 DEF m
  <2> QED
    BY <1>2, <1>4, <2>1, <2>2, <2>3
<1> HIDE DEF top
<1>6. /\ t \in Seq(Nat) /\ Len(t) = Len(s) + 1
      /\ \A k \in 1 .. b + 1 : t[k] = top[k]
      /\ \A k \in b + 1 .. Len(s) : t[k + 1] = s[k]
  <2>1. /\ t \in Seq(Nat) /\ Len(t) = Len(top) + Len(tail)
        /\ \A k \in 1 .. Len(top) + Len(tail) : t[k] = IF k <= Len(top) THEN top[k] ELSE tail[k - Len(top)]
    BY <1>3, <1>5, ConcatProperties
  <2> HIDE DEF t
  <2>2. ASSUME NEW k \in 1 .. b + 1 PROVE t[k] = top[k]
    <3>1. Len(top) = b + 1 /\ Len(tail) \in Nat /\ b \in Nat
      BY <1>1, <1>3, <1>5
    <3>2. k \in 1 .. Len(top) + Len(tail) /\ k <= Len(top)
      BY <3>1
    <3> QED
      BY <2>1, <3>2
  <2>3. ASSUME NEW k \in b + 1 .. Len(s) PROVE t[k + 1] = s[k]
    <3>1. k + 1 \in 1 .. Len(top) + Len(tail) /\ ~ (k + 1 <= Len(top)) /\ k + 1 - Len(top) = k - b
          /\ k - b \in 1 .. Len(s) - b /\ b + (k - b) = k
      BY <1>1, <1>3, <1>5
    <3>2. t[k + 1] = tail[k + 1 - Len(top)]
      <4> DEFINE m == k + 1
      <4>1. m \in 1 .. Len(top) + Len(tail) /\ ~ (m <= Len(top))
        BY <3>1
      <4> HIDE DEF m
      <4>2. t[m] = IF m <= Len(top) THEN top[m] ELSE tail[m - Len(top)]
        BY <2>1, <4>1
      <4>3. t[m] = tail[m - Len(top)]
        BY <4>1, <4>2
      <4> QED
        BY <4>3 DEF m
    <3>3. tail[k - b] = s[b + (k - b)]
      BY <1>3, <3>1
    <3> QED
      BY <3>1, <3>2, <3>3
  <2>4. Len(t) = Len(s) + 1
    BY <1>1, <1>3, <1>5, <2>1
  <2> QED
    BY <2>1, <2>2, <2>3, <2>4
<1>7. Inserted(t, s, b)
  <2> HIDE DEF t
  <2> QED
    BY <1>1, <1>5, <1>6 DEF Inserted
<1> QED
  BY <1>7 DEF t, top, head, row, tail

\* What follows in the history follows in the prolonged one.
LEMMA InsertFollows ==
    ASSUME NEW s \in Seq(Nat), NEW b \in {0, 1}, b <= Len(s), NEW t, Inserted(t, s, b),
           Distinct(s), \A k \in DOMAIN s : s[k] <= Len(s)
    PROVE  /\ Distinct(t) /\ \A k \in DOMAIN t : t[k] <= Len(t)
           /\ \A old : \A logs \in Seq(Nat) : Follows(old, s, logs) => Follows(old, t, logs)
<1>1. /\ Len(s) \in Nat /\ DOMAIN s = 1 .. Len(s) /\ DOMAIN t = 1 .. Len(s) + 1 /\ Len(t) = Len(s) + 1
      /\ b \in Nat /\ \A k \in 1 .. Len(s) : s[k] \in Nat
  BY DEF Inserted
<1> DEFINE Place(p) == IF p <= b THEN p ELSE p - 1
<1>2. ASSUME NEW p \in DOMAIN t, p # b + 1
      PROVE  Place(p) \in DOMAIN s /\ t[p] = s[Place(p)] /\ Place(p) <= p
  <2>1. CASE p <= b
    BY <1>1, <1>2, <2>1 DEF Inserted
  <2>2. CASE ~ p <= b
    <3>1. p - 1 \in b + 1 .. Len(s) /\ (p - 1) + 1 = p /\ p - 1 \in DOMAIN s
      BY <1>1, <1>2, <2>2
    <3> QED
      BY <2>2, <3>1 DEF Inserted
  <2> QED
    BY <2>1, <2>2
<1>3. t[b + 1] = Len(s) + 1 /\ \A k \in DOMAIN s : s[k] # Len(s) + 1
  BY <1>1 DEF Inserted
<1>4. \A p, q \in DOMAIN t : p # b + 1 /\ q # b + 1 => (Place(p) = Place(q) => p = q) /\ (Place(p) < Place(q) => p < q)
  BY <1>1
<1>5. ASSUME NEW k \in DOMAIN s PROVE \E p \in DOMAIN t : p # b + 1 /\ t[p] = s[k]
  <2>1. CASE k <= b
    BY <1>1, <2>1 DEF Inserted
  <2>2. CASE ~ k <= b
    <3>1. k \in b + 1 .. Len(s) /\ k + 1 \in DOMAIN t /\ k + 1 # b + 1
      BY <1>1, <2>2
    <3> QED
      BY <3>1 DEF Inserted
  <2> QED
    BY <2>1, <2>2
<1> HIDE DEF Place
<1>6. Distinct(t)
  <2> SUFFICES ASSUME NEW p \in DOMAIN t, NEW q \in DOMAIN t, t[p] = t[q] PROVE p = q
    BY DEF Distinct
  <2>1. CASE p # b + 1 /\ q # b + 1
    BY <1>2, <1>4, <2>1 DEF Distinct
  <2>2. CASE p = b + 1 \/ q = b + 1
    BY <1>2, <1>3, <2>2
  <2> QED
    BY <2>1, <2>2
<1>7. ASSUME NEW k \in DOMAIN t PROVE t[k] <= Len(t)
  <2>1. CASE k = b + 1
    BY <1>1, <1>3, <2>1
  <2>2. CASE k # b + 1
    BY <1>1, <1>2, <2>2
  <2> QED
    BY <2>1, <2>2
<1>8. ASSUME NEW old, NEW logs \in Seq(Nat), Follows(old, s, logs) PROVE Follows(old, t, logs)
  <2>1. \A j \in DOMAIN old : old[j] # Len(s) + 1
    BY <1>3, <1>8 DEF Follows
  <2>2. \A j \in DOMAIN old : \A p \in DOMAIN t : t[p] = old[j] => p # b + 1
    BY <1>3, <2>1
  <2>3. \A j \in DOMAIN old : \E p \in DOMAIN t : t[p] = old[j]
    <3> TAKE j \in DOMAIN old
    <3>1. PICK k \in DOMAIN s : s[k] = old[j]
      BY <1>8 DEF Follows
    <3> QED
      BY <1>5, <3>1
  <2>4. ASSUME NEW j \in DOMAIN old, NEW k \in DOMAIN old, NEW p \in DOMAIN t, NEW q \in DOMAIN t,
               j < k, t[p] = old[j], t[q] = old[k]
        PROVE  p < q
    <3>1. p # b + 1 /\ q # b + 1
      BY <2>2, <2>4
    <3>2. Place(p) \in DOMAIN s /\ s[Place(p)] = old[j] /\ Place(q) \in DOMAIN s /\ s[Place(q)] = old[k]
      BY <1>2, <2>4, <3>1
    <3>3. Place(p) < Place(q)
      BY <1>8, <2>4, <3>2 DEF Follows
    <3> QED
      BY <1>4, <3>1, <3>3
  <2>5. ASSUME NEW j \in DOMAIN old, NEW p \in DOMAIN t, p <= Len(logs), t[p] = old[j]
        PROVE  old[j] \in Entries(logs)
    <3>1. p # b + 1
      BY <2>2, <2>5
    <3>2. Place(p) \in DOMAIN s /\ s[Place(p)] = old[j] /\ Place(p) <= p
      BY <1>2, <2>5, <3>1
    <3>3. Place(p) <= Len(logs)
      <4>1. Len(logs) \in Nat /\ Place(p) \in Nat /\ p \in Nat
        BY <1>1, <3>2
      <4> QED
        BY <2>5, <3>2, <4>1
    <3> QED
      BY <1>8, <3>2, <3>3 DEF Follows
  <2> QED
    BY <2>3, <2>4, <2>5 DEF Follows
<1> QED
  BY <1>6, <1>7, <1>8
-----------------------------------------------------------------------------
(* Log rows that were read are still there, so a load that reads the       *)
(* history of an instance again reads some of them again.                  *)
LoadExists(l) ==
    /\ ~ Ready(l) /\ l.logs # <<>> => rows[Turn(l).uuid] # <<>>
    /\ \A i \in DOMAIN l.details : l.details[i].logs # <<>> => rows[i] # <<>>

AcceptedExists == \A i \in DOMAIN accepted.details : accepted.details[i].logs # <<>> => rows[i] # <<>>

LoadStays(l) ==
    l.request = request =>
        \A i \in DOMAIN l.details \cap DOMAIN accepted.details :
            ~ l.details[i].error /\ accepted.details[i].logs # <<>> => l.details[i].logs # <<>>

LoadHistory(l) ==
    /\ LoadFollows(l) /\ LoadExists(l) /\ LoadStays(l)
    /\ Faithful(l.request, l.details)

AcceptedFaithful == Faithful(accepted.request, accepted.details)

ViewInv ==
    /\ RowsAreDistinct /\ AcceptedExists /\ AcceptedFaithful
    /\ \A l \in loading : LoadHistory(l)

(* A load that begins.                                                     *)
LEMMA StartHistory ==
    ASSUME NEW r \in Request, NEW m \in Nat, rows \in [Instance -> Seq(Nat)], RowsAreDistinct,
           Distinct(Uuids(r))
    PROVE  LoadHistory(Load(r, m))
<1> DEFINE l == Load(r, m)
<1>1. /\ l \in LoadState /\ ReadsInOrder(l) /\ DOMAIN l.details = {} /\ l.logs = <<>> /\ ~ l.counted
      /\ l.old = IF Ready(l) THEN <<>> ELSE rows[Turn(l).uuid]
  BY LoadGives
<1> HIDE DEF l
<1>2. LoadFollows(l)
  <2>1. CASE Ready(l)
    BY <1>1, <2>1 DEF LoadFollows, NoGap
  <2>2. CASE ~ Ready(l)
    <3>1. Turn(l).uuid \in Instance
      BY <1>1, <2>2, TurnFacts
    <3>2. rows[Turn(l).uuid] \in Seq(Nat) /\ Distinct(rows[Turn(l).uuid])
      BY <3>1 DEF RowsAreDistinct
    <3> QED
      BY <1>1, <2>2, <3>2, BeginsFollowing DEF LoadFollows
  <2> QED
    BY <2>1, <2>2
<1> QED
  BY <1>1, <1>2 DEF LoadHistory, LoadExists, LoadStays, Faithful, l

(* A history that is finished.                                             *)
LEMMA DetailHistory ==
    ASSUME NEW l \in LoadState, ReadsInOrder(l), ~ Ready(l), NEW failed \in BOOLEAN,
           rows \in [Instance -> Seq(Nat)], RowsAreDistinct, LoadHistory(l),
           ~ failed /\ rows[Turn(l).uuid] # <<>> => l.logs # <<>>, AcceptedExists,
           ~ failed => Len(l.logs) >= Smaller(Turn(l).limit, l.total)
    PROVE  LoadHistory(WithDetail(l, failed))
<1> DEFINE n == WithDetail(l, failed)
           t == Turn(l).uuid
<1>1. /\ n \in LoadState /\ ReadsInOrder(n) /\ n.request = l.request
      /\ n.details = [i \in DOMAIN l.details \cup {t} |->
                         IF i = t THEN [logs |-> l.logs, total |-> l.total, error |-> failed, old |-> l.old]
                         ELSE l.details[i]]
      /\ n.logs = <<>> /\ ~ n.counted
      /\ n.old = IF Ready(n) THEN <<>> ELSE rows[Turn(n).uuid]
  BY WithDetailFacts
<1> HIDE DEF n, t
<1>2. /\ DOMAIN n.details = DOMAIN l.details \cup {t}
      /\ n.details[t].logs = l.logs /\ n.details[t].error = failed
      /\ n.details[t].total = l.total /\ n.details[t].old = l.old
      /\ \A i \in DOMAIN l.details : i # t => n.details[i] = l.details[i]
  BY <1>1
<1>3. LoadFollows(n)
  <2>1. CASE Ready(n)
    BY <1>1, <2>1 DEF LoadFollows, NoGap
  <2>2. CASE ~ Ready(n)
    <3>1. Turn(n).uuid \in Instance
      BY <1>1, <2>2, TurnFacts
    <3>2. rows[Turn(n).uuid] \in Seq(Nat) /\ Distinct(rows[Turn(n).uuid])
      BY <3>1 DEF RowsAreDistinct
    <3> QED
      BY <1>1, <2>2, <3>2, BeginsFollowing DEF LoadFollows
  <2> QED
    BY <2>1, <2>2
<1>4. LoadExists(n)
  BY <1>1, <1>2 DEF LoadExists, LoadHistory, t
<1>5. LoadStays(n)
  <2> SUFFICES ASSUME n.request = request, NEW i \in DOMAIN n.details, i \in DOMAIN accepted.details,
                      ~ n.details[i].error, accepted.details[i].logs # <<>>
               PROVE  n.details[i].logs # <<>>
    BY DEF LoadStays
  <2>1. CASE i = t
    BY <1>2, <2>1 DEF AcceptedExists, t
  <2>2. CASE i # t
    BY <1>1, <1>2, <2>2 DEF LoadHistory, LoadStays
  <2> QED
    BY <2>1, <2>2
<1>6. Faithful(n.request, n.details)
  <2>1. ASSUME NEW i \in DOMAIN n.details PROVE NoGap(n.details[i].old, n.details[i].logs)
    BY <1>2, <2>1 DEF LoadHistory, LoadFollows, Faithful
  <2>2. ASSUME NEW i \in DOMAIN n.details, NEW k \in DOMAIN l.request.instances,
               l.request.instances[k].uuid = i
        PROVE  Untruncated(l.request.instances[k], n.details[i])
    <3>1. CASE i # t
      BY <1>2, <2>2, <3>1 DEF LoadHistory, Faithful
    <3>2. CASE i = t
      <4>1. l.request.instances[k] = Turn(l)
        BY <2>2, <3>2, TurnIsNamed DEF t
      <4> QED
        BY <1>2, <3>2, <4>1 DEF Untruncated
    <3> QED
      BY <3>1, <3>2
  <2> QED
    BY <1>1, <2>1, <2>2 DEF Faithful
<1> QED
  BY <1>3, <1>4, <1>5, <1>6 DEF LoadHistory, n

\* Where a page starts and ends, and when it is empty.
LEMMA PageBounds ==
    ASSUME NEW logs \in Seq(Nat), NEW page \in Seq(Nat), NEW visible \in Seq(Nat), NEW last \in Int,
           last <= Len(visible), Len(page) = IF Len(logs) + 1 <= last THEN last - Len(logs) ELSE 0,
           logs = <<>> /\ visible # <<>> => page # <<>>, logs # <<>> => visible # <<>>
    PROVE  /\ Len(page) > 0 => Len(logs) + Len(page) <= Len(visible)
           /\ logs \o page # <<>> <=> visible # <<>>
<1>1. Len(logs) \in Nat /\ Len(page) \in Nat /\ Len(visible) \in Nat
  OBVIOUS
<1>2. Len(page) > 0 => Len(logs) + Len(page) <= Len(visible)
  BY <1>1
<1>3. /\ Len(logs \o page) = Len(logs) + Len(page)
      /\ (logs = <<>> <=> Len(logs) = 0) /\ (page = <<>> <=> Len(page) = 0)
      /\ (visible = <<>> <=> Len(visible) = 0) /\ (logs \o page = <<>> <=> Len(logs \o page) = 0)
  <2>1. ASSUME NEW s \in Seq(Nat) PROVE s = <<>> <=> Len(s) = 0
    OBVIOUS
  <2>2. logs \o page \in Seq(Nat) /\ Len(logs \o page) = Len(logs) + Len(page)
    BY ConcatProperties
  <2> DEFINE both == logs \o page
  <2> HIDE DEF both
  <2>3. both = <<>> <=> Len(both) = 0
    BY <2>1, <2>2 DEF both
  <2> QED
    BY <2>1, <2>2, <2>3 DEF both
<1> QED
  BY <1>1, <1>2, <1>3

(* A page that is read; the first one is empty only if there are no rows.  *)
LEMMA PageHistory ==
    ASSUME NEW l \in LoadState, ReadsInOrder(l), ~ Ready(l),
           rows \in [Instance -> Seq(Nat)], RowsAreDistinct, LoadHistory(l)
    PROVE  /\ LoadHistory(WithPage(l))
           /\ rows[Turn(l).uuid] # <<>> => WithPage(l).logs # <<>>
<1> DEFINE n == WithPage(l)
           visible == rows[Turn(l).uuid]
           page == Page(l)
           last == Smaller(Len(l.logs) + Smaller(Turn(l).limit - Len(l.logs), LogPage), Len(visible))
<1>1. /\ n \in LoadState /\ ~ Ready(n) /\ Turn(n) = Turn(l)
      /\ n.request = l.request /\ n.details = l.details
      /\ n.logs = l.logs \o page /\ n.old = l.old /\ ~ n.counted
  BY WithPageFacts
<1>2. /\ page \in Seq(Nat) /\ last \in Int /\ last <= Len(visible)
      /\ Len(page) = IF Len(l.logs) + 1 <= last THEN last - Len(l.logs) ELSE 0
      /\ \A k \in 1 .. Len(page) : page[k] = visible[Len(l.logs) + k]
      /\ l.logs = <<>> /\ visible # <<>> => page # <<>>
  BY PageFacts
<1>3. Turn(l).uuid \in Instance /\ visible \in Seq(Nat) /\ l.logs \in Seq(Nat) /\ l.old \in Seq(Nat)
  BY TurnFacts, LoadFields
<1> HIDE DEF n, visible, page, last
<1>4. l.logs # <<>> => visible # <<>>
  BY DEF LoadHistory, LoadExists, visible
<1>5. /\ Len(page) > 0 => Len(l.logs) + Len(page) <= Len(visible)
      /\ l.logs \o page # <<>> <=> visible # <<>>
  BY <1>2, <1>3, <1>4, PageBounds
<1>6. Follows(l.old, visible, l.logs) /\ NoGap(l.old, l.logs)
  BY DEF LoadHistory, LoadFollows, visible
<1>7. LoadFollows(n)
  BY <1>1, <1>2, <1>3, <1>5, <1>6, PageFollows DEF LoadFollows, visible
<1>8. n.logs # <<>> <=> visible # <<>>
  BY <1>1, <1>5
<1>9. LoadExists(n) /\ LoadStays(n)
  BY <1>1, <1>8 DEF LoadHistory, LoadExists, LoadStays, visible
<1> QED
  BY <1>1, <1>7, <1>8, <1>9 DEF LoadHistory, n, visible

\* A history that ends was read as far as it was asked for, or to its total.
LEMMA PageEnds ==
    ASSUME NEW l \in LoadState, ReadsInOrder(l), ~ Ready(l),
           rows \in [Instance -> Seq(Nat)], LoadHistory(l), l.counted, Ends(l)
    PROVE  Len(WithPage(l).logs) >= Smaller(Turn(l).limit, WithPage(l).total)
<1> DEFINE limit == Turn(l).limit
           visible == rows[Turn(l).uuid]
           last == Smaller(Len(l.logs) + Smaller(limit - Len(l.logs), LogPage), Len(visible))
           logs == WithPage(l).logs
           page == Page(l)
<1>1. /\ l.logs \in Seq(Nat) /\ page \in Seq(Nat) /\ visible \in Seq(Nat)
      /\ limit \in Nat \ {0} /\ LogPage \in Nat \ {0} /\ l.count \in Nat
      /\ WithPage(l).total = l.count /\ logs = l.logs \o page
  BY LoadFields, TurnFacts, PageFacts, WithPageFacts, MonitorConstants
<1>2. Len(page) = IF Len(l.logs) + 1 <= last THEN last - Len(l.logs) ELSE 0
  BY PageFacts
<1>3. l.count <= Len(visible)
  BY DEF LoadHistory, LoadFollows
<1>4. Page(l) = <<>> \/ Len(logs) >= l.count \/ Len(logs) >= limit
  BY <1>1 DEF Ends
<1>5. /\ Len(l.logs) \in Nat /\ Len(page) \in Nat /\ Len(visible) \in Nat
      /\ Len(logs) = Len(l.logs) + Len(page)
  <2>1. Len(l.logs \o page) = Len(l.logs) + Len(page)
    BY <1>1, ConcatProperties
  <2> QED
    BY <1>1, <2>1
<1>6. last = Smaller(Len(l.logs) + Smaller(limit - Len(l.logs), LogPage), Len(visible))
  OBVIOUS
<1> HIDE DEF limit, visible, last, logs, page
<1>7. CASE Page(l) = <<>>
  <2>1. Len(page) = 0
    BY <1>7 DEF page
  <2>2. ~ Len(l.logs) + 1 <= last
    <3>1. last \in Int
      BY <1>1, <1>5, <1>6 DEF Smaller
    <3> QED
      BY <1>2, <1>5, <2>1, <3>1
  <2>3. Len(l.logs) >= limit \/ Len(l.logs) >= Len(visible)
    <3> DEFINE from == Len(l.logs)
               amount == Smaller(limit - from, LogPage)
    <3>1. from \in Nat /\ amount \in Int /\ (amount > 0 \/ from >= limit)
      BY <1>1, <1>5 DEF Smaller
    <3>2. last = Smaller(from + amount, Len(visible)) /\ ~ from + 1 <= last
      BY <1>6, <2>2
    <3> HIDE DEF from, amount
    <3>3. from >= limit \/ from >= Len(visible)
      BY <1>1, <1>5, <3>1, <3>2 DEF Smaller
    <3> QED
      BY <3>3 DEF from
  <2> QED
    BY <1>1, <1>3, <1>5, <2>1, <2>3 DEF Smaller, limit, logs
<1>8. CASE Len(logs) >= l.count \/ Len(logs) >= limit
  BY <1>1, <1>5, <1>8 DEF Smaller, limit, logs
<1> QED
  BY <1>4, <1>7, <1>8

\* Every step of a load keeps its history without gaps.
LEMMA LoadStepHistory ==
    ASSUME NEW l \in LoadState, NEW n, ReadsInOrder(l), ~ Ready(l),
           rows \in [Instance -> Seq(Nat)], RowsAreDistinct, AcceptedExists, LoadHistory(l), LoadSteps(l, n)
    PROVE  LoadHistory(n)
<1>1. /\ WithPage(l) \in LoadState /\ ReadsInOrder(WithPage(l)) /\ ~ Ready(WithPage(l))
      /\ Turn(WithPage(l)) = Turn(l) /\ LoadHistory(WithPage(l))
      /\ rows[Turn(l).uuid] # <<>> => WithPage(l).logs # <<>>
  BY WithPageFacts, PageHistory
<1>2. CASE n = [l EXCEPT !.counted = TRUE, !.count = Len(rows[Turn(l).uuid])]
  <2>1. /\ ~ Ready(n) /\ Turn(n) = Turn(l) /\ n.request = l.request /\ n.details = l.details
        /\ n.logs = l.logs /\ n.old = l.old
        /\ n.count = Len(rows[Turn(l).uuid])
    BY <1>2, CountedFacts
  <2>2. Len(rows[Turn(l).uuid]) \in Nat
    BY TurnFacts
  <2> QED
    BY <2>1, <2>2 DEF LoadHistory, LoadFollows, LoadExists, LoadStays
<1>3. CASE n = WithPage(l)
  BY <1>1, <1>3
<1>4. CASE l.counted /\ Ends(l) /\ n = WithDetail(WithPage(l), FALSE)
  <2>1. Len(WithPage(l).logs) >= Smaller(Turn(l).limit, WithPage(l).total)
    BY <1>4, PageEnds
  <2> QED
    BY <1>1, <1>4, <2>1, DetailHistory
<1>5. CASE n = WithDetail(l, TRUE)
  BY <1>5, DetailHistory
<1> QED
  BY <1>2, <1>3, <1>4, <1>5 DEF LoadSteps
\* Nothing is on screen and nothing is read at first.
LEMMA ViewInit == MonitorInit => ViewInv
<1> SUFFICES ASSUME MonitorInit PROVE ViewInv
  OBVIOUS
<1>1. /\ accepted = NoSnapshot /\ loading = {Load(request, 1)}
      /\ rows = [i \in Instance |-> [k \in 1 .. FirstRows[i] |-> FirstRows[i] + 1 - k]]
  BY DEF MonitorInit
<1>2. request \in Request /\ rows \in [Instance -> Seq(Nat)] /\ Distinct(Uuids(request))
  BY SessionInit DEF SessionInv, MonitorTypeOK, TabsAreRequested
<1>3. RowsAreDistinct
  <2> SUFFICES ASSUME NEW i \in Instance
               PROVE  Distinct(rows[i]) /\ \A k \in DOMAIN rows[i] : rows[i][k] <= Len(rows[i])
    BY DEF RowsAreDistinct
  <2> DEFINE n == FirstRows[i]
  <2>1. n \in Nat /\ rows[i] = [k \in 1 .. n |-> n + 1 - k]
    BY <1>1, MonitorConstants
  <2> HIDE DEF n
  <2>2. DOMAIN rows[i] = 1 .. n /\ \A k \in 1 .. n : rows[i][k] = n + 1 - k
    BY <2>1
  <2>3. Len(rows[i]) = n
    <3>1. \A k \in 1 .. n : n + 1 - k \in Nat
      BY <2>1
    <3>2. [k \in 1 .. n |-> n + 1 - k] \in [1 .. n -> Nat]
      BY <3>1
    <3> QED
      BY <2>1, <3>2
  <2> QED
    BY <2>1, <2>2, <2>3 DEF Distinct
<1>4. AcceptedExists
  BY <1>1 DEF AcceptedExists, NoSnapshot
<1>6. AcceptedFaithful
  BY <1>1 DEF AcceptedFaithful, Faithful, NoSnapshot
<1>5. LoadHistory(Load(request, 1))
  BY <1>2, <1>3, StartHistory
<1> QED
  BY <1>1, <1>3, <1>4, <1>5, <1>6 DEF ViewInv

(* A new request begins its histories; the loads of the older ones go on,  *)
(* and no longer answer the request of the session.                        *)
LEMMA StartsKeepView ==
    ASSUME SessionInv, SessionInv', ViewInv, Starts
    PROVE  ViewInv'
<1>1. /\ loading' = loading \cup {Load(request', mount')} /\ request'.revision = revision
      /\ rows' = rows /\ (accepted' = accepted \/ accepted' = NoSnapshot)
  BY DEF Starts
<1>2. /\ request' \in Request /\ mount' \in Nat /\ rows \in [Instance -> Seq(Nat)]
      /\ Distinct(Uuids(request'))
  BY DEF SessionInv, MonitorTypeOK, TabsAreRequested
<1>3. RowsAreDistinct' /\ RowsAreDistinct
  BY <1>1 DEF ViewInv, RowsAreDistinct
<1>4. AcceptedExists'
  BY <1>1 DEF ViewInv, AcceptedExists, NoSnapshot
<1>8. AcceptedFaithful'
  BY <1>1 DEF ViewInv, AcceptedFaithful, Faithful, NoSnapshot
<1>5. ASSUME NEW l \in loading PROVE LoadHistory(l)'
  <2>1. l.request # request'
    <3>1. l.request.revision < revision /\ revision \in Nat
      BY DEF SessionInv, LoadsAreFenced, MonitorTypeOK
    <3> QED
      BY <1>1, <3>1
  <2> QED
    BY <1>1, <2>1 DEF ViewInv, LoadHistory, LoadFollows, LoadExists, LoadStays
<1>6. PICK l : l = Load(request', mount')
  OBVIOUS
<1>7. LoadHistory(l)'
  <2>1. LoadHistory(l)
    BY <1>2, <1>3, <1>6, StartHistory
  <2>2. DOMAIN l.details = {}
    BY <1>2, <1>6, LoadGives
  <2> QED
    BY <1>1, <2>1, <2>2 DEF LoadHistory, LoadFollows, LoadExists, LoadStays
<1> QED
  BY <1>1, <1>3, <1>4, <1>5, <1>6, <1>7, <1>8 DEF ViewInv

(* A load that goes on.                                                    *)
LEMMA ReadsKeepView ==
    ASSUME SessionInv, ViewInv, Reads
    PROVE  ViewInv'
<1>1. PICK l \in loading : \E n : ~ Ready(l) /\ Update(l, n) /\ LoadSteps(l, n)
  BY DEF Reads
<1>2. PICK n : ~ Ready(l) /\ Update(l, n) /\ LoadSteps(l, n)
  BY <1>1
<1>3. /\ loading' = (loading \ {l}) \cup {n}
      /\ UNCHANGED <<request, accepted, rows>>
  BY <1>2 DEF Update, session
<1>4. l \in LoadState /\ ReadsInOrder(l) /\ rows \in [Instance -> Seq(Nat)]
  BY DEF SessionInv, MonitorTypeOK, LoadsAreFenced
<1>5. LoadHistory(n)
  BY <1>2, <1>4, LoadStepHistory DEF ViewInv
<1>6. ASSUME NEW k \in loading' PROVE LoadHistory(k)'
  <2>1. LoadHistory(k)
    BY <1>3, <1>5 DEF ViewInv
  <2> QED
    BY <1>3, <2>1 DEF LoadHistory, LoadFollows, LoadExists, LoadStays
<1> QED
  BY <1>3, <1>6 DEF ViewInv, RowsAreDistinct, AcceptedExists, AcceptedFaithful

\* A history kept from an earlier answer has no gap either, and says it failed.
LEMMA KeptIsFaithful ==
    ASSUME SessionInv, AcceptedFaithful, NEW r, NEW details, Faithful(r, details)
    PROVE  Faithful(r, KeepReadable(details))
<1> DEFINE kept == KeepReadable(details)
<1>1. accepted.details \in [DOMAIN accepted.details -> Detail] /\ DOMAIN kept = DOMAIN details
  BY AcceptedDetails DEF KeepReadable
<1>2. SUFFICES ASSUME NEW i \in DOMAIN details
               PROVE  /\ NoGap(kept[i].old, kept[i].logs)
                      /\ \A k \in DOMAIN r.instances :
                            r.instances[k].uuid = i => Untruncated(r.instances[k], kept[i])
  BY <1>1 DEF Faithful
<1>3. CASE details[i].error /\ i \in DOMAIN accepted.details
  <2>1. kept[i] = [accepted.details[i] EXCEPT !.error = TRUE] /\ accepted.details[i] \in Detail
    BY <1>1, <1>3 DEF KeepReadable
  <2>2. kept[i].error /\ kept[i].old = accepted.details[i].old /\ kept[i].logs = accepted.details[i].logs
    BY <2>1 DEF Detail
  <2> QED
    BY <1>3, <2>2 DEF AcceptedFaithful, Faithful, Untruncated
<1>4. CASE ~ (details[i].error /\ i \in DOMAIN accepted.details)
  <2>1. kept[i] = details[i]
    BY <1>4 DEF KeepReadable
  <2> QED
    BY <2>1 DEF Faithful
<1> QED
  BY <1>3, <1>4

(* An answer: no other load answers the request it answered.               *)
LEMMA AnswersKeepView ==
    ASSUME SessionInv, ViewInv, NEW l \in loading, AnswerPage(l) \/ AnswerForeign(l) \/ AnswerError(l)
    PROVE  ViewInv'
<1>1. /\ loading' = loading \ {l} /\ UNCHANGED <<request, rows>>
      /\ \/ UNCHANGED accepted
         \/ /\ l.request = request /\ accepted'.request = l.request
            /\ accepted'.details = KeepReadable(l.details)
  <2>1. ASSUME NEW P, accepted' = [[request |-> l.request, mount |-> l.mount, items |-> P, details |-> l.details]
                                      EXCEPT !.details = KeepReadable(@)]
        PROVE  accepted'.request = l.request /\ accepted'.details = KeepReadable(l.details)
    BY <2>1
  <2> QED
    BY <2>1, AnswerActions
<1>2. RowsAreDistinct'
  BY <1>1 DEF ViewInv, RowsAreDistinct
<1>3. AcceptedExists'
  <2>1. CASE UNCHANGED accepted
    BY <1>1, <2>1 DEF ViewInv, AcceptedExists
  <2>2. CASE accepted'.details = KeepReadable(l.details)
    <3> SUFFICES ASSUME NEW i \in DOMAIN l.details, accepted'.details[i].logs # <<>>
                 PROVE  rows[i] # <<>>
      BY <1>1, <2>2 DEF AcceptedExists, KeepReadable
    <3>1. CASE l.details[i].error /\ i \in DOMAIN accepted.details
      <4>1. accepted'.details[i] = [accepted.details[i] EXCEPT !.error = TRUE]
        BY <2>2, <3>1 DEF KeepReadable
      <4>2. accepted.details \in [DOMAIN accepted.details -> Detail]
        BY AcceptedDetails
      <4>3. accepted'.details[i].logs = accepted.details[i].logs
        BY <3>1, <4>1, <4>2 DEF Detail
      <4> QED
        BY <3>1, <4>3 DEF ViewInv, AcceptedExists
    <3>2. CASE ~ (l.details[i].error /\ i \in DOMAIN accepted.details)
      <4>1. accepted'.details[i] = l.details[i]
        BY <2>2, <3>2 DEF KeepReadable
      <4> QED
        BY <4>1 DEF ViewInv, LoadHistory, LoadExists
    <3> QED
      BY <3>1, <3>2
  <2> QED
    BY <1>1, <2>1, <2>2
<1>4. ASSUME NEW k \in loading' PROVE LoadHistory(k)'
  <2>1. k \in loading /\ k # l /\ LoadHistory(k)
    BY <1>1 DEF ViewInv
  <2>2. l.request = request => k.request # request
    BY <2>1 DEF SessionInv, LoadsAreFenced
  <2>3. LoadStays(k)'
    BY <1>1, <2>1, <2>2 DEF LoadHistory, LoadStays
  <2> QED
    BY <1>1, <2>1, <2>3 DEF LoadHistory, LoadFollows, LoadExists
<1>5. AcceptedFaithful'
  <2>1. CASE UNCHANGED accepted
    BY <2>1 DEF ViewInv, AcceptedFaithful
  <2>2. CASE accepted'.request = l.request /\ accepted'.details = KeepReadable(l.details)
    <3>1. LoadHistory(l) /\ AcceptedFaithful
      BY DEF ViewInv
    <3>2. Faithful(l.request, KeepReadable(l.details))
      BY <3>1, KeptIsFaithful DEF LoadHistory
    <3> QED
      BY <2>2, <3>2 DEF AcceptedFaithful
  <2> QED
    BY <1>1, <2>1, <2>2
<1> QED
  BY <1>2, <1>3, <1>4, <1>5 DEF ViewInv

(* A row that is logged.                                                   *)
LEMMA LogsKeepView ==
    ASSUME SessionInv, ViewInv, NEW i \in Instance, LogRow(i)
    PROVE  ViewInv'
<1> DEFINE s == rows[i]
           t == rows'[i]
<1>1. PICK b \in {0, 1} :
          /\ b <= Len(rows[i])
          /\ rows' = [rows EXCEPT ![i] = SubSeq(@, 1, b) \o <<Len(@) + 1>> \o SubSeq(@, b + 1, Len(@))]
  BY DEF LogRow
<1>2. UNCHANGED <<request, accepted, loading>> /\ rows \in [Instance -> Seq(Nat)]
  BY DEF LogRow, session, SessionInv, MonitorTypeOK
<1>3. /\ s \in Seq(Nat) /\ Distinct(s) /\ \A k \in DOMAIN s : s[k] <= Len(s)
  BY <1>2 DEF ViewInv, RowsAreDistinct
<1>4. t = SubSeq(s, 1, b) \o <<Len(s) + 1>> \o SubSeq(s, b + 1, Len(s))
  BY <1>1, <1>2
<1>5. /\ DOMAIN rows' = Instance /\ \A j \in Instance : j # i => rows'[j] = rows[j]
  BY <1>1, <1>2
<1> HIDE DEF s, t
<1>6. Inserted(t, s, b)
  BY <1>1, <1>3, <1>4, InsertFacts DEF s
<1>7. /\ Distinct(t) /\ \A k \in DOMAIN t : t[k] <= Len(t)
      /\ \A old : \A logs \in Seq(Nat) : Follows(old, s, logs) => Follows(old, t, logs)
      /\ t # <<>> /\ Len(t) = Len(s) + 1 /\ Len(s) \in Nat
  <2>1. Len(t) # 0 /\ Len(t) = Len(s) + 1 /\ Len(s) \in Nat
    BY <1>3, <1>6 DEF Inserted
  <2> QED
    BY <1>1, <1>3, <1>6, <2>1, InsertFollows DEF s
<1>8. RowsAreDistinct'
  BY <1>5, <1>7 DEF ViewInv, RowsAreDistinct, t
<1>9. \A j \in Instance : rows[j] # <<>> => rows'[j] # <<>>
  BY <1>5, <1>7 DEF t
<1>10. AcceptedExists'
  <2>1. DOMAIN accepted.details \subseteq Instance
    BY DEF SessionInv, MonitorTypeOK, NoSnapshot, Snapshot, Details
  <2> QED
    BY <1>2, <1>9, <2>1 DEF ViewInv, AcceptedExists
<1>11. ASSUME NEW l \in loading PROVE LoadHistory(l)'
  <2>1. l \in LoadState /\ ReadsInOrder(l) /\ LoadHistory(l)
    BY DEF SessionInv, MonitorTypeOK, LoadsAreFenced, ViewInv
  <2>2. l.logs \in Seq(Nat) /\ DOMAIN l.details \subseteq Instance
    BY <2>1, LoadFields
  <2>3. ~ Ready(l) => Turn(l).uuid \in Instance
    BY <2>1, TurnFacts
  <2>4. LoadFollows(l)'
    <3>1. CASE Turn(l).uuid = i
      <4>1. ~ Ready(l) /\ l.counted => l.count <= Len(t)
        <5>1. l.count \in Nat
          BY <2>1, LoadFields
        <5>2. ~ Ready(l) /\ l.counted => l.count <= Len(s)
          BY <2>1, <3>1 DEF LoadHistory, LoadFollows, s
        <5> QED
          BY <1>7, <5>1, <5>2
      <4>2. ~ Ready(l) => Follows(l.old, t, l.logs)
        BY <1>7, <2>1, <2>2, <3>1 DEF LoadHistory, LoadFollows, s
      <4> QED
        BY <2>1, <3>1, <4>1, <4>2 DEF LoadHistory, LoadFollows, t
    <3>2. CASE Turn(l).uuid # i
      BY <1>5, <2>1, <2>3, <3>2 DEF LoadHistory, LoadFollows
    <3> QED
      BY <3>1, <3>2
  <2>5. LoadExists(l)'
    BY <1>9, <2>1, <2>2, <2>3 DEF LoadHistory, LoadExists
  <2> QED
    BY <1>2, <2>1, <2>4, <2>5 DEF LoadHistory, LoadStays
<1> QED
  BY <1>2, <1>8, <1>10, <1>11 DEF ViewInv, AcceptedFaithful

\* Every step keeps the history of the view and of the loads.
LEMMA ViewNext ==
    ASSUME SessionInv, SessionInv', ViewInv, [MonitorNext]_monitorVars
    PROVE  ViewInv'
<1>1. CASE Aside
  BY <1>1 DEF Aside, ViewInv, RowsAreDistinct, AcceptedExists, AcceptedFaithful, LoadHistory, LoadFollows, LoadExists, LoadStays
<1>2. CASE Answers
  BY <1>2, AnswersKeepView DEF Answers
<1>3. CASE Logs
  BY <1>3, LogsKeepView DEF Logs
<1> QED
  BY <1>1, <1>2, <1>3, StepKinds, StartsKeepView, ReadsKeepView

(* The view of a version stays.                                            *)
LEMMA ViewStep ==
    ASSUME SessionInv, ViewInv, SessionInv', [MonitorNext]_monitorVars, mount' = mount, accepted # NoSnapshot
    PROVE  /\ accepted'.request.revision >= accepted.request.revision
           /\ \A i \in DOMAIN accepted.details \cap Entries(tabs) \cap Entries(tabs') :
                 /\ i \in DOMAIN accepted'.details
                 /\ accepted.details[i].logs # <<>> => accepted'.details[i].logs # <<>>
<1>1. CASE UNCHANGED accepted
  <2>1. accepted.request.revision \in Nat
    BY DEF SessionInv, MonitorTypeOK, Snapshot, Request
  <2> QED
    BY <1>1, <2>1
<1>2. CASE Answers
  <2>1. PICK l \in loading : AnswerPage(l) \/ AnswerForeign(l) \/ AnswerError(l)
    BY <1>2 DEF Answers
  <2>2. ASSUME Ready(l), l.request = request,
               NEW P \in Pages(l.request.scope, l.request.query),
               accepted' = [[request |-> l.request, mount |-> l.mount, items |-> P, details |-> l.details]
                               EXCEPT !.details = KeepReadable(@)]
        PROVE  /\ accepted'.request.revision >= accepted.request.revision
               /\ \A i \in DOMAIN accepted.details \cap Entries(tabs) \cap Entries(tabs') :
                     /\ i \in DOMAIN accepted'.details
                     /\ accepted.details[i].logs # <<>> => accepted'.details[i].logs # <<>>
    <3>1. accepted'.request = request /\ accepted'.details = KeepReadable(l.details)
      BY <2>2
    <3>2. accepted.request.revision <= request.revision /\ accepted.request.revision \in Nat
          /\ request.revision \in Nat
      BY DEF SessionInv, AcceptedIsCurrent, MonitorTypeOK, Snapshot, Request
    <3>3. DOMAIN l.details = Entries(tabs)
      <4>1. /\ DOMAIN l.details = {request.instances[k].uuid : k \in 1 .. Len(request.instances)}
        BY <2>2 DEF SessionInv, LoadsAreFenced, ReadsInOrder, Ready, Read
      <4>2. tabs = Uuids(request) /\ request.instances \in Seq(Asked)
        BY DEF SessionInv, TabsAreRequested, MonitorTypeOK, Request
      <4>3. /\ DOMAIN Uuids(request) = 1 .. Len(request.instances)
            /\ \A k \in 1 .. Len(request.instances) : Uuids(request)[k] = request.instances[k].uuid
        BY <4>2, UuidsFacts
      <4> QED
        BY <4>1, <4>2, <4>3 DEF Entries
    <3>4. ASSUME NEW i \in DOMAIN accepted.details, i \in Entries(tabs)
          PROVE  /\ i \in DOMAIN accepted'.details
                 /\ accepted.details[i].logs # <<>> => accepted'.details[i].logs # <<>>
      <4>1. i \in DOMAIN l.details /\ i \in DOMAIN accepted'.details
        BY <3>1, <3>3, <3>4 DEF KeepReadable
      <4>2. CASE l.details[i].error
        <5>1. accepted'.details[i] = [accepted.details[i] EXCEPT !.error = TRUE]
          BY <3>1, <4>1, <4>2 DEF KeepReadable
        <5>2. accepted.details \in [DOMAIN accepted.details -> Detail]
          BY AcceptedDetails
        <5> QED
          BY <4>1, <5>1, <5>2 DEF Detail
      <4>3. CASE ~ l.details[i].error
        <5>1. accepted'.details[i] = l.details[i]
          BY <3>1, <4>1, <4>3 DEF KeepReadable
        <5> QED
          BY <2>2, <4>1, <4>3, <5>1 DEF ViewInv, LoadHistory, LoadStays
      <4> QED
        BY <4>1, <4>2, <4>3
    <3> QED
      BY <3>1, <3>2, <3>4
  <2> QED
    BY <1>1, <2>1, <2>2, AnswerActions
<1>3. CASE Starts
  BY <1>1, <1>3 DEF Starts
<1>4. CASE Reads \/ Logs \/ Aside
  BY <1>1, <1>4 DEF Reads, Update, session, Logs, LogRow, Aside
<1> QED
  BY <1>2, <1>3, <1>4, StepKinds

-----------------------------------------------------------------------------
\* The inductive invariant of the monitor: its tabs are those its request names,
\* loads are fenced by their mount and revision and read in order, the view on
\* screen is of the version chosen, and what was read of a history has no gap.
THEOREM MonitorHolds == MonitorSpec => [](SessionInv /\ ViewInv)
<1>1. MonitorInit => SessionInv /\ ViewInv
  BY SessionInit, ViewInit
<1>2. SessionInv /\ ViewInv /\ [MonitorNext]_monitorVars => (SessionInv /\ ViewInv)'
  BY SessionNext, ViewNext
<1> QED
  BY <1>1, <1>2, PTL DEF MonitorSpec

\* What is on screen was asked for by this mount, for this version, and the open
\* tabs are those the request asks for, distinct and within the limit, however
\* late, reordered or failed the snapshots arrive (monitor_view.rs, accept).
THEOREM ScreenIsCurrent == MonitorSpec => []MonitorInv
<1>1. SessionInv => MonitorInv
  <2> SUFFICES ASSUME SessionInv PROVE MonitorInv
    OBVIOUS
  <2>1. Len(tabs) = Cardinality(Entries(tabs))
    BY DistinctCounts DEF SessionInv, MonitorTypeOK, TabsAreRequested
  <2> QED
    BY <2>1 DEF MonitorInv, SessionInv, TabsAreRequested, AcceptedIsCurrent
<1> QED
  BY <1>1, MonitorHolds, PTL

\* A history read page by page while rows are inserted may repeat a row but never
\* skips one that was visible when it began, and one that ended without an error is
\* not cut short: while it is read, in a load that waits for others, and on screen
\* (the offset loop of editor/admin.rs, keep_readable of the session).
THEOREM HistoriesHaveNoGap == MonitorSpec => []HistoryHasNoGap
<1>1. ViewInv => HistoryHasNoGap
  BY DEF ViewInv, AcceptedFaithful, LoadHistory, LoadFollows, HistoryHasNoGap
<1> QED
  BY <1>1, MonitorHolds, PTL

\* While a version stays mounted its view never goes back to an older request, and
\* the history of a tab that stays open never disappears, whatever fails or
\* arrives late (accept, keep_readable).
THEOREM ViewsNeverRegress == MonitorSpec => ViewNeverRegresses
<1>1. SessionInv /\ ViewInv /\ (SessionInv /\ ViewInv)' /\ [MonitorNext]_monitorVars =>
        [mount' = mount /\ accepted # NoSnapshot =>
          /\ accepted'.request.revision >= accepted.request.revision
          /\ \A i \in DOMAIN accepted.details \cap Entries(tabs) \cap Entries(tabs') :
                /\ i \in DOMAIN accepted'.details
                /\ accepted.details[i].logs # <<>> => accepted'.details[i].logs # <<>>]_monitorVars
  BY ViewStep
<1> QED
  BY <1>1, MonitorHolds, PTL DEF MonitorSpec, ViewNeverRegresses
-----------------------------------------------------------------------------
(* The inductive invariant.                                                *)
InstanceState == [revision : Nat, visit : Nat, current : Block \cup {Absent},
                  stage : DeclaredStage \cup {Absent}]
Values == [Var -> 0 .. 1]
RowState == [uuid : Nat, kind : {"node", "event"}, block : Block,
             holder : Runner \cup {Absent}, later : BOOLEAN, visit : Nat \cup {Absent}]
Event == UNION {Awaits[b] : b \in Block}
CallState == [op : {"idle", "handle", "write", "schedule", "cancel"},
              pc : {"idle", "stage", "stage hook", "dispatch", "last hook", "handler",
                    "write", "queue", "requeue", "schedule", "delete"},
              block : Block \cup {Absent}, var : Var \cup {Absent},
              event : Event \cup {Absent}, ids : SUBSET Nat]
AttemptState == [task : Nat \cup {Absent}, var : Var \cup {Absent},
                 read : InstanceState \cup {Absent}, context : Values \cup {Absent}]

\* A call that will queue or schedule a node has one.
HostTypeOK ==
    /\ instance \in InstanceState
    /\ context \in Values
    /\ tasks \in Nat
    /\ queue \subseteq RowState
    /\ call \in [Caller -> CallState]
    /\ \A c \in Caller : (call[c].op = "handle" \/ call[c].pc = "schedule") => call[c].block \in Block
    /\ attempt \in [Runner -> AttemptState]

\* A row is the only one with its identity, which was given out.
TasksAreDistinct ==
    /\ \A row \in queue : row.uuid \in 1 .. tasks
    /\ \A row, other \in queue : row.uuid = other.uuid => row = other

\* An attempt read the instance at an earlier revision, or as it is now.
ReadsAreFenced ==
    \A r \in Runner : attempt[r] # NoAttempt =>
        /\ attempt[r].read \in InstanceState
        /\ attempt[r].read.revision <= instance.revision
        /\ attempt[r].read.revision = instance.revision =>
              attempt[r].read = instance /\ attempt[r].context = context

HostInv == HostTypeOK /\ TasksAreDistinct /\ TimersStayCancellable /\ ReadsAreFenced

-----------------------------------------------------------------------------
(* Marks and rows.                                                         *)
MarksOf(row) == IF row.kind = "event"
                THEN {[task |-> row.uuid, block |-> row.block, event |-> e] : e \in Awaits[row.block]} ELSE {}

\* The marks of a queue are those of its rows.
LEMMA MarksByRow ==
    ASSUME NEW Q
    PROVE  UNION {{[task |-> row.uuid, block |-> row.block, event |-> e] : e \in Awaits[row.block]} :
                     row \in {x \in Q : x.kind = "event"}}
              = UNION {MarksOf(row) : row \in Q}
  BY DEF MarksOf

\* A mark names its row.
LEMMA MarkNamesRow ==
    ASSUME NEW row, NEW m \in MarksOf(row)
    PROVE  m.task = row.uuid
  BY DEF MarksOf

\* Removing rows, and the marks that name them, keeps the invariant's part
\* about queued tasks: identities are distinct, so no other row loses a mark.
LEMMA RemoveRows ==
    ASSUME TasksAreDistinct, TimersStayCancellable, NEW ids, tasks' = tasks,
           queue' = {row \in queue : row.uuid \notin ids},
           marks' = {m \in marks : m.task \notin ids}
    PROVE  TasksAreDistinct' /\ TimersStayCancellable'
<1>1. TasksAreDistinct'
  BY DEF TasksAreDistinct
<1>2. marks = UNION {MarksOf(row) : row \in queue}
  BY MarksByRow DEF TimersStayCancellable
<1>3. ASSUME NEW m \in marks' PROVE m \in UNION {MarksOf(row) : row \in queue'}
  <2>1. PICK row \in queue : m \in MarksOf(row)
    BY <1>2
  <2>2. row \in queue'
    BY <2>1, MarkNamesRow
  <2>. QED BY <2>1, <2>2
<1>4. ASSUME NEW row \in queue', NEW m \in MarksOf(row) PROVE m \in marks'
  <2>1. m \in marks
    BY <1>2
  <2>2. m.task = row.uuid
    BY MarkNamesRow
  <2>. QED BY <2>1, <2>2
<1>5. marks' = UNION {MarksOf(row) : row \in queue'}
  BY <1>3, <1>4
<1>. QED BY <1>1, <1>5, MarksByRow DEF TimersStayCancellable

\* Leasing, releasing or delaying a row changes neither what it is nor its
\* marks.
LEMMA ChangeRow ==
    ASSUME TasksAreDistinct, TimersStayCancellable, NEW row \in queue, NEW new,
           new.uuid = row.uuid, new.kind = row.kind, new.block = row.block,
           tasks' = tasks, marks' = marks, queue' = (queue \ {row}) \cup {new}
    PROVE  TasksAreDistinct' /\ TimersStayCancellable'
<1>1. TasksAreDistinct'
  BY DEF TasksAreDistinct
<1>2. MarksOf(new) = MarksOf(row)
  BY DEF MarksOf
<1>3. UNION {MarksOf(x) : x \in queue'} = UNION {MarksOf(x) : x \in queue}
  BY <1>2
<1>. QED BY <1>1, <1>3, MarksByRow DEF TimersStayCancellable

\* A row inserted with a new identity, and with its marks.
LEMMA InsertRow ==
    ASSUME TasksAreDistinct, TimersStayCancellable, tasks \in Nat, NEW new,
           new.uuid = tasks + 1, tasks' = tasks + 1,
           queue' = queue \cup {new}, marks' = marks \cup MarksOf(new)
    PROVE  TasksAreDistinct' /\ TimersStayCancellable'
<1>1. TasksAreDistinct'
  BY DEF TasksAreDistinct
<1>2. UNION {MarksOf(x) : x \in queue'} = (UNION {MarksOf(x) : x \in queue}) \cup MarksOf(new)
  OBVIOUS
<1>. QED BY <1>1, <1>2, MarksByRow DEF TimersStayCancellable

-----------------------------------------------------------------------------
(* Writes of the instance.                                                 *)
\* Every write is a new revision: nothing read before it is current after it.
LEMMA WriteStep ==
    ASSUME HostTypeOK, ReadsAreFenced, instance' \in InstanceState,
           instance'.revision = instance.revision + 1,
           \A r \in Runner : attempt'[r] = attempt[r] \/ attempt'[r] = NoAttempt
    PROVE  ReadsAreFenced'
  BY DEF HostTypeOK, ReadsAreFenced, InstanceState

\* What a write makes of an instance, whichever fields it sets.
LEMMA SetVisit ==
    ASSUME NEW i \in InstanceState, NEW b \in Block, NEW n \in Nat
    PROVE  /\ [i EXCEPT !.visit = n, !.current = b] \in InstanceState
           /\ [i EXCEPT !.visit = n, !.current = b].revision = i.revision
  BY DEF InstanceState

\* A direct write of the stage keeps the revision.
LEMMA SetStage ==
    ASSUME NEW i \in InstanceState, NEW stage \in DeclaredStage
    PROVE  /\ [i EXCEPT !.stage = stage] \in InstanceState
           /\ [i EXCEPT !.stage = stage].revision = i.revision
  BY DEF InstanceState

\* A write takes the next revision and keeps the rest.
LEMMA NextRevision ==
    ASSUME instance \in InstanceState, NEW b \in Block
    PROVE  /\ Revised \in InstanceState /\ Revised.revision = instance.revision + 1
           /\ [Revised EXCEPT !.visit = @ + 1, !.current = b] \in InstanceState
           /\ [Revised EXCEPT !.visit = @ + 1, !.current = b].revision = instance.revision + 1
           /\ \A stage \in DeclaredStage :
                 /\ [Revised EXCEPT !.stage = stage] \in InstanceState
                 /\ [Revised EXCEPT !.stage = stage].revision = instance.revision + 1
<1>1. Revised \in InstanceState /\ Revised.revision = instance.revision + 1
  BY DEF Revised, InstanceState
<1>2. Revised.visit + 1 \in Nat
  BY <1>1 DEF InstanceState
<1>3. \A stage \in DeclaredStage : /\ [Revised EXCEPT !.stage = stage] \in InstanceState
                                   /\ [Revised EXCEPT !.stage = stage].revision = instance.revision + 1
  BY <1>1, SetStage
<1>4. /\ [Revised EXCEPT !.visit = @ + 1, !.current = b] \in InstanceState
      /\ [Revised EXCEPT !.visit = @ + 1, !.current = b].revision = instance.revision + 1
  BY <1>1, <1>2, SetVisit
<1>. QED BY <1>1, <1>3, <1>4

\* A step that leaves the instance and the context alone and starts no attempt.
LEMMA AsideStep ==
    ASSUME ReadsAreFenced, UNCHANGED <<instance, context>>,
           \A r \in Runner : attempt'[r] = attempt[r] \/ attempt'[r] = NoAttempt
    PROVE  ReadsAreFenced'
  BY DEF ReadsAreFenced

\* The initial states satisfy the invariant.
LEMMA HostInitial == HostInit => HostInv
<1>. SUFFICES ASSUME HostInit PROVE HostInv
  OBVIOUS
<1>1. HostTypeOK
  BY DEF HostInit, HostTypeOK, InstanceState, Values, CallState, AttemptState, Idle, NoAttempt
<1>2. TasksAreDistinct /\ TimersStayCancellable /\ ReadsAreFenced
  BY DEF HostInit, TasksAreDistinct, TimersStayCancellable, ReadsAreFenced
<1>. QED BY <1>1, <1>2 DEF HostInv

\* A step of a call that changes no row: its types are kept.
LEMMA CallStep ==
    ASSUME HostInv, UNCHANGED <<database, attempt>>, NEW c \in Caller, NEW s \in CallState,
           call' = [call EXCEPT ![c] = s],
           (s.op = "handle" \/ s.pc = "schedule") => s.block \in Block
    PROVE  HostInv'
<1>1. HostTypeOK'
  BY DEF HostInv, HostTypeOK, database, InstanceState, Values, RowState, AttemptState
<1>2. TasksAreDistinct' /\ TimersStayCancellable' /\ ReadsAreFenced'
  BY DEF HostInv, database, TasksAreDistinct, TimersStayCancellable, ReadsAreFenced
<1>. QED BY <1>1, <1>2 DEF HostInv

\* Every other step of a call, or of a runner, but its writes.
LEMMA CallPreserves ==
    ASSUME HostInv, NEW c \in Caller,
           \/ \E b \in Block : HandleNode(c, b) \/ BeginSchedule(c, b) \/ \E e \in Awaits[b] : BeginCancel(c, b, e)
           \/ \E v \in Var : BeginWrite(c, v)
           \/ Hook(c) \/ Dispatch(c) \/ HandlerReturns(c) \/ Fails(c)
    PROVE  HostInv'
<1>. USE DEF HostInv
<1>0. call[c] \in CallState /\ call \in [Caller -> CallState]
      /\ (call[c].op = "handle" \/ call[c].pc = "schedule" => call[c].block \in Block)
  BY DEF HostTypeOK
<1>1. ASSUME NEW b \in Block, HandleNode(c, b) PROVE HostInv'
  <2>. DEFINE s == [Idle EXCEPT !.op = "handle", !.block = b, !.pc = IF StageAt[b] = Absent THEN "dispatch" ELSE "stage"]
  <2>1. s \in CallState /\ s.block \in Block
    BY DEF CallState, Idle
  <2>. QED BY <1>1, <2>1, CallStep DEF HandleNode
<1>2. ASSUME NEW b \in Block, BeginSchedule(c, b) PROVE HostInv'
  <2>. DEFINE s == [Idle EXCEPT !.op = "schedule", !.pc = "schedule", !.block = b]
  <2>1. s \in CallState /\ s.block \in Block
    BY DEF CallState, Idle
  <2>. QED BY <1>2, <2>1, CallStep DEF BeginSchedule
<1>3. ASSUME NEW b \in Block, NEW e \in Awaits[b], BeginCancel(c, b, e) PROVE HostInv'
  <2>. DEFINE read == {m.task : m \in {n \in marks : n.block = b /\ n.event = e}}
              s == [Idle EXCEPT !.op = "cancel", !.pc = "delete", !.block = b, !.event = e, !.ids = read]
  <2>1. read \subseteq Nat
    <3>1. marks = UNION {MarksOf(row) : row \in queue}
      BY MarksByRow DEF TimersStayCancellable
    <3>2. ASSUME NEW m \in marks PROVE m.task \in Nat
      <4>1. PICK row \in queue : m \in MarksOf(row)
        BY <3>1
      <4>2. m.task = row.uuid /\ row.uuid \in Nat
        BY <4>1, MarkNamesRow DEF HostTypeOK, RowState
      <4>. QED BY <4>2
    <3>. QED BY <3>2
  <2>2. s \in CallState /\ s.op = "cancel" /\ s.pc = "delete"
    BY <2>1 DEF CallState, Idle, Event
  <2>. QED BY <1>3, <2>2, CallStep DEF BeginCancel
<1>4. ASSUME NEW v \in Var, BeginWrite(c, v) PROVE HostInv'
  <2>. DEFINE s == [Idle EXCEPT !.op = "write", !.pc = "write", !.var = v]
  <2>1. s \in CallState /\ s.op = "write" /\ s.pc = "write"
    BY DEF CallState, Idle
  <2>. QED BY <1>4, <2>1, CallStep DEF BeginWrite
<1>5. Idle \in CallState /\ Idle.op = "idle" /\ Idle.pc = "idle"
  BY DEF CallState, Idle
<1>6. ASSUME call' = [call EXCEPT ![c] = Idle], UNCHANGED <<database, attempt>> PROVE HostInv'
  BY <1>5, <1>6, CallStep
<1>7. ASSUME NEW pc \in {"dispatch", "last hook", "queue", "requeue", "schedule", "handler"},
             call[c].op = "handle", Goes(c, pc), UNCHANGED <<database, attempt>>
      PROVE  HostInv'
  <2>. DEFINE s == [call[c] EXCEPT !.pc = pc]
  <2>1. s \in CallState /\ s.block \in Block
    BY <1>0, <1>7 DEF CallState
  <2>2. call' = [call EXCEPT ![c] = s]
    BY <1>7 DEF Goes
  <2>. QED BY <1>7, <2>1, <2>2, CallStep
<1>8. CASE Hook(c)
  BY <1>6, <1>7, <1>8 DEF Hook, At, Finishes
<1>9. CASE Dispatch(c)
  BY <1>6, <1>7, <1>9 DEF Dispatch, At, Finishes
<1>10. CASE HandlerReturns(c)
  <2>1. ASSUME NEW v \in Var, call' = [call EXCEPT ![c].pc = "write", ![c].var = v] PROVE HostInv'
    <3>. DEFINE s == [call[c] EXCEPT !.pc = "write", !.var = v]
    <3>1. s \in CallState /\ s.block \in Block
      BY <1>0, <1>10 DEF CallState, HandlerReturns, At
    <3>2. call' = [call EXCEPT ![c] = s]
      BY <2>1
    <3>. QED BY <1>10, <3>1, <3>2, CallStep DEF HandlerReturns
  <2>. QED BY <1>6, <1>7, <1>10, <2>1 DEF HandlerReturns, At, Finishes
<1>11. CASE Fails(c)
  BY <1>6, <1>11 DEF Fails, Finishes
<1>. QED BY <1>1, <1>2, <1>3, <1>4, <1>8, <1>9, <1>10, <1>11
\* The transactions of a call that write the instance or the context.
LEMMA WritePreserves ==
    ASSUME HostInv, NEW c \in Caller, AssignStage(c) \/ WriteContext(c)
    PROVE  HostInv'
<1>. USE DEF HostInv
<1>0. call[c] \in CallState /\ call \in [Caller -> CallState]
      /\ (call[c].op = "handle" => call[c].block \in Block)
  BY DEF HostTypeOK
<1>1. /\ instance' \in InstanceState /\ instance'.revision = instance.revision + 1
      /\ context' \in Values /\ UNCHANGED <<queue, marks, tasks, attempt>>
  <2>1. CASE AssignStage(c)
    BY <1>0, <2>1, NextRevision DEF AssignStage, At, HostTypeOK
  <2>3. Revised \in InstanceState /\ Revised.revision = instance.revision + 1
    BY DEF Revised, HostTypeOK, InstanceState
  <2>2. CASE WriteContext(c)
    <3>1. PICK value \in 0 .. 1 : context' = [context EXCEPT ![call[c].var] = value]
      BY <2>2 DEF WriteContext, Merged
    <3>2. context' \in Values
      BY <3>1 DEF HostTypeOK, Values
    <3>. QED BY <2>2, <2>3, <3>2 DEF WriteContext
  <2>. QED BY <2>1, <2>2
<1>2. \E s \in CallState : /\ call' = [call EXCEPT ![c] = s]
                           /\ s.op = "handle" \/ s.pc = "schedule" => s.block \in Block
  <2>1. Idle \in CallState /\ Idle.op = "idle" /\ Idle.pc = "idle"
    BY DEF CallState, Idle
  <2>2. ASSUME NEW pc \in {"stage hook", "dispatch", "queue"}, call[c].op = "handle", Goes(c, pc)
        PROVE  \E s \in CallState : /\ call' = [call EXCEPT ![c] = s]
                                    /\ s.op = "handle" \/ s.pc = "schedule" => s.block \in Block
    <3>. DEFINE s == [call[c] EXCEPT !.pc = pc]
    <3>1. s \in CallState /\ s.block \in Block
      BY <1>0, <2>2 DEF CallState
    <3>. QED BY <2>2, <3>1 DEF Goes
  <2>. QED BY <2>1, <2>2 DEF AssignStage, WriteContext, At, Finishes
<1>3. HostTypeOK'
  BY <1>0, <1>1, <1>2 DEF HostTypeOK, RowState, AttemptState
<1>4. TasksAreDistinct' /\ TimersStayCancellable'
  BY <1>1 DEF TasksAreDistinct, TimersStayCancellable
<1>5. ReadsAreFenced'
  BY <1>1, WriteStep
<1>. QED BY <1>3, <1>4, <1>5

\* A call that changes rows only.
LEMMA RowsPreserve ==
    ASSUME HostInv, NEW c \in Caller, QueueNode(c) \/ Schedule(c) \/ FinishCancel(c)
    PROVE  HostInv'
<1>. USE DEF HostInv
<1>0. call[c] \in CallState /\ call \in [Caller -> CallState] /\ tasks \in Nat /\ instance.visit \in Nat
      /\ (call[c].op = "handle" \/ call[c].pc = "schedule" => call[c].block \in Block)
  BY DEF HostTypeOK, InstanceState
<1>1. UNCHANGED <<instance, context, attempt>>
  BY DEF QueueNode, Schedule, FinishCancel
<1>2. /\ call' \in [Caller -> CallState]
      /\ \A d \in Caller : (call'[d].op = "handle" \/ call'[d].pc = "schedule") => call'[d].block \in Block
  <2>1. Idle \in CallState /\ Idle.op = "idle" /\ Idle.pc = "idle"
    BY DEF CallState, Idle
  <2>2. CASE Finishes(c)
    BY <1>0, <2>1, <2>2 DEF Finishes, HostTypeOK
  <2>3. CASE Schedule(c) /\ Goes(c, "last hook")
    <3>. DEFINE s == [call[c] EXCEPT !.pc = "last hook"]
    <3>1. s \in CallState /\ s.block \in Block /\ call' = [call EXCEPT ![c] = s]
      BY <1>0, <2>3 DEF CallState, Schedule, Goes
    <3>. QED BY <1>0, <3>1 DEF HostTypeOK
  <2>. QED BY <2>2, <2>3 DEF QueueNode, Schedule, FinishCancel
<1>3. ASSUME NEW kind \in {"node", "event"}, NEW b \in Block, NEW later \in BOOLEAN
      PROVE  NewRow(kind, b, later) \in RowState
  BY <1>0 DEF NewRow, RowState
<1>4. ASSUME NEW row \in RowState, Insert(row) PROVE tasks' \in Nat /\ queue' \subseteq RowState
  BY <1>0, <1>4 DEF Insert, HostTypeOK
<1>5. tasks' \in Nat /\ queue' \subseteq RowState
  <2>1. CASE QueueNode(c)
    <3>1. call[c].op = "handle"
      BY <2>1 DEF QueueNode, At
    <3>2. PICK b \in Block, later \in BOOLEAN : Insert(NewRow("node", b, later))
      BY <1>0, <2>1, <3>1, HostTypes DEF QueueNode, SelectBranch
    <3>. QED BY <1>3, <1>4, <3>2
  <2>2. CASE Schedule(c)
    <3>1. NewRow("event", call[c].block, TRUE) \in RowState
      BY <1>0, <1>3, <2>2 DEF Schedule
    <3>. QED BY <1>4, <2>2, <3>1 DEF Schedule
  <2>3. CASE FinishCancel(c)
    BY <2>3 DEF FinishCancel, HostTypeOK
  <2>. QED BY <2>1, <2>2, <2>3
<1>6. HostTypeOK'
  BY <1>1, <1>2, <1>5 DEF HostTypeOK, InstanceState, Values, AttemptState
<1>7. TasksAreDistinct' /\ TimersStayCancellable'
  <2>1. CASE QueueNode(c)
    <3>1. PICK b, later : Insert(NewRow("node", b, later))
      BY <2>1 DEF QueueNode
    <3>2. MarksOf(NewRow("node", b, later)) = {} /\ NewRow("node", b, later).uuid = tasks + 1
      BY DEF MarksOf, NewRow
    <3>. QED BY <1>0, <2>1, <3>1, <3>2, InsertRow DEF QueueNode, Insert
  <2>2. CASE Schedule(c)
    <3>. DEFINE b == call[c].block
                row == NewRow("event", b, TRUE)
    <3>1. row.uuid = tasks + 1
          /\ MarksOf(row) = {[task |-> tasks + 1, block |-> b, event |-> e] : e \in Awaits[b]}
      BY DEF MarksOf, NewRow
    <3>2. Insert(row) /\ marks' = marks \cup MarksOf(row)
      BY <2>2, <3>1 DEF Schedule
    <3>. QED BY <1>0, <3>1, <3>2, InsertRow DEF Insert
  <2>3. CASE FinishCancel(c)
    BY <2>3, RemoveRows DEF FinishCancel
  <2>. QED BY <2>1, <2>2, <2>3
<1>8. ReadsAreFenced'
  BY <1>1, AsideStep
<1>. QED BY <1>6, <1>7, <1>8
-----------------------------------------------------------------------------
(* Runners.                                                                *)
\* An attempt never changes what the other rows are, or it is fenced.
LEMMA RunnerPreserves ==
    ASSUME HostInv, NEW r \in Runner,
           FetchRow(r) \/ CommitTask(r) \/ Abandon(r) \/ RetryTask(r) \/ KillTask(r)
    PROVE  HostInv'
<1>. USE DEF HostInv
<1>0. /\ attempt \in [Runner -> AttemptState] /\ NoAttempt \in AttemptState
      /\ queue \subseteq RowState /\ instance \in InstanceState /\ context \in Values
  BY DEF HostTypeOK, AttemptState, NoAttempt
<1>1. UNCHANGED <<tasks, call>>
  BY DEF FetchRow, CommitTask, Abandon, RetryTask, KillTask, database
<1>2. CASE FetchRow(r)
  <2>1. PICK row \in queue, v \in Var :
            /\ queue' = (queue \ {row}) \cup {[row EXCEPT !.holder = r]}
            /\ attempt' = [attempt EXCEPT ![r] =
                  [task |-> row.uuid, var |-> v, read |-> instance, context |-> context]]
    BY <1>2 DEF FetchRow
  <2>2. [row EXCEPT !.holder = r] \in RowState
    BY <1>0 DEF RowState
  <2>3. HostTypeOK'
    BY <1>0, <1>1, <1>2, <2>1, <2>2 DEF FetchRow, HostTypeOK, AttemptState, RowState
  <2>4. TasksAreDistinct' /\ TimersStayCancellable'
    <3>. DEFINE new == [row EXCEPT !.holder = r]
    <3>1. new.uuid = row.uuid /\ new.kind = row.kind /\ new.block = row.block
      BY <1>0 DEF RowState
    <3>2. queue' = (queue \ {row}) \cup {new} /\ tasks' = tasks /\ marks' = marks
      BY <1>2, <2>1 DEF FetchRow
    <3>. HIDE DEF new
    <3>. QED BY <3>1, <3>2, ChangeRow
  <2>5. ReadsAreFenced'
    BY <1>0, <1>2, <2>1 DEF FetchRow, ReadsAreFenced, InstanceState
  <2>. QED BY <2>3, <2>4, <2>5
<1>3. CASE CommitTask(r)
  <2>. DEFINE row == CHOOSE x \in queue : x.uuid = attempt[r].task
              gone == {x \in queue : x = row \/ (row.kind = "event" /\ x.kind = "event" /\ x.visit = instance.visit)}
              ids == {x.uuid : x \in gone}
  <2>1. row \in queue
    BY <1>3 DEF CommitTask, Holds
  <2>2. instance' \in InstanceState /\ instance'.revision = instance.revision + 1
    <3>1. row.block \in Block
      BY <1>0, <2>1 DEF RowState
    <3>2. \/ instance' = Revised
          \/ instance' = [Revised EXCEPT !.visit = @ + 1, !.current = row.block]
      BY <1>3 DEF CommitTask
    <3>. HIDE DEF row
    <3>. QED BY <1>0, <3>1, <3>2, NextRevision
  <2>3. context' \in Values
    <3>1. PICK value \in 0 .. 1 : context' = [context EXCEPT ![attempt[r].var] = value]
      BY <1>3 DEF CommitTask, Merged
    <3>. QED BY <1>0, <3>1 DEF Values
  <2>4. queue' = queue \ gone /\ marks' = {m \in marks : \A x \in gone : x.uuid # m.task}
        /\ attempt' = [attempt EXCEPT ![r] = NoAttempt]
    BY <1>3 DEF CommitTask, Releases
  <2>5. HostTypeOK'
    BY <1>0, <1>1, <2>2, <2>3, <2>4 DEF HostTypeOK, RowState
  <2>6. queue' = {x \in queue : x.uuid \notin ids} /\ marks' = {m \in marks : m.task \notin ids}
    <3>. HIDE DEF row
    <3>. QED BY <2>4 DEF TasksAreDistinct
  <2>7. TasksAreDistinct' /\ TimersStayCancellable'
    <3>. HIDE DEF ids
    <3>. QED BY <1>1, <2>6, RemoveRows
  <2>8. ReadsAreFenced'
    BY <1>0, <2>2, <2>4, WriteStep
  <2>. QED BY <2>5, <2>7, <2>8
<1>4. CASE Abandon(r)
  <2>1. HostTypeOK'
    BY <1>0, <1>4 DEF Abandon, Releases, database, HostTypeOK, InstanceState, Values, RowState, CallState
  <2>2. TasksAreDistinct' /\ TimersStayCancellable' /\ ReadsAreFenced'
    BY <1>0, <1>4 DEF Abandon, Releases, database, TasksAreDistinct, TimersStayCancellable, ReadsAreFenced
  <2>. QED BY <2>1, <2>2
<1>5. ASSUME UNCHANGED <<instance, context>>, attempt' = [attempt EXCEPT ![r] = NoAttempt],
             queue' \subseteq RowState
      PROVE  HostTypeOK' /\ ReadsAreFenced'
  BY <1>0, <1>1, <1>5, AsideStep DEF HostTypeOK, RowState
<1>6. CASE RetryTask(r)
  <2>1. PICK row \in queue : row.uuid = attempt[r].task
    BY <1>6 DEF RetryTask, Holds
  <2>. DEFINE new == [row EXCEPT !.holder = Absent, !.later = TRUE]
  <2>2. new \in RowState /\ new.uuid = row.uuid /\ new.kind = row.kind /\ new.block = row.block
    BY <1>0 DEF RowState
  <2>3. queue' = (queue \ {row}) \cup {new}
    BY <1>6, <2>1 DEF RetryTask, TasksAreDistinct
  <2>. HIDE DEF new
  <2>4. TasksAreDistinct' /\ TimersStayCancellable'
    BY <1>1, <1>6, <2>2, <2>3, ChangeRow DEF RetryTask
  <2>5. HostTypeOK' /\ ReadsAreFenced'
    BY <1>0, <1>5, <1>6, <2>2, <2>3 DEF RetryTask, Releases
  <2>. QED BY <2>4, <2>5
<1>7. CASE KillTask(r)
  <2>1. HostTypeOK' /\ ReadsAreFenced'
    BY <1>0, <1>5, <1>7 DEF KillTask, Releases
  <2>2. CASE Holds(r)
    <3>. DEFINE ids == {attempt[r].task}
    <3>1. queue' = {x \in queue : x.uuid \notin ids} /\ marks' = {m \in marks : m.task \notin ids}
      BY <1>7, <2>2 DEF KillTask
    <3>. HIDE DEF ids
    <3>. QED BY <1>1, <2>1, <3>1, RemoveRows
  <2>3. CASE ~ Holds(r)
    BY <1>1, <1>7, <2>1, <2>3 DEF KillTask, TasksAreDistinct, TimersStayCancellable
  <2>. QED BY <2>2, <2>3
<1>. QED BY <1>2, <1>3, <1>4, <1>6, <1>7

\* Every step preserves the invariant.
LEMMA HostStep == HostInv /\ [HostNext]_hostVars => HostInv'
<1>. SUFFICES ASSUME HostInv, [HostNext]_hostVars PROVE HostInv'
  OBVIOUS
<1>. USE DEF HostInv
<1>1. ASSUME NEW b \in Block, SetCurrentNode(b) PROVE HostInv'
  <2>1. /\ instance' \in InstanceState /\ instance'.revision = instance.revision + 1
        /\ UNCHANGED <<context, queue, marks, tasks, call, attempt>>
    BY <1>1, NextRevision DEF SetCurrentNode, HostTypeOK
  <2>2. HostTypeOK' /\ TasksAreDistinct' /\ TimersStayCancellable'
    BY <2>1 DEF HostTypeOK, RowState, TasksAreDistinct, TimersStayCancellable
  <2>3. ReadsAreFenced'
    BY <2>1, WriteStep
  <2>. QED BY <2>2, <2>3
<1>2. CASE BecomesDue
  <2>1. PICK row \in queue : queue' = (queue \ {row}) \cup {[row EXCEPT !.later = FALSE]}
    BY <1>2 DEF BecomesDue
  <2>. DEFINE new == [row EXCEPT !.later = FALSE]
  <2>2. new \in RowState /\ new.uuid = row.uuid /\ new.kind = row.kind /\ new.block = row.block
    BY DEF HostTypeOK, RowState
  <2>3. queue' = (queue \ {row}) \cup {new} /\ UNCHANGED <<instance, context, marks, tasks, call, attempt>>
    BY <1>2, <2>1 DEF BecomesDue
  <2>. HIDE DEF new
  <2>4. TasksAreDistinct' /\ TimersStayCancellable'
    BY <2>2, <2>3, ChangeRow
  <2>5. HostTypeOK' /\ ReadsAreFenced'
    BY <2>2, <2>3, AsideStep DEF HostTypeOK, RowState
  <2>. QED BY <2>4, <2>5
<1>3. CASE UNCHANGED hostVars
  <2>1. HostTypeOK'
    BY <1>3 DEF hostVars, database, HostTypeOK, InstanceState, Values, RowState, CallState, AttemptState
  <2>2. TasksAreDistinct' /\ TimersStayCancellable' /\ ReadsAreFenced'
    BY <1>3 DEF hostVars, database, TasksAreDistinct, TimersStayCancellable, ReadsAreFenced
  <2>. QED BY <2>1, <2>2
<1>. QED BY <1>1, <1>2, <1>3, CallPreserves, WritePreserves, RowsPreserve, RunnerPreserves DEF HostNext

\* The invariant holds in every reachable state, for any definition and any
\* number of concurrent calls and runners.
THEOREM HostHolds == HostSpec => []HostInv
<1>. QED BY HostInitial, HostStep, PTL DEF HostSpec

\* Timers and their cancellation marks never part, however calls that
\* schedule, cancel, kill and consume tasks interleave (create_event_schedule,
\* cancel_queue_tasks, kill_queue_task, commit_task_execution).
THEOREM TimersAreCancellable == HostSpec => []TimersStayCancellable
<1>1. HostInv => TimersStayCancellable
  BY DEF HostInv
<1>. QED BY <1>1, HostHolds, PTL

\* A commit that passes the revision fence acts on the instance and on the
\* variables as they are, whatever was written directly since its attempt
\* began (commit_task_execution, save_process_instance_context).
THEOREM CommitsAreCurrent == HostSpec => CommitSeesTheInstance
<1>1. HostInv /\ [HostNext]_hostVars =>
        [\A r \in Runner : CommitTask(r) => attempt[r].read = instance /\ attempt[r].context = context]_hostVars
  BY DEF HostInv, ReadsAreFenced, CommitTask
<1>. QED BY <1>1, HostHolds, PTL DEF HostSpec, CommitSeesTheInstance

-----------------------------------------------------------------------------
(* The repair of legacy versions: versions and their successors.           *)
LEMMA VersionFacts ==
    ASSUME NEW v \in Version
    PROVE  /\ v[1] \in 0 .. LastPart /\ v[2] \in 0 .. LastPart /\ v[3] \in 0 .. LastPart
           /\ v[1] \in Nat /\ v[2] \in Nat /\ v[3] \in Nat /\ v = <<v[1], v[2], v[3]>> /\ v # NoVersion
BY RepairTypes DEF Version, NoVersion

\* VersionId's order is total, and transitive.
LEMMA BelowOrder ==
    ASSUME NEW a \in Version, NEW b \in Version
    PROVE  /\ ~ Below(a, a) /\ ~ (Below(a, b) /\ Below(b, a))
           /\ a # b => Below(a, b) \/ Below(b, a)
           /\ \A c \in Version : Below(a, b) /\ Below(b, c) => Below(a, c)
<1>1. a # b => a[1] # b[1] \/ a[2] # b[2] \/ a[3] # b[3]
  BY VersionFacts, Zenon
<1>2. \A c \in Version : Below(a, b) /\ Below(b, c) => Below(a, c)
  <2> TAKE c \in Version
  <2> QED
    BY VersionFacts DEF Below
<1> QED
  BY <1>1, <1>2, VersionFacts DEF Below

\* A successor, if there is one, is a later version.
LEMMA SuccessorFacts ==
    ASSUME NEW v \in Version \cup {NoVersion}
    PROVE  /\ Successor(v) \in Version \cup {NoVersion}
           /\ Successor(v) # NoVersion => v # NoVersion /\ v \in Version /\ Below(v, Successor(v))
<1>1. CASE v = NoVersion
  BY <1>1 DEF Successor
<1>2. CASE v \in Version
  <2> DEFINE a == v[1]  b == v[2]  c == v[3]
  <2>1. a \in 0 .. LastPart /\ b \in 0 .. LastPart /\ c \in 0 .. LastPart /\ v # NoVersion /\ LastPart \in Nat
    BY <1>2, VersionFacts, RepairTypes
  <2>2. Successor(v) = CASE c < LastPart -> <<a, b, c + 1>>
                         [] c = LastPart /\ b < LastPart -> <<a, b + 1, 0>>
                         [] c = LastPart /\ b = LastPart /\ a < LastPart -> <<a + 1, 0, 0>>
                         [] OTHER -> NoVersion
    BY <2>1 DEF Successor
  <2>3. CASE c < LastPart
    <3> DEFINE w == <<a, b, c + 1>>
    <3>1. Successor(v) = w
      BY <2>1, <2>2, <2>3
    <3>2. w \in Version /\ w[1] = a /\ w[2] = b /\ w[3] = c + 1
      BY <2>1, <2>3 DEF Version
    <3>3. Below(v, w)
      BY <2>1, <3>2 DEF Below
    <3> QED
      BY <1>2, <2>1, <3>1, <3>2, <3>3
  <2>4. CASE c = LastPart /\ b < LastPart
    <3> DEFINE w == <<a, b + 1, 0>>
    <3>1. Successor(v) = w
      BY <2>1, <2>2, <2>4
    <3>2. w \in Version /\ w[1] = a /\ w[2] = b + 1
      BY <2>1, <2>4 DEF Version
    <3>3. Below(v, w)
      BY <2>1, <3>2 DEF Below
    <3> QED
      BY <1>2, <2>1, <3>1, <3>2, <3>3
  <2>5. CASE c = LastPart /\ b = LastPart /\ a < LastPart
    <3> DEFINE w == <<a + 1, 0, 0>>
    <3>1. Successor(v) = w
      BY <2>1, <2>2, <2>5
    <3>2. w \in Version /\ w[1] = a + 1
      BY <2>1, <2>5 DEF Version
    <3>3. Below(v, w)
      BY <2>1, <3>2 DEF Below
    <3> QED
      BY <1>2, <2>1, <3>1, <3>2, <3>3
  <2>6. CASE a = LastPart /\ b = LastPart /\ c = LastPart
    BY <2>1, <2>2, <2>6
  <2> QED
    BY <2>1, <2>3, <2>4, <2>5, <2>6
<1> QED
  BY <1>1, <1>2

-----------------------------------------------------------------------------
(* A finite set has a greatest element in a total order.                   *)
LEMMA GreatestOf ==
    ASSUME NEW S, IsFiniteSet(S), S # {}, NEW R,
           \A a, b \in S : a # b => <<a, b>> \in R \/ <<b, a>> \in R,
           \A a, b, c \in S : <<a, b>> \in R /\ <<b, c>> \in R => <<a, c>> \in R
    PROVE  \E m \in S : \A x \in S \ {m} : <<m, x>> \in R
<1> DEFINE Great(T) == \E m \in T : \A x \in T \ {m} : <<m, x>> \in R
           G == {n \in Nat : \A T \in SUBSET S : IsFiniteSet(T) /\ Cardinality(T) = n /\ T # {} => Great(T)}
<1>1. 0 \in G
  BY FS_EmptySet
<1>2. ASSUME NEW n \in Nat, n \in G PROVE n + 1 \in G
  <2> SUFFICES ASSUME NEW T \in SUBSET S, IsFiniteSet(T), Cardinality(T) = n + 1, T # {} PROVE Great(T)
    OBVIOUS
  <2>1. PICK a \in T : TRUE
    OBVIOUS
  <2> DEFINE U == T \ {a}
  <2>2. IsFiniteSet(U) /\ Cardinality(U) = n /\ U \in SUBSET S
    <3>1. IsFiniteSet(U) /\ Cardinality(U) = Cardinality(T) - 1
      BY <2>1, FS_RemoveElement
    <3> QED
      BY <3>1
  <2>3. CASE U = {}
    BY <2>1, <2>3
  <2>4. CASE U # {}
    <3>1. Great(U)
      BY <1>2, <2>2, <2>4
    <3>2. PICK m \in U : \A x \in U \ {m} : <<m, x>> \in R
      BY <3>1
    <3>3. a # m /\ a \in S /\ m \in S
      BY <2>1, <3>2
    <3>4. CASE <<m, a>> \in R
      BY <2>1, <3>2, <3>4
    <3>5. CASE <<a, m>> \in R
      <4>1. \A x \in T \ {a} : <<a, x>> \in R
        BY <3>2, <3>3, <3>5
      <4> QED
        BY <2>1, <4>1
    <3> QED
      BY <3>3, <3>4, <3>5
  <2> QED
    BY <2>3, <2>4
<1> HIDE DEF G
<1>3. \A n \in Nat : n \in G
  BY <1>1, <1>2, NatSetInduction
<1>4. Cardinality(S) \in Nat
  BY FS_CardinalityType
<1> QED
  BY <1>3, <1>4 DEF G

-----------------------------------------------------------------------------
(* Tables of rows.                                                         *)
Rows(t) == /\ IsFiniteSet(DOMAIN t) /\ DOMAIN t \subseteq Nat
           /\ \A u \in DOMAIN t : t[u] \in DefinitionRow

\* The highest version of a key is one of its versions, and none is above it.
LEMMA HighestFacts ==
    ASSUME NEW t, Rows(t), NEW u \in DOMAIN t
    PROVE  /\ Highest(t, t[u].key) \in Version
           /\ \A v \in DOMAIN t : t[v].key = t[u].key => ~ Below(Highest(t, t[u].key), t[v].version)
<1> DEFINE D == {v \in DOMAIN t : t[v].key = t[u].key}
           S == {t[v].version : v \in D}
           R == {p \in Version \X Version : Below(p[2], p[1])}
           Fits(w) == /\ \E v \in DOMAIN t : t[v].key = t[u].key /\ t[v].version = w
                      /\ \A v \in DOMAIN t : t[v].key = t[u].key => ~ Below(w, t[v].version)
           All == {t[v].version : v \in DOMAIN t}
<1>1. IsFiniteSet(S) /\ S # {} /\ S \subseteq Version
  <2>1. IsFiniteSet(D)
    BY FS_Subset DEF Rows
  <2>2. IsFiniteSet(S)
    <3> DEFINE f == [v \in D |-> t[v].version]
    <3>1. f \in Surjection(D, S)
      BY DEF Surjection
    <3> HIDE DEF f, D, S
    <3> QED
      BY <2>1, <3>1, FS_Surjection
  <2>3. S # {} /\ S \subseteq Version
    BY DEF Rows, DefinitionRow
  <2> QED
    BY <2>2, <2>3
<1>2. \A a, b \in Version : <<a, b>> \in R <=> Below(b, a)
  OBVIOUS
<1> HIDE DEF R
<1>3. \A a, b \in S : a # b => <<a, b>> \in R \/ <<b, a>> \in R
  <2> HIDE DEF S
  <2> QED
    BY <1>1, <1>2, BelowOrder
<1>4. \A a, b, c \in S : <<a, b>> \in R /\ <<b, c>> \in R => <<a, c>> \in R
  <2> HIDE DEF S
  <2> SUFFICES ASSUME NEW a \in S, NEW b \in S, NEW c \in S, Below(b, a), Below(c, b) PROVE Below(c, a)
    BY <1>1, <1>2
  <2> QED
    BY <1>1, BelowOrder
<1>5. PICK m \in S : \A x \in S \ {m} : <<m, x>> \in R
  <2> HIDE DEF S
  <2> QED
    BY <1>1, <1>3, <1>4, GreatestOf
<1>6. \A v \in D : ~ Below(m, t[v].version)
  <2> TAKE v \in D
  <2>1. t[v].version \in S /\ m \in Version /\ t[v].version \in Version
    BY <1>1
  <2> QED
    BY <1>2, <1>5, <2>1, BelowOrder
<1>7. m \in All /\ Fits(m)
  BY <1>5, <1>6
<1>8. Highest(t, t[u].key) = CHOOSE w \in All : Fits(w)
  BY Zenon DEF Highest
<1>9. Highest(t, t[u].key) \in All /\ Fits(Highest(t, t[u].key))
  <2> HIDE DEF All, Fits
  <2> QED
    BY <1>7, <1>8
<1>10. All \subseteq Version
  BY DEF Rows, DefinitionRow
<1> QED
  BY <1>9, <1>10

\* A number given to a moved row, if there is one left, is a version above all
\* those of its key.
LEMMA NewVersionFacts ==
    ASSUME NEW t, Rows(t), NEW at, NEW u \in DOMAIN t, NewVersion(t, at, u) # NoVersion
    PROVE  /\ NewVersion(t, at, u) \in Version
           /\ \A v \in DOMAIN t : t[v].key = t[u].key => Below(t[v].version, NewVersion(t, at, u))
<1> DEFINE V == Version \cup {NoVersion}
           high == Highest(t, t[u].key)
           h == [p \in Nat \X V |-> Successor(p[2])]
           Body(g) == [n \in Nat |-> IF n = 0 THEN high ELSE Successor(g[n - 1])]
           above == CHOOSE g : g = Body(g)
           before == {v \in Moved(t, at) : t[v].key = t[u].key /\ Sooner(t, at, v, u)}
<1>1. h \in [Nat \X V -> V]
  BY SuccessorFacts
<1>2. high \in V /\ high \in Version
  BY HighestFacts
<1>3. PICK g \in [Nat -> V] : g[0] = high /\ \A n \in Nat : g[n + 1] = h[<<n + 1, g[n]>>]
  <2> HIDE DEF h, high, V
  <2>1. \E g \in [Nat -> V] : Iterates(g, high, h)
    BY <1>1, <1>2, Recursion
  <2> QED
    BY <2>1 DEF Iterates
<1>4. \A n \in Nat : g[n + 1] = Successor(g[n])
  <2> TAKE n \in Nat
  <2>1. <<n + 1, g[n]>> \in Nat \X V
    BY <1>3
  <2> HIDE DEF V, high
  <2> QED
    BY <1>3, <2>1
<1> HIDE DEF h, V, high
<1>5. g = Body(g)
  <2>1. ASSUME NEW k \in Nat PROVE g[k] = Body(g)[k]
    <3>1. CASE k = 0
      BY <1>3, <3>1
    <3>2. CASE k # 0
      <4>1. k - 1 \in Nat /\ (k - 1) + 1 = k
        BY <3>2
      <4> QED
        BY <1>4, <3>2, <4>1
    <3> QED
      BY <3>1, <3>2
  <2>2. g \in [Nat -> V] /\ Body(g) = [k \in Nat |-> Body(g)[k]]
    BY <1>3
  <2> HIDE DEF Body
  <2> QED
    BY <2>1, <2>2
<1>6. above = Body(above)
  <2> HIDE DEF Body
  <2> QED
    BY <1>5
<1>7. NewVersion(t, at, u) = above[1 + Cardinality(before)]
  BY Zenon DEF NewVersion, high
<1>8. above[0] = high /\ \A n \in Nat : above[n + 1] = Successor(above[n])
  <2>1. \A k \in Nat : above[k] = Body(above)[k]
    <3> HIDE DEF Body, above
    <3> QED
      BY <1>6
  <2> HIDE DEF above
  <2>2. \A n \in Nat : n + 1 \in Nat /\ n + 1 # 0 /\ (n + 1) - 1 = n
    OBVIOUS
  <2> QED
    BY <2>1, <2>2
<1> HIDE DEF above
<1> DEFINE Rises == {n \in Nat : /\ above[n] \in Version \cup {NoVersion}
                                 /\ above[n] # NoVersion => n = 0 \/ Below(high, above[n])}
<1>9. 0 \in Rises
  BY <1>2, <1>8 DEF V
<1>10. ASSUME NEW n \in Nat, n \in Rises PROVE n + 1 \in Rises
  <2> DEFINE a == above[n]  b == above[n + 1]
  <2>1. a \in Version \cup {NoVersion} /\ b = Successor(a) /\ (a # NoVersion => n = 0 \/ Below(high, a))
    BY <1>8, <1>10
  <2>2. b \in Version \cup {NoVersion} /\ (b # NoVersion => a # NoVersion /\ a \in Version /\ Below(a, b))
    BY <2>1, SuccessorFacts
  <2>3. ASSUME b # NoVersion PROVE Below(high, b)
    <3>1. a \in Version /\ b \in Version /\ Below(a, b)
      BY <2>2, <2>3
    <3>2. CASE n = 0
      BY <1>8, <3>1, <3>2
    <3>3. CASE Below(high, a)
      BY <1>2, <3>1, <3>3, BelowOrder
    <3> QED
      BY <2>1, <2>2, <2>3, <3>2, <3>3
  <2> QED
    BY <2>2, <2>3
<1> HIDE DEF Rises
<1>11. \A n \in Nat : n \in Rises
  BY <1>9, <1>10, NatSetInduction
<1>12. Cardinality(before) \in Nat
  <2>1. before \subseteq DOMAIN t
    BY DEF Moved, Duplicated
  <2> QED
    BY <2>1, FS_Subset, FS_CardinalityType DEF Rows
<1> DEFINE new == NewVersion(t, at, u)
<1>13. new \in Version /\ Below(high, new)
  <2>1. 1 + Cardinality(before) \in Nat /\ 1 + Cardinality(before) # 0
    BY <1>12
  <2>2. 1 + Cardinality(before) \in Rises
    BY <1>11, <2>1
  <2> HIDE DEF before
  <2> QED
    BY <1>7, <2>1, <2>2 DEF Rises
<1>14. ASSUME NEW v \in DOMAIN t, t[v].key = t[u].key PROVE Below(t[v].version, new)
  <2>1. t[v].version \in Version /\ ~ Below(high, t[v].version)
    BY <1>14, HighestFacts DEF high, Rows, DefinitionRow
  <2>2. high = t[v].version \/ Below(t[v].version, high)
    BY <1>2, <2>1, BelowOrder
  <2> HIDE DEF new
  <2> QED
    BY <1>2, <1>13, <2>1, <2>2, BelowOrder
<1> QED
  BY <1>13, <1>14

\* A group keeps one of its rows, which stays: every other row has a lower
\* index, or is not eligible while this one is (assignments, sort_by_key).
RetainsTheFirst(t, at, u) ==
    LET r == Retained(t, at, u) IN
    /\ r \in Group(t, u) /\ r \notin Moved(t, at)
    /\ \A v \in Group(t, u) : /\ Eligible(t[v], at) => Eligible(t[r], at) /\ t[v].index <= t[r].index
\* The first of a group in that order exists, and keeps its version.
LEMMA RetainedFacts ==
    ASSUME NEW t, Rows(t), NEW at \in Nat, NEW u \in DOMAIN t
    PROVE  RetainsTheFirst(t, at, u)
<1> DEFINE S == Group(t, u)
           R == {p \in S \X S : Prefers(t, at, p[1], p[2])}
           r == Retained(t, at, u)
<1>1. IsFiniteSet(S) /\ S # {} /\ S \subseteq DOMAIN t /\ S \subseteq Nat
  <2>1. S \subseteq DOMAIN t /\ u \in S
    BY DEF Group, Same
  <2> QED
    BY <2>1, FS_Subset DEF Rows
<1>2. \A v \in S : t[v].index \in Nat /\ v \in Nat /\ Eligible(t[v], at) \in BOOLEAN
  BY <1>1 DEF Rows, DefinitionRow, Eligible
<1>3. \A a, b \in S : <<a, b>> \in R <=> Prefers(t, at, a, b)
  OBVIOUS
<1> HIDE DEF R, S
<1>4. \A a, b \in S : a # b => <<a, b>> \in R \/ <<b, a>> \in R
  BY <1>2, <1>3 DEF Prefers
<1>5. \A a, b, c \in S : <<a, b>> \in R /\ <<b, c>> \in R => <<a, c>> \in R
  BY <1>2, <1>3 DEF Prefers
<1>6. PICK m \in S : \A v \in S \ {m} : Prefers(t, at, m, v)
  BY <1>1, <1>3, <1>4, <1>5, GreatestOf
<1>7. r = CHOOSE x \in S : \A v \in S \ {x} : Prefers(t, at, x, v)
  BY DEF Retained, S
<1>8. r \in S /\ \A v \in S \ {r} : Prefers(t, at, r, v)
  <2> HIDE DEF r
  <2> QED
    BY <1>6, <1>7
<1>9. Group(t, r) = S
  BY <1>1, <1>8 DEF Group, Same, S
<1>10. Retained(t, at, r) = r
  BY <1>9 DEF Retained, S
<1>11. \A v \in S : Eligible(t[v], at) => Eligible(t[r], at) /\ t[v].index <= t[r].index
  <2> SUFFICES ASSUME NEW v \in S, Eligible(t[v], at) PROVE Eligible(t[r], at) /\ t[v].index <= t[r].index
    OBVIOUS
  <2>1. v = r \/ Prefers(t, at, r, v)
    BY <1>8
  <2> HIDE DEF r
  <2> QED
    BY <1>2, <1>8, <2>1 DEF Prefers
<1> QED
  BY <1>8, <1>10, <1>11 DEF RetainsTheFirst, Moved, S

-----------------------------------------------------------------------------
(* The inductive invariant: a plan can still be carried out as it was made, *)
(* and after the migration no version of a key occurs twice.               *)
PlanSound(p) ==
    /\ p = [rows |-> p.rows, at |-> p.at, changes |-> p.changes]
    /\ Repairable(p.rows, Assignments(p.rows, p.at))

RepairInv ==
    /\ table \in Seq(DefinitionRow)
    /\ clock \in Nat
    /\ plan = [o \in Operator |-> plan[o]]
    /\ \A o \in Operator : plan[o] # NoPlan => PlanSound(plan[o])
    /\ migrated => Duplicated(table) = {}

\* What apply_legacy_version_plan compares and writes.
ExpectedOf(p) == Repaired(p.rows, p.changes)
CurrentOf(p) == [u \in {v \in DOMAIN table : table[v].key \in {p.rows[w].key : w \in DOMAIN p.rows}} |-> table[u]]
ResultOf(p) == [u \in DOMAIN table |-> IF u \in DOMAIN ExpectedOf(p) THEN ExpectedOf(p)[u] ELSE table[u]]
Applies(p) ==
    /\ Assignments(p.rows, p.at) = p.changes /\ CurrentOf(p) = p.rows
    /\ Assignments(p.rows, clock) = p.changes /\ CurrentOf(p) # ExpectedOf(p)
    /\ Duplicated(ResultOf(p)) = {}

\* An apply is refused, finds its work done, or writes its result.
LEMMA OutcomeFacts ==
    ASSUME NEW p
    PROVE  \/ Outcome(p).is = "refused" /\ Outcome(p).table = table
           \/ Outcome(p).is = "already" /\ Outcome(p).table = table /\ Duplicated(table) = {}
           \/ Applies(p) /\ Outcome(p).table = ResultOf(p)
<1> DEFINE same == Assignments(p.rows, p.at) = p.changes
<1>1. Outcome(p) = CASE ~ same -> [is |-> "refused", table |-> table]
          [] same /\ CurrentOf(p) = ExpectedOf(p) ->
                [is |-> IF Duplicated(table) = {} THEN "already" ELSE "refused", table |-> table]
          [] OTHER ->
                IF CurrentOf(p) = p.rows /\ Assignments(CurrentOf(p), clock) = p.changes /\ Duplicated(ResultOf(p)) = {}
                THEN [is |-> "applied", table |-> ResultOf(p)]
                ELSE [is |-> "refused", table |-> table]
  BY Zenon DEF Outcome, CurrentOf, ExpectedOf, ResultOf
<1>2. CASE ~ same
  BY <1>1, <1>2
<1>3. CASE same /\ CurrentOf(p) = ExpectedOf(p)
  BY <1>1, <1>3
<1>4. CASE same /\ CurrentOf(p) # ExpectedOf(p)
  <2>1. Outcome(p) = IF CurrentOf(p) = p.rows /\ Assignments(CurrentOf(p), clock) = p.changes /\ Duplicated(ResultOf(p)) = {}
                     THEN [is |-> "applied", table |-> ResultOf(p)]
                     ELSE [is |-> "refused", table |-> table]
    <3> HIDE DEF same
    <3> QED
      BY <1>1, <1>4
  <2> QED
    BY <1>4, <2>1 DEF Applies
<1> QED
  BY <1>2, <1>3, <1>4

\* What a plan that applies does to a row: nothing, or a new version above all
\* versions of its key.
RowAfter(p, u) ==
    LET row == table[u]  new == ResultOf(p)[u] IN
    /\ new \in DefinitionRow
    /\ new.key = row.key /\ new.index = row.index /\ new.active = row.active
    /\ new.from = row.from /\ new.until = row.until
    /\ [new EXCEPT !.version = 0, !.stated = 0] = [row EXCEPT !.version = 0, !.stated = 0]
    /\ u \notin DOMAIN p.changes => new = row
    /\ u \in DOMAIN p.changes => \A v \in DOMAIN table : table[v].key = row.key => Below(table[v].version, new.version)
\* A plan that applies was made from the rows as they are.
LEMMA AppliedFacts ==
    ASSUME RepairInv, NEW o \in Operator, plan[o] # NoPlan, NEW p, p = plan[o], Applies(p)
    PROVE  /\ Rows(p.rows) /\ DOMAIN p.rows \subseteq DOMAIN table
           /\ \A u \in DOMAIN p.rows : p.rows[u] = table[u]
           /\ \A u \in DOMAIN p.rows : \A v \in DOMAIN table : table[v].key = table[u].key => v \in DOMAIN p.rows
           /\ DOMAIN p.changes = Moved(p.rows, clock) /\ DOMAIN p.changes \subseteq DOMAIN p.rows
           /\ \A u \in DOMAIN table : RowAfter(p, u)
<1> DEFINE K == {p.rows[w].key : w \in DOMAIN p.rows}
           D == {v \in DOMAIN table : table[v].key \in K}
<1>1. p.rows = [u \in D |-> table[u]]
  BY DEF Applies, CurrentOf
<1>2. DOMAIN p.rows = D /\ D \subseteq DOMAIN table /\ \A u \in D : p.rows[u] = table[u] /\ table[u] \in DefinitionRow
  <2> HIDE DEF K
  <2> QED
    BY <1>1 DEF RepairInv
<1>3. Rows(p.rows)
  <2>1. DOMAIN table = 1 .. Len(table) /\ Len(table) \in Nat
    BY DEF RepairInv
  <2>2. IsFiniteSet(DOMAIN table) /\ DOMAIN table \subseteq Nat
    BY <2>1, FS_Interval
  <2> HIDE DEF D
  <2>3. IsFiniteSet(D)
    BY <1>2, <2>2, FS_Subset
  <2> QED
    BY <1>2, <2>2, <2>3 DEF Rows
<1>4. \A u \in DOMAIN p.rows : \A v \in DOMAIN table : table[v].key = table[u].key => v \in DOMAIN p.rows
  BY <1>2
<1> HIDE DEF D, K
<1>5. p.changes = Assignments(p.rows, clock) /\ Repairable(p.rows, p.changes)
  BY DEF Applies, RepairInv, PlanSound
<1>6. /\ DOMAIN p.changes = Moved(p.rows, clock) /\ DOMAIN p.changes \subseteq DOMAIN p.rows
      /\ \A u \in DOMAIN p.changes : p.changes[u].new = NewVersion(p.rows, clock, u) /\ p.changes[u].new # NoVersion
  <2>1. Moved(p.rows, clock) \subseteq DOMAIN p.rows
    BY DEF Moved, Duplicated
  <2>2. p.changes = [u \in Moved(p.rows, clock) |-> [new |-> NewVersion(p.rows, clock, u), retained |-> Retained(p.rows, clock, u)]]
    BY <1>5 DEF Assignments
  <2> QED
    BY <1>5, <2>1, <2>2 DEF Repairable
<1>7. ASSUME NEW u \in DOMAIN table PROVE RowAfter(p, u)
  <2> DEFINE row == table[u]
             new == ResultOf(p)[u]
  <2>1. row \in DefinitionRow
    BY DEF RepairInv
  <2>2. /\ DOMAIN ExpectedOf(p) = DOMAIN p.rows
        /\ \A v \in DOMAIN p.rows : ExpectedOf(p)[v] = IF v \in DOMAIN p.changes
                  THEN [p.rows[v] EXCEPT !.version = p.changes[v].new, !.stated = p.changes[v].new] ELSE p.rows[v]
    BY DEF ExpectedOf, Repaired
  <2>3. new = IF u \in DOMAIN p.changes THEN [row EXCEPT !.version = p.changes[u].new, !.stated = p.changes[u].new] ELSE row
    <3>1. new = IF u \in DOMAIN p.rows THEN ExpectedOf(p)[u] ELSE table[u]
      BY <2>2 DEF ResultOf
    <3> QED
      BY <1>2, <1>6, <2>2, <3>1
  <2>4. CASE u \notin DOMAIN p.changes
    <3>1. new = row
      BY <2>3, <2>4
    <3> QED
      BY <2>1, <2>4, <3>1 DEF RowAfter
  <2>5. CASE u \in DOMAIN p.changes
    <3> DEFINE w == p.changes[u].new
    <3>1. w \in Version /\ \A v \in DOMAIN p.rows : p.rows[v].key = p.rows[u].key => Below(p.rows[v].version, w)
      BY <1>3, <1>6, <2>5, NewVersionFacts
    <3>2. \A v \in DOMAIN table : table[v].key = row.key => Below(table[v].version, w)
      BY <1>2, <1>4, <1>6, <2>5, <3>1
    <3>3. new = [row EXCEPT !.version = w, !.stated = w]
      BY <2>3, <2>5
    <3> HIDE DEF w, new, row
    <3>4. /\ new \in DefinitionRow /\ new.version = w
          /\ new.key = row.key /\ new.index = row.index /\ new.active = row.active
          /\ new.from = row.from /\ new.until = row.until
          /\ [new EXCEPT !.version = 0, !.stated = 0] = [row EXCEPT !.version = 0, !.stated = 0]
      BY <2>1, <3>1, <3>3 DEF DefinitionRow
    <3> QED
      BY <2>5, <3>2, <3>4 DEF RowAfter, new, row
  <2> QED
    BY <2>4, <2>5
<1> QED
  BY <1>2, <1>3, <1>4, <1>6, <1>7

\* The row a group keeps answers for the number from then on, if one of the
\* group could answer for it.
NumberAnswered(t, n, u) ==
    LET before == Selectable(t, t[u].key, {t[u].version})
        after  == Selectable(n, t[u].key, {t[u].version})
    IN  after \subseteq before /\ (after = {} => before = {})
\* The kept row is selected for the number exactly if one of the group was.
LEMMA NumbersAreAnswered ==
    ASSUME RepairInv, NEW o \in Operator, plan[o] # NoPlan, NEW p, p = plan[o], Applies(p),
           NEW u \in DOMAIN p.changes
    PROVE  NumberAnswered(table, ResultOf(p), u)
<1> DEFINE r == Retained(p.rows, clock, u)
           key == table[u].key
           ver == table[u].version
           found == {v \in DOMAIN table : table[v].key = key /\ Eligible(table[v], clock) /\ table[v].version \in {ver}}
           kept == {v \in DOMAIN ResultOf(p) : ResultOf(p)[v].key = key /\ Eligible(ResultOf(p)[v], clock) /\ ResultOf(p)[v].version \in {ver}}
           before == Selectable(table, key, {ver})
           after == Selectable(ResultOf(p), key, {ver})
<1>1. /\ Rows(p.rows) /\ u \in DOMAIN p.rows /\ u \in DOMAIN table
      /\ DOMAIN p.rows \subseteq DOMAIN table /\ \A v \in DOMAIN p.rows : p.rows[v] = table[v]
      /\ \A v \in DOMAIN table : table[v].key = key => v \in DOMAIN p.rows
      /\ DOMAIN p.changes = Moved(p.rows, clock)
  BY AppliedFacts
<1>2. \A v \in DOMAIN table : /\ ResultOf(p)[v].key = table[v].key /\ ResultOf(p)[v].index = table[v].index
                              /\ Eligible(ResultOf(p)[v], clock) = Eligible(table[v], clock)
                              /\ v \notin DOMAIN p.changes => ResultOf(p)[v] = table[v]
  <2> TAKE v \in DOMAIN table
  <2>1. RowAfter(p, v)
    BY AppliedFacts
  <2>2. /\ ResultOf(p)[v].key = table[v].key /\ ResultOf(p)[v].index = table[v].index
        /\ ResultOf(p)[v].active = table[v].active /\ ResultOf(p)[v].from = table[v].from
        /\ ResultOf(p)[v].until = table[v].until /\ (v \notin DOMAIN p.changes => ResultOf(p)[v] = table[v])
    BY <2>1, Zenon DEF RowAfter
  <2> QED
    BY <2>2 DEF Eligible
<1>3. clock \in Nat /\ \A v \in DOMAIN table : table[v].index \in Nat
  <2>1. \A v \in DOMAIN table : table[v] \in DefinitionRow
    BY DEF RepairInv
  <2> QED
    BY <2>1 DEF RepairInv, DefinitionRow
<1>4. RetainsTheFirst(p.rows, clock, u)
  BY <1>1, <1>3, RetainedFacts
<1>5. /\ r \in DOMAIN table /\ r \notin DOMAIN p.changes /\ table[r].key = key /\ table[r].version = ver
      /\ ResultOf(p)[r] = table[r]
  BY <1>1, <1>2, <1>4 DEF RetainsTheFirst, Group, Same
<1>6. \A v \in found : v \in Group(p.rows, u)
  BY <1>1 DEF Group, Same
<1>7. \A v \in found : Eligible(table[r], clock) /\ table[v].index <= table[r].index
  <2> TAKE v \in found
  <2>1. v \in Group(p.rows, u) /\ Eligible(table[v], clock) /\ v \in DOMAIN p.rows /\ r \in DOMAIN p.rows
    BY <1>1, <1>5, <1>6
  <2>2. Eligible(p.rows[v], clock) => Eligible(p.rows[r], clock) /\ p.rows[v].index <= p.rows[r].index
    BY <1>4, <2>1 DEF RetainsTheFirst
  <2> HIDE DEF r, found
  <2> QED
    BY <1>1, <2>1, <2>2
<1> HIDE DEF r
<1>8. DOMAIN ResultOf(p) = DOMAIN table
  BY DEF ResultOf
<1>9. \A v \in kept : v = r
  <2> SUFFICES ASSUME NEW v \in kept PROVE v = r
    OBVIOUS
  <2>1. v \in DOMAIN ResultOf(p) /\ r \in DOMAIN ResultOf(p) /\ Same(ResultOf(p)[r], ResultOf(p)[v])
    BY <1>5, <1>8 DEF Same
  <2>2. Group(ResultOf(p), r) = {r}
    BY <2>1 DEF Applies, Duplicated
  <2> QED
    BY <2>1, <2>2 DEF Group
<1>10. r \in kept <=> Eligible(table[r], clock)
  BY <1>5, <1>8
<1>11. before = {w \in found : \A v \in found : table[v].index <= table[w].index}
  BY DEF Selectable
<1>12. after = {w \in kept : \A v \in kept : ResultOf(p)[v].index <= ResultOf(p)[w].index}
  BY DEF Selectable
<1>13. r \in found <=> Eligible(table[r], clock)
  BY <1>5
<1> HIDE DEF before, after, found, kept
<1>14. after \subseteq before
  BY <1>7, <1>9, <1>10, <1>11, <1>12, <1>13
<1>15. after = {} => before = {}
  <2>1. r \in kept => r \in after
    BY <1>3, <1>5, <1>9, <1>12
  <2> QED
    BY <1>7, <1>10, <1>11, <2>1
<1> QED
  BY <1>14, <1>15 DEF NumberAnswered, before, after, key, ver

\* No default selection changes: eligibility and indices stay.
DefaultStays(t, n, key) ==
    \A every : {w.version : w \in {t[v] : v \in DOMAIN t}} \cup {w.version : w \in {n[v] : v \in DOMAIN n}} \subseteq every =>
        Selectable(n, key, every) = Selectable(t, key, every)
\* The default selection reads only what a repair keeps.
LEMMA DefaultsStay ==
    ASSUME NEW t, NEW n, NEW key, DOMAIN n = DOMAIN t,
           \A v \in DOMAIN t : n[v].key = t[v].key /\ n[v].index = t[v].index /\ Eligible(n[v], clock) = Eligible(t[v], clock)
    PROVE  DefaultStays(t, n, key)
<1> SUFFICES ASSUME NEW every, {w.version : w \in {t[v] : v \in DOMAIN t}} \cup {w.version : w \in {n[v] : v \in DOMAIN n}} \subseteq every
             PROVE  Selectable(n, key, every) = Selectable(t, key, every)
  BY DEF DefaultStays
<1> DEFINE F(x) == {v \in DOMAIN x : x[v].key = key /\ Eligible(x[v], clock) /\ x[v].version \in every}
<1>1. \A v \in DOMAIN t : t[v].version \in every /\ n[v].version \in every
  OBVIOUS
<1>2. F(n) = F(t)
  BY <1>1
<1>3. Selectable(n, key, every) = {u \in F(n) : \A v \in F(n) : n[v].index <= n[u].index}
  BY DEF Selectable
<1>4. Selectable(t, key, every) = {u \in F(t) : \A v \in F(t) : t[v].index <= t[u].index}
  BY DEF Selectable
<1>5. F(t) \subseteq DOMAIN t
  OBVIOUS
<1> HIDE DEF F
<1> QED
  BY <1>2, <1>3, <1>4, <1>5

-----------------------------------------------------------------------------
(* Every step keeps the invariant.                                         *)
LEMMA RepairInitial == RepairInit => RepairInv
<1> SUFFICES ASSUME RepairInit PROVE RepairInv
  OBVIOUS
<1> QED
  BY RepairTypes DEF RepairInit, RepairInv

\* A table in which only the lifecycle changes has no other duplicates.
LEMMA SameDuplicates ==
    ASSUME NEW t, NEW n, DOMAIN n = DOMAIN t,
           \A v \in DOMAIN t : n[v].key = t[v].key /\ n[v].version = t[v].version
    PROVE  Duplicated(n) = Duplicated(t)
<1>1. \A u \in DOMAIN t : Group(n, u) = Group(t, u)
  BY DEF Group, Same
<1> QED
  BY <1>1 DEF Duplicated

\* Every step keeps it.
LEMMA RepairStep == RepairInv /\ [RepairNext]_repairVars => RepairInv'
<1> SUFFICES ASSUME RepairInv, [RepairNext]_repairVars PROVE RepairInv'
  OBVIOUS
<1> DEFINE PlansSound == plan' = [o \in Operator |-> plan'[o]] /\ \A o \in Operator : plan'[o] # NoPlan => PlanSound(plan'[o])
<1>1. plan' = plan => PlansSound
  BY DEF RepairInv
<1>2. ASSUME NEW o \in Operator, Plan(o) PROVE RepairInv'
  <2> DEFINE p == [rows |-> Affected(table), at |-> clock, changes |-> Assignments(Affected(table), clock)]
  <2>1. /\ plan' = [plan EXCEPT ![o] = p] /\ UNCHANGED <<table, migrated, clock>>
        /\ Repairable(Affected(table), Assignments(Affected(table), clock))
    BY <1>2 DEF Plan
  <2>2. PlanSound(p)
    BY <2>1 DEF PlanSound
  <2> HIDE DEF p
  <2>3. plan' = [i \in Operator |-> IF i = o THEN p ELSE plan[i]]
    BY <2>1 DEF RepairInv
  <2>4. PlansSound
    BY <2>2, <2>3 DEF RepairInv
  <2> QED
    BY <2>1, <2>4 DEF RepairInv
<1>3. ASSUME NEW o \in Operator, EditPlan(o) PROVE RepairInv'
  <2>1. PICK c : plan' = [plan EXCEPT ![o].changes = c] /\ plan[o] # NoPlan /\ UNCHANGED <<table, migrated, clock>>
    BY <1>3, Zenon DEF EditPlan
  <2> DEFINE p == [plan[o] EXCEPT !.changes = c]
  <2>2. PlanSound(plan[o])
    BY <2>1 DEF RepairInv
  <2>3. p = [rows |-> plan[o].rows, at |-> plan[o].at, changes |-> c]
    BY <2>2 DEF PlanSound
  <2>4. PlanSound(p)
    BY <2>2, <2>3 DEF PlanSound
  <2>5. plan' = [i \in Operator |-> IF i = o THEN p ELSE plan[i]]
    BY <2>1 DEF RepairInv
  <2> HIDE DEF p
  <2>6. PlansSound
    BY <2>4, <2>5 DEF RepairInv
  <2> QED
    BY <2>1, <2>6 DEF RepairInv
<1>4. ASSUME NEW o \in Operator, Apply(o) PROVE RepairInv'
  <2>1. plan[o] # NoPlan /\ table' = Outcome(plan[o]).table /\ UNCHANGED <<migrated, plan, clock>>
    BY <1>4 DEF Apply
  <2>2. CASE table' = table
    BY <1>1, <2>1, <2>2 DEF RepairInv
  <2>3. CASE Applies(plan[o]) /\ table' = ResultOf(plan[o])
    <3>1. \A u \in DOMAIN table : ResultOf(plan[o])[u] \in DefinitionRow
      BY <2>1, <2>3, AppliedFacts DEF RowAfter
    <3>2. DOMAIN table' = 1 .. Len(table) /\ Len(table) \in Nat /\ table' = [u \in 1 .. Len(table) |-> table'[u]]
      BY <2>3 DEF RepairInv, ResultOf
    <3>3. table' \in Seq(DefinitionRow)
      BY <2>3, <3>1, <3>2, SeqDef DEF RepairInv
    <3>4. Duplicated(table') = {}
      BY <2>3 DEF Applies
    <3> QED
      BY <1>1, <2>1, <3>3, <3>4 DEF RepairInv, Duplicated
  <2> QED
    BY <2>1, <2>2, <2>3, OutcomeFacts
<1>5. ASSUME NEW u \in Uuid, NEW row \in LegacyRow, RegisterOld(u, row) PROVE RepairInv'
  <2> DEFINE N == Len(table)
  <2>1. table \in Seq(DefinitionRow) /\ N \in Nat /\ DOMAIN table = 1 .. N /\ row \in DefinitionRow
    BY RepairTypes DEF RepairInv
  <2>2. u = N + 1
    <3>1. Cardinality(1 .. N) = N
      BY <2>1, FS_Interval
    <3> QED
      BY <1>5, <2>1, <3>1 DEF RegisterOld
  <2>3. /\ table' = [v \in DOMAIN table \cup {u} |-> IF v = u THEN row ELSE table[v]] /\ UNCHANGED <<migrated, plan, clock>>
        /\ migrated => \A v \in DOMAIN table : table[v].key = row.key => table[v].version # row.version
    BY <1>5 DEF RegisterOld
  <2>4. DOMAIN table \cup {u} = 1 .. N + 1
    BY <2>1, <2>2
  <2>5. table' = [v \in 1 .. N + 1 |-> IF v = N + 1 THEN row ELSE table[v]]
    BY <2>2, <2>3, <2>4
  <2>6. \A v \in 1 .. N + 1 : v # N + 1 => v \in 1 .. N /\ table[v] \in DefinitionRow
    BY <2>1
  <2>7. table' \in Seq(DefinitionRow)
    BY <2>1, <2>5, <2>6, SeqDef
  <2>8. ASSUME migrated PROVE Duplicated(table') = {}
    <3>1. SUFFICES ASSUME NEW v \in 1 .. N + 1, NEW w \in 1 .. N + 1, Same(table'[v], table'[w]) PROVE v = w
      <4>1. DOMAIN table' = 1 .. N + 1
        BY <2>5
      <4>2. \A v \in 1 .. N + 1 : Group(table', v) = {v}
        BY <3>1, <4>1 DEF Group, Same
      <4> QED
        BY <4>1, <4>2 DEF Duplicated
    <3>2. \A a, b \in DOMAIN table : Same(table[a], table[b]) => a = b
      BY <2>8 DEF RepairInv, Duplicated, Group
    <3>3. \A a \in DOMAIN table : ~ Same(table[a], row) /\ ~ Same(row, table[a])
      BY <2>3, <2>8 DEF Same
    <3> QED
      BY <2>1, <2>5, <2>6, <3>1, <3>2, <3>3
  <2> QED
    BY <1>1, <2>3, <2>7, <2>8 DEF RepairInv
<1>6. ASSUME NEW u \in Uuid, Deactivate(u) PROVE RepairInv'
  <2>1. u \in DOMAIN table /\ table' = [table EXCEPT ![u].active = FALSE] /\ UNCHANGED <<migrated, plan, clock>>
    BY <1>6 DEF Deactivate
  <2> DEFINE row == [table[u] EXCEPT !.active = FALSE]
  <2>2. table[u] \in DefinitionRow
    BY <2>1 DEF RepairInv
  <2>3. row \in DefinitionRow /\ row.key = table[u].key /\ row.version = table[u].version
    BY <2>2 DEF DefinitionRow
  <2>4. table' = [table EXCEPT ![u] = row]
    BY <2>1
  <2> HIDE DEF row
  <2>5. table' \in Seq(DefinitionRow)
    <3>1. table \in Seq(DefinitionRow) /\ u \in 1 .. Len(table)
      BY <2>1 DEF RepairInv
    <3> QED
      BY <2>3, <2>4, <3>1, ExceptSeq
  <2>6. DOMAIN table' = DOMAIN table /\ \A v \in DOMAIN table : table'[v].key = table[v].key /\ table'[v].version = table[v].version
    BY <2>1, <2>3, <2>4 DEF RepairInv
  <2>7. Duplicated(table') = Duplicated(table)
    BY <2>6, SameDuplicates
  <2>8. migrated' => Duplicated(table') = {}
    BY <2>1, <2>7 DEF RepairInv
  <2> QED
    BY <1>1, <2>1, <2>5, <2>8 DEF RepairInv, Duplicated
<1>7. CASE Migrate
  BY <1>1, <1>7 DEF Migrate, RepairInv
<1>8. CASE Tick
  BY <1>1, <1>8 DEF Tick, RepairInv
<1>9. CASE UNCHANGED repairVars
  BY <1>1, <1>9 DEF repairVars, RepairInv
<1> QED
  BY <1>2, <1>3, <1>4, <1>5, <1>6, <1>7, <1>8, <1>9 DEF RepairNext

\* The inductive invariant of the repair, for any tables, writers, operators and
\* number of plans.
THEOREM RepairHolds == RepairSpec => []RepairInv
BY RepairInitial, RepairStep, PTL DEF RepairSpec

-----------------------------------------------------------------------------
(* What RepairIsExact says of an apply.                                    *)
DefaultKept(t, n, u) ==
    LET every == {w.version : w \in {t[v] : v \in DOMAIN t} \cup {n[v] : v \in DOMAIN n}}
    IN  Selectable(n, t[u].key, every) = Selectable(t, t[u].key, every)
RowExact(t, n, u) ==
    /\ [n[u] EXCEPT !.version = 0, !.stated = 0] = [t[u] EXCEPT !.version = 0, !.stated = 0]
    /\ n[u].version # t[u].version =>
          /\ \A v \in DOMAIN t : t[v].key = t[u].key => Below(t[v].version, n[u].version)
          /\ NumberAnswered(t, n, u)
          /\ DefaultKept(t, n, u)

\* Each row of the table, by the facts above.
LEMMA RowsAreExact ==
    ASSUME RepairInv, NEW o \in Operator, Apply(o), NEW u \in DOMAIN table
    PROVE  RowExact(table, table', u)
<1>1. plan[o] # NoPlan /\ table' = Outcome(plan[o]).table
  BY DEF Apply
<1>2. CASE table' = table
  BY <1>2 DEF RowExact
<1>3. CASE Applies(plan[o]) /\ table' = ResultOf(plan[o])
  <2> DEFINE p == plan[o]
             n == ResultOf(p)
  <2>1. \A v \in DOMAIN table : RowAfter(p, v)
    BY <1>1, <1>3, AppliedFacts
  <2>2. [n[u] EXCEPT !.version = 0, !.stated = 0] = [table[u] EXCEPT !.version = 0, !.stated = 0]
    BY <2>1, Zenon DEF RowAfter
  <2>3. n[u].version # table[u].version => u \in DOMAIN p.changes
    BY <2>1, Zenon DEF RowAfter
  <2>4. u \in DOMAIN p.changes => \A v \in DOMAIN table : table[v].key = table[u].key => Below(table[v].version, n[u].version)
    BY <2>1, Zenon DEF RowAfter
  <2>5. u \in DOMAIN p.changes => NumberAnswered(table, n, u)
    BY <1>1, <1>3, NumbersAreAnswered
  <2>6. DefaultKept(table, n, u)
    <3>1. \A v \in DOMAIN table : /\ n[v].key = table[v].key /\ n[v].index = table[v].index
                                  /\ n[v].active = table[v].active /\ n[v].from = table[v].from /\ n[v].until = table[v].until
      BY <2>1, Zenon DEF RowAfter
    <3>2. DOMAIN n = DOMAIN table
      BY DEF ResultOf
    <3> HIDE DEF n, p
    <3>3. DefaultStays(table, n, table[u].key)
      BY <3>1, <3>2, DefaultsStay DEF Eligible
    <3> DEFINE every == {w.version : w \in {table[v] : v \in DOMAIN table} \cup {n[v] : v \in DOMAIN n}}
    <3>4. {w.version : w \in {table[v] : v \in DOMAIN table}} \cup {w.version : w \in {n[v] : v \in DOMAIN n}} \subseteq every
      OBVIOUS
    <3>5. Selectable(n, table[u].key, every) = Selectable(table, table[u].key, every)
      <4> HIDE DEF every
      <4> QED
        BY <3>3, <3>4 DEF DefaultStays
    <3> QED
      BY <3>5, Zenon DEF DefaultKept
  <2>7. RowExact(table, n, u)
    <3> HIDE DEF n, p
    <3> QED
      BY <2>2, <2>3, <2>4, <2>5, <2>6 DEF RowExact
  <2> QED
    BY <1>3, <2>7
<1> QED
  BY <1>1, <1>2, <1>3, OutcomeFacts

\* Once the migration's constraint holds, nothing is left to repair.
LEMMA MigratedIsDone ==
    ASSUME RepairInv, NEW o \in Operator, Apply(o), migrated
    PROVE  table' = table
<1> DEFINE p == plan[o]
<1>1. plan[o] # NoPlan /\ table' = Outcome(p).table
  BY DEF Apply
<1>2. ASSUME Applies(p) PROVE FALSE
  <2>1. /\ Rows(p.rows) /\ DOMAIN p.rows \subseteq DOMAIN table /\ \A u \in DOMAIN p.rows : p.rows[u] = table[u]
        /\ DOMAIN p.changes = Moved(p.rows, clock) /\ p.rows = CurrentOf(p)
    BY <1>1, <1>2, AppliedFacts DEF Applies
  <2>2. \A a, b \in DOMAIN table : Same(table[a], table[b]) => a = b
    BY DEF RepairInv, Duplicated, Group
  <2>3. \A u \in DOMAIN p.rows : Group(p.rows, u) = {u}
    BY <2>1, <2>2 DEF Group, Same
  <2>4. DOMAIN p.changes = {}
    BY <2>1, <2>3 DEF Moved, Duplicated
  <2>5. ExpectedOf(p) = [u \in DOMAIN p.rows |-> p.rows[u]]
    BY <2>4 DEF ExpectedOf, Repaired
  <2>6. p.rows = [u \in DOMAIN p.rows |-> p.rows[u]]
    <3>1. CurrentOf(p) = [u \in DOMAIN CurrentOf(p) |-> CurrentOf(p)[u]]
      BY DEF CurrentOf
    <3> HIDE DEF p
    <3> QED
      BY <2>1, <3>1
  <2> QED
    BY <1>2, <2>1, <2>5, <2>6 DEF Applies
<1> QED
  BY <1>1, <1>2, OutcomeFacts

\* A repair is exact (apply_legacy_version_plan, assignments): whatever was
\* written, planned, edited or applied before, an apply that reports success
\* leaves no duplicate; one that writes changes versions only, to numbers above
\* all its key has used; and it disturbs no start, by default or by number.
THEOREM RepairsAreExact == RepairSpec => RepairIsExact
<1>1. RepairInv /\ [RepairNext]_repairVars =>
        [\A o \in Operator : Apply(o) =>
            /\ Outcome(plan[o]).is # "refused" => Duplicated(table') = {}
            /\ ~ migrated \/ table' = table
            /\ \A u \in DOMAIN table : RowExact(table, table', u)]_repairVars
  <2> SUFFICES ASSUME RepairInv, NEW o \in Operator, Apply(o)
               PROVE  /\ Outcome(plan[o]).is # "refused" => Duplicated(table') = {}
                      /\ ~ migrated \/ table' = table
                      /\ \A u \in DOMAIN table : RowExact(table, table', u)
    OBVIOUS
  <2>1. table' = Outcome(plan[o]).table
    BY DEF Apply
  <2>2. Outcome(plan[o]).is # "refused" => Duplicated(table') = {}
    BY <2>1, OutcomeFacts DEF Applies
  <2> QED
    BY <2>2, RowsAreExact, MigratedIsDone
<1>2. RepairInv /\ [RepairNext]_repairVars =>
        [\A o \in Operator : Apply(o) =>
          /\ Outcome(plan[o]).is # "refused" => Duplicated(table') = {}
          /\ ~ migrated \/ table' = table
          /\ \A u \in DOMAIN table :
                /\ [table'[u] EXCEPT !.version = 0, !.stated = 0] = [table[u] EXCEPT !.version = 0, !.stated = 0]
                /\ table'[u].version # table[u].version =>
                      /\ \A v \in DOMAIN table : table[v].key = table[u].key => Below(table[v].version, table'[u].version)
                      /\ LET before == Selectable(table, table[u].key, {table[u].version})
                             after  == Selectable(table', table[u].key, {table[u].version})
                         IN  after \subseteq before /\ (after = {} => before = {})
                      /\ LET every == {t.version : t \in {table[v] : v \in DOMAIN table} \cup {table'[v] : v \in DOMAIN table'}}
                         IN  Selectable(table', table[u].key, every) = Selectable(table, table[u].key, every)]_repairVars
  BY <1>1, Zenon DEF RowExact, NumberAnswered, DefaultKept
<1> QED
  BY <1>2, RepairHolds, PTL DEF RepairSpec, RepairIsExact
===============================================================================
