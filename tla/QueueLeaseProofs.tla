---------------------------- MODULE QueueLeaseProofs ---------------------------
(***************************************************************************)
(* Proofs for QueueLease: for any number of tasks and claims, any lease    *)
(* and any clock, however late a renewal or a commit lands.                *)
(***************************************************************************)
EXTENDS QueueLease, TLAPS

-----------------------------------------------------------------------------
(* The inductive invariant.                                                *)
Owns(c) ==
    /\ claim[c].task \in Task
    /\ row[claim[c].task].present /\ row[claim[c].task].key = c
    /\ claim[c].deadline <= row[claim[c].task].until

\* A claim whose attempt runs, may still start, or has a commit under way.
Live(c) ==
    \/ claim[c].pc = "claimed" /\ now < claim[c].deadline
    \/ claim[c].pc = "running"
    \/ claim[c].commit # "none"

Locks(c) == claim[c].renewal = "updated" \/ claim[c].commit # "none"

Sound(c) ==
    \* An attempt that runs, or may still start, owns its row.
    /\ claim[c].pc = "running" => now <= claim[c].deadline /\ Owns(c)
    /\ claim[c].pc = "claimed" /\ now < claim[c].deadline => Owns(c)
    \* A lock on a row is held by the claim whose key the row has.
    /\ Locks(c) => /\ claim[c].task \in Task
                   /\ row[claim[c].task].present /\ row[claim[c].task].key = c
    \* What an attempt has under way, and what can outlive it.
    /\ claim[c].pc \in {"idle", "fetching", "claimed"} => claim[c].renewal = "none" /\ claim[c].commit = "none"
    /\ claim[c].pc = "gone" => claim[c].renewal \in {"none", "updated"}
    /\ claim[c].commit = "locked" => claim[c].pc = "running"
    \* Deadlines are counted from before the statement that sets the expiry.
    /\ claim[c].pc \in {"fetching", "claimed", "running"} => claim[c].deadline <= now + Lease
    /\ claim[c].pc = "running" /\ claim[c].renewal \in {"asked", "updated", "renewed"} =>
          claim[c].started <= now /\ claim[c].deadline <= claim[c].started + Lease
    /\ claim[c].pc = "running" /\ claim[c].renewal = "updated" =>
          claim[c].started + Lease <= claim[c].until
    /\ claim[c].pc = "running" /\ claim[c].renewal = "renewed" =>
          claim[c].started + Lease <= row[claim[c].task].until

OneLives == \A c, d \in Claim : Live(c) /\ Live(d) => c = d

LeaseInv ==
    /\ LeaseTypeOK
    /\ \A c \in Claim : Sound(c)
    /\ OneLives
    /\ admin.pc = "matched" => admin.start <= now
-----------------------------------------------------------------------------
(* Facts about the invariant.                                              *)
\* The types of a claim and of a row, field by field.
LEMMA Fields ==
    ASSUME LeaseTypeOK
    PROVE  /\ now \in Nat /\ now <= MaxTime /\ Lease \in Nat /\ MaxTime \in Nat /\ claim \in [Claim -> ClaimState]
           /\ \A c \in Claim : /\ claim[c].task \in Task \cup {NoTask}
                               /\ claim[c].deadline \in Nat /\ claim[c].started \in Nat /\ claim[c].until \in Nat
           /\ \A t \in Task : row[t] \in RowState /\ row[t].until \in Nat
  BY LeaseTypes DEF LeaseTypeOK, ClaimState, RowState, Time

\* A live claim, other than one whose commit outlives it, has an unexpired row.
LEMMA LiveIsActive ==
    ASSUME LeaseInv, NEW c \in Claim, Live(c), ~ InstanceLocked
    PROVE  claim[c].task \in Task /\ Active(claim[c].task)
<1>1. Sound(c) /\ claim[c].commit = "none"
  BY DEF LeaseInv, InstanceLocked
<1>2. Owns(c) /\ now <= claim[c].deadline
  BY <1>1, Fields DEF LeaseInv, Live, Sound
<1>. QED BY <1>2, Fields, LeaseTypes DEF Owns, Active, LeaseInv

\* The only claim that may lock a row is the one whose key it has.
LEMMA LockersOwn ==
    ASSUME LeaseInv, NEW t \in Task, RowLocked(t)
    PROVE  row[t].present /\ \E c \in Claim : row[t].key = c /\ claim[c].task = t
  BY DEF LeaseInv, RowLocked, Sound, Locks

\* A claim stays sound while it and its row stay; a row that another claim or
\* nobody has a key to, or that has expired unlocked, is not its row.
LEMMA OthersStaySound ==
    ASSUME LeaseInv, NEW d \in Claim, claim'[d] = claim[d], now' = now,
           \A t \in Task : \/ row'[t] = row[t]
                           \/ row[t].key # d
                           \/ row[t].until < now /\ ~ RowLocked(t)
    PROVE  Sound(d)'
<1>1. Sound(d)
  BY DEF LeaseInv
<1>. DEFINE t == claim[d].task
<1>2. CASE t \in Task /\ row'[t] # row[t] /\ row[t].key = d
  <2>1. row[t].until < now /\ ~ RowLocked(t)
    BY <1>2
  <2>2. ~ Owns(d) \/ claim[d].deadline < now
    BY <2>1, <1>2, Fields DEF Owns, LeaseInv
  <2>3. claim[d].pc # "running" /\ ~ (claim[d].pc = "claimed" /\ now < claim[d].deadline)
    BY <1>1, <2>2, Fields DEF Sound, LeaseInv
  <2>4. ~ Locks(d)
    BY <2>1 DEF Locks, RowLocked
  <2>. QED BY <1>1, <2>3, <2>4 DEF Sound, Locks
<1>3. CASE t \in Task /\ row'[t] # row[t] /\ row[t].key # d
  BY <1>1, <1>3 DEF Sound, Locks, Owns
<1>4. CASE t \notin Task
  BY <1>1, <1>4 DEF Sound, Locks, Owns
<1>5. CASE t \in Task /\ row'[t] = row[t]
  BY <1>1, <1>5 DEF Sound, Locks, Owns
<1>. QED BY <1>2, <1>3, <1>4, <1>5

\* A step of one claim that changes no row.
LEMMA ClaimStep ==
    ASSUME LeaseInv, NEW c \in Claim, NEW s \in ClaimState,
           claim' = [claim EXCEPT ![c] = s], UNCHANGED <<now, row, incident, admin>>,
           Sound(c)', Live(c)' => Live(c)
    PROVE  LeaseInv'
<1>1. LeaseTypeOK'
  BY DEF LeaseInv, LeaseTypeOK, Time
<1>2. claim'[c] = s /\ \A d \in Claim \ {c} : claim'[d] = claim[d]
  BY DEF LeaseInv, LeaseTypeOK
<1>3. \A d \in Claim : Sound(d)'
  BY <1>2, OthersStaySound
<1>4. \A d \in Claim : Live(d)' => Live(d)
  BY <1>2 DEF Live
<1>5. OneLives'
  BY <1>4 DEF LeaseInv, OneLives
<1>. QED BY <1>1, <1>3, <1>5 DEF LeaseInv

-----------------------------------------------------------------------------
\* The initial states satisfy the invariant: nothing is claimed.
LEMMA LeaseInit == Init => LeaseInv
<1>. SUFFICES ASSUME Init PROVE LeaseInv
  OBVIOUS
<1>1. IdleClaim \in ClaimState /\ IdleAdmin \in AdminState /\ 0 \in Time /\ 0 \in 0 .. MaxTime
  BY LeaseTypes DEF IdleClaim, ClaimState, IdleAdmin, AdminState, Time
<1>2. LeaseTypeOK
  BY <1>1 DEF Init, LeaseTypeOK, RowState
<1>3. \A c \in Claim : Sound(c) /\ ~ Live(c)
  BY DEF Init, IdleClaim, Sound, Locks, Live
<1>. QED BY <1>2, <1>3 DEF Init, LeaseInv, OneLives, IdleAdmin

\* What outlives an attempt is well typed, and keeps only its locks.
LEMMA RemainsOf ==
    ASSUME NEW k \in ClaimState
    PROVE  /\ Remains(k) \in ClaimState /\ Remains(k).pc = "gone"
           /\ Remains(k).renewal = IF k.renewal = "updated" THEN "updated" ELSE "none"
           /\ Remains(k).commit = IF k.commit = "checked" THEN "checked" ELSE "none"
           /\ Remains(k).renewal = "updated" \/ Remains(k).commit = "checked" => Remains(k).task = k.task
<1>. DEFINE task == IF k.renewal = "updated" \/ k.commit = "checked" THEN k.task ELSE NoTask
            renewal == IF k.renewal = "updated" THEN "updated" ELSE "none"
            until == IF k.renewal = "updated" THEN k.until ELSE 0
            commit == IF k.commit = "checked" THEN "checked" ELSE "none"
<1>1. Remains(k) = [IdleClaim EXCEPT !.pc = "gone", !.task = task, !.renewal = renewal,
                                     !.until = until, !.commit = commit]
  BY DEF Remains
<1>2. /\ task \in Task \cup {NoTask} /\ renewal \in {"none", "updated"} /\ until \in Time
      /\ commit \in {"none", "checked"} /\ IdleClaim \in ClaimState
  BY LeaseTypes DEF ClaimState, Time, IdleClaim
<1>. HIDE DEF task, renewal, until, commit
<1>3. Remains(k) \in ClaimState
  BY <1>1, <1>2 DEF ClaimState
<1>4. /\ Remains(k).pc = "gone" /\ Remains(k).task = task
      /\ Remains(k).renewal = renewal /\ Remains(k).commit = commit
  BY <1>1, <1>2 DEF ClaimState
<1>. QED BY <1>3, <1>4 DEF task, renewal, commit

\* Dropping an attempt, or rolling back what it left, keeps the invariant.
LEMMA RemainsStep ==
    ASSUME LeaseInv, NEW c \in Claim, NEW k \in ClaimState,
           k.task = claim[c].task, k.renewal \in {claim[c].renewal, "none"}, k.commit \in {claim[c].commit, "none"},
           claim' = [claim EXCEPT ![c] = Remains(k)], UNCHANGED <<now, row, incident, admin>>
    PROVE  LeaseInv'
<1>1. claim'[c] = Remains(k)
  BY DEF LeaseInv, LeaseTypeOK
<1>2. Sound(c)
  BY DEF LeaseInv
<1>3. Sound(c)'
  BY <1>1, <1>2, RemainsOf DEF Sound, Locks
<1>4. Live(c)' => Live(c)
  BY <1>1, RemainsOf DEF Live
<1>. QED BY <1>3, <1>4, RemainsOf, ClaimStep
\* The steps of an attempt, its heartbeat and its commit that change no row.
LEMMA AttemptPreserves ==
    ASSUME LeaseInv, NEW c \in Claim,
           \/ BeginFetch(c) \/ StartAttempt(c) \/ Drop(c) \/ AskRenewal(c) \/ UpdateRenewal(c)
           \/ RollbackRenewal(c) \/ AnswerRenewal(c) \/ LockCommit(c) \/ CheckCommit(c) \/ RollbackCommit(c)
    PROVE  LeaseInv'
<1>0. /\ Sound(c) /\ claim \in [Claim -> ClaimState] /\ claim[c] \in ClaimState
      /\ now \in Nat /\ Lease \in Nat \ {0} /\ now \in Time /\ now + Lease \in Time
      /\ claim[c].deadline \in Nat /\ claim[c].started \in Time /\ claim[c].started \in Nat
      /\ claim[c].until \in Nat /\ claim[c].until \in Time
  BY LeaseTypes, Fields DEF LeaseInv, LeaseTypeOK, ClaimState, Time
<1>1. CASE BeginFetch(c)
  <2>. DEFINE n == now + Lease
              s == [claim[c] EXCEPT !.pc = "fetching", !.deadline = n]
  <2>1. n \in Time /\ n \in Nat
    BY <1>0
  <2>2. claim' = [claim EXCEPT ![c] = s]
    BY <1>0, <1>1 DEF BeginFetch
  <2>. HIDE DEF n
  <2>3. s \in ClaimState /\ s.pc = "fetching" /\ s.deadline = n
        /\ s.renewal = claim[c].renewal /\ s.commit = claim[c].commit
    BY <1>0, <2>1 DEF ClaimState
  <2>4. claim[c].renewal = "none" /\ claim[c].commit = "none"
    BY <1>0, <1>1 DEF BeginFetch, Sound
  <2>5. claim'[c] = s /\ now' = now
    BY <1>0, <1>1, <2>2 DEF BeginFetch
  <2>. HIDE DEF s
  <2>6. Sound(c)' /\ ~ Live(c)'
    BY <1>0, <2>1, <2>3, <2>4, <2>5 DEF Sound, Live, Locks, n
  <2>. QED BY <1>1, <2>2, <2>3, <2>6, ClaimStep DEF BeginFetch
<1>2. CASE StartAttempt(c) /\ now < claim[c].deadline
  <2>. DEFINE s == [claim[c] EXCEPT !.pc = "running"]
  <2>1. claim' = [claim EXCEPT ![c] = s] /\ claim[c].pc = "claimed" /\ UNCHANGED <<now, row, incident, admin>>
    BY <1>0, <1>2 DEF StartAttempt
  <2>2. s \in ClaimState
    BY <1>0 DEF ClaimState
  <2>3. Sound(c)'
    BY <1>0, <1>2, <2>1 DEF Sound, Locks, Owns
  <2>4. Live(c)
    BY <1>2, <2>1 DEF Live
  <2>. QED BY <2>1, <2>2, <2>3, <2>4, ClaimStep
<1>3. CASE StartAttempt(c) /\ ~ now < claim[c].deadline
  BY <1>0, <1>3, RemainsStep DEF StartAttempt
<1>4. CASE Drop(c)
  BY <1>0, <1>4, RemainsStep DEF Drop
<1>5. CASE AskRenewal(c)
  <2>. DEFINE s == [claim[c] EXCEPT !.renewal = "asked", !.started = now]
  <2>1. claim' = [claim EXCEPT ![c] = s] /\ claim[c].pc = "running" /\ claim[c].renewal = "none"
        /\ UNCHANGED <<now, row, incident, admin>>
    BY <1>0, <1>5 DEF AskRenewal
  <2>2. s \in ClaimState
    BY <1>0 DEF ClaimState
  <2>3. Sound(c)'
    BY <1>0, <2>1 DEF Sound, Locks, Owns
  <2>4. Live(c)
    BY <2>1 DEF Live
  <2>. QED BY <2>1, <2>2, <2>3, <2>4, ClaimStep
<1>6. CASE UpdateRenewal(c)
  <2>1. claim[c].renewal = "asked" /\ UNCHANGED <<now, row, incident, admin>>
    BY <1>6 DEF UpdateRenewal
  <2>2. claim[c].pc = "running" /\ Live(c)
    BY <1>0, <2>1 DEF Sound, Live, ClaimState
  <2>3. ASSUME claim' = [claim EXCEPT ![c].renewal = "lost"] PROVE LeaseInv'
    <3>. DEFINE s == [claim[c] EXCEPT !.renewal = "lost"]
    <3>1. claim' = [claim EXCEPT ![c] = s] /\ s \in ClaimState
      BY <1>0, <2>3 DEF ClaimState
    <3>2. Sound(c)'
      BY <1>0, <2>1, <2>2, <3>1 DEF Sound, Locks, Owns
    <3>. QED BY <2>1, <2>2, <3>1, <3>2, ClaimStep
  <2>4. ASSUME claim' = [claim EXCEPT ![c].renewal = "updated", ![c].until = now + Lease],
               row[claim[c].task].present, row[claim[c].task].key = c
        PROVE  LeaseInv'
    <3>. DEFINE n == now + Lease
                s == [claim[c] EXCEPT !.renewal = "updated", !.until = n]
    <3>1. claim' = [claim EXCEPT ![c] = s]
      BY <1>0, <2>4
    <3>2. n \in Time /\ n = now + Lease
      BY <1>0
    <3>. HIDE DEF n
    <3>3. s \in ClaimState
      BY <1>0, <3>2 DEF ClaimState
    <3>4. Sound(c)'
      BY <1>0, <2>1, <2>2, <2>4, <3>1, <3>2 DEF Sound, Locks, Owns
    <3>. QED BY <2>1, <2>2, <3>1, <3>3, <3>4, ClaimStep
  <2>. QED BY <1>6, <2>3, <2>4 DEF UpdateRenewal
<1>7. CASE RollbackRenewal(c)
  <2>. DEFINE k == [claim[c] EXCEPT !.renewal = "none"]
  <2>1. k \in ClaimState /\ k.task = claim[c].task /\ k.renewal = "none" /\ k.commit = claim[c].commit
    BY <1>0 DEF ClaimState
  <2>. QED BY <1>7, <2>1, RemainsStep DEF RollbackRenewal
<1>8. CASE AnswerRenewal(c) /\ claim[c].renewal = "lost"
  BY <1>0, <1>8, RemainsStep DEF AnswerRenewal
<1>9. CASE AnswerRenewal(c) /\ claim[c].renewal # "lost"
  <2>. DEFINE n == claim[c].started + Lease
              s == [claim[c] EXCEPT !.renewal = "none", !.started = 0, !.deadline = n]
  <2>1. claim' = [claim EXCEPT ![c] = s] /\ claim[c].pc = "running" /\ claim[c].renewal = "renewed"
        /\ UNCHANGED <<now, row, incident, admin>>
    BY <1>0, <1>9 DEF AnswerRenewal
  <2>2. n = claim[c].started + Lease /\ claim[c].deadline <= n /\ n <= now + Lease
        /\ n <= row[claim[c].task].until
    BY <1>0, <2>1 DEF Sound
  <2>3. n \in Time /\ n \in Nat
    BY <1>0, <2>2, LeaseTypes DEF Time
  <2>. HIDE DEF n
  <2>4. 0 \in Time
    BY LeaseTypes DEF Time
  <2>5. s \in ClaimState
    BY <1>0, <2>3, <2>4 DEF ClaimState
  <2>6. s.pc = "running" /\ s.deadline = n /\ s.renewal = "none" /\ s.commit = claim[c].commit /\ s.task = claim[c].task
    BY <1>0, <2>1, <2>3 DEF ClaimState
  <2>7. claim'[c] = s
    BY <1>0, <2>1
  <2>. HIDE DEF s
  <2>8. Owns(c) /\ now <= claim[c].deadline
    BY <1>0, <2>1 DEF Sound
  <2>9. Owns(c)' /\ now' <= claim'[c].deadline
    BY <1>0, <2>1, <2>2, <2>3, <2>6, <2>7, <2>8 DEF Owns
  <2>10. Sound(c)'
    BY <1>0, <2>1, <2>2, <2>6, <2>7, <2>8, <2>9 DEF Sound, Locks, Owns
  <2>11. Live(c)
    BY <2>1 DEF Live
  <2>. QED BY <2>1, <2>5, <2>10, <2>11, ClaimStep
<1>10. CASE LockCommit(c)
  <2>. DEFINE s == [claim[c] EXCEPT !.commit = "locked"]
  <2>1. claim' = [claim EXCEPT ![c] = s] /\ claim[c].pc = "running" /\ UNCHANGED <<now, row, incident, admin>>
    BY <1>0, <1>10 DEF LockCommit
  <2>2. s \in ClaimState
    BY <1>0 DEF ClaimState
  <2>3. Sound(c)'
    BY <1>0, <2>1 DEF Sound, Locks, Owns
  <2>4. Live(c)
    BY <2>1 DEF Live
  <2>. QED BY <2>1, <2>2, <2>3, <2>4, ClaimStep
<1>11. CASE CheckCommit(c)
  <2>. DEFINE v == IF row[claim[c].task].until > now THEN "checked" ELSE "none"
              s == [claim[c] EXCEPT !.commit = v]
  <2>1. claim' = [claim EXCEPT ![c] = s] /\ claim[c].commit = "locked" /\ UNCHANGED <<now, row, incident, admin>>
    BY <1>0, <1>11 DEF CheckCommit
  <2>2. v \in {"none", "checked"} /\ claim[c].pc = "running" /\ Live(c)
    BY <1>0, <2>1 DEF Sound, Live
  <2>. HIDE DEF v
  <2>3. s \in ClaimState
    BY <1>0, <2>2 DEF ClaimState
  <2>4. Sound(c)'
    BY <1>0, <2>1, <2>2 DEF Sound, Locks, Owns
  <2>. QED BY <2>1, <2>2, <2>3, <2>4, ClaimStep
<1>12. CASE RollbackCommit(c)
  <2>. DEFINE k == [claim[c] EXCEPT !.commit = "none"]
  <2>1. k \in ClaimState /\ k.task = claim[c].task /\ k.renewal = claim[c].renewal /\ k.commit = "none"
    BY <1>0 DEF ClaimState
  <2>. QED BY <1>12, <2>1, RemainsStep DEF RollbackCommit
<1>. QED BY <1>1, <1>2, <1>3, <1>4, <1>5, <1>6, <1>7, <1>8, <1>9, <1>10, <1>11, <1>12
\* The dequeue: no row of the instance has a live lease, so nothing is live.
LEMMA FetchPreserves ==
    ASSUME LeaseInv, NEW c \in Claim, NEW t \in Task, FetchTask(c, t)
    PROVE  LeaseInv'
<1>0. /\ Sound(c) /\ claim \in [Claim -> ClaimState] /\ claim[c] \in ClaimState
      /\ row \in [Task -> RowState] /\ row[t] \in RowState
      /\ now \in Nat /\ Lease \in Nat \ {0} /\ now \in Time /\ now + Lease \in Time
      /\ claim[c].deadline \in Nat
  BY LeaseTypes, Fields DEF LeaseInv, LeaseTypeOK, ClaimState, Time
<1>. DEFINE n == now + Lease
            s == [claim[c] EXCEPT !.pc = "claimed", !.task = t]
            q == [row[t] EXCEPT !.key = c, !.until = n]
<1>1. /\ claim' = [claim EXCEPT ![c] = s] /\ row' = [row EXCEPT ![t] = q]
      /\ UNCHANGED <<now, incident, admin>>
      /\ claim[c].pc = "fetching" /\ ~ InstanceLocked /\ Free(t) /\ ~ RowLocked(t)
      /\ \A u \in Task : ~ Active(u)
  BY <1>0 DEF FetchTask
<1>2. n \in Time /\ n = now + Lease
  BY <1>0
<1>. HIDE DEF n
<1>3. s \in ClaimState /\ q \in RowState
  BY <1>0, <1>2 DEF ClaimState, RowState
<1>4. LeaseTypeOK'
  BY <1>1, <1>3 DEF LeaseInv, LeaseTypeOK, Time
<1>5. s.pc = "claimed" /\ s.task = t /\ s.renewal = claim[c].renewal /\ s.commit = claim[c].commit
      /\ s.deadline = claim[c].deadline
  BY <1>0 DEF ClaimState
<1>6. q.present /\ q.key = c /\ q.until = n
  BY <1>0, <1>1, <1>2 DEF RowState, Free
<1>7. claim'[c] = s /\ row'[t] = q
  BY <1>0, <1>1
<1>. HIDE DEF s, q
<1>8. Sound(c)'
  BY <1>0, <1>1, <1>2, <1>5, <1>6, <1>7 DEF Sound, Locks, Owns
<1>9. ASSUME NEW d \in Claim, d # c PROVE Sound(d)' /\ ~ Live(d)'
  <2>1. claim'[d] = claim[d] /\ \A u \in Task \ {t} : row'[u] = row[u]
    BY <1>0, <1>1, <1>9
  <2>2. row[t].key # d \/ row[t].until < now
    BY <1>1, LeaseTypes DEF Free
  <2>3. Sound(d)'
    BY <1>1, <2>1, <2>2, OthersStaySound
  <2>4. ~ Live(d)
    BY <1>1, LiveIsActive
  <2>. QED BY <1>1, <2>1, <2>3, <2>4 DEF Live
<1>. QED BY <1>1, <1>4, <1>8, <1>9 DEF LeaseInv, OneLives

\* A commit or a renewal takes effect: only the row whose lock it holds changes.
LEMMA EffectPreserves ==
    ASSUME LeaseInv, NEW c \in Claim, CommitRenewal(c) \/ FinishCommit(c)
    PROVE  LeaseInv'
<1>. DEFINE t == claim[c].task
<1>0. /\ Sound(c) /\ claim \in [Claim -> ClaimState] /\ claim[c] \in ClaimState
      /\ row \in [Task -> RowState]
      /\ now \in Nat /\ Lease \in Nat /\ claim[c].deadline \in Nat /\ claim[c].started \in Nat
      /\ claim[c].until \in Time /\ claim[c].until \in Nat /\ 0 \in Time
  BY LeaseTypes, Fields DEF LeaseInv, LeaseTypeOK, ClaimState, Time
<1>1. Locks(c)
  BY DEF CommitRenewal, FinishCommit, Locks
<1>2. t \in Task /\ row[t].present /\ row[t].key = c /\ row[t] \in RowState
  BY <1>0, <1>1 DEF Sound
<1>3. ASSUME NEW s \in ClaimState, NEW q \in RowState,
             claim' = [claim EXCEPT ![c] = s], row' = [row EXCEPT ![t] = q],
             incident' \in Task \cup {NoTask}, UNCHANGED <<now, admin>>,
             Sound(c)', Live(c)' => Live(c)
      PROVE  LeaseInv'
  <2>1. LeaseTypeOK'
    BY <1>3 DEF LeaseInv, LeaseTypeOK, Time
  <2>2. claim'[c] = s /\ \A d \in Claim \ {c} : claim'[d] = claim[d]
    BY <1>0, <1>3
  <2>3. \A u \in Task \ {t} : row'[u] = row[u]
    BY <1>0, <1>3
  <2>4. \A d \in Claim \ {c} : Sound(d)'
    BY <1>2, <1>3, <2>2, <2>3, OthersStaySound
  <2>5. \A d \in Claim : Live(d)' => Live(d)
    BY <1>3, <2>2 DEF Live
  <2>. QED BY <1>3, <2>1, <2>4, <2>5 DEF LeaseInv, OneLives
<1>4. CASE CommitRenewal(c)
  <2>. DEFINE q == [row[t] EXCEPT !.until = claim[c].until]
  <2>1. /\ q \in RowState /\ q.present /\ q.key = c /\ q.until = claim[c].until
        /\ row' = [row EXCEPT ![t] = q] /\ claim[c].renewal = "updated" /\ UNCHANGED <<now, incident, admin>>
    BY <1>0, <1>2, <1>4 DEF CommitRenewal, RowState
  <2>2. row'[t] = q
    BY <1>0, <1>2, <2>1
  <2>3. CASE claim[c].pc = "running"
    <3>. DEFINE s == [claim[c] EXCEPT !.renewal = "renewed", !.until = 0]
    <3>1. claim' = [claim EXCEPT ![c] = s]
      BY <1>0, <1>4, <2>3 DEF CommitRenewal
    <3>2. /\ s \in ClaimState /\ s.pc = "running" /\ s.task = t /\ s.renewal = "renewed"
          /\ s.commit = claim[c].commit /\ s.deadline = claim[c].deadline /\ s.started = claim[c].started
      BY <1>0, <2>3 DEF ClaimState
    <3>3. claim'[c] = s
      BY <1>0, <3>1
    <3>4. Owns(c) /\ now <= claim[c].deadline /\ claim[c].deadline <= claim[c].until
      BY <1>0, <2>1, <2>3 DEF Sound
    <3>. HIDE DEF s, q
    <3>5. Sound(c)'
      BY <1>0, <1>2, <2>1, <2>2, <2>3, <3>2, <3>3, <3>4 DEF Sound, Locks, Owns
    <3>6. Live(c)
      BY <2>3 DEF Live
    <3>. QED BY <1>3, <2>1, <3>1, <3>2, <3>5, <3>6 DEF LeaseInv, LeaseTypeOK
  <2>4. CASE claim[c].pc # "running"
    <3>. DEFINE k == [claim[c] EXCEPT !.renewal = "none"]
    <3>1. claim' = [claim EXCEPT ![c] = Remains(k)]
      BY <1>0, <1>4, <2>4 DEF CommitRenewal
    <3>2. k \in ClaimState /\ k.task = t /\ k.renewal = "none" /\ k.commit = claim[c].commit
      BY <1>0 DEF ClaimState
    <3>. HIDE DEF k, q
    <3>3. /\ Remains(k) \in ClaimState /\ Remains(k).pc = "gone" /\ Remains(k).renewal = "none"
          /\ Remains(k).commit = (IF claim[c].commit = "checked" THEN "checked" ELSE "none")
          /\ Remains(k).commit = "checked" => Remains(k).task = t
      BY <3>2, RemainsOf
    <3>4. claim'[c] = Remains(k)
      BY <1>0, <3>1
    <3>5. Sound(c)'
      BY <1>0, <1>2, <2>1, <2>2, <3>3, <3>4 DEF Sound, Locks
    <3>6. Live(c)' => Live(c)
      BY <3>3, <3>4 DEF Live
    <3>. QED BY <1>3, <2>1, <3>1, <3>3, <3>5, <3>6 DEF LeaseInv, LeaseTypeOK
  <2>. QED BY <2>3, <2>4
<1>5. CASE FinishCommit(c)
  <2>. DEFINE s == [IdleClaim EXCEPT !.pc = "gone"]
  <2>1. /\ s \in ClaimState /\ s.pc = "gone" /\ s.renewal = "none" /\ s.commit = "none"
        /\ claim' = [claim EXCEPT ![c] = s] /\ UNCHANGED <<now, admin>>
    BY <1>0, <1>5, LeaseTypes DEF FinishCommit, IdleClaim, ClaimState
  <2>2. PICK q \in RowState : row' = [row EXCEPT ![t] = q] /\ incident' \in Task \cup {NoTask}
    <3>1. CASE row' = [row EXCEPT ![t].present = FALSE] /\ UNCHANGED incident
      <4>1. [row[t] EXCEPT !.present = FALSE] \in RowState
        BY <1>2 DEF RowState
      <4>. QED BY <1>0, <3>1, <4>1 DEF LeaseInv, LeaseTypeOK
    <3>2. CASE row' = [row EXCEPT ![t].key = NoClaim] /\ incident' = t
      <4>1. [row[t] EXCEPT !.key = NoClaim] \in RowState
        BY <1>2 DEF RowState
      <4>. QED BY <1>0, <1>2, <3>2, <4>1
    <3>. QED BY <1>5, <3>1, <3>2 DEF FinishCommit
  <2>3. claim'[c] = s
    BY <1>0, <2>1
  <2>4. Sound(c)' /\ ~ Live(c)'
    BY <2>1, <2>3 DEF Sound, Locks, Live
  <2>. QED BY <1>3, <2>1, <2>2, <2>4
<1>. QED BY <1>4, <1>5

\* Cancellation deletes a row nobody has a live lease on, whenever it decided
\* to, and leaves a locked one to its holder.
LEMMA CancelPreserves ==
    ASSUME LeaseInv, (\E t \in Task : CancelTask(t) \/ AwaitCancel(t)) \/ FinishCancel
    PROVE  LeaseInv'
<1>0. /\ row \in [Task -> RowState] /\ now \in Nat /\ now \in Time /\ now + Lease \in Nat
      /\ 0 \in Time /\ admin \in AdminState /\ (admin.pc = "matched" => admin.start <= now)
  BY LeaseTypes, Fields DEF LeaseInv, LeaseTypeOK, Time
<1>1. ASSUME NEW t \in Task, row' = [row EXCEPT ![t].present = FALSE] \/ row' = row,
             row' = row \/ row[t].key = NoClaim \/ row[t].until < now, ~ RowLocked(t),
             UNCHANGED <<now, claim, incident>>, admin' \in AdminState,
             admin'.pc = "matched" => admin'.start <= now'
      PROVE  LeaseInv'
  <2>1. row' \in [Task -> RowState]
    BY <1>0, <1>1 DEF RowState
  <2>2. \A u \in Task \ {t} : row'[u] = row[u]
    BY <1>0, <1>1
  <2>3. \A d \in Claim : Sound(d)'
    BY <1>1, <2>2, OthersStaySound, LeaseTypes
  <2>4. OneLives'
    BY <1>1 DEF LeaseInv, OneLives, Live
  <2>. QED BY <1>1, <2>1, <2>3, <2>4 DEF LeaseInv, LeaseTypeOK, Time
<1>2. ASSUME NEW t \in Task, CancelTask(t) PROVE LeaseInv'
  BY <1>0, <1>1, <1>2 DEF CancelTask, MatchesCancel, Free
<1>3. ASSUME NEW t \in Task, AwaitCancel(t) PROVE LeaseInv'
  <2>1. admin' \in AdminState /\ admin'.start <= now' /\ UNCHANGED <<now, row, claim, incident>>
    BY <1>0, <1>3 DEF AwaitCancel, AdminState
  <2>2. \A d \in Claim : Sound(d)'
    BY <2>1, OthersStaySound
  <2>. QED BY <2>1, <2>2 DEF LeaseInv, LeaseTypeOK, OneLives, Live, Time
<1>4. CASE FinishCancel
  <2>. DEFINE t == admin.task
  <2>1. /\ admin.pc = "matched" /\ ~ RowLocked(t) /\ UNCHANGED <<now, claim, incident>>
        /\ row' = IF row[t].key = NoClaim \/ row[t].until < admin.start
                  THEN [row EXCEPT ![t].present = FALSE] ELSE row
        /\ admin' = IdleAdmin /\ admin' \in AdminState /\ admin'.pc = "idle"
    BY <1>0, <1>4, LeaseTypes DEF FinishCancel, IdleAdmin, AdminState
  <2>2. CASE t \in Task /\ row' # row
    <3>1. row[t].until \in Nat /\ admin.start \in Nat
      BY <1>0, <2>2, Fields DEF AdminState, Time, LeaseInv
    <3>2. row' = [row EXCEPT ![t].present = FALSE] /\ (row[t].key = NoClaim \/ row[t].until < now)
      BY <1>0, <2>1, <2>2, <3>1
    <3>. HIDE DEF t
    <3>. QED BY <1>1, <2>1, <2>2, <3>2
  <2>3. CASE row' = row
    <3>1. \A d \in Claim : Sound(d)'
      BY <2>1, <2>3, OthersStaySound
    <3>. QED BY <2>1, <2>3, <3>1 DEF LeaseInv, LeaseTypeOK, OneLives, Live, Time
  <2>4. CASE t \notin Task
    <3>1. row' = row
      BY <1>0, <2>1, <2>4, Zenon
    <3>. QED BY <2>3, <3>1
  <2>. QED BY <2>2, <2>3, <2>4
<1>. QED BY <1>2, <1>3, <1>4

\* Time passes no deadline of a running attempt, so it takes no lease away
\* that anybody still counts on.
LEMMA TickPreserves == LeaseInv /\ Tick => LeaseInv'
<1>. SUFFICES ASSUME LeaseInv, Tick PROVE LeaseInv'
  OBVIOUS
<1>1. /\ now' = now + 1 /\ now < MaxTime /\ UNCHANGED <<row, claim, incident, admin>>
      /\ \A c \in Claim : claim[c].pc = "running" => now < claim[c].deadline
  BY DEF Tick
<1>2. /\ now \in Nat /\ MaxTime \in Nat /\ Lease \in Nat
      /\ admin \in AdminState /\ admin.start \in Nat
  BY LeaseTypes, Fields DEF LeaseInv, LeaseTypeOK, AdminState, Time
<1>3. LeaseTypeOK'
  BY <1>1, <1>2 DEF LeaseInv, LeaseTypeOK, Time
<1>4. ASSUME NEW c \in Claim PROVE Sound(c)' /\ (Live(c)' => Live(c))
  <2>1. Sound(c) /\ claim[c].deadline \in Nat /\ claim[c].started \in Nat
    BY Fields DEF LeaseInv
  <2>2. Live(c)' => Live(c)
    BY <1>1, <1>2, <2>1 DEF Live
  <2>3. Sound(c)'
    BY <1>1, <1>2, <2>1 DEF Sound, Locks, Owns
  <2>. QED BY <2>2, <2>3
<1>. QED BY <1>1, <1>2, <1>3, <1>4 DEF LeaseInv, OneLives

\* Every step preserves the invariant.
LEMMA LeaseStep == LeaseInv /\ [Next]_vars => LeaseInv'
<1>. SUFFICES ASSUME LeaseInv, [Next]_vars PROVE LeaseInv'
  OBVIOUS
<1>1. CASE UNCHANGED vars
  <2>1. \A d \in Claim : Sound(d)'
    BY <1>1, OthersStaySound DEF vars
  <2>. QED BY <1>1, <2>1 DEF vars, LeaseInv, LeaseTypeOK, OneLives, Live, Time
<1>. QED BY <1>1, AttemptPreserves, FetchPreserves, EffectPreserves, CancelPreserves, TickPreserves DEF Next

\* The invariant holds in every reachable state, for any number of claims and
\* tasks and any lease.
THEOREM LeaseHolds == Spec => []LeaseInv
<1>. QED BY LeaseInit, LeaseStep, PTL DEF Spec

\* Every reachable state has its declared type.
THEOREM LeaseTyped == Spec => []LeaseTypeOK
<1>1. LeaseInv => LeaseTypeOK
  BY DEF LeaseInv
<1>. QED BY <1>1, LeaseHolds, PTL

\* At most one attempt of an instance runs, or has a commit on its way, at any
\* time (fetch_queue_task, maintain_lease, commit_task_execution), although a
\* renewal or a commit may land long after its attempt was dropped.
THEOREM OneExecutes == Spec => []OneAttemptExecutes
<1>1. LeaseInv => OneAttemptExecutes
  BY DEF LeaseInv, OneLives, OneAttemptExecutes, Executing, Live
<1>. QED BY <1>1, LeaseHolds, PTL

\* While an attempt runs its row is its own and the host's deadline is no later
\* than the expiry in the database (maintain_lease).
THEOREM DeadlinesAreConservative == Spec => []DeadlineIsConservative
<1>1. LeaseInv => DeadlineIsConservative
  BY DEF LeaseInv, Sound, Owns, DeadlineIsConservative
<1>. QED BY <1>1, LeaseHolds, PTL
=============================================================================
