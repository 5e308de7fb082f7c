----------------------------- MODULE QueueLease -----------------------------
(***************************************************************************)
(* The lease protocol of one instance's queue rows, statement by           *)
(* statement, under PostgreSQL's READ COMMITTED: an uncommitted update     *)
(* holds its row lock and stays invisible until it commits, a reader that  *)
(* does not lock sees the committed version, and SKIP LOCKED passes over   *)
(* locked rows.  DurableTransitions takes these transactions as single     *)
(* steps and a renewed lease as one that has not expired; this module      *)
(* looks at what happens between their statements.                         *)
(*                                                                         *)
(* A claim is one dequeue with its own lock_key, its execution and its     *)
(* heartbeat.  Host deadlines are monotonic and relative, so one clock     *)
(* serves the hosts and the database.                                      *)
(***************************************************************************)
EXTENDS Naturals

CONSTANTS
    Task,    \* the instance's queue rows
    NoTask,
    Claim,   \* dequeues, each with its own lock_key
    NoClaim,
    Lease,   \* task_lease_ms, in ticks
    MaxTime  \* bound on the clock

ASSUME LeaseTypes ==
    /\ NoTask \notin Task
    /\ NoClaim \notin Claim
    /\ Lease \in Nat \ {0}
    /\ MaxTime \in Nat

VARIABLES
    now,       \* clock_timestamp and Instant::now
    row,       \* the committed version of each queue row
    claim,     \* each claim, its renewal and its commit
    incident,  \* the task of the open incident; the instance is then suspended
    admin      \* cancel_queue_task in progress

vars == <<now, row, claim, incident, admin>>

Time == 0 .. (MaxTime + Lease)

RowState == [present : BOOLEAN,
             key : Claim \cup {NoClaim}, \* lock_key
             until : Time]               \* locked_by

ClaimState == [pc : {"idle", "fetching", "claimed", "running", "gone"},
               task : Task \cup {NoTask},
               deadline : Time,            \* lease_deadline of maintain_lease
               renewal : {"none", "asked", "updated", "renewed", "lost"},
               started : Time,             \* renewal_started
               until : Time,               \* locked_by of the uncommitted renewal
               commit : {"none", "locked", "checked"}]

AdminState == [pc : {"idle", "matched"}, task : Task \cup {NoTask}, start : Time]

IdleClaim == [pc |-> "idle", task |-> NoTask, deadline |-> 0, renewal |-> "none",
              started |-> 0, until |-> 0, commit |-> "none"]
IdleAdmin == [pc |-> "idle", task |-> NoTask, start |-> 0]

Init ==
    /\ now = 0
    /\ row = [t \in Task |-> [present |-> TRUE, key |-> NoClaim, until |-> 0]]
    /\ claim = [c \in Claim |-> IdleClaim]
    /\ incident = NoTask
    /\ admin = IdleAdmin

-----------------------------------------------------------------------------
(* Locks, from the transactions in progress *)

RowLocked(t) ==
    \E c \in Claim : /\ claim[c].task = t
                     /\ claim[c].renewal = "updated" \/ claim[c].commit # "none"

InstanceLocked == \E c \in Claim : claim[c].commit # "none"

(* locked_by >= clock_timestamp() and its complement, on committed rows    *)
Active(t) == row[t].present /\ row[t].key # NoClaim /\ row[t].until >= now
Free(t) == row[t].present /\ (row[t].key = NoClaim \/ row[t].until < now)

(* A deadline measured when the dequeued task arrives.                     *)
MutBeginFetch(c) ==
    /\ claim[c].pc = "idle"
    /\ claim' = [claim EXCEPT ![c].pc = "fetching", ![c].deadline = MaxTime + Lease]
    /\ UNCHANGED <<now, row, incident, admin>>

-----------------------------------------------------------------------------
(* run_until_stopped: initial_deadline is measured before the dequeue.     *)
BeginFetch(c) ==
    /\ claim[c].pc = "idle"
    /\ claim' = [claim EXCEPT ![c].pc = "fetching", ![c].deadline = now + Lease]
    /\ UNCHANGED <<now, row, incident, admin>>

(* A lease in the wrong unit.                                              *)
MutFetchTask(c, t) ==
    /\ claim[c].pc = "fetching" /\ incident = NoTask
    /\ ~ InstanceLocked /\ Free(t) /\ ~ RowLocked(t)
    /\ \A u \in Task : ~ Active(u)
    /\ row' = [row EXCEPT ![t].key = c, ![t].until = now + 1000 * Lease]
    /\ claim' = [claim EXCEPT ![c].pc = "claimed", ![c].task = t]
    /\ UNCHANGED <<now, incident, admin>>

(* fetch_queue_task: both statements run under the instance row lock, the  *)
(* second on a fresh snapshot of the committed rows, skipping locked ones. *)
FetchTask(c, t) ==
    /\ claim[c].pc = "fetching"
    /\ incident = NoTask
    /\ ~ InstanceLocked
    /\ Free(t) /\ ~ RowLocked(t)
    /\ \A u \in Task : ~ Active(u)
    /\ row' = [row EXCEPT ![t].key = c, ![t].until = now + Lease]
    /\ claim' = [claim EXCEPT ![c].pc = "claimed", ![c].task = t]
    /\ UNCHANGED <<now, incident, admin>>

(* What outlives a dropped attempt: an update or a commit already sent.    *)
Remains(k) ==
    LET renewing == k.renewal = "updated"
        committing == k.commit = "checked"
    IN  [IdleClaim EXCEPT
           !.pc = "gone",
           !.task = IF renewing \/ committing THEN k.task ELSE NoTask,
           !.renewal = IF renewing THEN "updated" ELSE "none",
           !.until = IF renewing THEN k.until ELSE 0,
           !.commit = IF committing THEN "checked" ELSE "none"]

(* run_one: the attempt starts if its deadline has not passed already.     *)
StartAttempt(c) ==
    /\ claim[c].pc = "claimed"
    /\ claim' = [claim EXCEPT ![c] =
                    IF now < @.deadline THEN [@ EXCEPT !.pc = "running"] ELSE Remains(@)]
    /\ UNCHANGED <<now, row, incident, admin>>

(* The attempt is dropped: at its deadline, for a lost renewal, at         *)
(* shutdown or by a crash.  What it sent to the database may still commit. *)
Drop(c) ==
    /\ claim[c].pc \in {"fetching", "claimed", "running"}
    /\ claim' = [claim EXCEPT ![c] = Remains(@)]
    /\ UNCHANGED <<now, row, incident, admin>>

-----------------------------------------------------------------------------
(* maintain_lease and renew_queue_task_lock *)

AskRenewal(c) ==
    /\ claim[c].pc = "running"
    /\ claim[c].renewal = "none"
    /\ now < claim[c].deadline
    /\ claim' = [claim EXCEPT ![c].renewal = "asked", ![c].started = now]
    /\ UNCHANGED <<now, row, incident, admin>>

(* The row is locked first; the deadline is checked in a fresh statement.  *)
UpdateRenewal(c) ==
    LET t == claim[c].task IN
    /\ claim[c].renewal = "asked"
    /\ ~ RowLocked(t)
    /\ claim' =
          IF row[t].present /\ row[t].key = c /\ row[t].until > now
          THEN [claim EXCEPT ![c].renewal = "updated", ![c].until = now + Lease]
          ELSE [claim EXCEPT ![c].renewal = "lost"]
    /\ UNCHANGED <<now, row, incident, admin>>

CommitRenewal(c) ==
    /\ claim[c].renewal = "updated"
    /\ row' = [row EXCEPT ![claim[c].task].until = claim[c].until]
    /\ claim' = [claim EXCEPT ![c] =
                    IF @.pc = "running" THEN [@ EXCEPT !.renewal = "renewed", !.until = 0]
                    ELSE Remains([@ EXCEPT !.renewal = "none"])]
    /\ UNCHANGED <<now, incident, admin>>

(* The transaction of a dropped heartbeat rolls back.                      *)
RollbackRenewal(c) ==
    /\ claim[c].pc = "gone"
    /\ claim[c].renewal = "updated"
    /\ claim' = [claim EXCEPT ![c] = Remains([@ EXCEPT !.renewal = "none"])]
    /\ UNCHANGED <<now, row, incident, admin>>

(* The new deadline counts from the answer, not from the request.          *)
MutAnswerRenewal(c) ==
    /\ claim[c].pc = "running"
    /\ claim[c].renewal = "renewed"
    /\ claim' = [claim EXCEPT ![c].renewal = "none", ![c].deadline = now + Lease]
    /\ UNCHANGED <<now, row, incident, admin>>

(* Ok(true): the deadline moves to the start of the renewal plus a lease.  *)
(* Ok(false) ends the attempt.                                             *)
AnswerRenewal(c) ==
    /\ claim[c].pc = "running"
    /\ \/ /\ claim[c].renewal = "renewed"
          /\ claim' = [claim EXCEPT ![c].renewal = "none", ![c].started = 0,
                                    ![c].deadline = claim[c].started + Lease]
       \/ /\ claim[c].renewal = "lost"
          /\ claim' = [claim EXCEPT ![c] = Remains(@)]
    /\ UNCHANGED <<now, row, incident, admin>>

-----------------------------------------------------------------------------
(* commit_task_execution *)

(* Lock the instance, then the row, and check the lease.                   *)
LockCommit(c) ==
    LET t == claim[c].task IN
    /\ claim[c].pc = "running"
    /\ claim[c].commit = "none"
    /\ ~ InstanceLocked /\ ~ RowLocked(t)
    /\ incident = NoTask
    /\ row[t].present /\ row[t].key = c /\ row[t].until > now
    /\ claim' = [claim EXCEPT ![c].commit = "locked"]
    /\ UNCHANGED <<now, row, incident, admin>>

(* The last statement checks the clock again and releases or deletes the   *)
(* source row; an expired lease rolls everything back.                     *)
CheckCommit(c) ==
    /\ claim[c].commit = "locked"
    /\ claim' = [claim EXCEPT ![c].commit =
                    IF row[claim[c].task].until > now THEN "checked" ELSE "none"]
    /\ UNCHANGED <<now, row, incident, admin>>

(* The COMMIT takes effect, whether or not the attempt is still there to   *)
(* hear of it: the task is consumed, or suspends the instance.             *)
FinishCommit(c) ==
    LET t == claim[c].task IN
    /\ claim[c].commit = "checked"
    /\ \/ row' = [row EXCEPT ![t].present = FALSE] /\ UNCHANGED incident
       \/ row' = [row EXCEPT ![t].key = NoClaim] /\ incident' = t
    /\ claim' = [claim EXCEPT ![c] = [IdleClaim EXCEPT !.pc = "gone"]]
    /\ UNCHANGED <<now, admin>>

RollbackCommit(c) ==
    /\ claim[c].commit = "checked"
    /\ claim[c].pc = "gone"
    /\ claim' = [claim EXCEPT ![c] = Remains([@ EXCEPT !.commit = "none"])]
    /\ UNCHANGED <<now, row, incident, admin>>

-----------------------------------------------------------------------------
(* FluxproAdminService::cancel_queue_task.  Its SELECT ... FOR UPDATE      *)
(* matches the rows of its snapshot.  A matching row nobody locks is       *)
(* deleted; for a locked one the statement waits, and when the row has     *)
(* changed meanwhile PostgreSQL checks the row's own columns again, but    *)
(* the NOT EXISTS subqueries keep the snapshot's answer.                   *)
MatchesCancel(t) == Free(t) /\ incident # t

CancelTask(t) ==
    /\ admin.pc = "idle"
    /\ MatchesCancel(t) /\ ~ RowLocked(t)
    /\ row' = [row EXCEPT ![t].present = FALSE]
    /\ UNCHANGED <<now, claim, incident, admin>>

AwaitCancel(t) ==
    /\ admin.pc = "idle"
    /\ MatchesCancel(t) /\ RowLocked(t)
    /\ admin' = [pc |-> "matched", task |-> t, start |-> now]
    /\ UNCHANGED <<now, row, claim, incident>>

FinishCancel ==
    LET t == admin.task IN
    /\ admin.pc = "matched"
    /\ ~ RowLocked(t)
    /\ row' = IF row[t].key = NoClaim \/ row[t].until < admin.start
              THEN [row EXCEPT ![t].present = FALSE] ELSE row
    /\ admin' = IdleAdmin
    /\ UNCHANGED <<now, claim, incident>>

-----------------------------------------------------------------------------
(* Host timers fire on time: the clock does not pass the deadline of an    *)
(* attempt that is still running.                                          *)
Tick ==
    /\ now < MaxTime
    /\ \A c \in Claim : claim[c].pc = "running" => now < claim[c].deadline
    /\ now' = now + 1
    /\ UNCHANGED <<row, claim, incident, admin>>

Next ==
    \/ \E c \in Claim, t \in Task : FetchTask(c, t)
    \/ \E c \in Claim :
          \/ BeginFetch(c) \/ StartAttempt(c) \/ Drop(c)
          \/ AskRenewal(c) \/ UpdateRenewal(c) \/ CommitRenewal(c)
          \/ RollbackRenewal(c) \/ AnswerRenewal(c)
          \/ LockCommit(c) \/ CheckCommit(c) \/ FinishCommit(c) \/ RollbackCommit(c)
    \/ \E t \in Task : CancelTask(t) \/ AwaitCancel(t)
    \/ FinishCancel
    \/ Tick

Spec == Init /\ [][Next]_vars

-----------------------------------------------------------------------------
LeaseTypeOK ==
    /\ now \in 0 .. MaxTime
    /\ row \in [Task -> RowState]
    /\ claim \in [Claim -> ClaimState]
    /\ incident \in Task \cup {NoTask}
    /\ admin \in AdminState

(* An attempt runs on the host, or its COMMIT is on its way.               *)
Executing(c) == claim[c].pc = "running" \/ claim[c].commit = "checked"

(* No two attempts of one instance execute at a time, although renewals    *)
(* can land late: the host's deadline ends an attempt before the database  *)
(* lets another one start.                                                 *)
OneAttemptExecutes ==
    \A c, d \in Claim : Executing(c) /\ Executing(d) => c = d

(* A running attempt still owns its row, and its deadline is no later than *)
(* the expiry in the database.                                             *)
DeadlineIsConservative ==
    \A c \in Claim : claim[c].pc = "running" =>
        LET t == claim[c].task IN
        row[t].present =>
            /\ row[t].key = c
            /\ claim[c].deadline <= row[t].until

(* No dequeue leaves two tasks of one instance with live leases, whoever   *)
(* dequeues, renews, and when.                                             *)
OneLiveLease ==
    \A t, u \in Task : Active(t) /\ Active(u) => t = u

(* Generic queue cancellation cannot delete an unresolved incident's task. *)
IncidentTaskRetained ==
    incident # NoTask => row[incident].present
=============================================================================
