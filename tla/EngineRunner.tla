---------------------------- MODULE EngineRunner ----------------------------
(***************************************************************************)
(* The runners of one engine: worker slots, the shared wakeup, polling and *)
(* shutdown.                                                               *)
(*                                                                         *)
(* Runners of one engine share a tokio Notify: notify_one wakes one waiter *)
(* or stores one permit, and a notified waiter that is dropped passes its  *)
(* notification on.  Other processes change the queue silently.  A dequeue *)
(* is two statements: the first chooses an instance from its snapshot and  *)
(* locks it, skipping locked ones; the second claims a row of it, if there *)
(* still is one to claim.  The claim's commit and its answer, and a task's *)
(* commit and its notification, are separate steps.                        *)
(***************************************************************************)
EXTENDS FiniteSets, Naturals

CONSTANTS
    Runner,      \* run_until_stopped calls sharing one service
    Slot,        \* worker slots of a runner; their number is its concurrency
    Instance,
    Task,        \* queue rows
    InstanceOf,  \* [Task -> Instance]
    NoTask, NoInstance,
    Free, Other  \* an unlocked instance row; one locked by another transaction

ASSUME RunnerTypes ==
    /\ InstanceOf \in [Task -> Instance]
    /\ Slot # {}
    /\ NoTask \notin Task
    /\ NoInstance \notin Instance
    /\ {Free, Other} \cap Runner = {}
    /\ Free # Other

VARIABLES
    row,      \* each queue row; an idle one is absent or not yet due
    lock,     \* who holds each instance row
    loop,     \* where each run loop is, and what its dequeue holds
    slot,     \* the workers (JoinSet) of each runner
    permit,   \* the permit stored in Notify
    pending,  \* rows committed by a local caller that has not notified yet
    left,     \* rows left to polling: no local notification stands for them
    unseen,   \* which of a runner's watch receivers have not seen the trigger
    monitor   \* whether monitor_queue_health is running

vars == <<row, lock, loop, slot, permit, pending, left, unseen, monitor>>

Pcs == {"new", "top", "full", "fetching", "claiming", "claimed", "missed",
        "waiting", "woken", "backoff", "draining", "stopped"}
LoopState == [pc : Pcs, snapshot : SUBSET Instance, inst : Instance \cup {NoInstance},
              task : Task \cup {NoTask}]
SlotState == [pc : {"none", "running", "committed", "finishing", "done"},
              task : Task \cup {NoTask}]
Empty == [pc |-> "none", task |-> NoTask]
At(pc) == [pc |-> pc, snapshot |-> {}, inst |-> NoInstance, task |-> NoTask]

RunnerTypeOK ==
    /\ row \in [Task -> {"idle", "ready", "leased"}]
    /\ lock \in [Instance -> Runner \cup {Free, Other}]
    /\ loop \in [Runner -> LoopState]
    /\ slot \in [Runner -> [Slot -> SlotState]]
    /\ permit \in BOOLEAN
    /\ pending \subseteq Task
    /\ left \subseteq Task
    /\ unseen \in [Runner -> SUBSET {"loop", "monitor"}]
    /\ monitor \in [Runner -> BOOLEAN]
    /\ \A i \in Instance : lock[i] \in Runner =>
          loop[lock[i]].pc = "claiming" /\ loop[lock[i]].inst = i

Init ==
    /\ row = [t \in Task |-> "idle"]
    /\ lock = [i \in Instance |-> Free]
    /\ loop = [r \in Runner |-> At("new")]
    /\ slot = [r \in Runner |-> [s \in Slot |-> Empty]]
    /\ permit = FALSE
    /\ pending = {}
    /\ left = {}
    /\ unseen = [r \in Runner |-> {}]
    /\ monitor = [r \in Runner |-> FALSE]

RowsOf(i) == {t \in Task : InstanceOf[t] = i}
EligibleIn(q) == {t \in Task : q[t] = "ready" /\ \A u \in RowsOf(InstanceOf[t]) : q[u] # "leased"}
Eligible == EligibleIn(row)

Running(t) == \E r \in Runner, s \in Slot : slot[r][s].pc = "running" /\ slot[r][s].task = t
Done(r) == {s \in Slot : slot[r][s].pc = "done"}
Joined(r, done) == [slot EXCEPT ![r] = [s \in Slot |-> IF s \in done THEN Empty ELSE slot[r][s]]]
Unlocked(r) == [i \in Instance |-> IF lock[i] = r THEN Free ELSE lock[i]]

(***************************************************************************)
(* Notify                                                                  *)
(***************************************************************************)
Waiters(w) == {r \in Runner : w[r].pc = "waiting"}
MutNotifyOne(w) ==
    /\ UNCHANGED permit
    /\ loop' = [r \in Runner |-> IF r \in Waiters(w) THEN At("woken") ELSE w[r]]
\* notify_one, given the loops as the step leaves them.
NotifyOne(w) ==
    IF Waiters(w) = {}
    THEN permit' = TRUE /\ loop' = w
    ELSE /\ \E r \in Waiters(w) : loop' = [w EXCEPT ![r] = At("woken")]
         /\ UNCHANGED permit

\* r leaves its wait for pc through another arm of the select!: the
\* notification it may hold goes to the next waiter.
LeaveWait(r, pc) ==
    LET w == [loop EXCEPT ![r] = At(pc)]
    IN  IF loop[r].pc = "woken" THEN NotifyOne(w) ELSE loop' = w /\ UNCHANGED permit
Waits(r) == loop[r].pc \in {"waiting", "woken"}

(***************************************************************************)
(* run_until_stopped                                                       *)
(***************************************************************************)
\* Starting; subscribe clones a receiver that has seen nothing yet.
MutStart(r) ==
    /\ loop[r].pc = "new"
    /\ loop' = [loop EXCEPT ![r] = At("top")]
    /\ monitor' = [monitor EXCEPT ![r] = TRUE]
    /\ unseen' = [unseen EXCEPT ![r] = {}]
    /\ UNCHANGED <<row, lock, slot, permit, pending, left>>
Start(r) ==
    /\ loop[r].pc = "new"
    /\ loop' = [loop EXCEPT ![r] = At("top")]
    /\ monitor' = [monitor EXCEPT ![r] = TRUE]
    /\ UNCHANGED <<row, lock, slot, permit, pending, left, unseen>>

\* Join what finished, then wait for a slot or send the dequeue.
Top(r) ==
    LET rest == Joined(r, Done(r))
    IN  /\ loop[r].pc = "top"
        /\ slot' = rest
        /\ loop' = [loop EXCEPT ![r] =
               IF \A s \in Slot : rest[r][s] # Empty THEN At("full")
               ELSE [At("fetching") EXCEPT !.snapshot = {InstanceOf[t] : t \in Eligible}]]
        /\ UNCHANGED <<row, lock, permit, pending, left, unseen, monitor>>

\* Every slot is taken: wait for a worker.
JoinFull(r) ==
    /\ loop[r].pc = "full"
    /\ \E s \in Done(r) : slot' = Joined(r, {s})
    /\ loop' = [loop EXCEPT ![r] = At("top")]
    /\ UNCHANGED <<row, lock, permit, pending, left, unseen, monitor>>

\* First statement: an unlocked instance of the snapshot, or none.
Choose(r) ==
    LET unlocked == {i \in loop[r].snapshot : lock[i] = Free}
    IN  /\ loop[r].pc = "fetching"
        /\ \/ \E i \in unlocked :
                 /\ lock' = [lock EXCEPT ![i] = r]
                 /\ loop' = [loop EXCEPT ![r] = [At("claiming") EXCEPT !.inst = i]]
                 /\ UNCHANGED left
           \/ /\ unlocked = {}
              /\ loop' = [loop EXCEPT ![r] = At("missed")]
              /\ left' = left \cup {t \in Eligible : lock[InstanceOf[t]] = Other}
              /\ UNCHANGED lock
        /\ UNCHANGED <<row, slot, permit, pending, unseen, monitor>>

MutClaim(r) ==
    /\ loop[r].pc = "claiming"
    /\ lock' = Unlocked(r)
    /\ \E t \in RowsOf(loop[r].inst) :
          /\ row[t] = "ready"
          /\ row' = [row EXCEPT ![t] = "leased"]
          /\ loop' = [loop EXCEPT ![r] = [At("claimed") EXCEPT !.task = t]]
    /\ UNCHANGED <<slot, permit, pending, left, unseen, monitor>>
\* Second statement and commit.  It finds nothing if the instance was leased
\* since the snapshot; other instances are then not tried.
Claim(r) ==
    LET here == Eligible \cap RowsOf(loop[r].inst)
    IN  /\ loop[r].pc = "claiming"
        /\ lock' = Unlocked(r)
        /\ \/ \E t \in here :
                 /\ row' = [row EXCEPT ![t] = "leased"]
                 /\ loop' = [loop EXCEPT ![r] = [At("claimed") EXCEPT !.task = t]]
                 /\ left' = left \ {t}
           \/ /\ here = {}
              /\ loop' = [loop EXCEPT ![r] = At("missed")]
              /\ left' = left \cup Eligible
              /\ UNCHANGED row
        /\ UNCHANGED <<slot, permit, pending, unseen, monitor>>

Spawn(r) ==
    /\ loop[r].pc = "claimed"
    /\ \E s \in Slot : /\ slot[r][s] = Empty
                       /\ slot' = [slot EXCEPT ![r][s] = [pc |-> "running", task |-> loop[r].task]]
    /\ loop' = [loop EXCEPT ![r] = At("top")]
    /\ UNCHANGED <<row, lock, permit, pending, left, unseen, monitor>>

MutFetchFails(r) ==
    /\ loop[r].pc \in {"fetching", "claiming", "claimed"}
    /\ loop' = [loop EXCEPT ![r] = At("backoff")]
    /\ UNCHANGED <<row, lock, slot, permit, pending, left, unseen, monitor>>
\* The dequeue answers with an error, perhaps after its commit: back off.
FetchFails(r) ==
    /\ loop[r].pc \in {"fetching", "claiming", "claimed"}
    /\ lock' = Unlocked(r)
    /\ loop' = [loop EXCEPT ![r] = At("backoff")]
    /\ UNCHANGED <<row, slot, permit, pending, left, unseen, monitor>>

BackedOff(r) ==
    /\ loop[r].pc = "backoff"
    /\ loop' = [loop EXCEPT ![r] = At("top")]
    /\ UNCHANGED <<row, lock, slot, permit, pending, left, unseen, monitor>>

\* wait_for_queue_activity: a stored permit ends the wait at once.
EnterWait(r) ==
    /\ loop[r].pc = "missed"
    /\ loop' = [loop EXCEPT ![r] = At(IF permit THEN "top" ELSE "waiting")]
    /\ permit' = FALSE
    /\ UNCHANGED <<row, lock, slot, pending, left, unseen, monitor>>

Notified(r) ==
    /\ loop[r].pc = "woken"
    /\ loop' = [loop EXCEPT ![r] = At("top")]
    /\ UNCHANGED <<row, lock, slot, permit, pending, left, unseen, monitor>>

JoinWaiting(r) ==
    /\ Waits(r)
    /\ \E s \in Done(r) : slot' = Joined(r, {s})
    /\ LeaveWait(r, "top")
    /\ UNCHANGED <<row, lock, pending, left, unseen, monitor>>

\* The polling interval.
SleepEnds(r) ==
    /\ Waits(r)
    /\ LeaveWait(r, "top")
    /\ UNCHANGED <<row, lock, slot, pending, left, unseen, monitor>>

\* The shutdown arm of each select!.  A dequeue in flight is dropped: its
\* transaction rolls back, or has committed a claim that nobody runs.  What
\* this runner was woken for is then left to polling.
StopLoop(r) ==
    /\ "loop" \in unseen[r]
    /\ unseen' = [unseen EXCEPT ![r] = @ \ {"loop"}]
    /\ \/ /\ Waits(r)
          /\ LeaveWait(r, "draining")
          /\ UNCHANGED <<lock, left>>
       \/ /\ loop[r].pc \in {"full", "fetching", "claiming", "claimed", "missed"}
          /\ loop' = [loop EXCEPT ![r] = At("draining")]
          /\ lock' = Unlocked(r)
          /\ left' = left \cup Eligible
          /\ UNCHANGED permit
    /\ UNCHANGED <<row, slot, pending, monitor>>

\* After the loop: join every worker, then the health monitor.
Drain(r) ==
    /\ loop[r].pc = "draining"
    /\ \/ \E s \in Done(r) : slot' = Joined(r, {s}) /\ UNCHANGED loop
       \/ /\ \A s \in Slot : slot[r][s] = Empty
          /\ ~monitor[r]
          /\ loop' = [loop EXCEPT ![r] = At("stopped")]
          /\ UNCHANGED slot
    /\ UNCHANGED <<row, lock, permit, pending, left, unseen, monitor>>

\* monitor_queue_health sees the trigger with its own receiver.
EndMonitor(r) ==
    /\ monitor[r]
    /\ "monitor" \in unseen[r]
    /\ unseen' = [unseen EXCEPT ![r] = @ \ {"monitor"}]
    /\ monitor' = [monitor EXCEPT ![r] = FALSE]
    /\ UNCHANGED <<row, lock, loop, slot, permit, pending, left>>

\* Shutdown::trigger, at any time, once.
Trigger(r) ==
    /\ unseen[r] = {}
    /\ loop[r].pc \notin {"draining", "stopped"}
    /\ unseen' = [unseen EXCEPT ![r] = {"loop", "monitor"}]
    /\ UNCHANGED <<row, lock, loop, slot, permit, pending, left, monitor>>

(***************************************************************************)
(* run_one, and the callers of the service                                 *)
(***************************************************************************)
\* What a transition's commit does to the rows: its own row leaves, waits or
\* is due again, and others of the instance may be inserted.
CommittedRows(t) ==
    {q \in [Task -> {"idle", "ready", "leased"}] :
        /\ q[t] # "leased"
        /\ \A u \in Task \ {t} :
              \/ q[u] = row[u]
              \/ u \in RowsOf(InstanceOf[t]) /\ row[u] = "idle" /\ q[u] = "ready"}

\* The commit waits for the instance row; it releases the lease as well.
Commit(r, s) ==
    LET t == slot[r][s].task
    IN  /\ slot[r][s].pc = "running"
        /\ lock[InstanceOf[t]] = Free
        /\ row' \in CommittedRows(t)
        /\ slot' = [slot EXCEPT ![r][s].pc = "committed"]
        /\ UNCHANGED <<lock, loop, permit, pending, left, unseen, monitor>>

NotifyCommitted(r, s) ==
    /\ slot[r][s].pc = "committed"
    /\ slot' = [slot EXCEPT ![r][s].pc = "finishing"]
    /\ NotifyOne(loop)
    /\ UNCHANGED <<row, lock, pending, left, unseen, monitor>>

\* The finish event is logged before the worker ends.
Finish(r, s) ==
    /\ slot[r][s].pc = "finishing"
    /\ slot' = [slot EXCEPT ![r][s].pc = "done"]
    /\ UNCHANGED <<row, lock, loop, permit, pending, left, unseen, monitor>>

\* The attempt fails, panics or loses its lease; its row stays leased.
FailAttempt(r, s) ==
    /\ slot[r][s].pc = "running"
    /\ slot' = [slot EXCEPT ![r][s].pc = "done"]
    /\ UNCHANGED <<row, lock, loop, permit, pending, left, unseen, monitor>>

\* A local start, resume or posted signal commits its row, logs, and notifies.
Post(t) ==
    /\ row[t] = "idle"
    /\ lock[InstanceOf[t]] = Free
    /\ row' = [row EXCEPT ![t] = "ready"]
    /\ pending' = pending \cup {t}
    /\ UNCHANGED <<lock, loop, slot, permit, left, unseen, monitor>>

NotifyPosted(t) ==
    /\ t \in pending
    /\ pending' = pending \ {t}
    /\ NotifyOne(loop)
    /\ UNCHANGED <<row, lock, slot, left, unseen, monitor>>

\* The caller is dropped between its commit and its notification.
DropPost(t) ==
    /\ t \in pending
    /\ pending' = pending \ {t}
    /\ left' = left \cup Eligible
    /\ UNCHANGED <<row, lock, loop, slot, permit, unseen, monitor>>

(***************************************************************************)
(* What no local notification announces                                    *)
(***************************************************************************)
Silently(q) ==
    /\ row' = q
    /\ left' = left \cup (EligibleIn(q) \ Eligible)
    /\ UNCHANGED <<lock, loop, slot, permit, pending, unseen, monitor>>

\* A row leased by a dropped attempt, a lost claim or another process.
Orphan(t) ==
    /\ row[t] = "leased"
    /\ ~Running(t)
    /\ \A r \in Runner : loop[r].task # t

\* Another process inserts a task, a task becomes due, a lease runs out, or
\* a commit sent by a dropped attempt or by another process takes effect.
Silent ==
    \E t \in Task :
        /\ lock[InstanceOf[t]] = Free
        /\ \/ row[t] = "idle" /\ Silently([row EXCEPT ![t] = "ready"])
           \/ Orphan(t) /\ \E q \in CommittedRows(t) : Silently(q)

Expire(t) == Orphan(t) /\ Silently([row EXCEPT ![t] = "ready"])

\* A runner of another process leases a row.
RemoteClaim(t) ==
    /\ t \in Eligible
    /\ lock[InstanceOf[t]] = Free
    /\ row' = [row EXCEPT ![t] = "leased"]
    /\ left' = left \ {t}
    /\ UNCHANGED <<lock, loop, slot, permit, pending, unseen, monitor>>

\* Another transaction, such as a context patch, holds an instance row.
LockOther(i) ==
    /\ lock[i] = Free
    /\ lock' = [lock EXCEPT ![i] = Other]
    /\ UNCHANGED <<row, loop, slot, permit, pending, left, unseen, monitor>>
UnlockOther(i) ==
    /\ lock[i] = Other
    /\ lock' = [lock EXCEPT ![i] = Free]
    /\ UNCHANGED <<row, loop, slot, permit, pending, left, unseen, monitor>>

LoopStep(r) ==
    \/ Start(r) \/ Top(r) \/ JoinFull(r) \/ Choose(r) \/ Claim(r) \/ Spawn(r)
    \/ BackedOff(r) \/ EnterWait(r) \/ Notified(r) \/ JoinWaiting(r) \/ SleepEnds(r) \/ Drain(r)
WorkerEnds(r, s) == Commit(r, s) \/ FailAttempt(r, s)
WorkerStep(r, s) == NotifyCommitted(r, s) \/ Finish(r, s)

Next ==
    \/ \E r \in Runner :
          \/ LoopStep(r) \/ FetchFails(r) \/ StopLoop(r) \/ EndMonitor(r) \/ Trigger(r)
          \/ \E s \in Slot : WorkerEnds(r, s) \/ WorkerStep(r, s)
    \/ \E t \in Task : Post(t) \/ NotifyPosted(t) \/ DropPost(t) \/ Expire(t) \/ RemoteClaim(t)
    \/ Silent
    \/ \E i \in Instance : LockOther(i) \/ UnlockOther(i)

Spec == Init /\ [][Next]_vars

\* The host runs the runners it makes; each async function is scheduled; an
\* attempt ends, for its heartbeat has a deadline; select! polls its arms in
\* random order, so that the shutdown arm is taken if it is ready again and
\* again.
Fairness ==
    \A r \in Runner :
        /\ WF_vars(LoopStep(r))
        /\ SF_vars(StopLoop(r))
        /\ WF_vars(EndMonitor(r))
        /\ \A s \in Slot : WF_vars(WorkerEnds(r, s)) /\ WF_vars(WorkerStep(r, s))

FairSpec == Spec /\ Fairness

(***************************************************************************)
(* Properties                                                              *)
(***************************************************************************)
\* No runner of the engine can take work before its polling interval ends or
\* someone notifies it: those that run wait, and no wakeup is on its way.
Quiet ==
    LET active == {r \in Runner : loop[r].pc \notin {"new", "draining", "stopped"}}
    IN  /\ active # {}
        /\ \A r \in active : loop[r].pc = "waiting" /\ Done(r) = {}
        /\ \A r \in Runner, s \in Slot : slot[r][s].pc # "committed"
        /\ ~permit
        /\ pending = {}

\* No local wakeup is lost: while the engine is quiet, whatever could be
\* dequeued became so silently or was left to polling by a dropped call, a
\* locked instance, or a runner that stopped (notify_one after each commit,
\* wait_for_queue_activity).
NoLostWakeup == Quiet => Eligible \subseteq left

\* While a worker of the engine runs a task, its row is the one leased row of
\* the instance and no other worker runs it, however the two statements of
\* dequeues interleave with each other, with other processes, with commits,
\* dropped dequeues and leases that run out (fetch_queue_task).  Renewals that
\* land late are not in this module: OneLiveLease of QueueLease is about them.
OneWorkerPerInstance ==
    \A r, q \in Runner : \A s, u \in Slot :
        slot[r][s].pc = "running" =>
            LET t == slot[r][s].task IN
            /\ {x \in RowsOf(InstanceOf[t]) : row[x] = "leased"} = {t}
            /\ slot[q][u].pc = "running" /\ slot[q][u].task = t => r = q /\ s = u

\* A triggered shutdown stops the runner, workers and health monitor
\* included, even if it was triggered before the runner started.
ShutdownStops ==
    \A r \in Runner : unseen[r] # {} ~> loop[r].pc = "stopped"
=============================================================================
