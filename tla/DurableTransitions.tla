------------------------- MODULE DurableTransitions -------------------------
(***************************************************************************)
(* The durable execution path of one workflow instance: queued tasks are   *)
(* leased, read with a consistent snapshot, prepared outside any           *)
(* transaction, and committed through the revision fence, while hosts,     *)
(* operators and administrators act on the same rows.  Instances share no  *)
(* row, so one instance is the whole story of the path.                    *)
(*                                                                         *)
(* An action is one database transaction (each takes the instance row lock *)
(* or a single queue row lock and holds it to its commit) or one local     *)
(* step of a worker.  Time is abstract: a lease may expire and a task may  *)
(* become due at any moment.                                               *)
(***************************************************************************)
EXTENDS WorkflowDefinition

CONSTANTS
    Uuid,       \* identities of queue rows, hence of node visits
    NoUuid,
    Worker,     \* slots of the runners: one claim each, whatever the process
    NoWorker,
    Value,      \* values of the context key the host patches directly
    TotalAttempts, \* attempts before a failing task stops; 3 in the code
    AttemptCap, \* attempts saturate here: only comparisons read them
    MaxSignals  \* bound on signals queued at one time

ASSUME RuntimeTypes ==
    /\ NoUuid \notin Uuid
    /\ NoWorker \notin Worker
    /\ MaxSignals \in Nat

(* Saturating attempts is exact above every limit they are compared with.  *)
ASSUME AttemptCapIsExact ==
    /\ TotalAttempts \in Nat \ {0}
    /\ AttemptCap \in Nat
    /\ AttemptCap >= TotalAttempts
    /\ \A n \in Node : AttemptCap > MaxRetries[n]

(* Definitions whose name begins with Mut are plausible bugs of the        *)
(* definition that follows them.  Nothing here uses them: they show which  *)
(* part of the code each property watches.                                 *)

VARIABLES
    inst,     \* the process_instance row
    queue,    \* the queue_runner rows
    incident, \* the task of the open process_incident row, or NoUuid
    worker,   \* what each worker slot is doing
    stored,   \* the stored value of the context key the host patches
    patched,  \* the value of the last direct patch to that key
    command,  \* the incident an operator's resume command names
    withdrawn \* the kinds of task an administrator has cancelled

vars == <<inst, queue, incident, worker, stored, patched, command, withdrawn>>

(* `patched` and `withdrawn` are history the code does not keep; nothing   *)
(* but the properties reads them.                                          *)

-----------------------------------------------------------------------------
(* Rows and worker records *)

TaskKinds == {"node", "event", "signal"}

Row == [kind : TaskKinds \cup {"none"},
        node : Node \cup {NoNode},       \* the target, or a timer's origin
        signal : Signal \cup {NoSignal},
        visit : Uuid \cup {NoUuid},      \* node_visit_id
        attempts : 0 .. AttemptCap,
        due : BOOLEAN,                   \* run_after has passed
        lease : Worker \cup {NoWorker}]  \* lock_key while locked_by is in the future

NoRow == [kind |-> "none", node |-> NoNode, signal |-> NoSignal, visit |-> NoUuid,
          attempts |-> 0, due |-> FALSE, lease |-> NoWorker]

NodeTask(n, d) == [NoRow EXCEPT !.kind = "node", !.node = n, !.due = d]
EventTask(n, v) == [NoRow EXCEPT !.kind = "event", !.node = n, !.visit = v]
SignalTask(sig, v) ==
    [NoRow EXCEPT !.kind = "signal", !.signal = sig, !.visit = v, !.due = TRUE]

Instance == [node : Node \cup {NoNode},        \* current_node_ref
             visit : Uuid \cup {NoUuid},       \* node_visit_id
             waitDone : BOOLEAN,               \* wait_completed
             state : {"running", "suspended"}, \* execution_state
             recovery : Uuid \cup {NoUuid}]    \* recovery_task_uuid

(* A worker's claim and TaskExecutionSnapshot.  A revision is only ever    *)
(* compared with the instance's, and revisions only grow, so the snapshot  *)
(* keeps whether the instance's revision has moved since: `stale`.         *)
WorkerRecord == [pc : {"idle", "claimed", "loaded"},
                 task : Uuid \cup {NoUuid},
                 node : Node \cup {NoNode},
                 visit : Uuid \cup {NoUuid},
                 waitDone : BOOLEAN,
                 taskVisit : Uuid \cup {NoUuid},
                 context : Value \cup {0},
                 stale : BOOLEAN]

IdleWorker == [pc |-> "idle", task |-> NoUuid, node |-> NoNode, visit |-> NoUuid,
               waitDone |-> FALSE, taskVisit |-> NoUuid, context |-> 0, stale |-> FALSE]

Present(u) == queue[u].kind # "none"
Leased(u) == queue[u].lease # NoWorker

(* Identities some row or snapshot still mentions.  gen_random_uuid never  *)
(* returns one of these; an identity nothing mentions is as good as new.   *)
InUse ==
    {u \in Uuid : Present(u)} \cup {queue[u].visit : u \in Uuid}
      \cup {inst.visit, inst.recovery, incident}
      \cup UNION {{worker[w].task, worker[w].visit, worker[w].taskVisit} : w \in Worker}
Fresh == Uuid \ InUse

(* Every update of the revision column makes outstanding snapshots stale.  *)
BumpRevision(wk) ==
    [w \in Worker |-> IF wk[w].pc = "loaded" THEN [wk[w] EXCEPT !.stale = TRUE] ELSE wk[w]]

-----------------------------------------------------------------------------
(* start: instance, context and Start task appear in one transaction.      *)
Init ==
    /\ inst = [node |-> NoNode, visit |-> NoUuid, waitDone |-> FALSE,
               state |-> "running", recovery |-> NoUuid]
    /\ \E u \in Uuid :
          queue = [v \in Uuid |-> IF v = u THEN NodeTask(StartNode, TRUE) ELSE NoRow]
    /\ incident = NoUuid
    /\ worker = [w \in Worker |-> IdleWorker]
    /\ stored = 0
    /\ patched = 0
    /\ command = "none"
    /\ withdrawn = {}

-----------------------------------------------------------------------------
(* The runner *)

(* Poison tasks are passed over; the resumed task has no precedence.       *)
MutEligiblePoison(u) ==
    /\ Present(u) /\ queue[u].due /\ ~ Leased(u)
    /\ inst.recovery \in {NoUuid, u}
    /\ queue[u].attempts < TotalAttempts
MutEligibleAny(u) == Present(u) /\ queue[u].due /\ ~ Leased(u)

(* fetch_queue_task, its second statement under the instance row lock.     *)
Eligible(u) ==
    /\ Present(u)
    /\ queue[u].due
    /\ ~ Leased(u)
    /\ inst.recovery \in {NoUuid, u}

(* Suspension is not checked at dequeue.                                   *)
MutFetch(w, u) ==
    /\ worker[w].pc = "idle"
    /\ Eligible(u)
    /\ \A v \in Uuid : ~ Leased(v)
    /\ queue' = [queue EXCEPT ![u].lease = w]
    /\ worker' = [worker EXCEPT ![w] = [IdleWorker EXCEPT !.pc = "claimed", !.task = u]]
    /\ UNCHANGED <<inst, incident, stored, patched, command, withdrawn>>

Fetch(w, u) ==
    /\ worker[w].pc = "idle"
    /\ inst.state = "running"
    /\ Eligible(u)
    /\ \A v \in Uuid : ~ Leased(v)
    /\ queue' = [queue EXCEPT
          ![u].lease = w,
          ![u].attempts = IF @ < AttemptCap THEN @ + 1 ELSE @]
    /\ worker' = [worker EXCEPT ![w] = [IdleWorker EXCEPT !.pc = "claimed", !.task = u]]
    /\ UNCHANGED <<inst, incident, stored, patched, command, withdrawn>>

(* lock_task: the row is still leased by this claim.                       *)
HoldsLease(w) ==
    LET u == worker[w].task IN
    u \in Uuid /\ Present(u) /\ queue[u].lease = w

(* The visit a signal is bound to once the snapshot is read: its own, or   *)
(* the current one if the current node accepts it (completed or not).      *)
BoundVisit(u) ==
    IF /\ queue[u].kind = "signal"
       /\ queue[u].visit = NoUuid
       /\ AcceptsSignal(inst.node, queue[u].signal)
    THEN inst.visit
    ELSE queue[u].visit

(* load_task_execution *)
Load(w) ==
    LET u == worker[w].task IN
    /\ worker[w].pc = "claimed"
    /\ inst.state = "running"
    /\ HoldsLease(w)
    /\ queue' = [queue EXCEPT ![u].visit = BoundVisit(u)]
    /\ worker' = [worker EXCEPT ![w] =
          [pc |-> "loaded", task |-> u, node |-> inst.node, visit |-> inst.visit,
           waitDone |-> inst.waitDone, taskVisit |-> BoundVisit(u),
           context |-> stored, stale |-> FALSE]]
    /\ UNCHANGED <<inst, incident, stored, patched, command, withdrawn>>

-----------------------------------------------------------------------------
(* Preparing a transition: the TaskExecutionChanges a snapshot may lead to *)

Changes == [enter : Node \cup {NoNode}, \* enter_node
            close : BOOLEAN,            \* close_wait
            merge : BOOLEAN,            \* the snapshot's whole context is merged
            timer : BOOLEAN,            \* a timeout of the entered visit
            next : Node \cup {NoNode},  \* the queued successor
            nextDue : BOOLEAN,          \* it may run at once
            release : {"consume", "retry", "incident"}]

NoChange == [enter |-> NoNode, close |-> FALSE, merge |-> FALSE, timer |-> FALSE,
             next |-> NoNode, nextDue |-> TRUE, release |-> "consume"]

Retry == [NoChange EXCEPT !.release = "retry"]
Stop == [NoChange EXCEPT !.release = "incident"]

(* next(): queue the selected successor; without one, nothing is queued.   *)
Continue(c, n) ==
    IF Successors[n] = {} THEN {c}
    ELSE {[c EXCEPT !.next = m] : m \in Successors[n]}

(* The attempt's own error: TotalAttempts in all, then an incident.        *)
AfterError(u) == IF queue[u].attempts >= TotalAttempts THEN Stop ELSE Retry

(* An exhausted handler without an error route is simply done.             *)
MutHandlerFailed(entered, u, n) ==
    IF MaxRetries[n] > 0 /\ queue[u].attempts <= MaxRetries[n]
    THEN [entered EXCEPT !.release = "retry"]
    ELSE [entered EXCEPT !.next = OnError[n]]

(* A ServiceTask whose handler failed: retries, on_error, or an incident.  *)
HandlerFailed(entered, u, n) ==
    IF MaxRetries[n] > 0 /\ queue[u].attempts <= MaxRetries[n]
    THEN [entered EXCEPT !.release = "retry"]
    ELSE IF OnError[n] # NoNode
         THEN [entered EXCEPT !.next = OnError[n]]
         ELSE [entered EXCEPT !.release = "incident"]

(* What a node does once its hooks ran and its conditions selected.        *)
NodeOutcomes(u, n, entered) ==
    CASE Kind[n] \in {"start", "gateway"} -> Continue(entered, n)
      [] Kind[n] = "end" -> {entered}
      [] Kind[n] \in {"wait", "user"} ->
            {[entered EXCEPT !.timer = (OnTimeout[n] # NoNode)]}
      [] Kind[n] = "service" ->
            Continue(entered, n)
              \cup {[entered EXCEPT !.next = n, !.nextDue = FALSE]}
              \cup {HandlerFailed(entered, u, n)}

(* enter(): the node is entered unless this is a retry of the same visit.  *)
(* A hook or condition error discards every proposed change; an uncertain  *)
(* host call and a condition error stop at once.                           *)
EnterOutcomes(w) ==
    LET u == worker[w].task
        n == queue[u].node
        entering == worker[w].visit # u
        entered == [NoChange EXCEPT !.enter = IF entering THEN n ELSE NoNode]
        fallible == RunsHook(worker[w].node, n, entering) \/ n \in Routed
    IN  NodeOutcomes(u, n, entered)
          \cup (IF fallible THEN {AfterError(u)} ELSE {})
          \cup (IF fallible \/ Kind[n] = "service" THEN {Stop} ELSE {})

(* A timeout that forgets to complete the wait.                            *)
MutTimeoutOutcomes(w) ==
    LET origin == queue[worker[w].task].node IN
    IF worker[w].taskVisit = worker[w].visit /\ ~ worker[w].waitDone /\ worker[w].node = origin
    THEN {[NoChange EXCEPT !.merge = TRUE, !.next = OnTimeout[origin]]}
    ELSE {NoChange}

(* ProcessEvent: the timer of the open visit closes it; any other timer is *)
(* consumed.                                                               *)
TimeoutOutcomes(w) ==
    LET origin == queue[worker[w].task].node IN
    IF /\ worker[w].taskVisit = worker[w].visit
       /\ ~ worker[w].waitDone
       /\ worker[w].node = origin
    THEN {[NoChange EXCEPT !.close = TRUE, !.merge = TRUE, !.next = OnTimeout[origin]]}
    ELSE {NoChange}

(* A signal is accepted by node, whichever visit it is bound to.           *)
MutSignalOutcomes(w) ==
    LET n == worker[w].node IN
    IF AcceptsSignal(n, queue[worker[w].task].signal) /\ ~ worker[w].waitDone
    THEN Continue([NoChange EXCEPT !.close = TRUE, !.merge = TRUE], n)
    ELSE {Retry, NoChange}

(* ProcessSignal: accept, discard, defer, or expire; which of the last two *)
(* is the signal retry policy's decision on the signal's age.              *)
SignalOutcomes(w) ==
    LET u == worker[w].task
        n == worker[w].node
        closing == [NoChange EXCEPT !.close = TRUE, !.merge = TRUE]
    IN  IF /\ AcceptsSignal(n, queue[u].signal)
           /\ ~ worker[w].waitDone
           /\ worker[w].taskVisit # NoUuid
           /\ worker[w].taskVisit = worker[w].visit
        THEN Continue(closing, n) \cup (IF n \in Routed THEN {AfterError(u), Stop} ELSE {})
        ELSE IF worker[w].taskVisit # NoUuid \/ ~ CanWaitForFutureSignal(n)
        THEN {NoChange}
        ELSE {Retry, NoChange}

Outcomes(w) ==
    CASE queue[worker[w].task].kind = "node" -> EnterOutcomes(w)
      [] queue[worker[w].task].kind = "event" -> TimeoutOutcomes(w)
      [] queue[worker[w].task].kind = "signal" -> SignalOutcomes(w)

-----------------------------------------------------------------------------
(* commit_task_execution *)

(* What load checked is taken to hold still.                               *)
MutFenced(w) == inst.state = "running" /\ Present(worker[w].task)

(* The fence every commit passes: lease, running instance, revision.       *)
Fenced(w) ==
    /\ HoldsLease(w)
    /\ inst.state = "running"
    /\ ~ worker[w].stale

(* recovery_task_uuid is left behind by the recovered task.                *)
MutCommittedInstance(w, c) ==
    [node |-> IF c.enter # NoNode THEN c.enter ELSE inst.node,
     visit |-> IF c.enter # NoNode THEN worker[w].task ELSE inst.visit,
     waitDone |-> IF c.enter # NoNode THEN FALSE ELSE inst.waitDone \/ c.close,
     state |-> IF c.release = "incident" THEN "suspended" ELSE inst.state,
     recovery |-> inst.recovery]

CommittedInstance(w, c) ==
    LET u == worker[w].task IN
    [node |-> IF c.enter # NoNode THEN c.enter ELSE inst.node,
     visit |-> IF c.enter # NoNode THEN u ELSE inst.visit,
     waitDone |-> IF c.enter # NoNode THEN FALSE ELSE inst.waitDone \/ c.close,
     state |-> IF c.release = "incident" THEN "suspended" ELSE inst.state,
     recovery |-> IF c.release = "consume" /\ inst.recovery = u
                  THEN NoUuid ELSE inst.recovery]

(* A Repeat reschedules its own row and queues a fresh task as well.       *)
MutReleasedRow(u, c) ==
    IF c.release = "consume" /\ c.next # queue[u].node THEN NoRow
    ELSE [queue[u] EXCEPT !.due = FALSE, !.lease = NoWorker]

(* The source row after the commit.                                        *)
ReleasedRow(u, c) ==
    CASE c.release = "consume" -> NoRow
      [] c.release = "retry" ->
            [queue[u] EXCEPT !.due = FALSE, !.lease = NoWorker]
      [] c.release = "incident" ->
            [queue[u] EXCEPT !.due = TRUE, !.lease = NoWorker]

(* The one row a commit inserts: the timer of a wait it enters, or the     *)
(* successor.  No transition inserts both.                                 *)
Inserts(c) == c.timer \/ c.next # NoNode

InsertedRow(u, c) ==
    IF c.timer THEN EventTask(c.enter, u)
    ELSE NodeTask(c.next, c.nextDue)

(* Only timers that are already due are deleted.                           *)
MutSibling(w, v) ==
    /\ queue[v].kind = "event" /\ queue[v].visit = worker[w].visit
    /\ v # worker[w].task /\ queue[v].due

(* close_wait deletes the visit's other timers.                            *)
Sibling(w, v) ==
    queue[v].kind = "event" /\ queue[v].visit = worker[w].visit /\ v # worker[w].task

CommittedQueue(w, c, new) ==
    LET u == worker[w].task IN
    [v \in Uuid |->
        IF v = u THEN ReleasedRow(u, c)
        ELSE IF v = new THEN InsertedRow(u, c)
        ELSE IF c.close /\ Sibling(w, v) THEN NoRow
        ELSE queue[v]]

CloseIsFenced(w) ==
    /\ worker[w].visit # NoUuid
    /\ ~ inst.waitDone
    /\ inst.visit = worker[w].visit

CommitAs(w, c, new) ==
    LET u == worker[w].task IN
    /\ c.close => CloseIsFenced(w)
    /\ inst' = CommittedInstance(w, c)
    /\ queue' = CommittedQueue(w, c, new)
    /\ incident' = IF c.release = "incident" THEN u ELSE incident
    /\ command' = IF c.release = "incident" /\ command = "names_open"
                  THEN "names_resolved" ELSE command
    /\ stored' = IF c.merge THEN worker[w].context ELSE stored
    /\ worker' = BumpRevision([worker EXCEPT ![w] = IdleWorker])
    /\ UNCHANGED <<patched, withdrawn>>

Commit(w) ==
    /\ worker[w].pc = "loaded"
    /\ Fenced(w)
    /\ \E c \in Outcomes(w) :
          \E new \in IF Inserts(c) THEN Fresh ELSE {NoUuid} : CommitAs(w, c, new)

(* A snapshot or commit the fence rejects is an error of the attempt: the  *)
(* slot is free again and the row stays leased until its lease expires.    *)
Reject(w) ==
    /\ \/ worker[w].pc = "claimed" /\ ~ (inst.state = "running" /\ HoldsLease(w))
       \/ worker[w].pc = "loaded" /\ ~ Fenced(w)
    /\ worker' = [worker EXCEPT ![w] = IdleWorker]
    /\ UNCHANGED <<inst, queue, incident, stored, patched, command, withdrawn>>

(* The attempt is dropped: heartbeat failure, shutdown, crash, or an       *)
(* abandoned dequeue whose transaction committed anyway.                   *)
Abandon(w) ==
    /\ worker[w].pc # "idle"
    /\ worker' = [worker EXCEPT ![w] = IdleWorker]
    /\ UNCHANGED <<inst, queue, incident, stored, patched, command, withdrawn>>

-----------------------------------------------------------------------------
(* Time *)

Expire(u) ==
    /\ Leased(u)
    /\ queue' = [queue EXCEPT ![u].lease = NoWorker]
    /\ UNCHANGED <<inst, incident, worker, stored, patched, command, withdrawn>>

BecomeDue(u) ==
    /\ Present(u)
    /\ ~ queue[u].due
    /\ queue' = [queue EXCEPT ![u].due = TRUE]
    /\ UNCHANGED <<inst, incident, worker, stored, patched, command, withdrawn>>

-----------------------------------------------------------------------------
(* Hosts, operators and administrators *)

(* enqueue_signal_if_new for a new event.  A producer may pin the signal   *)
(* to the current visit or to one that is over.                            *)
PostSignal(sig, requested, new) ==
    /\ Cardinality({u \in Uuid : queue[u].kind = "signal"}) < MaxSignals
    /\ new \in Fresh
    /\ requested \in {NoUuid, inst.visit} \cup (Fresh \ {new})
    /\ queue' = [queue EXCEPT ![new] =
          SignalTask(sig, IF requested # NoUuid THEN requested
                          ELSE IF AcceptsSignal(inst.node, sig) THEN inst.visit
                          ELSE NoUuid)]
    /\ UNCHANGED <<inst, incident, worker, stored, patched, command, withdrawn>>

(* apply_process_instance_patch, add_context_variable and                  *)
(* save_process_instance_context on the key, from any host thread.         *)
Patch(value) ==
    /\ stored' = value
    /\ patched' = value
    /\ worker' = BumpRevision(worker)
    /\ UNCHANGED <<inst, queue, incident, command, withdrawn>>

(* get_open_incident: the operator reads the identity of the open incident *)
Observe ==
    /\ incident # NoUuid
    /\ command' = "names_open"
    /\ UNCHANGED <<inst, queue, incident, worker, stored, patched, withdrawn>>

(* resume_instance with the incident the command names.  A command that    *)
(* names a resolved incident returns false and changes nothing; it may be  *)
(* delivered any number of times, at any time.                             *)
NamesOpenIncident == incident # NoUuid /\ command = "names_open"

Resume ==
    /\ NamesOpenIncident
    /\ Present(incident)
    /\ ~ Leased(incident)
    /\ queue' = [queue EXCEPT ![incident] =
          [@ EXCEPT !.attempts = 0, !.due = TRUE, !.lease = NoWorker]]
    /\ inst' = [inst EXCEPT !.state = "running", !.recovery = incident]
    /\ incident' = NoUuid
    /\ command' = "names_resolved"
    /\ worker' = BumpRevision(worker)
    /\ UNCHANGED <<stored, patched, withdrawn>>

(* FluxproAdminService::retry_queue_task *)
AdminRetry(u) ==
    /\ Present(u)
    /\ ~ Leased(u)
    /\ queue' = [queue EXCEPT ![u].due = TRUE]
    /\ UNCHANGED <<inst, incident, worker, stored, patched, command, withdrawn>>

(* Cancellation that looks at the lease and one of the two references.     *)
MutAdminCancelRecovering(u) ==
    /\ Present(u) /\ ~ Leased(u) /\ u # incident
    /\ queue' = [queue EXCEPT ![u] = NoRow]
    /\ withdrawn' = withdrawn \cup {queue[u].kind}
    /\ UNCHANGED <<inst, incident, worker, stored, patched, command>>
MutAdminCancelSuspended(u) ==
    /\ Present(u) /\ ~ Leased(u) /\ u # inst.recovery
    /\ queue' = [queue EXCEPT ![u] = NoRow]
    /\ withdrawn' = withdrawn \cup {queue[u].kind}
    /\ UNCHANGED <<inst, incident, worker, stored, patched, command>>

(* FluxproAdminService::cancel_queue_task                                  *)
AdminCancel(u) ==
    /\ Present(u)
    /\ ~ Leased(u)
    /\ u # incident
    /\ u # inst.recovery
    /\ queue' = [queue EXCEPT ![u] = NoRow]
    /\ withdrawn' = withdrawn \cup {queue[u].kind}
    /\ UNCHANGED <<inst, incident, worker, stored, patched, command>>

-----------------------------------------------------------------------------
Runner ==
    \/ \E w \in Worker, u \in Uuid : Fetch(w, u)
    \/ \E w \in Worker : Load(w) \/ Commit(w) \/ Reject(w) \/ Abandon(w)

Clock == \E u \in Uuid : Expire(u) \/ BecomeDue(u)

Host ==
    \/ \E sig \in Signal, r \in Uuid \cup {NoUuid}, new \in Uuid : PostSignal(sig, r, new)
    \/ \E value \in Value : Patch(value)

Operator ==
    \/ Observe
    \/ Resume
    \/ \E u \in Uuid : AdminRetry(u) \/ AdminCancel(u)

Next == Runner \/ Clock \/ Host \/ Operator

Spec == Init /\ [][Next]_vars

(* What the runner's scheduling gives: a rejected attempt frees its slot,  *)
(* an abandoned lease runs out, a scheduled task becomes due, and          *)
(* dequeuing in run_after order passes over no eligible task forever.      *)
(* Heartbeats keep the lease of a running attempt, so of the attempts at   *)
(* one task not every one is dropped, too late or overtaken by a host's    *)
(* patch: load and commit are strongly fair for each task.  Nothing is     *)
(* assumed of hosts, operators, crashes or handler outcomes.               *)
OnTask(w, u, A) == worker[w].task = u /\ A

Fairness ==
    /\ \A w \in Worker : WF_vars(Reject(w))
    /\ \A u \in Uuid :
          /\ WF_vars(Expire(u)) /\ WF_vars(BecomeDue(u))
          /\ SF_vars(\E w \in Worker : Fetch(w, u))
          /\ SF_vars(\E w \in Worker : OnTask(w, u, Load(w)))
          /\ SF_vars(\E w \in Worker : OnTask(w, u, Commit(w)))

FairSpec == Spec /\ Fairness

-----------------------------------------------------------------------------
(* Properties *)

(* Every variable keeps its type.                                          *)
TypeOK ==
    /\ inst \in Instance
    /\ queue \in [Uuid -> Row]
    /\ incident \in Uuid \cup {NoUuid}
    /\ worker \in [Worker -> WorkerRecord]
    /\ stored \in Value \cup {0}
    /\ patched \in Value \cup {0}
    /\ command \in {"none", "names_open", "names_resolved"}
    /\ withdrawn \in SUBSET TaskKinds

IsNodeTask(u) == queue[u].kind = "node"
OpenWait == IsWait(inst.node) /\ ~ inst.waitDone

(* However signals, timeouts, retries and lost leases interleave, at most  *)
(* one ProcessNode task exists, and none while the current wait is open:   *)
(* later events cannot create another continuation.                        *)
SingleContinuation ==
    /\ \A u, v \in Uuid : IsNodeTask(u) /\ IsNodeTask(v) => u = v
    /\ OpenWait => \A u \in Uuid : ~ IsNodeTask(u)

(* The dual: no lost lease, retry, incident or race loses the              *)
(* continuation.  Unless an administrator cancelled it, there is a task to *)
(* run, or the instance waits, or it is at a node nothing follows; and an  *)
(* open wait that has a timeout still has its timer.                       *)
NothingIsLost ==
    /\ "node" \notin withdrawn =>
          \/ \E u \in Uuid : IsNodeTask(u)
          \/ OpenWait
          \/ inst.node \in Node /\ Successors[inst.node] = {}
    /\ "event" \notin withdrawn /\ OpenWait /\ OnTimeout[inst.node] # NoNode =>
          \E u \in Uuid : queue[u].kind = "event"

(* A timeout task in the queue always belongs to the wait that is open     *)
(* now: closing a visit removes its timers before anything else can run.   *)
TimersBelongToOpenWait ==
    \A u \in Uuid : queue[u].kind = "event" =>
        /\ OpenWait
        /\ queue[u].visit = inst.visit
        /\ queue[u].node = inst.node

(* An instance is suspended exactly while an incident is open, and the     *)
(* task the incident retains is in the queue, unleased, until the resume;  *)
(* the resumed task stays until its own transition commits.                *)
RetainedTaskSurvives ==
    /\ (inst.state = "suspended") <=> (incident # NoUuid)
    /\ incident # NoUuid => Present(incident) /\ ~ Leased(incident)
    /\ inst.recovery # NoUuid => Present(inst.recovery)

(* After a resume no other task can commit a transition before the         *)
(* retained one: no snapshot of another task passes the revision fence.    *)
RecoveryRunsFirst ==
    \A w \in Worker :
        worker[w].pc = "loaded" /\ Fenced(w) /\ inst.recovery # NoUuid
            => worker[w].task = inst.recovery

(* Merging a whole snapshot context at a wait never undoes a direct patch  *)
(* a host made after the snapshot was read.                                *)
NoLostPatch == stored = patched

(* A completed wait visit is never reopened, and only an event bound to    *)
(* that visit, consumed by the same commit, completes one.                 *)
WaitClosesOnce ==
    [][inst'.visit = inst.visit =>
        /\ inst.waitDone => inst'.waitDone
        /\ inst'.waitDone /\ ~ inst.waitDone =>
              \E u \in Uuid : /\ queue[u].kind \in {"event", "signal"}
                              /\ queue[u].visit = inst.visit
                              /\ queue'[u].kind = "none"]_vars

(* A suspended instance does not move: until the resume no task is         *)
(* claimed, and neither the node, the visit nor the wait changes.          *)
SuspendedIsQuiet ==
    [][inst.state = "suspended" =>
        /\ inst'.node = inst.node
        /\ inst'.visit = inst.visit
        /\ inst'.waitDone = inst.waitDone
        /\ \A u \in Uuid : Leased(u)' => Leased(u)]_vars

(* A task that is due is run, rescheduled or cancelled, unless the         *)
(* instance is suspended or recovering another task: crashes, dropped      *)
(* attempts and orphaned leases only delay it.                             *)
Handled(u) ==
    \/ ~ (Present(u) /\ queue[u].due)
    \/ inst.state = "suspended"
    \/ inst.recovery \notin {NoUuid, u}
DueWorkRuns == \A u \in Uuid : []<>Handled(u)

(* A resumed instance does not stay blocked behind its retained task: the  *)
(* task commits or the instance is suspended again.                        *)
RecoveryEnds == []<>(inst.recovery = NoUuid \/ inst.state = "suspended")
=============================================================================
