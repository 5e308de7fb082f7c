# FluxPro engine: TLA+ models, model checking and proofs

FluxPro is an embedded workflow engine: a host publishes process definitions
(Start, End, Gateway, Wait, UserTask and ServiceTask nodes), starts instances of
them, and the engine moves every instance from node to node through a durable
queue in PostgreSQL. Runners in any number of host processes dequeue tasks, call
the host's handlers outside any transaction and commit each transition through
a revision fence. Authors edit definitions in a browser editor and watch
instances in a monitor. This directory holds the models of that machinery, the
TLC runs over small instances, and the TLAPS proofs that hold for every instance.

## 1. The system and its components

| Component | Code (under `src/src`) | State | Operations |
| --- | --- | --- | --- |
| Durable execution path | `db_service/task_execution.rs`, `service/process_service/execution.rs`, `db_service/incidents.rs` | `process_instance`, `queue_runner`, `process_incident`, context rows | start, load, prepare (hooks, handlers, conditions), commit, resume |
| Queue leases | `db_service/mod.rs` (`fetch_queue_task`, `renew_queue_task_lock`), `engine/fluxpro_runner/runner.rs` (`maintain_lease`) | `lock_key`, `locked_by`, host deadlines | dequeue, renew, drop, release, expire |
| Runner | `engine/fluxpro_runner` | worker slots, `Notify`, shutdown watch | admit, wait, run, stop |
| Signal admission | `db_service/mod.rs` (`enqueue_signal_if_new`) | `signal_receipt`, `signal_history` | post, deduplicate, bind to a visit |
| Archive | `archive.rs` | `signal_history`, `process_instance_log` | fetch a batch, delete archived rows |
| Definition registry | `db_service/mod.rs` (`register_process_definition`, `get_current_process_def`), migration 7 | `process_definition` rows | register, publish, select, start |
| Legacy version repair | `migrations/legacy_versions.rs` | duplicate definitions, reviewed plans | plan, edit the plan, apply |
| Definition model | `models/process_def.rs` | the authored graph | validate, unreachable nodes |
| Editor | `editor/document.rs`, `declarations.rs`, `settings.rs`, `publication.rs`, `components*` | document, coordinates, undo and redo stacks, selection, drag, forms | edit, rename, arrange, undo, redo, apply a form, prepare a publication |
| Monitor | `editor/monitor*.rs`, `editor/admin.rs` | request with its revision, accepted snapshot, tabs | open, close, filter, page, poll, load, accept a snapshot |
| Low-level service operations | `service/process_service.rs`, `db_service/mod.rs` | instance, variables, queue rows, cancellation marks | `handle_node`, writes, timers, cancel, kill, retry |
| Signal retry policy | `models/signal_delivery.rs` | none (pure) | decision |
| Context maps | `models/context_map` | none (pure) | apply a patch |
| Administration | `admin` | none of its own | queue retry and cancel, resume, lists, audit, export |
| HTTP routes, row decoding, expressions | `api_handlers`, `impls`, `db_models`, `service/expressions.rs` | none | adapters |

What makes them correct, component by component. Execution: one continuation per
instance, never lost, timers and signals bound to one visit, incidents that retain
their task. Leases: at most one executing attempt. Runner: no wakeup lost, no two
workers on one instance, shutdown stops it. Admission: an event admitted once, every
answer true. Archive: the newest row of an active instance stays. Registry: a total
registration order, publications that only increase, instances bound for ever to the
body they started with. Legacy repair: no duplicates afterwards, starts undisturbed,
stale plans refused. Validation: whatever is published can run. Editor: undo leads
back, a rename keeps every reference, a stale form is refused, a publication follows
the newest stored version. Monitor: no snapshot of an older request replaces a newer
one, no history skips a row. Low-level operations: a timer stays cancellable, an
attempt commits only over what it read.

How they interact. Hosts call `FluxproService` (start, post a signal, patch the
context, resume an incident); every call is a PostgreSQL transaction on the rows
above. A runner loop dequeues one task per free slot, spawns `run_one`, which
polls the execution and a heartbeat together, and is woken by a local
notification, a completed worker or a polling interval. Administrators act
directly on queue rows. There is no shared memory between processes: everything
hard happens between transactions.

What is hard: two runners on one instance; a lease that expires under a running
attempt; a timer racing the signal that answers its wait; signals that come
early, late or twice; direct context patches racing a whole-context merge;
handlers that fail, panic or time out with unknown effect; incidents, duplicate
and stale resumes; cancellations racing incidents; a COMMIT whose answer is lost.
In the editor and the monitor there is one thread but many orders: forms older than
the document they are applied to, a drag that goes on across an undo, answers to
requests that are no longer asked, pages of a log that grows while it is read.
`PROJECT.json` lists each of these hazards with its line and the properties
that watch it.

## 2. Modules

| Module | What it is |
| --- | --- |
| `WorkflowDefinition` | The published definition as constants, with the assumptions `ProcessDefinition::validate` guarantees |
| `DurableTransitions` | The durable execution path of one instance, one action per transaction or local step |
| `DurableInvariant` | The inductive invariant `IInv` of the proofs |
| `DurableTransitionsProofs` | Its theorems, and the theorem that it refines `WorkflowToken` |
| `WorkflowToken` | The abstract promise: one token, one edge at a time |
| `DurableRefinement` | The refinement mapping from `DurableTransitions` to `WorkflowToken` |
| `QueueLease` | Leases, heartbeats, commits and cancellation of one instance's rows, statement by statement |
| `QueueLeaseProofs` | Its theorems |
| `EngineRunner` | The runners of one engine: slots, the shared `Notify`, two-statement dequeues, polling, shutdown |
| `EngineRunnerProofs` | Its theorems |
| `SignalAdmission` | Admission of posted signals, duplicate suppression, and archival of their history |
| `SignalAdmissionProofs` | Its theorems |
| `DefinitionRegistry` | Registration, publication and selection of the versions of a key, and the start of instances |
| `DefinitionRegistryProofs` | Its theorems |
| `HostService` | The low-level operations a host may call beside the durable path, and what they do to its attempts |
| `DefinitionDocument` | A definition as authored: references, `validate`, reachability |
| `EditorDocument` | The editor's document and every operation on it |
| `EditorSession` | A mounted editor: history, selection, drag, connection, forms, publication |
| `EditorSessionProofs` | The theorems about documents, history, publications, references and the worklists |
| `Retention` | `Vec::retain`, by the positions it keeps |
| `RetentionProofs` | What it keeps, and the induction and recursion the other proofs use |
| `MonitorSession` | A mounted monitor, the loads it asks for and the log that grows under them |
| `LegacyVersions` | Plans to repair duplicate versions, and their application |
| `HostSurfacesProofs` | The theorems about the last three: the monitor, the low-level operations and the repair |
| `HostSurfacesMC` | The monitor, the low-level operations and the repair, in one specification |
| `DurableTransitionsMC`, `DurableRefinementMC`, `QueueLeaseMC`, `EngineRunnerMC`, `SignalAdmissionMC`, `DefinitionRegistryMC`, `EditorSessionMC` | Small instances for TLC |

`DurableRefinement` composes `DurableTransitions` with `WorkflowToken`; `QueueLease`
opens what `DurableTransitions` takes as one step; `EngineRunner` takes a
transaction of `DurableTransitions` as "rows become ready"; the queue task an
admission of `SignalAdmission` inserts is the signal of `PostSignal`; the
definition a start of `DefinitionRegistry` binds is the constant
`WorkflowDefinition`, which `BoundVersionIsStable` justifies: a running instance
never sees another one. `EditorSession` composes `EditorDocument`, which rests on
`DefinitionDocument`; what it publishes is a version `DefinitionRegistry` registers.
`HostService` runs beside a coarse copy of the runner's fenced commit.

### DurableTransitions

One instance is the whole story: the instance row lock serialises everything
that touches it and instances share no row.

| Variable | Code |
| --- | --- |
| `inst` | `process_instance`: `current_node_ref`, `node_visit_id`, `wait_completed`, `execution_state`, `recovery_task_uuid` |
| `queue` | `queue_runner`: task kind, `node_visit_id`, `attempts`, `run_after` passed, lease |
| `incident` | the task of the unresolved `process_incident` row |
| `worker` | what each slot of each runner holds: a claim, then a `TaskExecutionSnapshot` |
| `stored` | one context key that hosts patch directly |
| `command` | which incident the operator's resume command names |
| `patched`, `withdrawn` | history, read only by properties |

`Fetch`, `Load`, `Commit`, `Reject` and `Abandon` are the runner;
`Expire` and `BecomeDue` are time; `PostSignal` and `Patch` the host; `Observe`,
`Resume`, `AdminRetry` and `AdminCancel` operators. `Commit` chooses one of the
`Outcomes` the prepared task may have, which follow `process` and `enter` branch
by branch, and applies it in one step as `commit_task_execution` does. Code that
runs between load and commit (hooks, conditions, handlers) has no effect on the
rows, so its result is a choice at commit time, and an attempt that never gets
there is an `Abandon` or a `Reject`.

Abstractions, all of data: the revision column is kept as "has it moved since this
snapshot" (`stale`), which is all the fence reads of it; attempts saturate above every
limit they are compared with (`AttemptCapIsExact`); time is "expired" and "due";
a UUID may be used again once nothing mentions it; signal payloads and stages
are left out; conditions select any declared target, or fail.

### QueueLease

`DurableTransitions` takes a transaction as one step and a renewed lease as one
that has not expired. `QueueLease` opens the transactions up: a clock, committed
rows, uncommitted renewals and commits that hold row locks and may outlive the
attempt that sent them, host deadlines measured before the dequeue, and
READ COMMITTED re-evaluation after a lock wait. It justifies the atomicity of the
first module (`OneAttemptExecutes`) and shows where the documents promise
more than the statements give (section 5).

### EngineRunner

| Variable | Code |
| --- | --- |
| `row` | `queue_runner`: absent or not due, ready, leased |
| `lock` | the instance row locks |
| `loop` | the program counter of each `run_until_stopped`, and what its dequeue holds |
| `slot` | its `JoinSet` |
| `permit` | the permit of the shared `Notify` |
| `pending` | local commits whose `notify_one` has not run |
| `left` | history: eligible rows that no local notification announces |
| `unseen`, `monitor` | the `watch` receivers that have not seen the trigger; the health monitor |

`Choose` and `Claim` are the two statements of `fetch_queue_task`, with the row
lock in between; the first chooses from a snapshot in which an instance leased
meanwhile still looks eligible, and the second then finds nothing although another
instance may have work, which polling finds later. `NotifyOne` and `LeaveWait` model
tokio's `Notify` (external): one permit, and a dropped waiter passes its notification
on. A dropped call (`DropPost`), a silent change by another process and a dequeue
dropped by shutdown leave work to polling, and `left` says exactly which:
`NoLostWakeup` says there is nothing else. Times are left out.

### SignalAdmission

| Variable | Code |
| --- | --- |
| `producer` | each caller: its command, and the transaction it has open or the answer it got |
| `lock` | the instance row lock of `enqueue_signal_if_new` |
| `receipt` | `signal_receipt` |
| `history` | `signal_history`, with `created_at` and `uuid` |
| `admitted` | history: the admissions in commit order |
| `batch` | what the archiver fetched and stored, and may delete |
| `final`, `now` | whether the stage is final; the database clock |

`Begin` fixes `created_at` (PostgreSQL's `now()`), `LockAndRead` waits for the
instance row and reads the receipt, `Admit`, `SkipDuplicate` and `Refuse` commit or
refuse, `RollBack` loses the connection, and a caller that lost its answer posts the
same command again. `FetchBatch` and `DeleteArchived` are the archive's two steps,
with admissions, stage changes and other deletions in between. Left out: the binding
to a wait visit (in `DurableTransitions`) and rows of tokens without an instance.

### DefinitionRegistry

| Variable | Code |
| --- | --- |
| `stored` | `process_definition` rows of one key |
| `registrar`, `advisory` | `register_process_definition` calls past their checks, and the advisory lock |
| `starter` | `start_process_instance` calls: selected by the query, then locked FOR SHARE |
| `instance` | `process_instance.process_def_uuid`, and the body the start read |
| `now` | the clock |

`Check` takes the lock, checks and computes the index; `Register` inserts and
commits, `Fail` rolls back. `Select`, `Recheck`, `Bind` and `GiveUp` are a start.
`SetStatus`, `SetDeprecatedAt`, `Edit` and `Delete` are the SQL of hosts that the
triggers of migration 7 let through. Keys share no row (two keys can share a hash,
and then only wait), so one key is modelled; a version is its ordinal, a body its
graph and declarations.

### HostService

| Variable | Code |
| --- | --- |
| `instance` | revision, `node_visit_id`, current node and stage of `process_instance` |
| `context` | the variables of the default scope |
| `queue`, `marks`, `tasks` | `queue_runner`, `queue_cancel_task`, and how many rows were ever inserted |
| `call` | where each host call is: `handle_node` is a sequence of transactions |
| `attempt` | what a runner that executes a task has read |

`HandleNode`, `AssignStage`, `Hook`, `Dispatch`, `HandlerReturns`, `WriteContext`,
`QueueNode` and `Schedule` are `handle_node` and the operations it shares with direct
calls; `Fails` ends a call between any two of its transactions. `BeginCancel` and
`FinishCancel` are the two halves of `cancel_queue_tasks`: identities read in one
transaction, deleted in another. `KillTask` and `RetryTask` are what a holder may do
with its row; a row may change hands while its attempt still runs. Two calls of one
operation by the same caller are two callers.

### DefinitionDocument and EditorDocument

Pure operators. `Validate` has one conjunct per group of checks in
`ProcessDefinition::validate`; `Routes` lists every reference of a node and
`NodeTargets` those the engine follows; `Layer` is the worklist of
`unreachable_nodes` and of the automatic layout, as a recursive function.
`EditorDocument` has one operator per edit, with its refusals as `CanXxx`: adding,
moving, connecting, disconnecting, replacing and removing blocks, saving block,
process and declaration forms with the renames they imply, `AutoLayout`, and
`Prepared` and `CanPublish`. Texts are left out; of a condition the signals it
mentions are kept; a coordinate is a number.

### EditorSession

| Variable | Code |
| --- | --- |
| `doc`, `past`, `future` | `EditorState`: the document, undo and redo stacks (`edits` counts the entries made) |
| `selected`, `connecting`, `drag` | the selection, a connection or a drag under way |
| `nodeForm`, `processForm`, `panel` | drafts, with the settings they were filled from |
| `published` | key and version of the newest definition the host stored |
| `activity` | which groups of events occur in a behaviour, a bound |

An action is one browser event with its whole handler and the effects it triggers,
which run before the next event: `Settle` refreshes a form that has no unapplied
changes and keeps one that has. `ApplyNode` and `ApplyProcess` need no pending
change, as in the code: a clean "Apply settings" records an entry that undoes to the
same document. An edit is `Checkpoint` and a new document; a refused
edit changes nothing. `HostEdit` is external: the operations of the document that the
views do not offer, which a host applies through `EditorState::edit`.

### MonitorSession

| Variable | Code |
| --- | --- |
| `scope`, `mount` | the definition version shown, and which mount of the monitor this is |
| `request`, `revision` | the current request, and the counter every mount shares |
| `accepted`, `error`, `tabs`, `active`, `live` | the session: the last accepted snapshot and the tabs |
| `chosen` | the instance the host has selected |
| `loading` | the requests being answered: which histories were read, and how far |
| `rows` | the visible execution log of each instance, newest first |

Every change of the request is `Change`: a new revision and a load. `CountRows` and
`ReadRows` are the two statements the adapter reads each page with; `LogRow` adds a
row in between, on top or below a newer one. A history reports the count of the last
page it got. `old`, the rows that were visible when its reading began, is a history
variable that stays with the finished detail, so that a property can speak of it on
screen; `HistoryFails`, `AnswerPage`,
`AnswerForeign` and `AnswerError` are the answers, in any order. `Receive` keeps only
an answer to the current request, and `KeepReadable` the last readable history.

### LegacyVersions

| Variable | Code |
| --- | --- |
| `table`, `migrated` | `process_definition`, and whether migration 7 has made versions unique |
| `plan` | the plan each operator has in hand: its rows, its time, its changes |
| `clock` | what decides which row of a group is eligible, and so keeps its number |

`Plan` is `plan_legacy_versions`, `EditPlan` an operator's change of which row is
retained, `Outcome` and `Apply` `apply_legacy_version_plan`, whose checks refuse what
is stale; `RegisterOld` and `Deactivate` are the writers of the old release.

## 3. Runs

| Run | Bounds | What it shows |
| --- | --- | --- |
| `durable_wait` | 4 nodes in a loop around a Wait with a timeout, 5 task identities, 2 slots, 1 signal at a time | `SingleContinuation`, `TimersBelongToOpenWait`, `WaitClosesOnce` |
| `durable_failure` | Start, Wait, ServiceTask with a retry, End with a hook; conditions that fail; 4 identities, 2 slots | `IInv`, `NothingIsLost`, `RetainedTaskSurvives`, `RecoveryRunsFirst`, `SuspendedIsQuiet`, `ImplementsToken` |
| `durable_progress` | the workflow of `durable_failure`, 3 identities, 1 slot, no signals, two values of the patched key; fairness | `NoLostPatch`, `DueWorkRuns`, `RecoveryEnds` |
| `queue_lease` | 2 tasks, 3 claims, a lease of 2 ticks, 5 ticks | `LeaseTypeOK`, `OneAttemptExecutes`, `DeadlineIsConservative` |
| `signal_admission` | 2 producers, 1 event and 1 malformed identity, 3 contents (1 undeclared, 1 logged by the host), 2 rows, batches of 1 | `AdmissionInv`, `EventAdmittedOnce`, `AcceptedWasAdmitted`, `RefusalIsJustified`, `NewestIsRetained` |
| `runner` | 1 runner with 2 slots beside other processes, 1 instance of 2 rows; fairness | `RunnerTypeOK`, `NoLostWakeup`, `OneWorkerPerInstance`, `ShutdownStops` |
| `registry` | 3 versions, 3 rows, 3 indices, 2 registrations, 1 start, 2 bodies, 2 instants | `RegistryInv`, `RegistrationOrderIsTotal`, `PublicationsIncrease`, `BoundVersionIsStable`, `StartsOnEligibleVersion` |
| `editor` | a stored process of 3 blocks, 4 block and 2 signal identities, a history of 2, behaviours of 2 or 3 edits in four groups of events | `EditorInv`, `UndoReachesTheStart`, `GraphIsExact`, `NoEditStrands`, `PublishedIsRunnable` |
| `host_surfaces` | monitor: 2 versions, 2 instances, 3 log rows, pages of 1, 4 requests, 2 loads; operations: 3 blocks, 2 callers, 1 runner, 2 tasks, 2 writes; repair: tables of 2 or 3 rows, 2 operators, 2 plans, 1 write, 2 instants | `MonitorInv`, `HistoryHasNoGap`, `ViewNeverRegresses`, `TimersStayCancellable`, `CommitSeesTheInstance`, `RepairIsExact` |
| `lease_late_renewal`, `lease_cancel_race` | as `queue_lease` | expected violations, section 5 |
| `last_signal` | 2 producers, 1 content, 2 instants | expected violation, section 5 |

Why the bounds are enough. A state of the durable path holds at most one
ProcessNode task, one timer of the open wait and the signals; four identities
let all three coexist with a fresh one for the task being inserted, and the fifth
lets a stale pinned visit coexist with them. Two slots give every race of an
expired claim with the next one; a third claim would only wait. One signal
suffices for a race between a signal and a timer, and for a signal that
outlives its visit (it is posted again in every reachable state). In
`queue_lease` three claims are needed because a dropped claim whose renewal is
still in flight can meet a second and a third; a lease of two ticks separates
"not expired", "expires now" and "expired". `TotalAttempts` is 2 in
`durable_failure` (3 in the code): a first failure, a last one, and the saturated
count above both.
`durable_progress` posts no signals and needs three identities: a task, a timer or a
retained task, and a fresh one. In `signal_admission` two rows are an older and a
newest one, batches of one row make the archiver choose, and a producer that repeats
its command gives every retry. In `runner` the other processes of the database are
present as `RemoteClaim`, `LockOther` and `Silent`; two slots let one instance's rows
meet two workers. Two runners that share one `Notify` were checked apart from the
regular runs (`RunnerInv` on two runners, two instances and two tasks: 1.9 million
states), and `EngineRunnerProofs` covers any number of them.
In `registry` three versions are what separates "above the base"
from "above all"; a deleted draft frees its row, so that a version can be registered
again.
In `editor` a history of two is shorter than the three edits made, so entries are
dropped; the groups keep apart events that do not meet (the canvas never reads a
declaration form), and settings and declarations share a group because a rename in one
makes the other's form stale. The spare block identity is what a form renames to and
what an added block takes; one signal is declared and one is free. In `host_surfaces`
pages of one row make every read of a history span several statements; a tab limit of
one makes the second tab refused; two loads are a late and a current one. Two tasks
and two callers are a timer cancelled twice, or cancelled and replaced. A version
component goes up to 1, so that the successor carries and overflows.
`CHECK_DEADLOCK FALSE` is said for `QueueLease`, `editor` and `host_surfaces`, whose
clocks, edits, requests and plans are bounded.

### Fairness

`FairSpec` assumes what the runner loop gives: a rejected attempt leaves its
slot, leases run out, `run_after` passes, and dequeuing in `run_after` order,
with a polling interval behind every notification (`wait_for_queue_activity`),
passes over no eligible task for ever. Fetch, Load and Commit are strongly fair
per task, because other tasks, host patches and dropped attempts may disable them
again and again; an environment where every attempt of a task is overtaken by a
patch, or every handler outlives its lease, is excluded. Nothing is assumed
about hosts, operators, crashes or the outcome of a handler.

`FairSpec` of `EngineRunner` assumes that the host runs the runners it makes and that
tokio schedules each of their steps (weak fairness of the loop, the monitor and the
workers); that an attempt ends, because its heartbeat has a deadline that a failing
renewal cannot move; and strong fairness of `StopLoop`, because `select!` polls its
arms in random order and a trigger stays visible in the `watch` receiver.

## 4. Proofs

`DurableTransitionsProofs` proves every safety property of the durable path for
every definition satisfying `DefinitionTypes` and `DefinitionIsValid`, any sets of
tasks, workers, values and signals, and any attempt limits:
`TypeCorrect`, `InvariantHolds`, `NeverForks`, `NeverStrands`, `TimersAreCurrent`,
`IncidentKeepsItsTask`, `RetainedTaskIsFirst`, `PatchesAreKept`, and the action
properties `WaitsCloseOnce` and `IncidentsStopTheInstance`.

The argument. None of the properties is inductive alone. A commit acts on a
snapshot, so the invariant says what a snapshot that can still pass the fence is
worth: one that is not stale agrees with the instance (`SnapshotsAreCurrent`), and
its lease protects the row it read. A commit then behaves as if it had read the
instance itself. A commit that does not enter a node must belong to the same
visit: only a ServiceTask's row survives entering its node (`RetriesStayAtTheirNode`).
At most one row is leased, none while suspended, and only the retained one
after a resume (`LeasesAreExclusive`), which gives `RecoveryRunsFirst` and the quiet of a
suspended instance. `OutcomesShape` bounds what a task may propose; `CommitRows`
and `CommitInstance` say what a commit leaves; `CommitPreserves` combines them, and there is
one lemma for every other action.

It also proves `EngineMovesOneToken`: the durable path implements
`WorkflowToken`. The mapping reads the token off the one ProcessNode task or the
current node; `TokenInv` adds what `IInv` does not say of it: after a cancellation of
the node task nothing is left that could continue the instance, and an incident
retains a node task or leaves a wait open. Steps that keep the node tasks and the wait
are stutters or a recovery (`OtherSteps`); a commit is taken apart by what it consumed
(`NodeCommit`, `EventCommit`), and moves the token along an edge, lets it arrive at or
complete a wait, or halts it.

`QueueLeaseProofs` proves `LeaseTyped`, `OneExecutes` and `DeadlinesAreConservative`
for any tasks, claims, lease length and clock. `LeaseInv` says of every claim what its
deadline is worth (`Sound`): an attempt that runs, or may still start, owns its row,
and its deadline is at most the expiry in the row or in the renewal it has in flight,
because it is counted from before the statement was sent; and at most one claim is
live (`OneLives`), where a commit that holds its locks counts as live although its
attempt may have ended.

`EngineRunnerProofs` proves `RunnerTyped`, `OneWorker` and `WakeupsAreNotLost` for any
runners, slots, instances and tasks. `RunnerInv` adds that a dequeue between its
statements holds the lock of the instance it chose (`LocksAreHeld`), that whoever
carries a task holds its lease, alone (`HoldersAreLeased`), and `WorkIsAnnounced`: an
eligible row is either on the list of what polling must find, or somebody will look:
there is a permit, a commit that has yet to notify, a worker to join, a runner on its
way to a dequeue or one whose snapshot contains it.

`HostSurfacesProofs` has three parts.

The low-level operations: `TimersAreCancellable` and `CommitsAreCurrent`, for any
blocks, variables, callers and runners. `HostInv` adds that rows are distinct and were
given out (a cancellation may hold identities of rows that are gone) and that an
attempt whose revision still matches read the instance and variables as they are
(`ReadsAreFenced`), which every direct write keeps true by taking a new revision.

The monitor: `ScreenIsCurrent`, `HistoriesHaveNoGap` and `ViewsNeverRegress`, for any
versions, instances, filters, limits and numbers of requests, loads and log rows.
`SessionInv` says that the tabs are those of the last request, that every load names a
request and a mount that were, and reads the histories in the request's order
(`ReadsInOrder`), and that what is on screen is of this mount; an answer that is
accepted is then current by its revision alone. None of that speaks of the rows, so
`ViewInv` follows the history of each load: of the rows visible when it began it has
the newest without a gap (`LoadFollows`), and so do those it has finished and those on
screen (`AcceptedFaithful`), also when `KeepReadable` puts an earlier history in the
place of a failed one (`KeptIsFaithful`). They keep their order, and an inserted row only
moves them down, so the next page starts at or before the first one not read. A history
that ends without an error has what was asked for or all its total counts: a page comes
back empty only when the rows read are as many as were counted (`PageEnds`). Rows that
were read are still there (`LoadExists`, `AcceptedExists`), so a later load of the same
instance that does not fail reads some too (`LoadStays`).

The repair: `RepairsAreExact`, for any tables, old writers, operators and last version
number. It is about the applies that write: one that finds its work done checks for
duplicates itself and changes nothing, a stuttering step. `RepairInv` needs little: a plan's rows could be repaired when it was made, and
a migrated table has no duplicates. The rest is about the functions: `Below` is a total
order and a successor is above what it succeeds, with its carries; the highest version
of a key and the first row of a group exist, as greatest elements of finite sets
(`GreatestOf`); so every number given is above all of its key (`NewVersionFacts`), and
a plan that applies was made from the rows as they are now and chooses, at the present
time, the same row to keep (`AppliedFacts`), which answers for the number if any row of
the group could (`NumbersAreAnswered`).

`EditorSessionProofs` proves all that the `editor` run checks, for any definitions,
forms, identifiers and limit, along five parts.

- Documents. `Sound` says that a document is typed and its identifiers and coordinates
  agree; every operation of `EditorDocument` keeps it. `EditorIInv` is the inductive
  invariant: `UndoInv` (the stacks hold sound documents, no more of them than edits were
  made, so nothing was dropped while there are at most `HistoryLimit`) and the types
  of the open forms, without which an applied form could bring an untyped block into the
  document. `DocumentsStaySound` and `UndoLeadsBack` follow; a drag, the one change
  without a history entry, leaves the definition alone.
- Publication. `PublicationsCanRun`: a publication is refused unless the definition
  validates, and in a definition that does, whatever the Start reaches exists and can be
  left (`ValidIsRunnable`).
- References. `EditsStrandNothing` is a step property over what an operation does to the
  references (`StrandsOnly`): each one keeps every target that others name, or follows it
  (`NodeKept`, `TopicKept`): a renamed identifier is replaced in all pointers and in the
  arguments that carry it; a removal is refused while something refers to it; and only
  the block a form writes may refer to what is missing.
- Worklists. `WorklistsAreExact`: `unreachable_nodes` and `auto_layout` are iterations
  that the code ends when nothing changes and the model after as many rounds as there
  are blocks. There are no more identifiers than blocks, and a round that changes
  anything adds one, so the layers settle within those rounds (`LayersSettle`); the
  settled set is closed and is contained in every closed set with the Start; the row of
  a block is the first round that has it, so no edge skips a row, and the rows of
  unreached blocks and Ends come below.
- Lists. The code filters with `Vec::retain`, modelled by `Retention`; `RetentionProofs`
  says what it keeps (`RetainFacts`).

`SignalAdmissionProofs` proves `AdmissionHolds`, `AdmittedOnce`, `AnswersAreTrue`,
`RefusalsAreTrue` and `NewestStays` for any producers, events, contents and clock. The invariant
`AdmissionInv` adds to the properties that receipts and identified admissions agree
(`ReceiptsMatch`) and that the verdict of the one transaction that holds the instance
row is still what the receipts say (`VerdictsAreCurrent`), which is what the lock is
for: without it neither uniqueness nor the truth of an answer is inductive.
`NewestStays` holds because the deletion evaluates its condition again.

`DefinitionRegistryProofs` proves `RegistryHolds`, `RegistrationIsOrdered`,
`PublicationsOnlyIncrease`, `BoundVersionStays` and `StartsAreEligible`. `RegistryInv` adds that only one
registration is past its checks and that its index and, for a publication, its
version are still above all rows (`ChecksHold`); that what a start read is still a
published row with that body, and eligible once it is locked (`StartsHold`); and
that versions with instances are not drafts (`BoundIsPublished`). The four host
actions are proved at once as cases of `HostEdit`, which says what the triggers and
the FOR SHARE lock let through.

Induction is over sets of naturals (`LeastNat`, `NatSetInduction` in `RetentionProofs`,
from the well-foundedness of `<`), and `Recursion` gives the functions that recursive
definitions choose; that is how the recursive functions of the editor and the repair
can be proved about, although the library's own induction theorems take operators,
which the provers cannot instantiate.

Proving changed the model in four places. `AnswerError` left a failed load in the set of
those that run, with what it had read, and is now an answer like the others. The kinds
of a block carry only the fields of their variant of `Node` (`OfItsKind`): an End with
routes, which no `ProcessDefinition` can hold, refutes `GraphIsExact`. Optional fields
need `None` to be no value (`NoneIsNothing`). `retain` was a `SelectSeq`, whose
definition the provers do not open.

The assumptions are those named in the modules (`RuntimeTypes`, `AttemptCapIsExact`, `DefinitionTypes`,
`DefinitionIsValid`, `AdmissionTypes`, `RegistryTypes`, `LeaseTypes`, `RunnerTypes`,
`HostTypes`, `EditorTypes`, `NoneIsNothing`, `MonitorConstants`, `RepairTypes`): types of the
constants, and what `ProcessDefinition::validate` guarantees. `EditorTypes` also says that
the document the editor is mounted with is one (identifiers unique, a coordinate for
each block), and `RepairTypes` that an old table holds rows with three-part versions.

Only model-checked: the liveness properties `DueWorkRuns`, `RecoveryEnds` and
`ShutdownStops` (fairness and ENABLED are outside the prover). Every other property a
passing run checks is a theorem. The three violated ones have counterexamples.

## 5. Findings

1. `lease_late_renewal`: the doc comment of `fetch_queue_task` promises that no
   dequeue leaves two live leases in one instance. A renewal that passed its clock
   check can commit after its lease expired and another task was leased. No two
   attempts execute (`OneAttemptExecutes`): the first claim's host has already given up.
2. `lease_cancel_race`: `docs/architecture.md` says queue cancellation cannot delete an
   unresolved incident's task. The cancellation's NOT EXISTS subqueries keep the
   statement's snapshot across a lock wait, so an incident committed meanwhile is not
   seen and its task is deleted.
3. `last_signal`: the doc comment of `get_last_signal` promises the most recently
   admitted signal. It orders by `created_at`, which is the start of the admitting
   transaction, while admissions are ordered by the instance row lock taken later; a
   post that waits for the lock is admitted last and sorts first.

Divergences met while modelling that no run states as a property, because they can be
read off one handler or because no document promises more:

- For hosts that set `require_applied_changes`, `docs/editor.md:264-267` says that
  switching away from a block with pending changes is guarded. Every change of
  selection asks `guard_node_change`, except a click on a block's outgoing port
  (`editor/components.rs:660`): the form and its pending mark are dropped. `OutPort`
  follows the code.
- The same paragraph says that saving is disabled until the forms are applied or
  reloaded. Applying a declaration form edits the document and then loads the saved
  value, but `load` asks `guard_pending` while the form still differs from its baseline
  (`editor/components/declarations.rs:314`): the reload is refused, and saving stays
  disabled until the form is cancelled. `ApplyDeclaration` follows the code.
- A drag that goes on across an undo moves a block of the restored document without a
  history entry (`editor/components.rs:580`); coordinates are therefore left out of
  `UndoReachesTheStart`.
- A history is counted and read in separate statements (`editor/admin.rs:207`), so a
  page may repeat a row; `HistoryHasNoGap` says that it never skips one and, without an
  error, has as many as its total counts. A row inserted between the count and the
  rows is not counted: if it fills the place of the oldest one (250 counted, a page of
  250), that one is left out, and the total does not tell, until the next request.
- "Apply settings" is enabled for a form without changes
  (`editor/components/settings.rs:102`): it records a history entry that changes nothing
  and empties redo.
- `handle_node` commits step by step: a user task whose hook fails after its timer was
  scheduled schedules a second timer when the caller repeats it
  (`service/process_service.rs:977`). Both stay cancellable.

## 6. State of the plan

Done: the durable path with its refinement, leases, runners, signal admission and
archive, the registry, the low-level operations, the editor, the monitor and the
repair of legacy versions, and proofs of every safety and action property the runs check.

Left for later work: abstract specifications of signal admission (each event once) and
of the leases (one attempt at a time), refined as the durable path refines its token; a
lock-order model of the administrator's cancellation; the typed values of context maps.

Two hazards have no property: the lock order of that cancellation, and the declaration
panel that stays pending after a successful Apply (section 5). Two are covered only in
part, as their notes in `PROJECT.json` say: a signal bound to a closed visit answers no
later visit, but it is discarded, as `docs/nodes.md` promises; a second timer stays
cancellable, but nothing prevents it.

Runs stay few: a module whose question is that of an existing run joins it.

Not modelled: Rhai evaluation (external: a condition selects a declared target, none,
or fails); YAML parsing and the text of diagnostics; SQL list queries, audit
heuristics and Markdown export, which only read; the markup, zoom, panning and search
of the views; HTTP routes, each of which decodes a request and makes one service call;
the decoding of rows and the embedded migrator. Each is named in `PROJECT.json` with its
reason; a component is called `partly` modelled there when some of its code is in this
list.
