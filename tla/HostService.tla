----------------------------- MODULE HostService -----------------------------
(***************************************************************************)
(* The low-level operations FluxproService and FluxproDbService offer a    *)
(* host beside the durable path (service/process_service.rs,               *)
(* db_service/mod.rs): handle_node dispatches a node step by step, each    *)
(* step in a transaction of its own; stages, variables, timers and the     *)
(* current node are written directly; timers are cancelled, owned tasks    *)
(* killed or retried.  Several calls run at once on one instance, beside   *)
(* runners that execute its queued tasks.                                  *)
(*                                                                         *)
(* A transaction is one action, since each locks the instance or task row  *)
(* it changes; a call may fail between any two.  A lease is only its       *)
(* holder: a held row may be fetched by another runner, whose clock says   *)
(* the lease has expired.  What a runner's attempt computes is in          *)
(* DurableTransitions; here it reads the instance and commits, fenced.     *)
(***************************************************************************)
EXTENDS Naturals, FiniteSets

CONSTANTS
    Block, BlockType, \* BlockType[b]: "start", "service", "gateway", "user", "wait" or "end"
    NextBlocks,       \* NextBlocks[b]: the targets of next and of the branches
    TimeoutAt,        \* TimeoutAt[b]: timeout.on_timeout, or Absent
    Awaits,           \* Awaits[b]: the signals of wait_for
    StageAt,          \* StageAt[b]: set_stage, or Absent
    DeclaredStage,    \* the stages the definition declares
    Hooks,            \* the lifecycle handlers registered: "stage", "complete", "show"
    Var, Caller, Runner, Absent,
    MaxTasks,         \* bound: tasks ever queued
    MaxChanges,       \* bound: writes of the instance
    MaxVisits         \* bound: visits of the instance

\* Every target a definition names is one of its nodes (validate).
ASSUME HostTypes == NextBlocks \in [Block -> SUBSET Block]

VARIABLES
    instance,         \* [revision, visit, current, stage]
    context,          \* context[v]: the value of a variable in the default scope
    queue,            \* queue_runner: [uuid, kind, block, visit, holder, later]
    marks,            \* queue_cancel_task: [task, block, event]
    tasks,            \* how many rows were ever queued: gives fresh identities
    call,             \* call[c]: the operation a host call has under way
    attempt           \* attempt[r]: the task a runner executes, and what it read

database == <<instance, context, queue, marks, tasks>>
hostVars == <<database, call, attempt>>

Idle == [op |-> "idle", pc |-> "idle", block |-> Absent, var |-> Absent, event |-> Absent, ids |-> {}]
NoAttempt == [task |-> Absent, var |-> Absent, read |-> Absent, context |-> Absent]

NewRow(kind, b, later) ==
    [uuid |-> tasks + 1, kind |-> kind, block |-> b, holder |-> Absent, later |-> later,
     visit |-> IF kind = "event" THEN instance.visit ELSE Absent]
Insert(row) ==
    /\ tasks < MaxTasks
    /\ tasks' = tasks + 1
    /\ queue' = queue \cup {row}

(* Every write of the instance is a new revision, which fences attempts.   *)
CanWrite == instance.revision < MaxChanges
Revised == [instance EXCEPT !.revision = @ + 1]

(* A call moves on, ends, or reports an error.                             *)
Goes(c, pc) == call' = [call EXCEPT ![c].pc = pc]
Finishes(c) == call' = [call EXCEPT ![c] = Idle]

At(c, op, pc) == call[c].op = op /\ call[c].pc = pc

Fails(c) == call[c].op # "idle" /\ Finishes(c) /\ UNCHANGED <<database, attempt>>

-----------------------------------------------------------------------------
(* handle_node: the stage and its hook, then the node by its type.         *)
HandleNode(c, b) ==
    /\ call[c] = Idle
    /\ call' = [call EXCEPT ![c] = [Idle EXCEPT !.op = "handle", !.block = b,
                                               !.pc = IF StageAt[b] = Absent THEN "dispatch" ELSE "stage"]]
    /\ UNCHANGED <<database, attempt>>

AssignStage(c) ==
    /\ At(c, "handle", "stage") /\ StageAt[call[c].block] \in DeclaredStage
    /\ CanWrite
    /\ instance' = [Revised EXCEPT !.stage = StageAt[call[c].block]]
    /\ Goes(c, IF "stage" \in Hooks THEN "stage hook" ELSE "dispatch")
    /\ UNCHANGED <<context, queue, marks, tasks, attempt>>

\* process_handler: the outcome of a lifecycle handler is not applied.
Hook(c) ==
    /\ \/ At(c, "handle", "stage hook") /\ Goes(c, "dispatch")
       \/ At(c, "handle", "last hook") /\ Finishes(c)
    /\ UNCHANGED <<database, attempt>>

LastHook(b) ==
    \/ BlockType[b] = "end" /\ "complete" \in Hooks
    \/ BlockType[b] = "user" /\ "show" \in Hooks

HasTimer(b) == BlockType[b] \in {"user", "wait"} /\ TimeoutAt[b] # Absent

Dispatch(c) ==
    LET b == call[c].block IN
    /\ At(c, "handle", "dispatch")
    /\ CASE BlockType[b] \in {"start", "gateway"} -> Goes(c, "queue")
         [] BlockType[b] = "service" -> Goes(c, "handler")
         [] HasTimer(b) -> Goes(c, "schedule")
         [] OTHER -> IF LastHook(b) THEN Goes(c, "last hook") ELSE Finishes(c)
    /\ UNCHANGED <<database, attempt>>

(* A service task's handler: success carries a patch of one variable; a    *)
(* handler that says it does not exist is skipped; a failure is Fails.     *)
HandlerReturns(c) ==
    /\ At(c, "handle", "handler")
    /\ \/ \E v \in Var : call' = [call EXCEPT ![c].pc = "write", ![c].var = v]
       \/ IF NextBlocks[call[c].block] = {} THEN Finishes(c) ELSE Goes(c, "queue")
       \/ Goes(c, "requeue")
    /\ UNCHANGED <<database, attempt>>

\* save_process_instance_context: the named keys are replaced, others stay.
Merged(var, value) == [context EXCEPT ![var] = value]

MutWriteContext(c) ==
    /\ call[c].pc = "write"
    /\ \E value \in 0 .. 1 : context' = Merged(call[c].var, value)
    /\ IF call[c].op = "handle" /\ NextBlocks[call[c].block] # {} THEN Goes(c, "queue") ELSE Finishes(c)
    /\ UNCHANGED <<instance, queue, marks, tasks, attempt>>
\* apply_process_instance_patch and add_context_variable.
WriteContext(c) ==
    /\ call[c].pc = "write"
    /\ CanWrite
    /\ instance' = Revised
    /\ \E value \in 0 .. 1 : context' = Merged(call[c].var, value)
    /\ IF call[c].op = "handle" /\ NextBlocks[call[c].block] # {} THEN Goes(c, "queue") ELSE Finishes(c)
    /\ UNCHANGED <<queue, marks, tasks, attempt>>

\* select_branch_for_process: the route is chosen by conditions.
SelectBranch(b) == NextBlocks[b]

\* queue_node of a selected successor; a node that repeats itself, later.
QueueNode(c) ==
    /\ \/ /\ At(c, "handle", "queue")
          /\ \E b \in SelectBranch(call[c].block) : Insert(NewRow("node", b, FALSE))
       \/ At(c, "handle", "requeue") /\ Insert(NewRow("node", call[c].block, TRUE))
    /\ Finishes(c)
    /\ UNCHANGED <<instance, context, marks, attempt>>

\* create_event_schedule: the timer and its cancellation marks together.
Schedule(c) ==
    LET b == call[c].block IN
    /\ call[c].pc = "schedule"
    /\ Insert(NewRow("event", b, TRUE))
    /\ marks' = marks \cup {[task |-> tasks + 1, block |-> b, event |-> e] : e \in Awaits[b]}
    /\ IF call[c].op = "handle" /\ LastHook(b) THEN Goes(c, "last hook") ELSE Finishes(c)
    /\ UNCHANGED <<instance, context, attempt>>

-----------------------------------------------------------------------------
(* Operations a host calls directly.                                       *)
BeginWrite(c, v) ==
    /\ call[c] = Idle
    /\ call' = [call EXCEPT ![c] = [Idle EXCEPT !.op = "write", !.pc = "write", !.var = v]]
    /\ UNCHANGED <<database, attempt>>

BeginSchedule(c, b) ==
    /\ call[c] = Idle /\ TimeoutAt[b] # Absent
    /\ call' = [call EXCEPT ![c] = [Idle EXCEPT !.op = "schedule", !.pc = "schedule", !.block = b]]
    /\ UNCHANGED <<database, attempt>>

SetCurrentNode(b) ==
    /\ CanWrite /\ instance.visit < MaxVisits
    /\ instance' = [Revised EXCEPT !.visit = @ + 1, !.current = b]
    /\ UNCHANGED <<context, queue, marks, tasks, call, attempt>>

\* cancel_queue_tasks: the task identities are read in one transaction ...
BeginCancel(c, b, e) ==
    /\ call[c] = Idle
    /\ call' = [call EXCEPT ![c] = [Idle EXCEPT !.op = "cancel", !.pc = "delete", !.block = b, !.event = e,
                   !.ids = {m.task : m \in {n \in marks : n.block = b /\ n.event = e}}]]
    /\ UNCHANGED <<database, attempt>>

MutFinishCancel(c) ==
    /\ At(c, "cancel", "delete")
    /\ marks' = {m \in marks : m.block # call[c].block \/ m.event # call[c].event}
    /\ queue' = {row \in queue : row.uuid \notin call[c].ids}
    /\ Finishes(c)
    /\ UNCHANGED <<instance, context, tasks, attempt>>
\* ... and deleted in another, whatever has happened to them meanwhile.
FinishCancel(c) ==
    /\ At(c, "cancel", "delete")
    /\ marks' = {m \in marks : m.task \notin call[c].ids}
    /\ queue' = {row \in queue : row.uuid \notin call[c].ids}
    /\ Finishes(c)
    /\ UNCHANGED <<instance, context, tasks, attempt>>

-----------------------------------------------------------------------------
(* Runners.                                                                *)
BecomesDue ==
    /\ \E row \in queue : row.later /\ queue' = (queue \ {row}) \cup {[row EXCEPT !.later = FALSE]}
    /\ UNCHANGED <<instance, context, marks, tasks, call, attempt>>

FetchRow(r) ==
    /\ attempt[r] = NoAttempt
    /\ \E row \in queue :
          /\ ~ row.later /\ row.holder # r
          /\ queue' = (queue \ {row}) \cup {[row EXCEPT !.holder = r]}
          /\ \E v \in Var :
                attempt' = [attempt EXCEPT ![r] =
                    [task |-> row.uuid, var |-> v, read |-> instance, context |-> context]]
    /\ UNCHANGED <<instance, context, marks, tasks, call>>

Holds(r) == \E row \in queue : row.uuid = attempt[r].task /\ row.holder = r
Releases(r) == attempt' = [attempt EXCEPT ![r] = NoAttempt]

(* The commit of an attempt: refused unless the lease is still held and    *)
(* the instance has the revision that was read.  It enters the node or     *)
(* closes its wait, which removes the other timers of the visit.           *)
CommitTask(r) ==
    LET row == CHOOSE x \in queue : x.uuid = attempt[r].task
        gone == {x \in queue : x = row \/ (row.kind = "event" /\ x.kind = "event" /\ x.visit = instance.visit)}
    IN
    /\ attempt[r] # NoAttempt /\ Holds(r)
    /\ instance.revision = attempt[r].read.revision
    /\ row.kind = "event" => row.visit = instance.visit
    /\ CanWrite /\ instance.visit < MaxVisits
    /\ instance' = IF row.kind = "event" THEN Revised ELSE [Revised EXCEPT !.visit = @ + 1, !.current = row.block]
    /\ \E value \in 0 .. 1 : context' = Merged(attempt[r].var, value)
    /\ queue' = queue \ gone
    /\ marks' = {m \in marks : \A x \in gone : x.uuid # m.task}
    /\ Releases(r)
    /\ UNCHANGED <<tasks, call>>

\* Refused, failed or crashed: the row is left to its lease.
Abandon(r) == attempt[r] # NoAttempt /\ Releases(r) /\ UNCHANGED <<database, call>>

\* retry_queue_task: only the holder may reschedule.
RetryTask(r) ==
    /\ attempt[r] # NoAttempt /\ Holds(r)
    /\ queue' = {IF x.uuid = attempt[r].task THEN [x EXCEPT !.holder = Absent, !.later = TRUE] ELSE x : x \in queue}
    /\ Releases(r)
    /\ UNCHANGED <<instance, context, marks, tasks, call>>

\* kill_queue_task: the marks and the row, or an error that rolls back.
KillTask(r) ==
    /\ attempt[r] # NoAttempt
    /\ IF Holds(r)
       THEN /\ marks' = {m \in marks : m.task # attempt[r].task}
            /\ queue' = {x \in queue : x.uuid # attempt[r].task}
       ELSE UNCHANGED <<marks, queue>>
    /\ Releases(r)
    /\ UNCHANGED <<instance, context, tasks, call>>

HostInit ==
    /\ instance = [revision |-> 0, visit |-> 0, current |-> Absent, stage |-> Absent]
    /\ context = [v \in Var |-> 0]
    /\ queue = {} /\ marks = {} /\ tasks = 0
    /\ call = [c \in Caller |-> Idle]
    /\ attempt = [r \in Runner |-> NoAttempt]

HostNext ==
    \/ \E c \in Caller :
          \/ \E b \in Block : HandleNode(c, b) \/ BeginSchedule(c, b) \/ \E e \in Awaits[b] : BeginCancel(c, b, e)
          \/ \E v \in Var : BeginWrite(c, v)
          \/ AssignStage(c) \/ Hook(c) \/ Dispatch(c) \/ HandlerReturns(c) \/ WriteContext(c)
          \/ QueueNode(c) \/ Schedule(c) \/ FinishCancel(c) \/ Fails(c)
    \/ \E b \in Block : SetCurrentNode(b)
    \/ \E r \in Runner : FetchRow(r) \/ CommitTask(r) \/ Abandon(r) \/ RetryTask(r) \/ KillTask(r)
    \/ BecomesDue

HostSpec == HostInit /\ [][HostNext]_hostVars
-----------------------------------------------------------------------------
(* Every timer can be cancelled by each signal its block awaits, and every *)
(* mark leads to a timer that exists, in whatever order calls and runners  *)
(* schedule, cancel, kill and consume them.                                *)
TimersStayCancellable ==
    marks = UNION {{[task |-> row.uuid, block |-> row.block, event |-> e] : e \in Awaits[row.block]} :
                      row \in {x \in queue : x.kind = "event"}}

(* An attempt that commits has seen the instance and the variables as they *)
(* are: every direct write in between makes its commit fail.               *)
CommitSeesTheInstance ==
    [][\A r \in Runner : CommitTask(r) => attempt[r].read = instance /\ attempt[r].context = context]_hostVars
=============================================================================
