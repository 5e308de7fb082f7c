---------------------- MODULE DurableTransitionsProofs ----------------------
(***************************************************************************)
(* Every step of DurableTransitions preserves IInv, and it implements      *)
(* WorkflowToken: the token of DurableRefinement moves along one edge at a *)
(* time, whatever the queue goes through.  For every definition and any    *)
(* number of workers, tasks, signals, attempts and values.                 *)
(***************************************************************************)
EXTENDS DurableInvariant, DurableRefinement, TLAPS

-----------------------------------------------------------------------------
(* What a transition may propose *)

(* The changes a worker may commit for its task, without the handlers, the *)
(* retries and the conditions that led to them.                            *)
Shape(w, c) ==
    LET u == worker[w].task
        n == queue[u].node IN
    /\ c \in Changes
    /\ c.enter # NoNode =>
          /\ queue[u].kind = "node"
          /\ c.enter = n
          /\ worker[w].visit # u
          /\ c.release = "consume" \/ Kind[n] = "service"
    /\ c.close =>
          /\ queue[u].kind \in {"event", "signal"}
          /\ IsWait(worker[w].node)
          /\ ~ worker[w].waitDone
          /\ worker[w].taskVisit = worker[w].visit
          /\ c.enter = NoNode /\ c.release = "consume" /\ ~ c.timer
          /\ c.next = NoNode => Successors[worker[w].node] = {}
    /\ c.merge => c.close
    /\ c.next # NoNode =>
          /\ c.release = "consume" /\ ~ c.timer
          /\ c.close \/ (queue[u].kind = "node" /\ ~ IsWait(n))
    /\ c.timer => c.release = "consume" /\ queue[u].kind = "node"
    /\ queue[u].kind = "node" /\ c.release = "consume" =>
          /\ c.enter = NoNode => worker[w].visit = u
          /\ IsWait(n) => (c.timer <=> OnTimeout[n] # NoNode)
          /\ ~ IsWait(n) => ~ c.timer
          /\ ~ IsWait(n) /\ c.next = NoNode => Successors[n] = {}
    /\ queue[u].kind = "event" =>
          /\ c.release = "consume"
          /\ c.close \/ ~ (/\ worker[w].taskVisit = worker[w].visit
                           /\ ~ worker[w].waitDone
                           /\ worker[w].node = n)

(* The empty change, and the two releases made from it, are changes that   *)
(* enter, close and queue nothing.                                         *)
LEMMA NoChangeFields ==
    /\ NoChange \in Changes
    /\ NoChange.enter = NoNode /\ NoChange.close = FALSE /\ NoChange.merge = FALSE
    /\ NoChange.timer = FALSE /\ NoChange.next = NoNode /\ NoChange.release = "consume"
BY DEF NoChange, Changes

(* What next() queues.                                                     *)
LEMMA ContinueShape ==
    ASSUME NEW c \in Changes, NEW n \in Node, NEW d \in Continue(c, n)
    PROVE  /\ d \in Changes
           /\ d.enter = c.enter /\ d.close = c.close /\ d.merge = c.merge
           /\ d.timer = c.timer /\ d.release = c.release
           /\ \/ d = c /\ Successors[n] = {}
              \/ d.next \in Node
<1>1. Successors[n] \subseteq Node
  BY DefinitionTypes
<1>2. CASE Successors[n] = {}
  BY <1>2 DEF Continue
<1>3. CASE Successors[n] # {}
  <2>1. PICK m \in Successors[n] : d = [c EXCEPT !.next = m]
    BY <1>3 DEF Continue
  <2> QED
    BY <1>1, <2>1 DEF Changes
<1> QED
  BY <1>2, <1>3

(* A ProcessNode task: everything enter() may propose.                     *)
LEMMA EnterShape ==
    ASSUME NEW w \in Worker, TypeOK, TasksNameNodes,
           worker[w].task \in Uuid, queue[worker[w].task].kind = "node",
           NEW c \in EnterOutcomes(w)
    PROVE  Shape(w, c)
<1> DEFINE u == worker[w].task
           n == queue[u].node
           entering == worker[w].visit # u
           entered == [NoChange EXCEPT !.enter = IF entering THEN n ELSE NoNode]
<1>1. /\ n \in Node
      /\ Kind[n] \in NodeKinds
      /\ Kind[n] = "end" => Successors[n] = {}
      /\ NoNode \notin Node
      /\ OnError[n] \in Node \cup {NoNode}
      /\ OnTimeout[n] \in Node \cup {NoNode}
  BY DefinitionTypes, DefinitionIsValid DEF TasksNameNodes
<1>2. /\ entered \in Changes
      /\ entered.enter = IF entering THEN n ELSE NoNode
      /\ entered.close = FALSE /\ entered.merge = FALSE /\ entered.timer = FALSE
      /\ entered.next = NoNode /\ entered.release = "consume"
  BY <1>1, NoChangeFields DEF NoChange, Changes
<1>3. IsWait(n) <=> Kind[n] \in {"wait", "user"}
  BY <1>1 DEF IsWait
<1>4. CASE c \in {Retry, Stop}
  BY <1>4, NoChangeFields, <1>1 DEF Shape, Retry, Stop, NoChange, Changes
<1>5. CASE c \in NodeOutcomes(u, n, entered)
  <2> HIDE DEF entered
  <2>1. CASE Kind[n] \in {"start", "gateway"}
    <3>1. c \in Continue(entered, n)
      BY <1>5, <2>1 DEF NodeOutcomes
    <3> QED
      BY <3>1, <1>1, <1>2, <1>3, <2>1, ContinueShape DEF Shape
  <2>2. CASE Kind[n] = "end"
    <3>1. c = entered
      BY <1>5, <2>2 DEF NodeOutcomes
    <3> QED
      BY <3>1, <1>1, <1>2, <1>3, <2>2 DEF Shape
  <2>3. CASE Kind[n] \in {"wait", "user"}
    <3>1. c = [entered EXCEPT !.timer = (OnTimeout[n] # NoNode)]
      BY <1>5, <2>3 DEF NodeOutcomes
    <3>2. /\ c \in Changes
          /\ c.enter = entered.enter /\ c.close = FALSE /\ c.merge = FALSE
          /\ c.next = NoNode /\ c.release = "consume"
          /\ c.timer <=> OnTimeout[n] # NoNode
      BY <3>1, <1>2 DEF Changes
    <3> QED
      BY <3>2, <1>1, <1>2, <1>3, <2>3 DEF Shape
  <2>4. CASE Kind[n] = "service"
    <3>1. CASE c \in Continue(entered, n)
      BY <3>1, <1>1, <1>2, <1>3, <2>4, ContinueShape DEF Shape
    <3>2. CASE c = [entered EXCEPT !.next = n, !.nextDue = FALSE]
      BY <3>2, <1>1, <1>2, <1>3, <2>4 DEF Shape, Changes
    <3>3. CASE c = HandlerFailed(entered, u, n)
      BY <3>3, <1>1, <1>2, <1>3, <2>4 DEF Shape, Changes, HandlerFailed
    <3> QED
      BY <3>1, <3>2, <3>3, <1>5, <2>4 DEF NodeOutcomes
  <2> QED
    BY <2>1, <2>2, <2>3, <2>4, <1>1 DEF NodeKinds
<1> QED
  BY <1>4, <1>5 DEF EnterOutcomes, AfterError

(* A ProcessEvent task: the timer of the open visit, or any other.         *)
LEMMA TimeoutShape ==
    ASSUME NEW w \in Worker, TypeOK, TasksNameNodes,
           worker[w].task \in Uuid, queue[worker[w].task].kind = "event",
           NEW c \in TimeoutOutcomes(w)
    PROVE  Shape(w, c)
<1> DEFINE n == queue[worker[w].task].node
           closing == [NoChange EXCEPT !.close = TRUE, !.merge = TRUE, !.next = OnTimeout[n]]
<1>1. n \in Node /\ OnTimeout[n] \in Node /\ IsWait(n) /\ NoNode \notin Node
  BY DefinitionTypes, DefinitionIsValid DEF TasksNameNodes, IsWait
<1>2. /\ closing \in Changes
      /\ closing.enter = NoNode /\ closing.close = TRUE /\ closing.merge = TRUE
      /\ closing.timer = FALSE /\ closing.next = OnTimeout[n]
      /\ closing.release = "consume"
  BY <1>1 DEF NoChange, Changes
<1> HIDE DEF closing
<1>3. CASE /\ worker[w].taskVisit = worker[w].visit
           /\ ~ worker[w].waitDone
           /\ worker[w].node = n
  <2>1. c = closing
    BY <1>3 DEF TimeoutOutcomes, closing
  <2> QED
    BY <2>1, <1>1, <1>2, <1>3 DEF Shape
<1>4. CASE ~ (/\ worker[w].taskVisit = worker[w].visit
              /\ ~ worker[w].waitDone
              /\ worker[w].node = n)
  <2>1. c = NoChange
    BY <1>4 DEF TimeoutOutcomes
  <2> QED
    BY <2>1, <1>4, NoChangeFields DEF Shape
<1> QED
  BY <1>3, <1>4

(* A ProcessSignal task: accepted, discarded, deferred or expired.         *)
LEMMA SignalShape ==
    ASSUME NEW w \in Worker, TypeOK,
           worker[w].task \in Uuid, queue[worker[w].task].kind = "signal",
           NEW c \in SignalOutcomes(w)
    PROVE  Shape(w, c)
<1> DEFINE n == worker[w].node
           sig == queue[worker[w].task].signal
           closing == [NoChange EXCEPT !.close = TRUE, !.merge = TRUE]
<1>1. /\ closing \in Changes
      /\ closing.enter = NoNode /\ closing.close = TRUE /\ closing.merge = TRUE
      /\ closing.timer = FALSE /\ closing.next = NoNode
      /\ closing.release = "consume"
  BY DEF NoChange, Changes
<1> HIDE DEF closing
<1>2. CASE c \in {NoChange, Retry, Stop}
  BY <1>2, NoChangeFields DEF Shape, Retry, Stop, NoChange, Changes
<1>3. CASE /\ AcceptsSignal(n, sig)
           /\ ~ worker[w].waitDone
           /\ worker[w].taskVisit # NoUuid
           /\ worker[w].taskVisit = worker[w].visit
  <2>1. n \in Node /\ IsWait(n)
    BY <1>3, DefinitionIsValid, DefinitionTypes DEF AcceptsSignal, IsWait
  <2>2. c \in Continue(closing, n) \/ c \in {Retry, Stop}
    BY <1>3 DEF SignalOutcomes, AfterError, closing
  <2>3. CASE c \in Continue(closing, n)
    BY <2>1, <2>3, <1>1, <1>3, ContinueShape, DefinitionTypes DEF Shape
  <2> QED
    BY <2>2, <2>3, <1>2
<1> QED
  BY <1>2, <1>3 DEF SignalOutcomes

(* Whatever its task, a worker proposes changes of that shape.             *)
LEMMA OutcomesShape ==
    ASSUME NEW w \in Worker, TypeOK, TasksNameNodes,
           worker[w].task \in Uuid, queue[worker[w].task].kind \in TaskKinds,
           NEW c \in Outcomes(w)
    PROVE  Shape(w, c)
<1> DEFINE k == queue[worker[w].task].kind
<1>1. CASE k = "node"
  <2>1. c \in EnterOutcomes(w)
    BY <1>1 DEF Outcomes
  <2> QED
    BY <1>1, <2>1, EnterShape
<1>2. CASE k = "event"
  <2>1. c \in TimeoutOutcomes(w)
    BY <1>2 DEF Outcomes
  <2> QED
    BY <1>2, <2>1, TimeoutShape
<1>3. CASE k = "signal"
  <2>1. c \in SignalOutcomes(w)
    BY <1>3 DEF Outcomes
  <2> QED
    BY <1>3, <2>1, SignalShape
<1> QED
  BY <1>1, <1>2, <1>3 DEF TaskKinds

-----------------------------------------------------------------------------
(* The rows a step writes *)

(* The fields of the rows a commit writes: the released row, a queued      *)
(* successor, a timer and a signal.                                        *)
LEMMA RowFields ==
    /\ NoRow \in Row /\ NoRow.kind = "none" /\ NoRow.lease = NoWorker
    /\ \A n \in Node, d \in BOOLEAN :
          /\ NodeTask(n, d) \in Row
          /\ NodeTask(n, d).kind = "node" /\ NodeTask(n, d).node = n
          /\ NodeTask(n, d).lease = NoWorker
    /\ \A n \in Node, v \in Uuid :
          /\ EventTask(n, v) \in Row
          /\ EventTask(n, v).kind = "event" /\ EventTask(n, v).node = n
          /\ EventTask(n, v).visit = v /\ EventTask(n, v).lease = NoWorker
    /\ \A sig \in Signal, v \in Uuid \cup {NoUuid} :
          /\ SignalTask(sig, v) \in Row
          /\ SignalTask(sig, v).kind = "signal" /\ SignalTask(sig, v).lease = NoWorker
<1>1. /\ NoRow \in Row /\ NoRow.kind = "none" /\ NoRow.lease = NoWorker
  BY AttemptCapIsExact DEF NoRow, Row
<1>2. ASSUME NEW n \in Node, NEW d \in BOOLEAN
      PROVE  /\ NodeTask(n, d) \in Row
             /\ NodeTask(n, d).kind = "node" /\ NodeTask(n, d).node = n
             /\ NodeTask(n, d).lease = NoWorker
  BY <1>1 DEF NodeTask, Row, TaskKinds
<1>3. ASSUME NEW n \in Node, NEW v \in Uuid
      PROVE  /\ EventTask(n, v) \in Row
             /\ EventTask(n, v).kind = "event" /\ EventTask(n, v).node = n
             /\ EventTask(n, v).visit = v /\ EventTask(n, v).lease = NoWorker
  BY <1>1 DEF EventTask, Row, TaskKinds
<1>4. ASSUME NEW sig \in Signal, NEW v \in Uuid \cup {NoUuid}
      PROVE  /\ SignalTask(sig, v) \in Row
             /\ SignalTask(sig, v).kind = "signal" /\ SignalTask(sig, v).lease = NoWorker
  BY <1>1 DEF SignalTask, Row, TaskKinds
<1> QED
  BY <1>1, <1>2, <1>3, <1>4

(* A free slot is a worker record.                                         *)
LEMMA IdleWorkerType == IdleWorker \in WorkerRecord /\ IdleWorker.pc = "idle"
BY DEF IdleWorker, WorkerRecord

(* A fresh identity is nobody's row, visit, retained task or snapshot.     *)
LEMMA FreshFacts ==
    ASSUME TypeOK, NEW u \in Fresh
    PROVE  /\ u \in Uuid /\ ~ Present(u)
           /\ u # inst.visit /\ u # inst.recovery /\ u # incident
           /\ \A w \in Worker : worker[w].task # u /\ worker[w].visit # u
BY DEF Fresh, InUse

(* BumpRevision touches nothing but the staleness of loaded snapshots.     *)
LEMMA BumpFacts ==
    ASSUME NEW wk \in [Worker -> WorkerRecord]
    PROVE  /\ BumpRevision(wk) \in [Worker -> WorkerRecord]
           /\ \A w \in Worker :
                 /\ BumpRevision(wk)[w].pc = wk[w].pc
                 /\ BumpRevision(wk)[w].task = wk[w].task
                 /\ BumpRevision(wk)[w].taskVisit = wk[w].taskVisit
                 /\ wk[w].pc = "loaded" => BumpRevision(wk)[w].stale = TRUE
BY DEF BumpRevision, WorkerRecord

-----------------------------------------------------------------------------
(* A commit *)

(* What holds of the transaction before its writes: the fence was passed,  *)
(* so the snapshot still shows the instance.                               *)
CommitContext(w, c, new) ==
    /\ w \in Worker
    /\ worker[w].pc = "loaded"
    /\ Fenced(w)
    /\ Shape(w, c)
    /\ Inserts(c) => new \in Fresh
    /\ ~ Inserts(c) => new = NoUuid
    /\ CommitAs(w, c, new)

Passed(w, c, new, u) ==
    /\ u = worker[w].task /\ u \in Uuid /\ Present(u) /\ queue[u].kind \in TaskKinds
    /\ w \in Worker /\ queue[u].lease = w /\ w # NoWorker
    /\ inst.state = "running" /\ incident = NoUuid
    /\ inst.recovery \in {NoUuid, u}
    /\ worker[w].node = inst.node /\ worker[w].visit = inst.visit
    /\ worker[w].waitDone = inst.waitDone /\ worker[w].context = stored
    /\ worker[w].taskVisit = queue[u].visit
    /\ c \in Changes
    /\ Inserts(c) => new \in Uuid /\ ~ Present(new) /\ new # u /\ new # inst.visit
    /\ ~ Inserts(c) => new \notin Uuid
    /\ Shape(w, c)

(* What the guard of a commit says in one place: the task is leased by     *)
(* this claim, the instance runs, and the snapshot is what the instance    *)
(* still shows.                                                            *)
LEMMA CommitFacts ==
    ASSUME IInv, NEW w, NEW c, NEW new, CommitContext(w, c, new),
           NEW u, u = worker[w].task
    PROVE  Passed(w, c, new, u)
<1>1. /\ w \in Worker /\ worker[w].pc = "loaded" /\ ~ worker[w].stale
      /\ HoldsLease(w) /\ inst.state = "running"
  BY DEF CommitContext, Fenced
<1>2. u \in Uuid /\ Present(u) /\ queue[u].lease = w /\ w # NoWorker
  BY <1>1, RuntimeTypes DEF HoldsLease
<1>3. queue[u].kind \in TaskKinds
  BY <1>2 DEF IInv, TypeOK, Row, Present
<1>4. incident = NoUuid
  BY <1>1 DEF IInv, RetainedTaskSurvives, TypeOK
<1>5. inst.recovery \in {NoUuid, u}
  BY <1>1, <1>2 DEF IInv, LeasesAreExclusive, Leased
<1>6. /\ worker[w].node = inst.node /\ worker[w].visit = inst.visit
      /\ worker[w].waitDone = inst.waitDone /\ worker[w].context = stored
      /\ worker[w].taskVisit = queue[u].visit
  BY <1>1 DEF IInv, SnapshotsAreCurrent
<1>7. c \in Changes /\ Shape(w, c)
  BY DEF CommitContext, Shape
<1>8. Inserts(c) => new \in Uuid /\ ~ Present(new) /\ new # u /\ new # inst.visit
  BY <1>1, FreshFacts DEF CommitContext, IInv
<1>9. ~ Inserts(c) => new \notin Uuid
  BY RuntimeTypes DEF CommitContext
<1> QED
  BY <1>1, <1>2, <1>3, <1>4, <1>5, <1>6, <1>7, <1>8, <1>9 DEF Passed

(* A task of a visit that was already entered is a ServiceTask's.          *)
LEMMA RetriedTask ==
    ASSUME IInv, NEW w, NEW c, NEW new, CommitContext(w, c, new),
           queue[worker[w].task].kind = "node", worker[w].visit = worker[w].task
    PROVE  /\ Kind[queue[worker[w].task].node] = "service"
           /\ inst.node = queue[worker[w].task].node
BY CommitFacts DEF Passed, IInv, RetriesStayAtTheirNode, IsNodeTask

(* The rows a commit leaves, one slot at a time.                           *)
RowsAfter(w, c, new, u) ==
    /\ queue' \in [Uuid -> Row]
    /\ queue'[u].lease = NoWorker
    /\ c.release = "consume" => queue'[u] = NoRow
    /\ c.release # "consume" =>
          /\ queue'[u].kind = queue[u].kind
          /\ queue'[u].node = queue[u].node
          /\ queue'[u].visit = queue[u].visit
    /\ c.timer => /\ c.enter # NoNode
                  /\ queue'[new].kind = "event"
                  /\ queue'[new].node = c.enter
                  /\ queue'[new].visit = u
                  /\ queue'[new].lease = NoWorker
    /\ c.next # NoNode => /\ queue'[new].kind = "node"
                          /\ queue'[new].node = c.next
                          /\ queue'[new].lease = NoWorker
    /\ \A v \in Uuid : v # u /\ v # new =>
          \/ queue'[v] = queue[v] /\ ~ (c.close /\ Sibling(w, v))
          \/ queue'[v] = NoRow /\ c.close /\ Sibling(w, v)

(* The queue after a commit, row by row: the released source row, the      *)
(* inserted row, the timers a closed wait deletes, and the rest untouched. *)
LEMMA CommitRows ==
    ASSUME IInv, NEW w, NEW c, NEW new, CommitContext(w, c, new),
           NEW u, u = worker[w].task
    PROVE  RowsAfter(w, c, new, u)
<1>1. u \in Uuid /\ queue \in [Uuid -> Row] /\ c \in Changes
  BY CommitFacts DEF Passed, IInv, TypeOK
<1>2. queue' = CommittedQueue(w, c, new)
  BY DEF CommitContext, CommitAs
<1>3. /\ queue'[u] = ReleasedRow(u, c)
      /\ Inserts(c) => new \in Uuid /\ queue'[new] = InsertedRow(u, c)
      /\ \A v \in Uuid : v # u /\ v # new =>
            queue'[v] = IF c.close /\ Sibling(w, v) THEN NoRow ELSE queue[v]
  BY <1>1, <1>2, CommitFacts DEF Passed, CommittedQueue
<1>4. /\ ReleasedRow(u, c) \in Row
      /\ ReleasedRow(u, c).lease = NoWorker
      /\ c.release = "consume" => ReleasedRow(u, c) = NoRow
      /\ c.release # "consume" =>
            /\ ReleasedRow(u, c).kind = queue[u].kind
            /\ ReleasedRow(u, c).node = queue[u].node
            /\ ReleasedRow(u, c).visit = queue[u].visit
  <2>1. queue[u] \in Row
    BY <1>1
  <2>2. CASE c.release = "consume"
    BY <2>2, RowFields DEF ReleasedRow
  <2>3. CASE c.release = "retry"
    <3>1. ReleasedRow(u, c) = [queue[u] EXCEPT !.due = FALSE, !.lease = NoWorker]
      BY <2>3 DEF ReleasedRow
    <3> QED
      BY <2>1, <2>3, <3>1 DEF Row
  <2>4. CASE c.release = "incident"
    <3>1. ReleasedRow(u, c) = [queue[u] EXCEPT !.due = TRUE, !.lease = NoWorker]
      BY <2>4 DEF ReleasedRow
    <3> QED
      BY <2>1, <2>4, <3>1 DEF Row
  <2> QED
    BY <1>1, <2>2, <2>3, <2>4 DEF Changes
<1>5. c.timer => c.enter \in Node /\ c.next = NoNode
  <2> SUFFICES ASSUME c.timer
               PROVE  c.enter \in Node /\ c.next = NoNode
    OBVIOUS
  <2>1. queue[u].kind = "node" /\ c.release = "consume" /\ c.next = NoNode
        /\ IsWait(queue[u].node)
    BY <1>1, RetriedTask DEF CommitContext, Shape
  <2>2. c.enter # NoNode
    BY <2>1, RetriedTask, CommitFacts DEF Passed, CommitContext, Shape, IsWait
  <2> QED
    BY <1>1, <2>1, <2>2 DEF Changes
<1>6. c.next # NoNode => c.next \in Node /\ ~ c.timer
  BY <1>1 DEF Changes, CommitContext, Shape
<1>7. Inserts(c) => InsertedRow(u, c) \in Row
  BY <1>1, <1>5, <1>6, RowFields DEF Inserts, InsertedRow, Changes
<1>8. queue' \in [Uuid -> Row]
  BY <1>1, <1>2, <1>4, <1>7, CommitFacts, RowFields DEF Passed, CommittedQueue, IInv, TypeOK
<1>9. /\ c.timer => /\ c.enter # NoNode
                    /\ queue'[new].kind = "event"
                    /\ queue'[new].node = c.enter
                    /\ queue'[new].visit = u
                    /\ queue'[new].lease = NoWorker
      /\ c.next # NoNode => /\ queue'[new].kind = "node"
                            /\ queue'[new].node = c.next
                            /\ queue'[new].lease = NoWorker
  BY <1>1, <1>3, <1>5, <1>6, RowFields, DefinitionTypes DEF Inserts, InsertedRow, Changes
<1> QED
  BY <1>3, <1>4, <1>8, <1>9 DEF RowsAfter

(* The instance and the slots of the workers after the commit of task u.   *)
InstanceAfter(w, c, u) ==
    /\ inst' \in Instance
    /\ c.enter # NoNode => /\ inst'.node = queue[u].node
                           /\ inst'.visit = u
                           /\ inst'.waitDone = FALSE
    /\ c.enter = NoNode => /\ inst'.node = inst.node
                           /\ inst'.visit = inst.visit
                           /\ inst'.waitDone <=> (inst.waitDone \/ c.close)
    /\ inst'.state = IF c.release = "incident" THEN "suspended" ELSE "running"
    /\ incident' = IF c.release = "incident" THEN u ELSE NoUuid
    /\ inst'.recovery = IF c.release = "consume" THEN NoUuid ELSE inst.recovery
    /\ stored' = stored /\ patched' = patched /\ withdrawn' = withdrawn
    /\ worker' \in [Worker -> WorkerRecord]
    /\ \A x \in Worker : worker'[x].pc = "loaded" =>
          /\ worker'[x].stale = TRUE
          /\ x # w
          /\ worker[x].pc = "loaded"
          /\ worker'[x].task = worker[x].task
          /\ worker'[x].taskVisit = worker[x].taskVisit
    /\ command' \in {"none", "names_open", "names_resolved"}

(* The instance after a commit: where it is and whether it waits, for each *)
(* kind of change.                                                         *)
LEMMA CommitInstance ==
    ASSUME IInv, NEW w, NEW c, NEW new, CommitContext(w, c, new),
           NEW u, u = worker[w].task
    PROVE  InstanceAfter(w, c, u)
<1> DEFINE idle == [worker EXCEPT ![w] = IdleWorker]
<1>1. /\ inst \in Instance /\ worker \in [Worker -> WorkerRecord] /\ w \in Worker
      /\ c \in Changes /\ u \in Uuid
      /\ c.enter # NoNode => c.enter = queue[u].node
      /\ c.merge \in BOOLEAN /\ c.close \in BOOLEAN
  BY CommitFacts DEF Passed, IInv, TypeOK, CommitContext, Shape, Changes
<1>2. /\ inst' = CommittedInstance(w, c)
      /\ incident' = IF c.release = "incident" THEN u ELSE incident
      /\ command' = IF c.release = "incident" /\ command = "names_open"
                    THEN "names_resolved" ELSE command
      /\ stored' = IF c.merge THEN worker[w].context ELSE stored
      /\ worker' = BumpRevision(idle)
      /\ patched' = patched /\ withdrawn' = withdrawn
  BY DEF CommitContext, CommitAs
<1>3. inst' \in Instance
  BY <1>1, <1>2 DEF CommittedInstance, Instance, Changes
<1>4. /\ c.enter # NoNode => /\ inst'.node = queue[u].node
                             /\ inst'.visit = u
                             /\ inst'.waitDone = FALSE
      /\ c.enter = NoNode => /\ inst'.node = inst.node
                             /\ inst'.visit = inst.visit
                             /\ inst'.waitDone <=> (inst.waitDone \/ c.close)
  BY <1>1, <1>2 DEF CommittedInstance
<1>5. /\ inst'.state = IF c.release = "incident" THEN "suspended" ELSE "running"
      /\ incident' = IF c.release = "incident" THEN u ELSE NoUuid
      /\ inst'.recovery = IF c.release = "consume" THEN NoUuid ELSE inst.recovery
  BY <1>1, <1>2, CommitFacts DEF Passed, CommittedInstance
<1>6. stored' = stored
  BY <1>2, CommitFacts DEF Passed
<1>7. /\ idle \in [Worker -> WorkerRecord]
      /\ idle[w] = IdleWorker
      /\ \A x \in Worker : x # w => idle[x] = worker[x]
  BY <1>1, IdleWorkerType
<1>8. /\ worker' \in [Worker -> WorkerRecord]
      /\ \A x \in Worker : worker'[x].pc = "loaded" =>
            /\ worker'[x].stale = TRUE
            /\ x # w
            /\ worker[x].pc = "loaded"
            /\ worker'[x].task = worker[x].task
            /\ worker'[x].taskVisit = worker[x].taskVisit
  <2> HIDE DEF idle
  <2>1. /\ worker' \in [Worker -> WorkerRecord]
        /\ \A x \in Worker :
              /\ worker'[x].pc = idle[x].pc
              /\ worker'[x].task = idle[x].task
              /\ worker'[x].taskVisit = idle[x].taskVisit
              /\ idle[x].pc = "loaded" => worker'[x].stale = TRUE
    BY <1>2, <1>7, BumpFacts
  <2> QED
    BY <2>1, <1>7, IdleWorkerType
<1>9. command' \in {"none", "names_open", "names_resolved"}
  BY <1>2 DEF IInv, TypeOK
<1> QED
  BY <1>2, <1>3, <1>4, <1>5, <1>6, <1>8, <1>9 DEF InstanceAfter

(* A commit preserves the invariant, conjunct by conjunct.                 *)
LEMMA CommitPreserves ==
    ASSUME IInv, NEW w, NEW c, NEW new, CommitContext(w, c, new)
    PROVE  IInv'
<1>0. PICK u : u = worker[w].task
  OBVIOUS
<1> DEFINE n == queue[u].node
<1>a. Passed(w, c, new, u)
  BY <1>0, CommitFacts
<1>b. RowsAfter(w, c, new, u)
  BY <1>0, CommitRows
<1>c. InstanceAfter(w, c, u)
  BY <1>0, CommitInstance
<1> USE DEF Passed, RowsAfter, InstanceAfter
<1>1. TypeOK'
  BY <1>a, <1>b, <1>c DEF IInv, TypeOK
<1>d. /\ c.next \in Node \cup {NoNode} /\ NoNode \notin Node
      /\ c.close \in BOOLEAN /\ c.timer \in BOOLEAN
      /\ c.release \in {"consume", "retry", "incident"}
      /\ NoRow.kind = "none" /\ NoRow.lease = NoWorker
      /\ IsNodeTask(u) => n \in Node
      /\ IsWait(n) => Kind[n] # "service"
      /\ Inserts(c) <=> c.timer \/ c.next # NoNode
  BY <1>a, DefinitionTypes, RowFields DEF Changes, IInv, TasksNameNodes, IsNodeTask, IsWait, Inserts
<1>e. IsNodeTask(u) => ~ OpenWait /\ \A v \in Uuid : IsNodeTask(v) => v = u
  BY <1>a DEF IInv, SingleContinuation
<1>f. c.close => OpenWait /\ c.enter = NoNode /\ queue'[u] = NoRow /\ ~ IsNodeTask(u)
  BY <1>a, <1>b DEF Shape, OpenWait, IsNodeTask
<1>g. ~ c.close /\ ~ IsNodeTask(u) =>
         /\ ~ Inserts(c) /\ c.enter = NoNode
         /\ inst'.node = inst.node /\ inst'.visit = inst.visit
         /\ inst'.waitDone = inst.waitDone
         /\ \A v \in Uuid : v # u => queue'[v] = queue[v]
  BY <1>a, <1>b, <1>c, <1>d DEF Shape, IsNodeTask, IInv, TypeOK, Instance
<1>2. TasksNameNodes'
  <2> SUFFICES ASSUME NEW v \in Uuid
               PROVE  /\ queue'[v].kind = "node" => queue'[v].node \in Node
                      /\ queue'[v].kind = "event" =>
                            queue'[v].node \in Node /\ OnTimeout[queue'[v].node] # NoNode
    BY DEF TasksNameNodes
  <2>1. CASE v = u
    BY <2>1, <1>a, <1>b, <1>d DEF IInv, TasksNameNodes
  <2>2. CASE v = new
    <3>1. c.timer => c.enter = n /\ n \in Node /\ OnTimeout[n] # NoNode
      BY <1>a, <1>b, <1>d DEF Shape, IsNodeTask
    <3> QED
      BY <2>2, <3>1, <1>a, <1>b, <1>d
  <2>3. CASE v # u /\ v # new
    BY <2>3, <1>b, <1>d DEF IInv, TasksNameNodes
  <2> QED
    BY <2>1, <2>2, <2>3
<1>3. SnapshotsAreCurrent'
  <2> SUFFICES ASSUME NEW x \in Worker, worker'[x].pc = "loaded", HoldsLease(x)'
               PROVE  worker'[x].taskVisit = queue'[worker'[x].task].visit
    BY <1>c DEF SnapshotsAreCurrent
  <2> DEFINE t == worker[x].task
  <2>1. /\ worker'[x].task = t /\ worker[x].pc = "loaded"
        /\ worker'[x].taskVisit = worker[x].taskVisit
    BY <1>c
  <2>2. t \in Uuid /\ queue'[t].lease = x /\ x # NoWorker
    BY <2>1, RuntimeTypes DEF HoldsLease
  <2>3. t # u /\ t # new
    BY <2>2, <1>a, <1>b, <1>d
  <2>4. queue'[t] = queue[t] /\ HoldsLease(x)
    BY <2>1, <2>2, <2>3, <1>b, <1>d DEF HoldsLease, Present
  <2> QED
    BY <2>1, <2>4 DEF IInv, SnapshotsAreCurrent
<1>4. RetriesStayAtTheirNode'
  <2> SUFFICES ASSUME NEW v \in Uuid, IsNodeTask(v)', inst'.visit = v
               PROVE  Kind[queue'[v].node] = "service" /\ inst'.node = queue'[v].node
    BY DEF RetriesStayAtTheirNode
  <2>1. CASE v = u
    <3>1. c.release # "consume" /\ IsNodeTask(u) /\ queue'[u].node = n
      BY <2>1, <1>b, <1>d DEF IsNodeTask
    <3>2. CASE c.enter # NoNode
      BY <2>1, <3>1, <3>2, <1>a, <1>c DEF Shape
    <3>3. CASE c.enter = NoNode
      BY <2>1, <3>1, <3>3, <1>a, <1>c DEF IInv, RetriesStayAtTheirNode
    <3> QED
      BY <3>2, <3>3
  <2>2. CASE v # u
    <3>1. c.enter = NoNode /\ inst.visit = v
      BY <2>2, <1>c
    <3>2. v # new
      BY <3>1, <1>a
    <3>3. queue'[v] = queue[v] /\ IsNodeTask(v)
      BY <2>2, <3>2, <1>b, <1>d DEF IsNodeTask
    <3> QED
      BY <3>1, <3>3, <1>c DEF IInv, RetriesStayAtTheirNode
  <2> QED
    BY <2>1, <2>2
<1>6. LeasesAreExclusive'
  <2>1. \A v \in Uuid : queue'[v].lease = NoWorker
    BY <1>a, <1>b, <1>d DEF IInv, LeasesAreExclusive, Leased
  <2> QED
    BY <2>1 DEF LeasesAreExclusive, Leased
<1>7. SingleContinuation'
  <2>1. CASE IsNodeTask(u)
    <3>1. \A v \in Uuid : IsNodeTask(v)' => v = u \/ v = new
      BY <2>1, <1>b, <1>d, <1>e DEF IsNodeTask
    <3>2. IsNodeTask(u)' => c.release # "consume"
      BY <1>b, <1>d DEF IsNodeTask
    <3>3. new \in Uuid /\ IsNodeTask(new)' => c.next # NoNode /\ c.release = "consume"
      BY <1>a, <1>b, <1>d DEF IsNodeTask, Shape
    <3>4. OpenWait' => IsWait(n) /\ c.enter # NoNode /\ c.release = "consume"
      BY <2>1, <1>a, <1>c, <1>d, <1>e, <1>f DEF OpenWait, Shape
    <3>5. IsWait(n) /\ ~ c.close => c.next = NoNode
      BY <1>a DEF Shape
    <3> QED
      BY <2>1, <3>1, <3>2, <3>3, <3>4, <3>5, <1>f DEF SingleContinuation
  <2>2. CASE c.close
    <3>1. \A v \in Uuid : ~ IsNodeTask(v)
      BY <2>2, <1>f DEF IInv, SingleContinuation
    <3>2. \A v \in Uuid : IsNodeTask(v)' => v = new
      BY <2>2, <3>1, <1>b, <1>d, <1>f DEF IsNodeTask
    <3>3. ~ OpenWait'
      BY <2>2, <1>c, <1>f DEF OpenWait
    <3> QED
      BY <3>2, <3>3 DEF SingleContinuation
  <2>3. CASE ~ c.close /\ ~ IsNodeTask(u)
    <3>1. \A v \in Uuid : IsNodeTask(v)' => IsNodeTask(v)
      BY <2>3, <1>b, <1>d, <1>g DEF IsNodeTask
    <3>2. OpenWait' <=> OpenWait
      BY <2>3, <1>g DEF OpenWait
    <3> QED
      BY <3>1, <3>2 DEF IInv, SingleContinuation
  <2> QED
    BY <2>1, <2>2, <2>3
<1>8. TimersBelongToOpenWait'
  <2> SUFFICES ASSUME NEW v \in Uuid, queue'[v].kind = "event"
               PROVE  /\ OpenWait'
                      /\ queue'[v].visit = inst'.visit
                      /\ queue'[v].node = inst'.node
    BY DEF TimersBelongToOpenWait
  <2>1. CASE c.close
    <3>1. v # u /\ v # new
      BY <2>1, <1>a, <1>b, <1>d, <1>f DEF Shape
    <3>2. queue[v].kind = "event" /\ ~ Sibling(w, v)
      BY <2>1, <3>1, <1>b, <1>d
    <3> QED
      BY <3>1, <3>2, <1>a DEF Sibling, IInv, TimersBelongToOpenWait
  <2>2. CASE IsNodeTask(u)
    <3>1. \A x \in Uuid : queue[x].kind # "event"
      BY <2>2, <1>e DEF IInv, TimersBelongToOpenWait
    <3>2. v = new /\ c.timer
      BY <2>2, <3>1, <1>b, <1>d, <1>a DEF IsNodeTask
    <3>3. IsWait(n) /\ c.enter = n
      BY <2>2, <3>2, <1>a, <1>b DEF Shape, IsNodeTask
    <3> QED
      BY <3>2, <3>3, <1>b, <1>c DEF OpenWait
  <2>3. CASE ~ c.close /\ ~ IsNodeTask(u)
    <3>1. /\ queue'[v].visit = queue[v].visit /\ queue'[v].node = queue[v].node
          /\ queue[v].kind = "event"
      BY <2>3, <1>b, <1>d, <1>g
    <3> QED
      BY <2>3, <3>1, <1>g DEF IInv, TimersBelongToOpenWait, OpenWait
  <2> QED
    BY <2>1, <2>2, <2>3
<1>9. RetainedTaskSurvives'
  BY <1>a, <1>b, <1>c, RuntimeTypes DEF RetainedTaskSurvives, Present, Leased
<1>10. NoLostPatch'
  BY <1>c DEF IInv, NoLostPatch
<1>11. NothingIsLost'
  <2>1. CASE c.close
    <3>1. ~ OpenWait'
      BY <2>1, <1>c, <1>f DEF OpenWait
    <3>2. c.next # NoNode => new \in Uuid /\ IsNodeTask(new)'
      BY <1>a, <1>b, <1>d DEF IsNodeTask
    <3>3. c.next = NoNode => inst'.node \in Node /\ Successors[inst'.node] = {}
      BY <2>1, <1>a, <1>c, <1>f DEF Shape, OpenWait, IsWait
    <3> QED
      BY <3>1, <3>2, <3>3 DEF NothingIsLost
  <2>2. CASE IsNodeTask(u)
    <3>1. c.release # "consume" => IsNodeTask(u)'
      BY <2>2, <1>b DEF IsNodeTask
    <3>2. c.next # NoNode => new \in Uuid /\ IsNodeTask(new)'
      BY <1>a, <1>b, <1>d DEF IsNodeTask
    <3>3. c.release = "consume" => inst'.node = n /\ (IsWait(n) => OpenWait')
      <4>1. c.enter = NoNode /\ c.release = "consume" => worker[w].visit = u
        BY <2>2, <1>a DEF Shape, IsNodeTask
      <4>2. worker[w].visit = u => inst.node = n /\ Kind[n] = "service"
        BY <2>2, <1>0, RetriedTask DEF IsNodeTask
      <4> QED
        BY <4>1, <4>2, <1>c, <1>d DEF OpenWait
    <3>4. c.release = "consume" /\ c.next = NoNode =>
             \/ OpenWait'
             \/ inst'.node \in Node /\ Successors[inst'.node] = {}
      BY <2>2, <3>3, <1>a, <1>d DEF Shape, IsNodeTask
    <3>5. OpenWait' /\ OnTimeout[inst'.node] # NoNode => c.timer
      <4>1. OpenWait' => IsWait(n) /\ inst'.node = n /\ c.release = "consume"
        BY <2>2, <1>a, <1>c, <1>d, <1>e, <1>f DEF OpenWait, Shape
      <4> QED
        BY <2>2, <4>1, <1>a DEF Shape, IsNodeTask
    <3>6. c.timer => new \in Uuid /\ queue'[new].kind = "event"
      BY <1>a, <1>b, <1>d
    <3> QED
      BY <1>a, <3>1, <3>2, <3>4, <3>5, <3>6 DEF NothingIsLost
  <2>3. CASE ~ c.close /\ ~ IsNodeTask(u)
    <3>1. \A v \in Uuid : IsNodeTask(v) => IsNodeTask(v)'
      BY <2>3, <1>g DEF IsNodeTask
    <3>2. queue[u].kind # "event" \/ ~ OpenWait
      BY <2>3, <1>a DEF Shape, IInv, TimersBelongToOpenWait, OpenWait
    <3>3. \A v \in Uuid : queue[v].kind = "event" /\ OpenWait => queue'[v].kind = "event"
      BY <2>3, <3>2, <1>g
    <3>4. OpenWait' <=> OpenWait
      BY <2>3, <1>g DEF OpenWait
    <3> QED
      BY <2>3, <3>1, <3>3, <3>4, <1>c, <1>g DEF IInv, NothingIsLost
  <2> QED
    BY <2>1, <2>2, <2>3
<1> QED
  BY <1>1, <1>2, <1>3, <1>4, <1>6, <1>7, <1>8, <1>9, <1>10, <1>11 DEF IInv

-----------------------------------------------------------------------------
(* The other steps *)

(* A step that moves no token: the instance stays where it is, and a row   *)
(* keeps its task, or is a signal's, or was cancelled.                     *)
TasksStay ==
    /\ inst'.node = inst.node /\ inst'.visit = inst.visit
    /\ inst'.waitDone = inst.waitDone
    /\ withdrawn \subseteq withdrawn'
    /\ \A v \in Uuid :
          \/ /\ queue'[v].kind = queue[v].kind
             /\ queue'[v].node = queue[v].node
             /\ queue[v].kind = "event" => queue'[v].visit = queue[v].visit
          \/ /\ queue'[v].kind \in {"none", "signal"}
             /\ queue[v].kind \in {"none", "signal"} \cup withdrawn'

(* A step of a worker that neither writes a row nor the instance keeps     *)
(* everything said of them.                                                *)
LEMMA TasksStayPreserves ==
    ASSUME IInv, TasksStay
    PROVE  /\ TasksNameNodes' /\ RetriesStayAtTheirNode' /\ SingleContinuation'
           /\ TimersBelongToOpenWait' /\ NothingIsLost'
<1> USE DEF TasksStay
<1>1. TasksNameNodes'
  BY DEF IInv, TasksNameNodes
<1>2. RetriesStayAtTheirNode'
  BY DEF IInv, RetriesStayAtTheirNode, IsNodeTask
<1>3. OpenWait' <=> OpenWait
  BY DEF OpenWait
<1>4. SingleContinuation'
  BY <1>3 DEF IInv, SingleContinuation, IsNodeTask
<1>5. TimersBelongToOpenWait'
  BY <1>3 DEF IInv, TimersBelongToOpenWait
<1>6. NothingIsLost'
  <2>1. ASSUME "node" \notin withdrawn', NEW v \in Uuid, IsNodeTask(v)
        PROVE  IsNodeTask(v)'
    BY <2>1 DEF IsNodeTask
  <2>2. ASSUME "event" \notin withdrawn', NEW v \in Uuid, queue[v].kind = "event"
        PROVE  queue'[v].kind = "event"
    BY <2>2
  <2> QED
    BY <1>3, <2>1, <2>2 DEF IInv, NothingIsLost
<1> QED
  BY <1>1, <1>2, <1>4, <1>5, <1>6

(* fetch_queue_task keeps the invariant: one lease, of a task that may     *)
(* run.                                                                    *)
LEMMA FetchPreserves ==
    ASSUME IInv, NEW w \in Worker, NEW u \in Uuid, Fetch(w, u)
    PROVE  IInv'
<1>1. /\ queue \in [Uuid -> Row] /\ worker \in [Worker -> WorkerRecord]
      /\ w # NoWorker /\ inst.state = "running"
  BY RuntimeTypes DEF IInv, TypeOK, Fetch
<1>2. /\ queue' \in [Uuid -> Row]
      /\ queue'[u].lease = w
      /\ queue'[u].kind = queue[u].kind /\ queue'[u].node = queue[u].node
      /\ queue'[u].visit = queue[u].visit
      /\ \A v \in Uuid : v # u => queue'[v] = queue[v]
  <2>1. PICK a \in 0 .. AttemptCap :
           queue' = [queue EXCEPT ![u].lease = w, ![u].attempts = a]
    <3> DEFINE now == queue[u].attempts
               later == IF now < AttemptCap THEN now + 1 ELSE now
    <3>1. later \in 0 .. AttemptCap
      BY <1>1, AttemptCapIsExact DEF Row
    <3>2. queue' = [queue EXCEPT ![u].lease = w, ![u].attempts = later]
      BY <1>1 DEF Fetch, Row
    <3> QED
      BY <3>1, <3>2
  <2> QED
    BY <1>1, <2>1 DEF Row
<1>3. /\ worker' \in [Worker -> WorkerRecord]
      /\ worker'[w].pc = "claimed"
      /\ \A x \in Worker : x # w => worker'[x] = worker[x]
  BY <1>1, IdleWorkerType DEF Fetch, WorkerRecord
<1>4. UNCHANGED <<inst, incident, stored, patched, command, withdrawn>>
  BY DEF Fetch
<1>5. TasksStay
  BY <1>2, <1>4 DEF TasksStay
<1>6. TypeOK'
  BY <1>2, <1>3, <1>4 DEF IInv, TypeOK
<1>7. SnapshotsAreCurrent'
  <2> SUFFICES ASSUME NEW x \in Worker, worker'[x].pc = "loaded"
               PROVE  /\ ~ worker'[x].stale =>
                            /\ worker'[x].node = inst'.node
                            /\ worker'[x].visit = inst'.visit
                            /\ worker'[x].waitDone = inst'.waitDone
                            /\ worker'[x].context = stored'
                      /\ HoldsLease(x)' =>
                            worker'[x].taskVisit = queue'[worker'[x].task].visit
    BY DEF SnapshotsAreCurrent
  <2>1. x # w /\ worker'[x] = worker[x]
    BY <1>3
  <2>2. HoldsLease(x)' => HoldsLease(x)
    BY <1>2, <2>1 DEF HoldsLease, Present
  <2> QED
    BY <1>2, <1>4, <2>1, <2>2 DEF IInv, SnapshotsAreCurrent, HoldsLease
<1>8. LeasesAreExclusive'
  BY <1>1, <1>2, <1>4 DEF Fetch, Eligible, LeasesAreExclusive, Leased
<1>9. RetainedTaskSurvives'
  <2>1. incident = NoUuid
    BY <1>1 DEF IInv, RetainedTaskSurvives
  <2>2. \A v \in Uuid : Present(v)' <=> Present(v)
    BY <1>2 DEF Present
  <2> QED
    BY <2>1, <2>2, <1>1, <1>4 DEF IInv, RetainedTaskSurvives, TypeOK, Instance
<1>10. NoLostPatch'
  BY <1>4 DEF IInv, NoLostPatch
<1> QED
  BY <1>5, <1>6, <1>7, <1>8, <1>9, <1>10, TasksStayPreserves DEF IInv

(* load_task_execution keeps the invariant: the snapshot it makes is       *)
(* current, and binding a signal's visit disturbs no timer.                *)
LEMMA LoadPreserves ==
    ASSUME IInv, NEW w \in Worker, Load(w)
    PROVE  IInv'
<1>0. PICK u : u = worker[w].task
  OBVIOUS
<1>1. /\ queue \in [Uuid -> Row] /\ worker \in [Worker -> WorkerRecord]
      /\ inst \in Instance /\ stored \in Value \cup {0}
      /\ u \in Uuid /\ Present(u) /\ queue[u].lease = w /\ w # NoWorker
      /\ inst.state = "running"
  BY <1>0, RuntimeTypes DEF IInv, TypeOK, Load, HoldsLease
<1>2. BoundVisit(u) \in Uuid \cup {NoUuid}
  BY <1>1 DEF BoundVisit, Row, Instance
<1>3. queue[u].kind # "signal" => BoundVisit(u) = queue[u].visit
  BY DEF BoundVisit
<1>4. /\ queue' \in [Uuid -> Row]
      /\ queue'[u].visit = BoundVisit(u) /\ queue'[u].lease = queue[u].lease
      /\ queue'[u].kind = queue[u].kind /\ queue'[u].node = queue[u].node
      /\ \A v \in Uuid : v # u => queue'[v] = queue[v]
  <2>1. queue' = [queue EXCEPT ![u].visit = BoundVisit(u)]
    BY <1>0 DEF Load
  <2> QED
    BY <1>1, <1>2, <2>1 DEF Row
<1>5. /\ worker' \in [Worker -> WorkerRecord]
      /\ worker'[w].node = inst.node /\ worker'[w].visit = inst.visit
      /\ worker'[w].waitDone = inst.waitDone /\ worker'[w].context = stored
      /\ worker'[w].task = u /\ worker'[w].taskVisit = BoundVisit(u)
      /\ \A x \in Worker : x # w => worker'[x] = worker[x]
  BY <1>0, <1>1, <1>2 DEF Load, WorkerRecord, Instance
<1>6. UNCHANGED <<inst, incident, stored, patched, command, withdrawn>>
  BY DEF Load
<1>7. TasksStay
  BY <1>3, <1>4, <1>6 DEF TasksStay
<1>8. TypeOK'
  BY <1>4, <1>5, <1>6 DEF IInv, TypeOK
<1>9. SnapshotsAreCurrent'
  <2> SUFFICES ASSUME NEW x \in Worker, worker'[x].pc = "loaded"
               PROVE  /\ ~ worker'[x].stale =>
                            /\ worker'[x].node = inst'.node
                            /\ worker'[x].visit = inst'.visit
                            /\ worker'[x].waitDone = inst'.waitDone
                            /\ worker'[x].context = stored'
                      /\ HoldsLease(x)' =>
                            worker'[x].taskVisit = queue'[worker'[x].task].visit
    BY DEF SnapshotsAreCurrent
  <2>1. CASE x = w
    BY <2>1, <1>4, <1>5, <1>6
  <2>2. CASE x # w
    <3>1. worker'[x] = worker[x]
      BY <2>2, <1>5
    <3>2. HoldsLease(x)' => HoldsLease(x) /\ queue'[worker[x].task] = queue[worker[x].task]
      BY <2>2, <3>1, <1>1, <1>4 DEF HoldsLease, Present
    <3> QED
      BY <3>1, <3>2, <1>6 DEF IInv, SnapshotsAreCurrent
  <2> QED
    BY <2>1, <2>2
<1>10. \A v \in Uuid : (Leased(v)' <=> Leased(v)) /\ (Present(v)' <=> Present(v))
  BY <1>4 DEF Leased, Present
<1>11. LeasesAreExclusive' /\ RetainedTaskSurvives'
  BY <1>6, <1>10 DEF IInv, LeasesAreExclusive, RetainedTaskSurvives, TypeOK, Instance
<1>12. NoLostPatch'
  BY <1>6 DEF IInv, NoLostPatch
<1> QED
  BY <1>7, <1>8, <1>9, <1>11, <1>12, TasksStayPreserves DEF IInv

(* Reject and Abandon: a slot becomes idle and nothing else changes.       *)
LEMMA IdlePreserves ==
    ASSUME IInv, NEW w \in Worker,
           worker' = [worker EXCEPT ![w] = IdleWorker],
           UNCHANGED <<inst, queue, incident, stored, patched, command, withdrawn>>
    PROVE  IInv'
<1>1. worker \in [Worker -> WorkerRecord]
  BY DEF IInv, TypeOK
<1>2. /\ worker' \in [Worker -> WorkerRecord]
      /\ \A x \in Worker : worker'[x].pc = "loaded" => worker'[x] = worker[x]
  BY <1>1, IdleWorkerType
<1>3. TypeOK'
  BY <1>2 DEF IInv, TypeOK
<1>4. SnapshotsAreCurrent'
  BY <1>2 DEF IInv, SnapshotsAreCurrent, HoldsLease, Present
<1>5. TasksStay
  BY DEF TasksStay
<1>6. LeasesAreExclusive' /\ RetainedTaskSurvives' /\ NoLostPatch'
  BY DEF IInv, LeasesAreExclusive, RetainedTaskSurvives, NoLostPatch, Present, Leased
<1> QED
  BY <1>3, <1>4, <1>5, <1>6, TasksStayPreserves DEF IInv

(* A change of rows alone that leases nothing: what is left to show.       *)
RowsOnly ==
    /\ queue' \in [Uuid -> Row]
    /\ withdrawn' \in SUBSET TaskKinds
    /\ UNCHANGED <<inst, incident, worker, stored, patched, command>>
    /\ \A v \in Uuid :
          /\ queue'[v].lease \in {queue[v].lease, NoWorker}
          /\ queue'[v].lease # NoWorker =>
                queue'[v].kind = queue[v].kind /\ queue'[v].visit = queue[v].visit
          /\ v \in {incident, inst.recovery} /\ Present(v) => Present(v)'

(* A step that only changes rows outside any lease, and loses no task,     *)
(* keeps the invariant.                                                    *)
LEMMA RowsOnlyPreserves ==
    ASSUME IInv, TasksStay, RowsOnly
    PROVE  IInv'
<1>1. TypeOK'
  BY DEF IInv, TypeOK, RowsOnly
<1>2. \A v \in Uuid : Leased(v)' => Leased(v)
  BY DEF RowsOnly, Leased
<1>3. SnapshotsAreCurrent'
  <2> SUFFICES ASSUME NEW x \in Worker, worker[x].pc = "loaded", HoldsLease(x)'
               PROVE  HoldsLease(x) /\ queue'[worker[x].task].visit = queue[worker[x].task].visit
    BY DEF RowsOnly, SnapshotsAreCurrent, IInv
  <2>0. PICK t : t = worker[x].task
    OBVIOUS
  <2>1. t \in Uuid /\ queue'[t].lease = x /\ x # NoWorker /\ Present(t)'
    BY <2>0, RuntimeTypes DEF HoldsLease, RowsOnly, Present
  <2>2. queue[t].lease = x /\ queue'[t].visit = queue[t].visit
    BY <2>1 DEF RowsOnly
  <2>3. Present(t)
    BY <2>1, <2>2 DEF RowsOnly, Present
  <2> QED
    BY <2>0, <2>1, <2>2, <2>3 DEF HoldsLease
<1>4. LeasesAreExclusive'
  BY <1>2 DEF RowsOnly, IInv, LeasesAreExclusive
<1>5. RetainedTaskSurvives'
  BY <1>2 DEF RowsOnly, IInv, RetainedTaskSurvives, TypeOK, Instance
<1>6. NoLostPatch'
  BY DEF RowsOnly, IInv, NoLostPatch
<1> QED
  BY <1>1, <1>3, <1>4, <1>5, <1>6, TasksStayPreserves DEF IInv

(* A lease that runs out keeps the invariant: the task it covered is still *)
(* there.                                                                  *)
LEMMA ExpirePreserves ==
    ASSUME IInv, NEW u \in Uuid, Expire(u)
    PROVE  IInv'
<1>1. queue \in [Uuid -> Row] /\ withdrawn \in SUBSET TaskKinds
  BY DEF IInv, TypeOK
<1>2. /\ queue' = [queue EXCEPT ![u].lease = NoWorker]
      /\ UNCHANGED <<inst, incident, worker, stored, patched, command, withdrawn>>
  BY DEF Expire
<1>3. TasksStay
  BY <1>1, <1>2 DEF TasksStay, Row
<1>4. RowsOnly
  BY <1>1, <1>2 DEF RowsOnly, Row, Present
<1> QED
  BY <1>3, <1>4, RowsOnlyPreserves

(* BecomeDue and AdminRetry: the row may run.                              *)
LEMMA DuePreserves ==
    ASSUME IInv, NEW u \in Uuid, BecomeDue(u) \/ AdminRetry(u)
    PROVE  IInv'
<1>1. queue \in [Uuid -> Row] /\ withdrawn \in SUBSET TaskKinds
  BY DEF IInv, TypeOK
<1>2. /\ queue' = [queue EXCEPT ![u].due = TRUE]
      /\ UNCHANGED <<inst, incident, worker, stored, patched, command, withdrawn>>
      /\ Present(u)
  BY DEF BecomeDue, AdminRetry
<1>3. TasksStay
  BY <1>1, <1>2 DEF TasksStay, Row
<1>4. RowsOnly
  BY <1>1, <1>2 DEF RowsOnly, Row, Present
<1> QED
  BY <1>3, <1>4, RowsOnlyPreserves

(* enqueue_signal_if_new keeps the invariant: a signal is no continuation  *)
(* and no timer.                                                           *)
LEMMA PostSignalPreserves ==
    ASSUME IInv, NEW sig \in Signal, NEW r \in Uuid \cup {NoUuid}, NEW new \in Uuid,
           PostSignal(sig, r, new)
    PROVE  IInv'
<1>1. /\ queue \in [Uuid -> Row] /\ withdrawn \in SUBSET TaskKinds
      /\ inst.visit \in Uuid \cup {NoUuid}
  BY DEF IInv, TypeOK, Instance
<1>2. PICK v \in Uuid \cup {NoUuid} : queue' = [queue EXCEPT ![new] = SignalTask(sig, v)]
  BY <1>1 DEF PostSignal
<1>3. UNCHANGED <<inst, incident, worker, stored, patched, command, withdrawn>>
  BY DEF PostSignal
<1>4. ~ Present(new) /\ new # incident /\ new # inst.recovery
  BY FreshFacts DEF PostSignal, IInv
<1>5. /\ queue' \in [Uuid -> Row]
      /\ queue'[new].kind = "signal" /\ queue'[new].lease = NoWorker
      /\ queue[new].kind = "none"
      /\ \A x \in Uuid : x # new => queue'[x] = queue[x]
  BY <1>1, <1>2, <1>4, RowFields DEF Present
<1>6. TasksStay
  BY <1>3, <1>5 DEF TasksStay
<1>7. RowsOnly
  BY <1>1, <1>3, <1>4, <1>5 DEF RowsOnly, Present
<1> QED
  BY <1>6, <1>7, RowsOnlyPreserves

(* cancel_queue_task keeps the invariant: it spares leased, incident and   *)
(* recovering tasks.                                                       *)
LEMMA AdminCancelPreserves ==
    ASSUME IInv, NEW u \in Uuid, AdminCancel(u)
    PROVE  IInv'
<1>1. /\ queue \in [Uuid -> Row] /\ withdrawn \in SUBSET TaskKinds
      /\ queue[u].kind \in TaskKinds
  BY DEF IInv, TypeOK, AdminCancel, Row, Present
<1>2. /\ queue' = [queue EXCEPT ![u] = NoRow]
      /\ withdrawn' = withdrawn \cup {queue[u].kind}
      /\ u # incident /\ u # inst.recovery
      /\ UNCHANGED <<inst, incident, worker, stored, patched, command>>
  BY DEF AdminCancel
<1>3. /\ queue' \in [Uuid -> Row]
      /\ queue'[u].kind = "none" /\ queue'[u].lease = NoWorker
      /\ \A x \in Uuid : x # u => queue'[x] = queue[x]
  BY <1>1, <1>2, RowFields
<1>4. TasksStay
  BY <1>1, <1>2, <1>3 DEF TasksStay
<1>5. RowsOnly
  BY <1>1, <1>2, <1>3 DEF RowsOnly, Present
<1> QED
  BY <1>4, <1>5, RowsOnlyPreserves

(* Reading the open incident keeps the invariant.                          *)
LEMMA ObservePreserves ==
    ASSUME IInv, Observe
    PROVE  IInv'
<1>1. command' = "names_open"
  BY DEF Observe
<1>2. UNCHANGED <<inst, queue, incident, worker, stored, patched, withdrawn>>
  BY DEF Observe
<1>3. TypeOK'
  BY <1>1, <1>2 DEF IInv, TypeOK
<1>4. TasksStay
  BY <1>2 DEF TasksStay
<1>5. /\ SnapshotsAreCurrent' /\ LeasesAreExclusive' /\ RetainedTaskSurvives'
      /\ NoLostPatch'
  BY <1>2 DEF IInv, SnapshotsAreCurrent, LeasesAreExclusive, RetainedTaskSurvives,
              NoLostPatch, HoldsLease, Present, Leased
<1> QED
  BY <1>3, <1>4, <1>5, TasksStayPreserves DEF IInv

(* A direct patch keeps the invariant: it makes every outstanding snapshot *)
(* stale.                                                                  *)
LEMMA PatchPreserves ==
    ASSUME IInv, NEW value \in Value, Patch(value)
    PROVE  IInv'
<1>1. /\ stored' = value /\ patched' = value /\ worker' = BumpRevision(worker)
      /\ UNCHANGED <<inst, queue, incident, command, withdrawn>>
  BY DEF Patch
<1>2. worker \in [Worker -> WorkerRecord]
  BY DEF IInv, TypeOK
<1>3. TypeOK'
  BY <1>1, <1>2, BumpFacts DEF IInv, TypeOK
<1>4. TasksStay
  BY <1>1 DEF TasksStay
<1>5. SnapshotsAreCurrent'
  <2> SUFFICES ASSUME NEW x \in Worker, worker'[x].pc = "loaded"
               PROVE  /\ worker'[x].stale = TRUE
                      /\ HoldsLease(x)' =>
                            worker'[x].taskVisit = queue'[worker'[x].task].visit
    BY DEF SnapshotsAreCurrent
  <2>1. /\ worker[x].pc = "loaded" /\ worker'[x].stale = TRUE
        /\ worker'[x].task = worker[x].task
        /\ worker'[x].taskVisit = worker[x].taskVisit
    BY <1>1, <1>2, BumpFacts
  <2>2. HoldsLease(x)' => HoldsLease(x)
    BY <1>1, <2>1 DEF HoldsLease, Present
  <2> QED
    BY <1>1, <2>1, <2>2 DEF IInv, SnapshotsAreCurrent
<1>6. LeasesAreExclusive' /\ RetainedTaskSurvives'
  BY <1>1 DEF IInv, LeasesAreExclusive, RetainedTaskSurvives, Present, Leased
<1>7. NoLostPatch'
  BY <1>1 DEF NoLostPatch
<1> QED
  BY <1>3, <1>4, <1>5, <1>6, <1>7, TasksStayPreserves DEF IInv

(* resume_instance keeps the invariant: the retained task is queued and    *)
(* becomes the only eligible one.                                          *)
LEMMA ResumePreserves ==
    ASSUME IInv, Resume
    PROVE  IInv'
<1>0. PICK i : i = incident
  OBVIOUS
<1>1. /\ i \in Uuid /\ i # NoUuid /\ Present(i)
      /\ queue \in [Uuid -> Row] /\ inst \in Instance
      /\ worker \in [Worker -> WorkerRecord]
      /\ inst.state = "suspended"
  BY <1>0 DEF IInv, TypeOK, Resume, NamesOpenIncident, RetainedTaskSurvives
<1>2. /\ queue' = [queue EXCEPT ![i] =
                      [@ EXCEPT !.attempts = 0, !.due = TRUE, !.lease = NoWorker]]
      /\ inst' = [inst EXCEPT !.state = "running", !.recovery = i]
      /\ incident' = NoUuid /\ command' = "names_resolved"
      /\ worker' = BumpRevision(worker)
      /\ UNCHANGED <<stored, patched, withdrawn>>
  BY <1>0 DEF Resume
<1>3. /\ inst' \in Instance
      /\ inst'.state = "running" /\ inst'.recovery = i
      /\ inst'.node = inst.node /\ inst'.visit = inst.visit
      /\ inst'.waitDone = inst.waitDone
  BY <1>1, <1>2 DEF Instance
<1>4. /\ queue' \in [Uuid -> Row]
      /\ queue'[i].kind = queue[i].kind /\ queue'[i].node = queue[i].node
      /\ queue'[i].visit = queue[i].visit /\ queue'[i].lease = NoWorker
      /\ \A v \in Uuid : v # i => queue'[v] = queue[v]
  <2>1. queue' = [queue EXCEPT ![i] =
                    [queue[i] EXCEPT !.attempts = 0, !.due = TRUE, !.lease = NoWorker]]
    BY <1>1, <1>2
  <2>2. queue[i] \in Row /\ 0 \in 0 .. AttemptCap
    BY <1>1, AttemptCapIsExact
  <2>3. [queue[i] EXCEPT !.attempts = 0, !.due = TRUE, !.lease = NoWorker] \in Row
    BY <2>2 DEF Row
  <2> QED
    BY <1>1, <2>1, <2>2, <2>3 DEF Row
<1>5. \A v \in Uuid : ~ Leased(v)'
  BY <1>1, <1>4 DEF IInv, LeasesAreExclusive, Leased
<1>6. TypeOK'
  BY <1>1, <1>2, <1>3, <1>4, BumpFacts DEF IInv, TypeOK
<1>7. TasksStay
  BY <1>2, <1>3, <1>4 DEF TasksStay
<1>8. SnapshotsAreCurrent'
  <2> SUFFICES ASSUME NEW x \in Worker, worker'[x].pc = "loaded"
               PROVE  worker'[x].stale = TRUE /\ ~ HoldsLease(x)'
    BY DEF SnapshotsAreCurrent
  <2>1. worker'[x].stale = TRUE
    BY <1>1, <1>2, BumpFacts
  <2>2. ~ HoldsLease(x)'
    BY <1>5, RuntimeTypes DEF HoldsLease, Leased
  <2> QED
    BY <2>1, <2>2
<1>9. LeasesAreExclusive'
  BY <1>5 DEF LeasesAreExclusive
<1>10. RetainedTaskSurvives'
  BY <1>1, <1>2, <1>3, <1>4 DEF RetainedTaskSurvives, Present
<1>11. NoLostPatch'
  BY <1>2 DEF IInv, NoLostPatch
<1> QED
  BY <1>6, <1>7, <1>8, <1>9, <1>10, <1>11, TasksStayPreserves DEF IInv

-----------------------------------------------------------------------------
(* The invariant *)

(* Startup establishes the invariant: one Start task and nothing else.     *)
LEMMA InitHolds == Init => IInv
<1> SUFFICES ASSUME Init
             PROVE  IInv
  OBVIOUS
<1>1. PICK u \in Uuid :
         queue = [v \in Uuid |-> IF v = u THEN NodeTask(StartNode, TRUE) ELSE NoRow]
  BY DEF Init
<1>2. StartNode \in Node /\ NoNode \notin Node
  BY DefinitionIsValid, DefinitionTypes
<1>3. /\ queue \in [Uuid -> Row]
      /\ queue[u].kind = "node" /\ queue[u].node = StartNode
      /\ \A v \in Uuid : v # u => queue[v].kind = "none"
      /\ \A v \in Uuid : queue[v].lease = NoWorker
  BY <1>1, <1>2, RowFields
<1>4. /\ inst \in Instance
      /\ inst.node = NoNode /\ inst.visit = NoUuid /\ inst.waitDone = FALSE
      /\ inst.state = "running" /\ inst.recovery = NoUuid
  BY DEF Init, Instance
<1>5. TypeOK
  BY <1>3, <1>4, IdleWorkerType DEF Init, TypeOK
<1>6. SnapshotsAreCurrent
  BY IdleWorkerType DEF Init, SnapshotsAreCurrent
<1>7. TasksNameNodes /\ TimersBelongToOpenWait
  BY <1>2, <1>3 DEF TasksNameNodes, TimersBelongToOpenWait
<1>8. RetriesStayAtTheirNode
  BY <1>4, RuntimeTypes DEF RetriesStayAtTheirNode
<1>9. LeasesAreExclusive
  BY <1>3 DEF LeasesAreExclusive, Leased
<1>10. ~ OpenWait
  BY <1>2, <1>4 DEF OpenWait, IsWait
<1>11. SingleContinuation /\ NothingIsLost
  BY <1>3, <1>10 DEF SingleContinuation, NothingIsLost, IsNodeTask
<1>12. RetainedTaskSurvives /\ NoLostPatch
  BY <1>4 DEF Init, RetainedTaskSurvives, NoLostPatch
<1> QED
  BY <1>5, <1>6, <1>7, <1>8, <1>9, <1>11, <1>12 DEF IInv

(* Every Commit step is a commit of some change in the situation the       *)
(* commit lemmas are stated for.                                           *)
LEMMA CommitHasContext ==
    ASSUME IInv, NEW w \in Worker, Commit(w)
    PROVE  \E c \in Outcomes(w) : \E new : CommitContext(w, c, new)
<1>1. PICK c \in Outcomes(w) :
         \E new \in IF Inserts(c) THEN Fresh ELSE {NoUuid} : CommitAs(w, c, new)
  BY DEF Commit
<1>2. PICK new \in IF Inserts(c) THEN Fresh ELSE {NoUuid} : CommitAs(w, c, new)
  BY <1>1
<1>3. worker[w].pc = "loaded" /\ Fenced(w)
  BY DEF Commit
<1>4. worker[w].task \in Uuid /\ queue[worker[w].task].kind \in TaskKinds
  BY <1>3 DEF Fenced, HoldsLease, Present, IInv, TypeOK, Row
<1>5. Shape(w, c)
  BY <1>4, OutcomesShape DEF IInv
<1>6. CommitContext(w, c, new)
  BY <1>2, <1>3, <1>5 DEF CommitContext
<1> QED
  BY <1>6

(* Every step of the system, or none, keeps the invariant.                 *)
LEMMA NextHolds == IInv /\ [Next]_vars => IInv'
<1> SUFFICES ASSUME IInv, [Next]_vars
             PROVE  IInv'
  OBVIOUS
<1>1. CASE Runner
  <2>1. ASSUME NEW w \in Worker, NEW u \in Uuid, Fetch(w, u)
        PROVE  IInv'
    BY <2>1, FetchPreserves
  <2>2. ASSUME NEW w \in Worker, Load(w)
        PROVE  IInv'
    BY <2>2, LoadPreserves
  <2>3. ASSUME NEW w \in Worker, Commit(w)
        PROVE  IInv'
    BY <2>3, CommitHasContext, CommitPreserves
  <2>4. ASSUME NEW w \in Worker, Reject(w) \/ Abandon(w)
        PROVE  IInv'
    BY <2>4, IdlePreserves DEF Reject, Abandon
  <2> QED
    BY <1>1, <2>1, <2>2, <2>3, <2>4 DEF Runner
<1>2. CASE Clock
  BY <1>2, ExpirePreserves, DuePreserves DEF Clock
<1>3. CASE Host
  BY <1>3, PostSignalPreserves, PatchPreserves DEF Host
<1>4. CASE Operator
  BY <1>4, ObservePreserves, ResumePreserves, DuePreserves, AdminCancelPreserves
     DEF Operator
<1>5. CASE UNCHANGED vars
  <2>1. UNCHANGED <<inst, queue, incident, stored, patched, command, withdrawn, worker>>
    BY <1>5 DEF vars
  <2>2. TypeOK'
    BY <2>1 DEF IInv, TypeOK
  <2>3. TasksStay
    BY <2>1 DEF TasksStay
  <2>4. /\ SnapshotsAreCurrent' /\ LeasesAreExclusive' /\ RetainedTaskSurvives'
        /\ NoLostPatch'
    BY <2>1 DEF IInv, SnapshotsAreCurrent, LeasesAreExclusive, RetainedTaskSurvives,
                NoLostPatch, HoldsLease, Present, Leased
  <2> QED
    BY <2>2, <2>3, <2>4, TasksStayPreserves DEF IInv
<1> QED
  BY <1>1, <1>2, <1>3, <1>4, <1>5 DEF Next

(* The inductive invariant holds in every reachable state.                 *)
THEOREM InvariantHolds == Spec => []IInv
BY InitHolds, NextHolds, PTL DEF Spec

-----------------------------------------------------------------------------
(* The theorems *)

(* Every variable keeps its type: the rows, the worker slots and the       *)
(* instance are always of the shapes the tables and structs can hold.      *)
THEOREM TypeCorrect == Spec => []TypeOK
<1>1. IInv => TypeOK
  BY DEF IInv
<1> QED
  BY <1>1, InvariantHolds, PTL

(* However tasks, workers and events interleave, no workflow instance ever *)
(* has two continuations, and none while its wait is open.                 *)
THEOREM NeverForks == Spec => []SingleContinuation
<1>1. IInv => SingleContinuation
  BY DEF IInv
<1> QED
  BY <1>1, InvariantHolds, PTL

(* No lost lease, retry, incident or race loses the continuation, nor the  *)
(* timer of an open wait.                                                  *)
THEOREM NeverStrands == Spec => []NothingIsLost
<1>1. IInv => NothingIsLost
  BY DEF IInv
<1> QED
  BY <1>1, InvariantHolds, PTL

(* A timer in the queue belongs to the wait that is open now.              *)
THEOREM TimersAreCurrent == Spec => []TimersBelongToOpenWait
<1>1. IInv => TimersBelongToOpenWait
  BY DEF IInv
<1> QED
  BY <1>1, InvariantHolds, PTL

(* The task an incident retains is there, unleased, until the resume, and  *)
(* until its own transition commits after it.                              *)
THEOREM IncidentKeepsItsTask == Spec => []RetainedTaskSurvives
<1>1. IInv => RetainedTaskSurvives
  BY DEF IInv
<1> QED
  BY <1>1, InvariantHolds, PTL

(* After a resume no other task's transition passes the fence before the   *)
(* retained task's own.                                                    *)
THEOREM RetainedTaskIsFirst == Spec => []RecoveryRunsFirst
<1>1. IInv => RecoveryRunsFirst
  <2> SUFFICES ASSUME IInv, NEW w \in Worker, Fenced(w), inst.recovery # NoUuid
               PROVE  worker[w].task = inst.recovery
    BY DEF RecoveryRunsFirst
  <2>1. worker[w].task \in Uuid /\ Leased(worker[w].task)
    BY RuntimeTypes DEF Fenced, HoldsLease, Leased
  <2> QED
    BY <2>1 DEF IInv, LeasesAreExclusive
<1> QED
  BY <1>1, InvariantHolds, PTL

(* The revision fence keeps a whole-context merge from undoing a patch the *)
(* host made after the snapshot.                                           *)
THEOREM PatchesAreKept == Spec => []NoLostPatch
<1>1. IInv => NoLostPatch
  BY DEF IInv
<1> QED
  BY <1>1, InvariantHolds, PTL

(* Steps other than commits leave the instance's position alone.           *)
LEMMA OnlyCommitMoves ==
    ASSUME IInv, [Next]_vars
    PROVE  \/ \E w \in Worker : Commit(w)
           \/ /\ inst'.node = inst.node /\ inst'.visit = inst.visit
              /\ inst'.waitDone = inst.waitDone
<1>1. CASE Runner
  BY <1>1 DEF Runner, Fetch, Load, Reject, Abandon
<1>2. CASE Clock
  BY <1>2 DEF Clock, Expire, BecomeDue
<1>3. CASE Host
  BY <1>3 DEF Host, PostSignal, Patch
<1>4. CASE Operator
  <2>1. CASE Resume
    <3>1. inst' = [inst EXCEPT !.state = "running", !.recovery = incident]
      BY <2>1 DEF Resume
    <3> QED
      BY <3>1 DEF IInv, TypeOK, Instance
  <2>2. CASE Observe
    BY <2>2 DEF Observe
  <2>3. ASSUME NEW u \in Uuid, AdminRetry(u) \/ AdminCancel(u)
        PROVE  inst' = inst
    BY <2>3 DEF AdminRetry, AdminCancel
  <2> QED
    BY <1>4, <2>1, <2>2, <2>3 DEF Operator
<1>5. CASE UNCHANGED vars
  BY <1>5 DEF vars
<1> QED
  BY <1>1, <1>2, <1>3, <1>4, <1>5 DEF Next

(* A completed wait visit is never reopened, and completing one consumes   *)
(* an event bound to that visit in the same commit.                        *)
THEOREM WaitsCloseOnce == Spec => WaitClosesOnce
<1>1. ASSUME IInv, [Next]_vars, inst'.visit = inst.visit
      PROVE  /\ inst.waitDone => inst'.waitDone
             /\ inst'.waitDone /\ ~ inst.waitDone =>
                   \E u \in Uuid : /\ queue[u].kind \in {"event", "signal"}
                                   /\ queue[u].visit = inst.visit
                                   /\ queue'[u].kind = "none"
  <2>1. CASE \E w \in Worker : Commit(w)
    <3>1. PICK w \in Worker : Commit(w)
      BY <2>1
    <3>2. PICK c, new : CommitContext(w, c, new)
      BY <1>1, <3>1, CommitHasContext
    <3>3. PICK u : u = worker[w].task
      OBVIOUS
    <3>4. Passed(w, c, new, u) /\ RowsAfter(w, c, new, u) /\ InstanceAfter(w, c, u)
      BY <1>1, <3>2, <3>3, CommitFacts, CommitRows, CommitInstance
    <3>5. c.enter = NoNode
      BY <1>1, <3>4 DEF Passed, InstanceAfter, Shape
    <3>6. inst'.waitDone <=> (inst.waitDone \/ c.close)
      BY <3>4, <3>5 DEF InstanceAfter
    <3>7. c.close => /\ u \in Uuid
                     /\ queue[u].kind \in {"event", "signal"}
                     /\ queue[u].visit = inst.visit
                     /\ queue'[u].kind = "none"
      BY <3>4, RowFields DEF Passed, RowsAfter, Shape
    <3> QED
      BY <3>6, <3>7
  <2>2. CASE ~ \E w \in Worker : Commit(w)
    BY <1>1, <2>2, OnlyCommitMoves
  <2> QED
    BY <2>1, <2>2
<1> QED
  BY <1>1, InvariantHolds, PTL DEF Spec, WaitClosesOnce

(* While an incident is open the instance does not move and none of its    *)
(* tasks is claimed.                                                       *)
THEOREM IncidentsStopTheInstance == Spec => SuspendedIsQuiet
<1>1. ASSUME IInv, [Next]_vars, inst.state = "suspended"
      PROVE  /\ inst'.node = inst.node
             /\ inst'.visit = inst.visit
             /\ inst'.waitDone = inst.waitDone
             /\ \A u \in Uuid : Leased(u)' => Leased(u)
  <2>1. \A w \in Worker : ~ Commit(w) /\ ~ Load(w) /\ \A u \in Uuid : ~ Fetch(w, u)
    BY <1>1 DEF Commit, Fenced, Load, Fetch
  <2>2. /\ inst'.node = inst.node /\ inst'.visit = inst.visit
        /\ inst'.waitDone = inst.waitDone
    BY <1>1, <2>1, OnlyCommitMoves
  <2>3. queue \in [Uuid -> Row]
    BY <1>1 DEF IInv, TypeOK
  <2>4. \A u \in Uuid : Leased(u)' => Leased(u)
    <3>1. CASE Runner
      BY <2>1, <3>1 DEF Runner, Reject, Abandon, Leased
    <3>2. CASE Clock
      BY <2>3, <3>2 DEF Clock, Expire, BecomeDue, Leased, Row
    <3>3. CASE Host
      <4>1. ASSUME NEW sig \in Signal, NEW r \in Uuid \cup {NoUuid}, NEW new \in Uuid,
                   PostSignal(sig, r, new)
            PROVE  \A u \in Uuid : Leased(u)' => Leased(u)
        <5>1. inst.visit \in Uuid \cup {NoUuid}
          BY <1>1 DEF IInv, TypeOK, Instance
        <5>2. PICK v \in Uuid \cup {NoUuid} : queue' = [queue EXCEPT ![new] = SignalTask(sig, v)]
          BY <4>1, <5>1 DEF PostSignal
        <5> QED
          BY <2>3, <5>2, RowFields DEF Leased
      <4>2. ASSUME NEW value \in Value, Patch(value)
            PROVE  \A u \in Uuid : Leased(u)' => Leased(u)
        BY <4>2 DEF Patch, Leased
      <4> QED
        BY <3>3, <4>1, <4>2 DEF Host
    <3>4. CASE Operator
      <4>1. CASE Resume
        <5>1. incident \in Uuid
          BY <1>1, <4>1 DEF Resume, NamesOpenIncident, IInv, TypeOK
        <5>2. queue' = [queue EXCEPT ![incident] =
                 [queue[incident] EXCEPT !.attempts = 0, !.due = TRUE, !.lease = NoWorker]]
          BY <2>3, <4>1, <5>1 DEF Resume
        <5>3. queue[incident] \in Row
          BY <2>3, <5>1
        <5> QED
          BY <2>3, <5>1, <5>2, <5>3 DEF Leased, Row
      <4>2. CASE Observe
        BY <4>2 DEF Observe, Leased
      <4>3. ASSUME NEW u \in Uuid, AdminRetry(u)
            PROVE  \A v \in Uuid : Leased(v)' => Leased(v)
        BY <2>3, <4>3 DEF AdminRetry, Leased, Row
      <4>4. ASSUME NEW u \in Uuid, AdminCancel(u)
            PROVE  \A v \in Uuid : Leased(v)' => Leased(v)
        BY <2>3, <4>4, RowFields DEF AdminCancel, Leased
      <4> QED
        BY <3>4, <4>1, <4>2, <4>3, <4>4 DEF Operator
    <3>5. CASE UNCHANGED vars
      BY <3>5 DEF vars, Leased
    <3> QED
      BY <1>1, <3>1, <3>2, <3>3, <3>4, <3>5 DEF Next
  <2> QED
    BY <2>2, <2>4
<1> QED
  BY <1>1, InvariantHolds, PTL DEF Spec, SuspendedIsQuiet
-----------------------------------------------------------------------------
(* What the mapping needs besides IInv *)

(* Once an administrator has cancelled the node task, no task or open wait *)
(* continues the instance; and an incident retains the node task, or the   *)
(* signal it would have closed the open wait with.                         *)
TokenInv ==
    /\ "node" \in withdrawn => ~ OpenWait /\ \A u \in Uuid : ~ IsNodeTask(u)
    /\ incident # NoUuid => OpenWait \/ IsNodeTask(incident)

-----------------------------------------------------------------------------
(* The token *)

TokenNode == IF tokenOf = NoNode THEN StartNode ELSE tokenOf

(* tokenOf, of any queue and current node.                                 *)
Position(q, n) ==
    LET T == {u \in Uuid : q[u].kind = "node"} IN IF T # {} THEN q[CHOOSE u \in T : TRUE].node ELSE n

LEMMA PositionOfTask ==
    ASSUME NEW q, NEW n, NEW u \in Uuid, q[u].kind = "node",
           \A v \in Uuid : q[v].kind = "node" => v = u
    PROVE  Position(q, n) = q[u].node
<1> DEFINE T == {v \in Uuid : q[v].kind = "node"}
<1>1. T = {u}
  OBVIOUS
<1> HIDE DEF T
<1>2. (CHOOSE v \in T : TRUE) \in T
  BY <1>1
<1>3. (CHOOSE v \in T : TRUE) = u
  BY <1>1, <1>2
<1> QED
  BY <1>1, <1>3 DEF Position, T

LEMMA PositionOfNone ==
    ASSUME NEW q, NEW n, \A v \in Uuid : q[v].kind # "node"
    PROVE  Position(q, n) = n
BY DEF Position

LEMMA TokenIsPosition ==
    /\ tokenOf = Position(queue, inst.node)
    /\ tokenOf' = Position(queue', inst'.node)
BY DEF tokenOf, Position, NodeTasks, IsNodeTask

(* The mapped state when there is a node task: the token moves.            *)
LEMMA WithTask ==
    ASSUME TasksNameNodes, SingleContinuation, NEW u \in Uuid, IsNodeTask(u)
    PROVE  TokenNode = queue[u].node /\ TokenNode \in Node /\ phaseOf = "moving"
<1>1. tokenOf = queue[u].node
  BY TokenIsPosition, PositionOfTask DEF SingleContinuation, IsNodeTask
<1>2. queue[u].node \in Node /\ NoNode \notin Node
  BY DefinitionTypes DEF TasksNameNodes, IsNodeTask
<1>3. phaseOf = "moving"
  BY DEF phaseOf, NodeTasks
<1> QED
  BY <1>1, <1>2, <1>3 DEF TokenNode

(* And when there is none.                                                 *)
LEMMA WithoutTask ==
    ASSUME TypeOK, \A v \in Uuid : ~ IsNodeTask(v)
    PROVE  /\ TokenNode = IF inst.node = NoNode THEN StartNode ELSE inst.node
           /\ TokenNode \in Node
           /\ phaseOf = IF "node" \in withdrawn THEN "withdrawn"
                        ELSE IF OpenWait THEN "waiting" ELSE "finished"
<1>1. tokenOf = inst.node
  BY TokenIsPosition, PositionOfNone DEF IsNodeTask
<1>2. inst.node \in Node \cup {NoNode} /\ StartNode \in Node
  BY DefinitionIsValid DEF TypeOK, Instance
<1>3. NodeTasks = {}
  BY DEF NodeTasks
<1> QED
  BY <1>1, <1>2, <1>3 DEF TokenNode, phaseOf

(* The same two facts of the state a step leads to.                        *)
LEMMA WithTaskNext ==
    ASSUME TasksNameNodes', SingleContinuation', NEW u \in Uuid, IsNodeTask(u)'
    PROVE  TokenNode' = queue'[u].node /\ TokenNode' \in Node /\ phaseOf' = "moving"
<1>1. tokenOf' = queue'[u].node
  BY TokenIsPosition, PositionOfTask DEF SingleContinuation, IsNodeTask
<1>2. queue'[u].node \in Node /\ NoNode \notin Node
  BY DefinitionTypes DEF TasksNameNodes, IsNodeTask
<1>3. phaseOf' = "moving"
  BY DEF phaseOf, NodeTasks
<1> QED
  BY <1>1, <1>2, <1>3 DEF TokenNode

LEMMA WithoutTaskNext ==
    ASSUME TypeOK', \A v \in Uuid : ~ IsNodeTask(v)'
    PROVE  /\ TokenNode' = IF inst'.node = NoNode THEN StartNode ELSE inst'.node
           /\ TokenNode' \in Node
           /\ phaseOf' = IF "node" \in withdrawn' THEN "withdrawn"
                         ELSE IF OpenWait' THEN "waiting" ELSE "finished"
<1>1. tokenOf' = inst'.node
  BY TokenIsPosition, PositionOfNone DEF IsNodeTask
<1>2. inst'.node \in Node \cup {NoNode} /\ StartNode \in Node
  BY DefinitionIsValid DEF TypeOK, Instance
<1>3. NodeTasks' = {}
  BY DEF NodeTasks
<1> QED
  BY <1>1, <1>2, <1>3 DEF TokenNode, phaseOf

-----------------------------------------------------------------------------
(* The steps of WorkflowToken, of the mapped state *)

LEMMA TokenRuns ==
    ASSUME phaseOf = "moving", ~ haltedOf, ~ IsWait(TokenNode), haltedOf' = haltedOf,
           \/ TokenNode' \in RunTargets(TokenNode) /\ phaseOf' = "moving"
           \/ Successors[TokenNode] = {} /\ TokenNode' = TokenNode /\ phaseOf' = "finished"
    PROVE  Token!TokenNext
BY DEF Token!TokenNext, Token!Run, Token!IsWait, IsWait, Token!RunTargets, RunTargets, TokenNode

LEMMA TokenArrives ==
    ASSUME phaseOf = "moving", ~ haltedOf, IsWait(TokenNode), haltedOf' = haltedOf,
           TokenNode' = TokenNode, phaseOf' = "waiting"
    PROVE  Token!TokenNext
BY DEF Token!TokenNext, Token!Arrive, Token!IsWait, IsWait, TokenNode

LEMMA TokenCompletes ==
    ASSUME phaseOf = "waiting", ~ haltedOf, haltedOf' = haltedOf,
           \/ TokenNode' \in EventTargets(TokenNode) /\ phaseOf' = "moving"
           \/ Successors[TokenNode] = {} /\ TokenNode' = TokenNode /\ phaseOf' = "finished"
    PROVE  Token!TokenNext
BY DEF Token!TokenNext, Token!Complete, Token!EventTargets, EventTargets, TokenNode

LEMMA TokenHalts ==
    ASSUME phaseOf \in {"moving", "waiting"}, ~ haltedOf, haltedOf', TokenNode' = TokenNode, phaseOf' = phaseOf
    PROVE  Token!TokenNext
BY DEF Token!TokenNext, Token!Halt, TokenNode, haltedOf

LEMMA TokenRecovers ==
    ASSUME haltedOf, ~ haltedOf', TokenNode' = TokenNode, phaseOf' = phaseOf
    PROVE  Token!TokenNext
BY DEF Token!TokenNext, Token!Recover, TokenNode, haltedOf

LEMMA TokenLeaves ==
    ASSUME phaseOf = "moving", ~ haltedOf, haltedOf' = haltedOf, phaseOf' = "withdrawn", TokenNode' \in Node
    PROVE  Token!TokenNext
BY DEF Token!TokenNext, Token!Withdraw, TokenNode

LEMMA TokenStays ==
    ASSUME TokenNode' = TokenNode, phaseOf' = phaseOf, haltedOf' = haltedOf
    PROVE  UNCHANGED Token!tokenVars
BY DEF Token!tokenVars, TokenNode

-----------------------------------------------------------------------------
(* What a transition may queue, beyond its Shape *)

(* next() queues a successor.                                              *)
LEMMA ContinueTarget ==
    ASSUME NEW c \in Changes, c.next = NoNode, NEW n \in Node, NEW d \in Continue(c, n), d.next # NoNode
    PROVE  d.next \in Successors[n]
<1>1. PICK m \in Successors[n] : d = [c EXCEPT !.next = m]
  BY DEF Continue
<1> QED
  BY <1>1 DEF Changes

LEMMA EnterTarget ==
    ASSUME NEW w \in Worker, TypeOK, TasksNameNodes,
           worker[w].task \in Uuid, queue[worker[w].task].kind = "node",
           NEW c \in EnterOutcomes(w), c.next # NoNode
    PROVE  c.next \in RunTargets(queue[worker[w].task].node)
<1> DEFINE u == worker[w].task
           n == queue[u].node
           entered == [NoChange EXCEPT !.enter = IF worker[w].visit # u THEN n ELSE NoNode]
<1>1. n \in Node /\ NoNode \notin Node /\ Kind[n] \in NodeKinds
  BY DefinitionTypes DEF TasksNameNodes
<1>2. entered \in Changes /\ entered.next = NoNode
  BY <1>1, NoChangeFields DEF NoChange, Changes
<1>3. c \notin {Retry, Stop}
  BY DEF Retry, Stop, NoChange
<1>4. c \in NodeOutcomes(u, n, entered)
  BY <1>3 DEF EnterOutcomes, AfterError
<1> HIDE DEF entered
<1>5. CASE c \in Continue(entered, n)
  BY <1>1, <1>2, <1>5, ContinueTarget DEF RunTargets
<1>6. CASE c = [entered EXCEPT !.next = n, !.nextDue = FALSE] /\ Kind[n] = "service"
  BY <1>1, <1>2, <1>6 DEF RunTargets, Changes
<1>7. CASE c = HandlerFailed(entered, u, n) /\ Kind[n] = "service"
  BY <1>1, <1>2, <1>7 DEF RunTargets, Changes, HandlerFailed
<1>8. CASE Kind[n] = "end"
  BY <1>2, <1>4, <1>8 DEF NodeOutcomes
<1>9. CASE Kind[n] \in {"wait", "user"}
  <2>1. c = [entered EXCEPT !.timer = (OnTimeout[n] # NoNode)]
    BY <1>4, <1>9 DEF NodeOutcomes
  <2> QED
    BY <2>1, <1>2 DEF Changes
<1> QED
  BY <1>1, <1>4, <1>5, <1>6, <1>7, <1>8, <1>9 DEF NodeOutcomes, NodeKinds

(* An event that queues a task queues a target of the wait it closes; a    *)
(* signal that stops would have closed the open wait.                      *)
LEMMA EventTarget ==
    ASSUME NEW w \in Worker, TypeOK, TasksNameNodes,
           worker[w].task \in Uuid, queue[worker[w].task].kind \in {"event", "signal"},
           NEW c \in Outcomes(w)
    PROVE  /\ c.next # NoNode => c.next \in EventTargets(worker[w].node)
           /\ c.release = "incident" => IsWait(worker[w].node) /\ ~ worker[w].waitDone
<1> DEFINE n == worker[w].node
           closing == [NoChange EXCEPT !.close = TRUE, !.merge = TRUE]
<1>1. NoChange.next = NoNode /\ NoChange.release = "consume" /\ Retry.next = NoNode /\ Retry.release = "retry"
      /\ Stop.next = NoNode
  BY NoChangeFields DEF Retry, Stop, NoChange
<1>2. CASE queue[worker[w].task].kind = "event"
  <2>1. CASE c = NoChange
    BY <2>1, <1>1
  <2>2. CASE c = [NoChange EXCEPT !.close = TRUE, !.merge = TRUE, !.next = OnTimeout[queue[worker[w].task].node]]
             /\ n = queue[worker[w].task].node
    <3>1. c.release = "consume" /\ c.next = OnTimeout[n]
      BY <2>2 DEF NoChange
    <3> QED
      BY <3>1 DEF EventTargets
  <2> QED
    BY <1>2, <2>1, <2>2 DEF Outcomes, TimeoutOutcomes
<1>3. CASE queue[worker[w].task].kind = "signal"
  <2>1. CASE c \in {NoChange, Retry}
    BY <2>1, <1>1
  <2>2. CASE /\ AcceptsSignal(n, queue[worker[w].task].signal) /\ ~ worker[w].waitDone
             /\ c \in Continue(closing, n) \cup {Retry, Stop}
    <3>1. n \in Node /\ IsWait(n)
      BY <2>2, DefinitionIsValid DEF AcceptsSignal, IsWait
    <3>2. closing \in Changes /\ closing.next = NoNode
      BY DEF NoChange, Changes
    <3> HIDE DEF closing
    <3>3. c \in Continue(closing, n) /\ c.next # NoNode => c.next \in Successors[n]
      BY <3>1, <3>2, ContinueTarget
    <3> QED
      BY <1>1, <2>2, <3>1, <3>3 DEF EventTargets
  <2> QED
    BY <1>3, <2>1, <2>2 DEF Outcomes, SignalOutcomes, AfterError
<1> QED
  BY <1>2, <1>3

-----------------------------------------------------------------------------
(* Steps that leave the token where it is *)

TasksKept ==
    /\ inst'.node = inst.node /\ inst'.waitDone = inst.waitDone
    /\ "node" \in withdrawn' <=> "node" \in withdrawn
    /\ \A v \in Uuid : /\ IsNodeTask(v)' <=> IsNodeTask(v)
                       /\ IsNodeTask(v) => queue'[v].node = queue[v].node

LEMMA KeptToken ==
    ASSUME IInv, IInv', TasksKept
    PROVE  TokenNode' = TokenNode /\ phaseOf' = phaseOf
<1>1. TypeOK /\ TasksNameNodes /\ SingleContinuation /\ TypeOK' /\ TasksNameNodes' /\ SingleContinuation'
  BY DEF IInv
<1>2. ASSUME NEW u \in Uuid, IsNodeTask(u) PROVE TokenNode' = TokenNode /\ phaseOf' = phaseOf
  <2>1. IsNodeTask(u)' /\ queue'[u].node = queue[u].node
    BY <1>2 DEF TasksKept
  <2> QED
    BY <1>1, <1>2, <2>1, WithTask, WithTaskNext
<1>3. CASE \A u \in Uuid : ~ IsNodeTask(u)
  <2>1. \A u \in Uuid : ~ IsNodeTask(u)'
    BY <1>3 DEF TasksKept
  <2>2. OpenWait' <=> OpenWait
    BY DEF TasksKept, OpenWait
  <2> QED
    BY <1>1, <1>3, <2>1, <2>2, WithoutTask, WithoutTaskNext DEF TasksKept
<1> QED
  BY <1>2, <1>3

LEMMA KeptInv ==
    ASSUME IInv, TokenInv, TasksKept, incident' \in {incident, NoUuid}
    PROVE  TokenInv'
<1>1. OpenWait' <=> OpenWait
  BY DEF TasksKept, OpenWait
<1>2. incident \in Uuid \cup {NoUuid}
  BY DEF IInv, TypeOK
<1> QED
  BY <1>1, <1>2 DEF TokenInv, TasksKept

LEMMA OtherSteps ==
    ASSUME IInv, [Next]_vars, \A w \in Worker : ~ Commit(w),
           \A u \in Uuid : IsNodeTask(u) => ~ AdminCancel(u)
    PROVE  /\ TasksKept /\ incident' \in {incident, NoUuid}
           /\ haltedOf' = haltedOf \/ (haltedOf /\ ~ haltedOf')
<1>1. queue \in [Uuid -> Row] /\ inst \in Instance
  BY DEF IInv, TypeOK
<1>2. ASSUME NEW w \in Worker, NEW u \in Uuid, Fetch(w, u)
      PROVE  /\ TasksKept /\ incident' \in {incident, NoUuid} /\ haltedOf' = haltedOf
  BY <1>1, <1>2 DEF Fetch, TasksKept, IsNodeTask, haltedOf, Row
<1>3. ASSUME NEW w \in Worker, Load(w)
      PROVE  /\ TasksKept /\ incident' \in {incident, NoUuid} /\ haltedOf' = haltedOf
  BY <1>1, <1>3 DEF Load, TasksKept, IsNodeTask, haltedOf, Row
<1>4. ASSUME NEW w \in Worker, Reject(w) \/ Abandon(w)
      PROVE  /\ TasksKept /\ incident' \in {incident, NoUuid} /\ haltedOf' = haltedOf
  BY <1>4 DEF Reject, Abandon, TasksKept, IsNodeTask, haltedOf
<1>5. ASSUME NEW u \in Uuid, Expire(u) \/ BecomeDue(u) \/ AdminRetry(u)
      PROVE  /\ TasksKept /\ incident' \in {incident, NoUuid} /\ haltedOf' = haltedOf
  BY <1>1, <1>5 DEF Expire, BecomeDue, AdminRetry, TasksKept, IsNodeTask, haltedOf, Row
<1>6. ASSUME NEW sig \in Signal, NEW r \in Uuid \cup {NoUuid}, NEW new \in Uuid, PostSignal(sig, r, new)
      PROVE  /\ TasksKept /\ incident' \in {incident, NoUuid} /\ haltedOf' = haltedOf
  <2>1. inst.visit \in Uuid \cup {NoUuid}
    BY <1>1 DEF Instance
  <2>2. PICK v \in Uuid \cup {NoUuid} : queue' = [queue EXCEPT ![new] = SignalTask(sig, v)]
    BY <1>6, <2>1 DEF PostSignal
  <2>3. SignalTask(sig, v).kind = "signal"
    BY RowFields
  <2>4. queue[new].kind # "node"
    BY <1>6, FreshFacts DEF PostSignal, IInv, Present
  <2>5. UNCHANGED <<inst, incident, worker, stored, patched, command, withdrawn>>
    BY <1>6 DEF PostSignal
  <2> QED
    BY <1>1, <2>2, <2>3, <2>4, <2>5 DEF TasksKept, IsNodeTask, haltedOf
<1>7. ASSUME NEW value \in Value, Patch(value)
      PROVE  /\ TasksKept /\ incident' \in {incident, NoUuid} /\ haltedOf' = haltedOf
  BY <1>7 DEF Patch, TasksKept, IsNodeTask, haltedOf
<1>8. CASE Observe \/ UNCHANGED vars
  BY <1>8 DEF Observe, vars, TasksKept, IsNodeTask, haltedOf
<1>9. CASE Resume
  <2>1. incident \in Uuid /\ inst.state = "suspended"
    BY <1>9 DEF Resume, NamesOpenIncident, IInv, TypeOK, RetainedTaskSurvives
  <2>2. inst'.state = "running" /\ inst'.node = inst.node /\ inst'.waitDone = inst.waitDone
    BY <1>1, <1>9 DEF Resume, Instance
  <2>3. queue' = [queue EXCEPT ![incident] = [@ EXCEPT !.attempts = 0, !.due = TRUE, !.lease = NoWorker]]
        /\ incident' = NoUuid /\ withdrawn' = withdrawn
    BY <1>9 DEF Resume
  <2>4. \A v \in Uuid : queue'[v].kind = queue[v].kind /\ queue'[v].node = queue[v].node
    BY <1>1, <2>1, <2>3 DEF Row
  <2> QED
    BY <2>1, <2>2, <2>3, <2>4 DEF TasksKept, IsNodeTask, haltedOf
<1>10. ASSUME NEW u \in Uuid, AdminCancel(u)
       PROVE  /\ TasksKept /\ incident' \in {incident, NoUuid} /\ haltedOf' = haltedOf
  <2>1. queue[u].kind # "node"
    BY <1>10 DEF IsNodeTask
  <2> QED
    BY <1>1, <1>10, <2>1, RowFields DEF AdminCancel, TasksKept, IsNodeTask, haltedOf
<1> QED
  BY <1>2, <1>3, <1>4, <1>5, <1>6, <1>7, <1>8, <1>9, <1>10 DEF Next, Runner, Clock, Host, Operator

-----------------------------------------------------------------------------
(* Commits *)

(* Which node tasks there are after a commit: those there were, without    *)
(* the one it consumed, and the successor it queued.                       *)
LEMMA TasksAfter ==
    ASSUME IInv, NEW w, NEW c, NEW new, CommitContext(w, c, new), NEW u, u = worker[w].task
    PROVE  /\ \A v \in Uuid : v # u /\ v # new => (IsNodeTask(v)' <=> IsNodeTask(v))
           /\ c.release = "consume" => ~ IsNodeTask(u)'
           /\ c.release # "consume" => (IsNodeTask(u)' <=> IsNodeTask(u)) /\ queue'[u].node = queue[u].node
           /\ c.next # NoNode => new \in Uuid /\ IsNodeTask(new)' /\ queue'[new].node = c.next
           /\ c.next = NoNode => \A v \in Uuid : v = new => ~ IsNodeTask(v) /\ ~ IsNodeTask(v)'
<1>1. Passed(w, c, new, u) /\ RowsAfter(w, c, new, u)
  BY CommitFacts, CommitRows
<1>2. \A v \in Uuid : v # u /\ v # new => (IsNodeTask(v)' <=> IsNodeTask(v))
  BY <1>1, RowFields DEF RowsAfter, Sibling, IsNodeTask
<1>3. c.next # NoNode => new \in Uuid /\ IsNodeTask(new)' /\ queue'[new].node = c.next
  BY <1>1 DEF Passed, RowsAfter, Inserts, IsNodeTask
<1>4. ASSUME c.next = NoNode, NEW v \in Uuid, v = new PROVE ~ IsNodeTask(v) /\ ~ IsNodeTask(v)'
  <2>1. c.timer /\ ~ Present(v)
    BY <1>1, <1>4 DEF Passed, Inserts
  <2> QED
    BY <1>1, <1>4, <2>1 DEF RowsAfter, IsNodeTask, Present
<1> QED
  BY <1>1, <1>2, <1>3, <1>4, RowFields DEF RowsAfter, IsNodeTask

(* The commit of a node task moves the token, halts it or leaves it.       *)
LEMMA NodeCommit ==
    ASSUME IInv, IInv', TokenInv, NEW w, NEW c \in Outcomes(w), NEW new, CommitContext(w, c, new),
           NEW u, u = worker[w].task, queue[u].kind = "node"
    PROVE  TokenInv' /\ (Token!TokenNext \/ UNCHANGED Token!tokenVars)
<1> DEFINE n == queue[u].node
<1>1. Passed(w, c, new, u) /\ InstanceAfter(w, c, u)
  BY CommitFacts, CommitInstance
<1>2. TypeOK /\ TasksNameNodes /\ SingleContinuation /\ TypeOK' /\ TasksNameNodes' /\ SingleContinuation'
  BY DEF IInv
<1>3. /\ u \in Uuid /\ IsNodeTask(u) /\ w \in Worker /\ Shape(w, c)
      /\ \A v \in Uuid : IsNodeTask(v) => v = u
  BY <1>1, <1>2 DEF Passed, SingleContinuation, IsNodeTask
<1>4. TokenNode = n /\ n \in Node /\ phaseOf = "moving" /\ NoNode \notin Node
  BY <1>2, <1>3, WithTask, DefinitionTypes
<1>5. /\ ~ haltedOf /\ (haltedOf' <=> c.release = "incident")
      /\ "node" \notin withdrawn /\ withdrawn' = withdrawn
      /\ incident' = IF c.release = "incident" THEN u ELSE NoUuid
  BY <1>1, <1>3 DEF Passed, InstanceAfter, haltedOf, TokenInv
<1>6. CASE c.release # "consume"
  <2>1. IsNodeTask(u)' /\ queue'[u].node = n
    BY <1>3, <1>6, TasksAfter
  <2>2. TokenNode' = n /\ phaseOf' = "moving"
    BY <1>2, <1>3, <2>1, WithTaskNext
  <2>3. TokenInv'
    BY <1>5, <2>1 DEF TokenInv
  <2>4. CASE c.release = "incident"
    BY <1>4, <1>5, <2>2, <2>3, <2>4, TokenHalts
  <2>5. CASE c.release # "incident"
    <3>1. haltedOf' = haltedOf
      BY <1>5, <2>5 DEF haltedOf
    <3> QED
      BY <1>4, <2>2, <2>3, <3>1, TokenStays
  <2> QED
    BY <2>4, <2>5
<1>7. CASE c.release = "consume"
  <2>1. haltedOf' = haltedOf
    BY <1>5, <1>7 DEF haltedOf
  <2>2. TokenInv'
    BY <1>5, <1>7 DEF TokenInv
  <2>3. ~ IsNodeTask(u)'
    BY <1>7, TasksAfter
  <2>4. inst'.node = n /\ (c.enter # NoNode => inst'.waitDone = FALSE)
    <3>1. CASE c.enter # NoNode
      BY <1>1, <3>1 DEF InstanceAfter
    <3>2. CASE c.enter = NoNode
      <4>1. worker[w].visit = u
        BY <1>3, <1>7, <3>2 DEF Shape
      <4>2. inst.node = n
        BY <4>1, RetriedTask
      <4> QED
        BY <1>1, <3>2, <4>2 DEF InstanceAfter
    <3> QED
      BY <3>1, <3>2
  <2>5. CASE c.next # NoNode
    <3>1. ~ IsWait(n)
      BY <1>3, <2>5 DEF Shape
    <3>2. c.next \in RunTargets(n)
      BY <1>1, <1>2, <1>3, <2>5, EnterTarget DEF Outcomes, Passed
    <3>3. TokenNode' = c.next /\ phaseOf' = "moving"
      BY <1>2, <2>5, TasksAfter, WithTaskNext
    <3> QED
      BY <1>4, <1>5, <2>1, <2>2, <3>1, <3>2, <3>3, TokenRuns
  <2>6. CASE c.next = NoNode
    <3>1. \A v \in Uuid : ~ IsNodeTask(v)'
      BY <1>3, <2>3, <2>6, TasksAfter
    <3>2. TokenNode' = n /\ phaseOf' = IF OpenWait' THEN "waiting" ELSE "finished"
      BY <1>2, <1>4, <1>5, <2>4, <3>1, WithoutTaskNext
    <3>3. CASE IsWait(n)
      <4>1. c.enter # NoNode
        <5>1. Kind[n] # "service"
          BY <3>3 DEF IsWait
        <5> QED
          BY <1>3, <1>7, <5>1, RetriedTask DEF Shape
      <4>2. OpenWait'
        BY <2>4, <3>3, <4>1 DEF OpenWait
      <4> QED
        BY <1>4, <1>5, <2>1, <2>2, <3>2, <3>3, <4>2, TokenArrives
    <3>4. CASE ~ IsWait(n)
      <4>1. ~ OpenWait' /\ Successors[n] = {}
        BY <1>3, <1>7, <2>4, <2>6, <3>4 DEF OpenWait, Shape
      <4> QED
        BY <1>4, <1>5, <2>1, <2>2, <3>2, <3>4, <4>1, TokenRuns
    <3> QED
      BY <3>3, <3>4
  <2> QED
    BY <2>5, <2>6
<1> QED
  BY <1>6, <1>7

(* The commit of a signal or a timeout completes the open wait, halts the  *)
(* instance at it, or leaves the token alone.                              *)
LEMMA EventCommit ==
    ASSUME IInv, IInv', TokenInv, NEW w, NEW c \in Outcomes(w), NEW new, CommitContext(w, c, new),
           NEW u, u = worker[w].task, queue[u].kind \in {"event", "signal"}
    PROVE  TokenInv' /\ (Token!TokenNext \/ UNCHANGED Token!tokenVars)
<1> DEFINE n == inst.node
<1>1. Passed(w, c, new, u) /\ InstanceAfter(w, c, u)
  BY CommitFacts, CommitInstance
<1>2. TypeOK /\ TasksNameNodes /\ SingleContinuation /\ TypeOK' /\ TasksNameNodes' /\ SingleContinuation'
  BY DEF IInv
<1>3. /\ u \in Uuid /\ ~ IsNodeTask(u) /\ w \in Worker /\ Shape(w, c)
      /\ worker[w].node = n /\ worker[w].waitDone = inst.waitDone
      /\ c.enter = NoNode
      /\ inst'.node = n /\ (inst'.waitDone <=> (inst.waitDone \/ c.close))
  BY <1>1 DEF Passed, InstanceAfter, IsNodeTask, Shape
<1>4. /\ ~ haltedOf /\ (haltedOf' <=> c.release = "incident")
      /\ withdrawn' = withdrawn
      /\ incident' = IF c.release = "incident" THEN u ELSE NoUuid
  BY <1>1 DEF Passed, InstanceAfter, haltedOf
<1>5. NoNode \notin Node
  BY DefinitionTypes
<1>6. /\ c.next # NoNode => c.next \in EventTargets(n)
      /\ c.release = "incident" => OpenWait
  BY <1>1, <1>2, <1>3, EventTarget DEF Passed, OpenWait
<1>7. ASSUME OpenWait
      PROVE  /\ \A v \in Uuid : ~ IsNodeTask(v)
             /\ TokenNode = n /\ phaseOf = "waiting" /\ "node" \notin withdrawn
  <2>1. n \in Node /\ \A v \in Uuid : ~ IsNodeTask(v)
    BY <1>2, <1>7 DEF OpenWait, IsWait, SingleContinuation
  <2>2. "node" \notin withdrawn
    BY <1>7 DEF TokenInv
  <2> QED
    BY <1>2, <1>5, <1>7, <2>1, <2>2, WithoutTask
<1>8. CASE c.close
  <2>1. OpenWait /\ c.release = "consume" /\ (c.next = NoNode => Successors[n] = {})
    BY <1>3, <1>8 DEF Shape, OpenWait
  <2>2. haltedOf' = haltedOf
    BY <1>4, <2>1 DEF haltedOf
  <2>3. TokenInv'
    BY <1>4, <1>7, <2>1 DEF TokenInv
  <2>4. CASE c.next # NoNode
    <3>1. TokenNode' = c.next /\ phaseOf' = "moving"
      BY <1>2, <2>4, TasksAfter, WithTaskNext
    <3> QED
      BY <1>4, <1>6, <1>7, <2>1, <2>2, <2>3, <2>4, <3>1, TokenCompletes
  <2>5. CASE c.next = NoNode
    <3>1. \A v \in Uuid : ~ IsNodeTask(v)'
      BY <1>3, <1>7, <2>1, <2>5, TasksAfter
    <3>2. ~ OpenWait' /\ n \in Node
      BY <1>3, <1>8, <2>1 DEF OpenWait, IsWait
    <3>3. TokenNode' = n /\ phaseOf' = "finished"
      BY <1>2, <1>3, <1>4, <1>5, <1>7, <2>1, <3>1, <3>2, WithoutTaskNext
    <3> QED
      BY <1>4, <1>7, <2>1, <2>2, <2>3, <2>5, <3>3, TokenCompletes
  <2> QED
    BY <2>4, <2>5
<1>9. CASE ~ c.close
  <2>1. c.next = NoNode
    BY <1>1, <1>3, <1>9 DEF Shape
  <2>2. ASSUME NEW v \in Uuid
        PROVE  (IsNodeTask(v)' <=> IsNodeTask(v)) /\ (IsNodeTask(v) => queue'[v].node = queue[v].node)
    <3>1. CASE v = u
      BY <1>3, <3>1, TasksAfter
    <3>2. CASE v = new
      BY <2>1, <3>2, TasksAfter
    <3>3. CASE v # u /\ v # new
      BY <1>1, <1>9, <3>3, CommitRows DEF RowsAfter, IsNodeTask
    <3> QED
      BY <3>1, <3>2, <3>3
  <2>3. TasksKept
    <3>1. inst.waitDone \in BOOLEAN /\ inst'.waitDone \in BOOLEAN
      BY <1>2 DEF TypeOK, Instance
    <3>2. inst'.waitDone = inst.waitDone
      BY <1>3, <1>9, <3>1
    <3> QED
      BY <1>3, <1>4, <2>2, <3>2 DEF TasksKept
  <2>4. TokenNode' = TokenNode /\ phaseOf' = phaseOf
    BY <2>3, KeptToken
  <2>5. CASE c.release = "incident"
    <3>1. OpenWait'
      BY <1>6, <2>3, <2>5 DEF TasksKept, OpenWait
    <3>2. TokenInv'
      BY <1>4, <1>6, <1>7, <2>3, <2>5, <3>1 DEF TokenInv, TasksKept
    <3> QED
      BY <1>4, <1>6, <1>7, <2>4, <2>5, <3>2, TokenHalts
  <2>6. CASE c.release # "incident"
    <3>1. haltedOf' = haltedOf
      BY <1>4, <2>6 DEF haltedOf
    <3>2. TokenInv'
      BY <1>4, <2>3, <2>6, KeptInv
    <3> QED
      BY <2>4, <3>1, <3>2, TokenStays
  <2> QED
    BY <2>5, <2>6
<1> QED
  BY <1>8, <1>9

(* A cancellation of the node task withdraws the token; it cannot be       *)
(* halted, for an incident would retain that task or leave a wait open.    *)
LEMMA CancelCommit ==
    ASSUME IInv, IInv', TokenInv, NEW u \in Uuid, IsNodeTask(u), AdminCancel(u)
    PROVE  TokenInv' /\ Token!TokenNext
<1>1. TypeOK /\ TasksNameNodes /\ SingleContinuation /\ TypeOK' /\ queue \in [Uuid -> Row]
  BY DEF IInv, TypeOK
<1>2. /\ queue' = [queue EXCEPT ![u] = NoRow] /\ withdrawn' = withdrawn \cup {"node"} /\ u # incident
      /\ UNCHANGED <<inst, incident, worker, stored, patched, command>>
  BY DEF AdminCancel, IsNodeTask
<1>3. \A v \in Uuid : ~ IsNodeTask(v)'
  BY <1>1, <1>2, RowFields DEF SingleContinuation, IsNodeTask
<1>4. ~ OpenWait /\ (OpenWait' <=> OpenWait)
  BY <1>1, <1>2 DEF SingleContinuation, OpenWait
<1>5. incident = NoUuid
  <2>1. incident # NoUuid => incident \in Uuid /\ IsNodeTask(incident)
    BY <1>4 DEF TokenInv, IInv, TypeOK
  <2> QED
    BY <1>1, <1>2, <2>1 DEF SingleContinuation
<1>6. ~ haltedOf /\ haltedOf' = haltedOf
  BY <1>2, <1>5 DEF haltedOf, IInv, RetainedTaskSurvives
<1>7. phaseOf = "moving"
  BY <1>1, WithTask
<1>8. phaseOf' = "withdrawn" /\ TokenNode' \in Node
  BY <1>1, <1>2, <1>3, WithoutTaskNext
<1>9. TokenInv'
  BY <1>2, <1>3, <1>4, <1>5 DEF TokenInv
<1> QED
  BY <1>6, <1>7, <1>8, <1>9, TokenLeaves

-----------------------------------------------------------------------------
(* The refinement *)

LEMMA TokenInit == Init => TokenInv /\ Token!Begin
<1> SUFFICES ASSUME Init PROVE TokenInv /\ Token!Begin
  OBVIOUS
<1>1. IInv
  BY InitHolds
<1>2. PICK u \in Uuid : queue = [v \in Uuid |-> IF v = u THEN NodeTask(StartNode, TRUE) ELSE NoRow]
  BY DEF Init
<1>3. IsNodeTask(u) /\ queue[u].node = StartNode
  BY <1>2, RowFields, DefinitionIsValid DEF IsNodeTask
<1>4. TokenNode = StartNode /\ phaseOf = "moving"
  BY <1>1, <1>3, WithTask DEF IInv
<1>5. TokenInv /\ ~ haltedOf
  BY DEF Init, TokenInv, haltedOf
<1> QED
  BY <1>4, <1>5 DEF Token!Begin, TokenNode, haltedOf

LEMMA TokenStep ==
    IInv /\ IInv' /\ TokenInv /\ [Next]_vars => TokenInv' /\ [Token!TokenNext]_(Token!tokenVars)
<1> SUFFICES ASSUME IInv, IInv', TokenInv, [Next]_vars
             PROVE  TokenInv' /\ (Token!TokenNext \/ UNCHANGED Token!tokenVars)
  OBVIOUS
<1>1. ASSUME NEW w \in Worker, Commit(w)
      PROVE  TokenInv' /\ (Token!TokenNext \/ UNCHANGED Token!tokenVars)
  <2>0. PICK c \in Outcomes(w) : \E new : CommitContext(w, c, new)
    BY <1>1, CommitHasContext
  <2>1. PICK new : CommitContext(w, c, new)
    BY <2>0
  <2>2. PICK u : u = worker[w].task
    OBVIOUS
  <2>3. queue[u].kind \in TaskKinds
    BY <2>0, <2>1, <2>2, CommitFacts DEF Passed
  <2> QED
    BY <2>0, <2>1, <2>2, <2>3, NodeCommit, EventCommit DEF TaskKinds
<1>2. ASSUME NEW u \in Uuid, IsNodeTask(u), AdminCancel(u)
      PROVE  TokenInv' /\ (Token!TokenNext \/ UNCHANGED Token!tokenVars)
  BY <1>2, CancelCommit
<1>3. CASE (\A w \in Worker : ~ Commit(w)) /\ \A u \in Uuid : IsNodeTask(u) => ~ AdminCancel(u)
  <2>1. /\ TasksKept /\ incident' \in {incident, NoUuid}
        /\ haltedOf' = haltedOf \/ (haltedOf /\ ~ haltedOf')
    BY <1>3, OtherSteps
  <2>2. TokenNode' = TokenNode /\ phaseOf' = phaseOf /\ TokenInv'
    BY <2>1, KeptToken, KeptInv
  <2>3. CASE haltedOf' = haltedOf
    BY <2>2, <2>3, TokenStays
  <2>4. CASE haltedOf /\ ~ haltedOf'
    BY <2>2, <2>4, TokenRecovers
  <2> QED
    BY <2>1, <2>3, <2>4
<1> QED
  BY <1>1, <1>2, <1>3

(* Every commit, retry, lost attempt, host call and operator command is a  *)
(* step of the single token along one edge of the definition, or leaves it *)
(* where it is, in every workflow.                                         *)
THEOREM EngineMovesOneToken == Spec => ImplementsToken
BY InitHolds, NextHolds, TokenInit, TokenStep, PTL DEF Spec, ImplementsToken, Token!TokenSpec
=============================================================================
