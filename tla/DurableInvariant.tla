-------------------------- MODULE DurableInvariant --------------------------
(***************************************************************************)
(* The inductive invariant of DurableTransitions: the safety properties,   *)
(* and what they rest on.  TLC checks it on the small instances;           *)
(* DurableTransitionsProofs proves that every step preserves it.           *)
(***************************************************************************)
EXTENDS DurableTransitions

(* A node task names a node, and a timer a wait that has a timeout.        *)
TasksNameNodes ==
    \A u \in Uuid :
        /\ queue[u].kind = "node" => queue[u].node \in Node
        /\ queue[u].kind = "event" =>
              queue[u].node \in Node /\ OnTimeout[queue[u].node] # NoNode

(* The revision fence: a snapshot that is not stale still shows the        *)
(* instance and its context, and a held lease protects the row it read.    *)
SnapshotsAreCurrent ==
    \A w \in Worker : worker[w].pc = "loaded" =>
        /\ ~ worker[w].stale =>
              /\ worker[w].node = inst.node
              /\ worker[w].visit = inst.visit
              /\ worker[w].waitDone = inst.waitDone
              /\ worker[w].context = stored
        /\ HoldsLease(w) => worker[w].taskVisit = queue[worker[w].task].visit

(* Only a ServiceTask leaves its row in the queue after entering its node. *)
RetriesStayAtTheirNode ==
    \A u \in Uuid : IsNodeTask(u) /\ inst.visit = u =>
        Kind[queue[u].node] = "service" /\ inst.node = queue[u].node

(* Dequeuing leases one task at a time, none while the instance is         *)
(* suspended, and only the retained one after a resume.                    *)
LeasesAreExclusive ==
    /\ \A u, v \in Uuid : Leased(u) /\ Leased(v) => u = v
    /\ \A u \in Uuid : Leased(u) =>
          inst.state = "running" /\ inst.recovery \in {NoUuid, u}

(* Everything the safety properties need, in one formula every step keeps. *)
IInv ==
    /\ TypeOK
    /\ TasksNameNodes
    /\ SnapshotsAreCurrent
    /\ RetriesStayAtTheirNode
    /\ LeasesAreExclusive
    /\ SingleContinuation
    /\ TimersBelongToOpenWait
    /\ RetainedTaskSurvives
    /\ NoLostPatch
    /\ NothingIsLost
=============================================================================
