---------------------------- MODULE WorkflowToken ----------------------------
(***************************************************************************)
(* What the engine promises of one workflow instance, without queues,      *)
(* leases, snapshots or workers: one token moves along the edges of the    *)
(* definition, one edge at a time.  At a wait it stays until one event     *)
(* takes it along one edge; an incident halts it where it is; only an      *)
(* administrator can take it away, and never while it is halted.           *)
(***************************************************************************)
EXTENDS WorkflowDefinition

VARIABLES
    token,  \* the node whose task is to run, or where the instance stays
    phase,  \* what the token is doing there
    halted  \* an incident is open

tokenVars == <<token, phase, halted>>

TokenTypeOK ==
    /\ token \in Node
    /\ phase \in {"moving", "waiting", "finished", "withdrawn"}
    /\ halted \in BOOLEAN

Begin == token = StartNode /\ phase = "moving" /\ halted = FALSE

(* The task of a node that is no wait runs and queues one successor, or    *)
(* none where the definition names none.                                   *)
Run ==
    /\ phase = "moving" /\ ~ halted
    /\ ~ IsWait(token)
    /\ \/ token' \in RunTargets(token) /\ phase' = "moving"
       \/ Successors[token] = {} /\ token' = token /\ phase' = "finished"
    /\ UNCHANGED halted

(* The task of a wait runs: the wait is open.                              *)
Arrive ==
    /\ phase = "moving" /\ ~ halted
    /\ IsWait(token)
    /\ phase' = "waiting"
    /\ UNCHANGED <<token, halted>>

(* One signal or timeout completes the wait.                               *)
Complete ==
    /\ phase = "waiting" /\ ~ halted
    /\ \/ token' \in EventTargets(token) /\ phase' = "moving"
       \/ Successors[token] = {} /\ token' = token /\ phase' = "finished"
    /\ UNCHANGED halted

Halt ==
    /\ phase \in {"moving", "waiting"} /\ ~ halted
    /\ halted' = TRUE
    /\ UNCHANGED <<token, phase>>

Recover ==
    /\ halted
    /\ halted' = FALSE
    /\ UNCHANGED <<token, phase>>

Withdraw ==
    /\ phase = "moving" /\ ~ halted
    /\ phase' = "withdrawn"
    /\ token' \in Node
    /\ UNCHANGED halted

TokenNext == Run \/ Arrive \/ Complete \/ Halt \/ Recover \/ Withdraw

TokenSpec == Begin /\ [][TokenNext]_tokenVars
=============================================================================
