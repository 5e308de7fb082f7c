------------------------- MODULE DurableRefinement -------------------------
(***************************************************************************)
(* DurableTransitions implements WorkflowToken: the token is at the node   *)
(* of the one ProcessNode task, or, when there is none, at the instance's  *)
(* current node.                                                           *)
(***************************************************************************)
EXTENDS DurableTransitions

NodeTasks == {u \in Uuid : IsNodeTask(u)}

tokenOf == IF NodeTasks # {} THEN queue[CHOOSE u \in NodeTasks : TRUE].node ELSE inst.node

phaseOf ==
    IF NodeTasks # {} THEN "moving"
    ELSE IF "node" \in withdrawn THEN "withdrawn"
    ELSE IF OpenWait THEN "waiting"
    ELSE "finished"

haltedOf == inst.state = "suspended"

(* An administrator cancelling the task of the Start node leaves no        *)
(* current node; the token is then nowhere, which Withdraw allows.         *)
Token == INSTANCE WorkflowToken
    WITH token <- (IF tokenOf = NoNode THEN StartNode ELSE tokenOf),
         phase <- phaseOf, halted <- haltedOf

(* Every commit, retry, lost attempt, host call and operator command is a  *)
(* step of the single token or leaves it where it is.                      *)
ImplementsToken == Token!TokenSpec
=============================================================================
