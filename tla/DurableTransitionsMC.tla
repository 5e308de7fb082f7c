------------------------ MODULE DurableTransitionsMC ------------------------
(***************************************************************************)
(* Small instances of DurableTransitions: a Wait with a timeout, a         *)
(* ServiceTask with a retry and no error route, and a Gateway that loops   *)
(* back to the wait or ends.                                               *)
(***************************************************************************)
EXTENDS DurableInvariant, TLC

CONSTANTS start, approve, charge, route, done, decided

(* A wait with a timeout in a loop: start -> approve -> route -> approve   *)
(* or done.                                                                *)
WaitNodes == {start, approve, route, done}
WaitKind == (start :> "start") @@ (approve :> "wait") @@ (route :> "gateway") @@ (done :> "end")
WaitSuccessors == (start :> {approve}) @@ (approve :> {route})
                    @@ (route :> {approve, done}) @@ (done :> {})
WaitOnTimeout == [n \in WaitNodes |-> IF n = approve THEN done ELSE NoNode]
WaitAccepts == [n \in WaitNodes |-> IF n = approve THEN {decided} ELSE {}]

NoErrorRoute == [n \in WaitNodes |-> NoNode]
NoRetries == [n \in WaitNodes |-> 0]

(* Everything that can fail: a wait whose route is selected by a           *)
(* condition, then a ServiceTask with one retry and no error route, with   *)
(* the completion hook: start -> approve -> charge -> done.                *)
FailNodes == {start, approve, charge, done}
FailKind == (start :> "start") @@ (approve :> "wait") @@ (charge :> "service") @@ (done :> "end")
FailSuccessors == (start :> {approve}) @@ (approve :> {charge})
                    @@ (charge :> {done}) @@ (done :> {})
FailOnTimeout == [n \in FailNodes |-> IF n = approve THEN charge ELSE NoNode]
FailOnError == [n \in FailNodes |-> NoNode]
FailRetries == [n \in FailNodes |-> IF n = charge THEN 1 ELSE 0]
FailAccepts == [n \in FailNodes |-> IF n = approve THEN {decided} ELSE {}]

Symmetry == Permutations(Uuid) \cup Permutations(Worker)
=============================================================================
