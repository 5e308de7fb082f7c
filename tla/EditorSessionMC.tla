--------------------------- MODULE EditorSessionMC ---------------------------
(* Small documents to mount, edit and publish.                             *)
EXTENDS EditorSession, TLC

CONSTANTS start, review, finish, spare, f1, f2, s1, s2, t1, st1, st2, a1, k1, k2

Reviewed == [NewNode(review, "UserTask") EXCEPT
    !.next = finish, !.on_timeout = finish, !.waits = {s1}, !.form = f1, !.stage = st1]

ReviewDefinition ==
    [key |-> k1, version |-> 1, active |-> TRUE, effective |-> 0, deprecated |-> None,
     stages |-> <<[id |-> st1, initial |-> TRUE]>>,
     nodes |-> <<[NewNode(start, "Start") EXCEPT !.next = review], Reviewed, NewNode(finish, "End")>>,
     signals |-> <<[id |-> s1]>>, forms |-> <<[id |-> f1, roles |-> 0]>>,
     escalations |-> <<[id |-> t1, actions |-> <<[id |-> a1, emit |-> s1]>>]>>]

\* A stored version of the review process, opened for its next version.
StoredReview == {Open(ReviewDefinition, "stored", <<>>)}

\* Another key, a dangling route and a condition that mentions a signal.
Draft == [ReviewDefinition EXCEPT
    !.key = k2,
    !.nodes = <<[NewNode(start, "Start") EXCEPT !.next = spare],
                [NewNode(spare, "Gateway") EXCEPT !.branches = <<[when |-> {s1}, next |-> review]>>, !.next = start],
                NewNode(finish, "End")>>]
Twice == [Draft EXCEPT !.nodes = @ \o <<NewNode(finish, "End")>>]
Drafts == {Draft, [Draft EXCEPT !.key = k1], Twice}
SomeConditions == {{s1}}

SomeActivities ==
    {[groups |-> {"canvas"}, edits |-> 2], [groups |-> {"host", "publish"}, edits |-> 3],
     [groups |-> {"declarations", "publish"}, edits |-> 3],
     [groups |-> {"settings", "declarations"}, edits |-> 2]}
=============================================================================
