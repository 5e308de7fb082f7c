------------------------------- MODULE Retention ------------------------------
(***************************************************************************)
(* Vec::retain: what is left of a sequence when only some positions are    *)
(* kept, in their order.  It is SelectSeq with the test replaced by the    *)
(* positions that pass it, written so that facts about it can be proved.   *)
(***************************************************************************)
EXTENDS Naturals, Sequences

\* The positions up to n that are in `keep`, in increasing order.
Positions(n, keep) ==
    LET upto[k \in Nat] == IF k = 0 THEN <<>>
                           ELSE IF k \in keep THEN Append(upto[k - 1], k) ELSE upto[k - 1]
    IN  upto[n]

Retain(s, keep) ==
    LET kept == Positions(Len(s), keep)
    IN  [k \in 1 .. Len(kept) |-> s[kept[k]]]
=============================================================================
