---------------------------- MODULE QueueLeaseMC ----------------------------
(* Small instances of QueueLease.                                          *)
EXTENDS QueueLease, TLC

LeaseSymmetry == Permutations(Task) \cup Permutations(Claim)
=============================================================================
