-------------------------- MODULE SignalAdmissionMC --------------------------
(* Small instances of SignalAdmission.                                     *)
EXTENDS SignalAdmission, TLC

ProducerSymmetry == Permutations(Producer)
=============================================================================
