------------------------ MODULE DurableRefinementMC ------------------------
(* The workflows of DurableTransitionsMC under the refinement mapping.     *)
EXTENDS DurableTransitionsMC, DurableRefinement
=============================================================================
