-------------------------- MODULE MCAutomationQueue --------------------------
(***************************************************************************)
(* Instances of the automation queue for TLC.  Its state is finite: a job  *)
(* pauses once and runs at most twice between two restarts.                *)
(***************************************************************************)
EXTENDS AutomationQueueProps

Symmetry == Permutations(Jobs)
=============================================================================
