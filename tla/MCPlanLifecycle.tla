-------------------------- MODULE MCPlanLifecycle --------------------------
(***************************************************************************)
(* A small instance of PlanLifecycle: three days to the month, so that a   *)
(* plan is sold, reminded of, runs out and is renewed within the horizon.  *)
(***************************************************************************)
EXTENDS PlanLifecycle, TLC

Symmetry == Permutations(Admins)
=============================================================================
