-------------------------- MODULE MCSolverAllowList -------------------------
(***************************************************************************)
(* One other account and one solver are enough: roles are held by single   *)
(* accounts, and solvers do not interact.  The bounds leave time for a     *)
(* call to ripen after the installation and another to be under way.       *)
(***************************************************************************)
EXTENDS SolverAllowList
=============================================================================
