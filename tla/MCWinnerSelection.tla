-------------------------- MODULE MCWinnerSelection ------------------------
(***************************************************************************)
(* Three solutions of three solvers on two pairs, which either differ or   *)
(* are the same once the native token is wrapped.                          *)
(***************************************************************************)
EXTENDS WinnerSelection, TLC

CONSTANTS s1, s2, s3, p1, p2

MCWrappings == {[p \in Pair |-> p], [p \in Pair |-> p1]}

Symmetry == Permutations(Solver)
=============================================================================
