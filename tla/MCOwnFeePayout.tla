--------------------------- MODULE MCOwnFeePayout ---------------------------
(***************************************************************************)
(* Two months, each worth nothing, part or all of what the Safe receives.  *)
(***************************************************************************)
EXTENDS OwnFeePayout
=============================================================================
