---------------------------- MODULE MCSettleQueue ---------------------------
(***************************************************************************)
(* More requests than the queue admits, more admitted than there are       *)
(* slots, and fewer settlements than requests.                             *)
(***************************************************************************)
EXTENDS SettleQueue

CONSTANTS r1, r2, r3, r4, eip7702
=============================================================================
