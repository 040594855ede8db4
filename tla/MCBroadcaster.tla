---------------------------- MODULE MCBroadcaster ----------------------------
(***************************************************************************)
(* A day is one unit of time: what is spent at the first moment leaves the *)
(* budget at the last.  The service stops once, on a short or a long clock.*)
(***************************************************************************)
EXTENDS Broadcaster, TLC

CONSTANTS R1, R2

MCHorizon == {<<0, 0>>, <<0, 1>>, <<1, 0>>, <<2, 0>>, <<2, 1>>}

MCHorizonOfCancel == {<<0, 0>>, <<0, 1>>}
=============================================================================
