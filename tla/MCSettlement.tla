---------------------------- MODULE MCSettlement ----------------------------
(***************************************************************************)
(* Two orders, settled together or against each other.  oSell is partially *)
(* fillable, belongs to a contract wallet, and expires before the last     *)
(* block so that its storage can be freed; its limit price does not divide *)
(* evenly, so partial fills round.  oKill is a fill-or-kill buy order of   *)
(* an externally owned account.  MaxUint is so small that SafeMath reverts *)
(* on some prices and on every invalidated fill.                           *)
(***************************************************************************)
EXTENDS Settlement, TLC

CONSTANTS oSell, oKill, alice, bob

MCorder ==
    oSell :> [owner |-> alice, kind |-> "sell", partiallyFillable |-> TRUE,
              sellAmount |-> 3, buyAmount |-> 2, feeAmount |-> 1, validTo |-> 0] @@
    oKill :> [owner |-> bob, kind |-> "buy", partiallyFillable |-> FALSE,
              sellAmount |-> 1, buyAmount |-> 1, feeAmount |-> 0, validTo |-> 1]

MCScheme == oSell :> {"PreSign", "Eip1271"} @@ oKill :> {"Ecdsa"}
=============================================================================
