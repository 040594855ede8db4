--------------------------- MODULE MCVaultPolicy ----------------------------
(***************************************************************************)
(* A and B sell T1 and supersede each other; C sells T2 and shares only    *)
(* the turnover bucket with them.  Base units of a tenth make the          *)
(* roundings of the floor show.  A day is two units of time, the ttl one:  *)
(* an order outlives a price, and the bucket drains by half the cap.       *)
(***************************************************************************)
EXTENDS VaultPolicy

CONSTANTS T1, T2, A, B, C


Terms(sell, buy, sold, bought, until) ==
    [sellToken |-> sell, buyToken |-> buy, sellAmount |-> sold, buyAmount |-> bought,
     validTo |-> until, wellFormed |-> TRUE]

MCorder == [o \in Order |-> CASE o = A -> Terms(T1, T2, 15, 24, 1)
                                [] o = B -> Terms(T1, T2, 30, 55, 2)
                                [] o = C -> Terms(T2, T1, 20, 19, 2)]
MCPrice == [t \in Token |-> IF t = T1 THEN {0, 1, 2} ELSE {1}]
MCUnit == [t \in Token |-> 10]
MCminPrice18 == [t \in Token |-> 1]
MCmaxPrice18 == [t \in Token |-> 2]
MCmaxStaleness == [t \in Token |-> 1]
=============================================================================
