---------------------------- MODULE OrderPromise ----------------------------
(***************************************************************************)
(* What the settlement contract promises the owner of a signed order,      *)
(* whatever solvers, tokens, hooks and other contracts do.  A step settles *)
(* any number of orders at once.  An order it touches is not cancelled,    *)
(* has not expired, and stays within the terms its owner signed.           *)
(*                                                                         *)
(* Settlement.tla implements this specification: one whole transaction of  *)
(* the contract is one step here (refs: NatSpec of GPv2Settlement.settle,  *)
(* "Critically, user orders are entirely protected").                      *)
(***************************************************************************)
EXTENDS Integers

CONSTANTS
    Uid,     \* order uids: digest, owner and expiry packed together
    order,   \* order[o]: the terms signed under uid o
    MaxTime  \* bound: block timestamps are 0..MaxTime

VARIABLES
    sold,       \* sold[o]: sell tokens taken from the owner, fee apart
    fees,       \* fees[o]: fee taken from the owner
    bought,     \* bought[o]: buy tokens paid to the receiver
    cancelled,  \* uids whose owner has invalidated them
    now         \* block timestamp

vars == <<sold, fees, bought, cancelled, now>>

(* The signed terms: neither amount is exceeded, and what has been sold so *)
(* far was sold at the limit price or better, over all partial fills.      *)
WithinTerms(o, s, f, b) ==
    /\ s <= order[o].sellAmount
    /\ f <= order[o].feeAmount
    /\ order[o].kind = "buy" => b <= order[o].buyAmount
    /\ s * order[o].buyAmount <= b * order[o].sellAmount

Init ==
    /\ sold = [o \in Uid |-> 0]
    /\ fees = [o \in Uid |-> 0]
    /\ bought = [o \in Uid |-> 0]
    /\ cancelled = {}
    /\ now = 0

Untouched(o) ==
    /\ sold'[o] = sold[o]
    /\ fees'[o] = fees[o]
    /\ bought'[o] = bought[o]

Filled(o) ==
    /\ o \notin cancelled
    /\ now <= order[o].validTo
    /\ sold'[o] >= sold[o]
    /\ fees'[o] >= fees[o]
    /\ bought'[o] >= bought[o]
    /\ WithinTerms(o, sold'[o], fees'[o], bought'[o])

(* One transaction: fills and cancellations, all or nothing.               *)
Transaction ==
    /\ cancelled \subseteq cancelled'
    /\ \A o \in Uid : Untouched(o) \/ Filled(o)
    /\ now' = now

Tick ==
    /\ now < MaxTime
    /\ now' = now + 1
    /\ UNCHANGED <<sold, fees, bought, cancelled>>

Next == Transaction \/ Tick

Spec == Init /\ [][Next]_vars
=============================================================================
