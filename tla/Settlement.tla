----------------------------- MODULE Settlement -----------------------------
(***************************************************************************)
(* The settlement contract: GPv2Settlement with its GPv2Signing mixin, the *)
(* vault relayer it owns and the transfer library.                         *)
(*                                                                         *)
(* A transaction that settles is not one step.  It runs interactions,      *)
(* computes the trades, pulls the sell tokens, runs interactions, pays the *)
(* buy tokens, runs interactions again, and every one of these phases but  *)
(* the second hands control to other contracts.  Between any two of its    *)
(* steps an order's owner may be called and cancel, presign or revoke, and *)
(* any step may revert, which restores the storage the transaction began   *)
(* with.  nonReentrant keeps a second settle or swap out until it ends, so *)
(* there is one transaction frame (phase # "idle").                        *)
(*                                                                         *)
(* Data: a uid stands for digest, owner and expiry.  The in and out        *)
(* transfers of one order are summed over the trades of a settlement.      *)
(* Token balances are not kept: a transfer that fails is a Revert.  Who    *)
(* may call settle is SolverAllowList.tla's subject.                       *)
(***************************************************************************)
EXTENDS Integers

CONSTANTS
    Uid,      \* order uids
    NoUid,    \* stands for "no order" in swapUid
    Account,  \* accounts that call the contract
    order,    \* order[o]: the terms signed under uid o
    MaxUint,  \* type(uint256).max, small in a model
    Scheme,   \* Scheme[o]: how the owner of o may sign, of "Ecdsa", "Eip1271", "PreSign"
    Price,    \* clearing prices a solver may submit
    MaxTime   \* bound: block timestamps are 0..MaxTime

OrderTerms ==
    [owner : Account, kind : {"sell", "buy"}, partiallyFillable : BOOLEAN,
     sellAmount : 1..MaxUint, buyAmount : 1..MaxUint, feeAmount : 0..MaxUint,
     validTo : Nat]

(* Orders with a zero amount never reach a solver: the orderbook refuses   *)
(* them (order_validation.rs, ZeroAmount).                                 *)
ASSUME OrderAssumption == order \in [Uid -> OrderTerms]
ASSUME UidAssumption == NoUid \notin Uid
ASSUME BoundAssumption ==
    /\ MaxUint \in Nat \ {0}
    /\ MaxTime \in Nat
    /\ Price \subseteq 0..MaxUint
    /\ Scheme \in [Uid -> SUBSET {"Ecdsa", "Eip1271", "PreSign"}]

VARIABLES
    filledAmount,  \* filledAmount[o]: executed so far, MaxUint once invalidated
    preSignature,  \* preSignature[o] = PRE_SIGNED
    released,      \* uids whose ECDSA signature is known to solvers
    wallet1271,    \* uids the owner's EIP-1271 wallet vouches for
    phase,         \* where the running transaction is
    inSell,        \* computed in-transfers not made yet, fee apart
    inFee,         \* their fee part
    outBuy,        \* computed out-transfers not made yet
    swapUid,       \* the order a running swap trades
    swapLimit,     \* the limit amount its solver submitted
    swapSell,      \* the sell amount the vault took
    swapBuy,       \* the buy amount the vault paid
    now,           \* block.timestamp
    saved,         \* storage when the running transaction began
    sold,          \* history: sell tokens taken from the owner, fee apart
    fees,          \* history: fees taken from the owner
    bought,        \* history: buy tokens paid to the receiver
    cancelled,     \* history: uids invalidated by their owner
    consented      \* history: uids the owner has signed in some way

storage == <<filledAmount, preSignature, wallet1271>>
history == <<sold, fees, bought, cancelled, consented>>
pending == <<inSell, inFee, outBuy>>
swapping == <<swapUid, swapLimit, swapSell, swapBuy>>
vars == <<storage, history, pending, swapping, released, phase, now, saved>>

Amount == 0..MaxUint
Zero == [o \in Uid |-> 0]
Phase == {"idle", "pre", "trades", "in", "intra", "out", "post", "swap", "swapped"}

(* saved between transactions, when nothing can be rolled back.            *)
NothingSaved ==
    [filledAmount |-> Zero, preSignature |-> [o \in Uid |-> FALSE],
     wallet1271 |-> {}, sold |-> Zero, fees |-> Zero, bought |-> Zero,
     cancelled |-> {}, consented |-> {}]

(* Phases in which settle runs interactions of its solver.                 *)
Interacting == {"pre", "intra", "post"}

(* Phases in which code of other contracts, or of an account, may run.     *)
Calling == Phase \ {"trades"}

Init ==
    /\ filledAmount = Zero
    /\ preSignature = [o \in Uid |-> FALSE]
    /\ released = {}
    /\ wallet1271 = {}
    /\ phase = "idle"
    /\ inSell = Zero /\ inFee = Zero /\ outBuy = Zero
    /\ swapUid = NoUid /\ swapLimit = 0 /\ swapSell = 0 /\ swapBuy = 0
    /\ now = 0
    /\ sold = Zero /\ fees = Zero /\ bought = Zero
    /\ cancelled = {} /\ consented = {}
    /\ saved = NothingSaved

-----------------------------------------------------------------------------
(* SafeMath.                                                               *)

ceilDiv(a, b) == IF a % b = 0 THEN a \div b ELSE a \div b + 1

(* Solidity's + on uint256.                                                *)
Sum(a, b) == (a + b) % (MaxUint + 1)

(* Mutant: plain + instead of SafeMath.add.                                *)
AddWraps(a, b) == TRUE

(* The check that makes SafeMath.add revert.                               *)
AddSucceeds(a, b) == Sum(a, b) >= a

(* SafeMath.mul returns, since the product is a uint256.                   *)
MulSucceeds(a, b) == a * b <= MaxUint

-----------------------------------------------------------------------------
(* Signing.                                                                *)

(* Mutant: the presignature is not looked up.                              *)
RecoverAnySigner(o) == TRUE

(* recoverOrderFromTrade succeeds under some scheme the solver can claim.  *)
recoverOrderSigner(o) ==
    \/ o \in released
    \/ o \in wallet1271
    \/ preSignature[o]

(* uids in {o} that the caller owns: what its call says about consent.     *)
OwnedBy(caller, o) == {u \in {o} : order[u].owner = caller}

setPreSignature(caller, o, signed) ==
    /\ "PreSign" \in Scheme[o]
    /\ phase \in Calling
    /\ order[o].owner = caller
    /\ preSignature' = [preSignature EXCEPT ![o] = signed]
    /\ consented' = IF signed THEN consented \union OwnedBy(caller, o)
                              ELSE consented
    /\ UNCHANGED <<filledAmount, wallet1271, sold, fees, bought, cancelled,
                   pending, swapping, released, phase, now, saved>>

(* An externally owned account signs off chain; it cannot take that back.  *)
ReleaseSignature(o) ==
    /\ "Ecdsa" \in Scheme[o]
    /\ phase = "idle"
    /\ released' = released \union {o}
    /\ consented' = consented \union {o}
    /\ UNCHANGED <<storage, sold, fees, bought, cancelled, pending, swapping,
                   phase, now, saved>>

(* An EIP-1271 wallet starts or stops to vouch for an order.               *)
WalletVouches(o, vouches) ==
    /\ "Eip1271" \in Scheme[o]
    /\ phase \in Calling
    /\ wallet1271' = IF vouches THEN wallet1271 \union {o} ELSE wallet1271 \ {o}
    /\ consented' = IF vouches THEN consented \union {o} ELSE consented
    /\ UNCHANGED <<filledAmount, preSignature, sold, fees, bought, cancelled,
                   pending, swapping, released, phase, now, saved>>

-----------------------------------------------------------------------------
(* Cancelling and freeing storage.                                         *)

invalidateOrder(caller, o) ==
    /\ phase \in Calling
    /\ order[o].owner = caller
    /\ filledAmount' = [filledAmount EXCEPT ![o] = MaxUint]
    /\ cancelled' = cancelled \union {o}
    /\ UNCHANGED <<preSignature, wallet1271, sold, fees, bought, consented,
                   pending, swapping, released, phase, now, saved>>

(* Mutant: storage freed in the last block the order is valid.             *)
MayFreeAtExpiry(o) ==
    /\ phase \in Interacting
    /\ order[o].validTo <= now

(* freeOrderStorage's requirement; onlyInteraction is the phase.           *)
MayFree(o) ==
    /\ phase \in Interacting
    /\ order[o].validTo < now

freeFilledAmountStorage(o) ==
    /\ MayFree(o)
    /\ filledAmount' = [filledAmount EXCEPT ![o] = 0]
    /\ UNCHANGED <<preSignature, wallet1271, history, pending, swapping,
                   released, phase, now, saved>>

freePreSignatureStorage(o) ==
    /\ MayFree(o)
    /\ preSignature' = [preSignature EXCEPT ![o] = FALSE]
    /\ UNCHANGED <<filledAmount, wallet1271, history, pending, swapping,
                   released, phase, now, saved>>

-----------------------------------------------------------------------------
(* settle.                                                                 *)

(* Transactions of one chain do not overlap, and nonReentrant refuses a    *)
(* settle or swap called from inside another.                              *)
Enter(first) ==
    /\ phase = "idle"
    /\ phase' = first
    /\ saved' = [filledAmount |-> filledAmount, preSignature |-> preSignature,
                 wallet1271 |-> wallet1271, sold |-> sold, fees |-> fees,
                 bought |-> bought, cancelled |-> cancelled,
                 consented |-> consented]

settle ==
    /\ Enter("pre")
    /\ UNCHANGED <<storage, history, pending, swapping, released, now>>

Advance(from, to) ==
    /\ phase = from
    /\ phase' = to
    /\ UNCHANGED <<storage, history, pending, swapping, released, now, saved>>

(* The amounts computeTradeExecution derives for an order, from the        *)
(* submitted executedAmount and the clearing prices of its two tokens.     *)
ExecutedOf(o, executedAmount) ==
    IF order[o].partiallyFillable THEN executedAmount
    ELSE IF order[o].kind = "sell" THEN order[o].sellAmount
    ELSE order[o].buyAmount

(* The amount filledAmount counts towards.                                 *)
Target(o) ==
    IF order[o].kind = "sell" THEN order[o].sellAmount ELSE order[o].buyAmount

FeeOf(o, executed) ==
    IF order[o].partiallyFillable
    THEN (order[o].feeAmount * executed) \div Target(o)
    ELSE order[o].feeAmount

SellOf(o, executed, sellPrice, buyPrice) ==
    IF order[o].kind = "sell" THEN executed
    ELSE (executed * buyPrice) \div sellPrice

(* Mutant: a sell order's buy amount rounded down.                         *)
BuyRoundedDown(o, executed, sellPrice, buyPrice) ==
    IF order[o].kind = "sell" THEN (executed * sellPrice) \div buyPrice
    ELSE executed

BuyOf(o, executed, sellPrice, buyPrice) ==
    IF order[o].kind = "sell" THEN ceilDiv(executed * sellPrice, buyPrice)
    ELSE executed

(* The divisions and SafeMath calls of computeTradeExecution that succeed. *)
ArithmeticSucceeds(o, executed, sellPrice, buyPrice) ==
    /\ MulSucceeds(order[o].sellAmount, sellPrice)
    /\ MulSucceeds(order[o].buyAmount, buyPrice)
    /\ order[o].partiallyFillable => MulSucceeds(order[o].feeAmount, executed)
    /\ IF order[o].kind = "sell"
       THEN buyPrice > 0 /\ MulSucceeds(executed, sellPrice)
       ELSE sellPrice > 0 /\ MulSucceeds(executed, buyPrice)
    /\ AddSucceeds(filledAmount[o], executed)
    /\ AddSucceeds(SellOf(o, executed, sellPrice, buyPrice), FeeOf(o, executed))

LimitPriceRespected(o, sellPrice, buyPrice) ==
    order[o].sellAmount * sellPrice >= order[o].buyAmount * buyPrice

(* Mutant: each fill checked alone, without the earlier ones.              *)
FillFits(o, executed) == executed <= Target(o)

NotOverfilled(o, executed) == Sum(filledAmount[o], executed) <= Target(o)

(* One iteration of computeTradeExecutions.                                *)
computeTradeExecution(o, sellPrice, buyPrice, executedAmount) ==
    LET executed == ExecutedOf(o, executedAmount)
        sellPart == SellOf(o, executed, sellPrice, buyPrice)
        buyPart  == BuyOf(o, executed, sellPrice, buyPrice)
    IN  /\ phase = "trades"
        /\ recoverOrderSigner(o)
        /\ order[o].validTo >= now
        /\ LimitPriceRespected(o, sellPrice, buyPrice)
        /\ ArithmeticSucceeds(o, executed, sellPrice, buyPrice)
        /\ NotOverfilled(o, executed)
        /\ filledAmount' = [filledAmount EXCEPT ![o] = Sum(@, executed)]
        /\ inSell' = [inSell EXCEPT ![o] = @ + sellPart]
        /\ inFee' = [inFee EXCEPT ![o] = @ + FeeOf(o, executed)]
        /\ outBuy' = [outBuy EXCEPT ![o] = @ + buyPart]
        /\ UNCHANGED <<preSignature, wallet1271, history, swapping, released,
                       phase, now, saved>>

(* vaultRelayer.transferFromAccounts, one order's transfer.                *)
transferFromAccounts(o) ==
    /\ phase = "in"
    /\ inSell[o] + inFee[o] > 0
    /\ sold' = [sold EXCEPT ![o] = @ + inSell[o]]
    /\ fees' = [fees EXCEPT ![o] = @ + inFee[o]]
    /\ inSell' = [inSell EXCEPT ![o] = 0]
    /\ inFee' = [inFee EXCEPT ![o] = 0]
    /\ UNCHANGED <<storage, bought, cancelled, consented, outBuy, swapping,
                   released, phase, now, saved>>

(* vault.transferToAccounts, one order's transfer.                         *)
transferToAccounts(o) ==
    /\ phase = "out"
    /\ outBuy[o] > 0
    /\ bought' = [bought EXCEPT ![o] = @ + outBuy[o]]
    /\ outBuy' = [outBuy EXCEPT ![o] = 0]
    /\ UNCHANGED <<storage, sold, fees, cancelled, consented, inSell, inFee,
                   swapping, released, phase, now, saved>>

InDone == inSell = Zero /\ inFee = Zero
OutDone == outBuy = Zero

(* The statements of settle in order, between the calls they make.         *)
settlePhases ==
    \/ Advance("pre", "trades")
    \/ Advance("trades", "in")
    \/ InDone /\ Advance("in", "intra")
    \/ Advance("intra", "out")
    \/ OutDone /\ Advance("out", "post")

(* settle returns: what it wrote is the contract's storage from now on.    *)
finishSettle ==
    /\ phase = "post"
    /\ phase' = "idle"
    /\ saved' = NothingSaved
    /\ UNCHANGED <<storage, history, pending, swapping, released, now>>

-----------------------------------------------------------------------------
(* swap: one order, filled in full against the Balancer vault.             *)

(* The trade's executedAmount is the limit on the amount not fixed.        *)
swap(o, limitAmount) ==
    /\ Enter("swap")
    /\ recoverOrderSigner(o)
    /\ IF order[o].kind = "sell" THEN limitAmount >= order[o].buyAmount
                                 ELSE limitAmount <= order[o].sellAmount
    /\ swapUid' = o
    /\ swapLimit' = limitAmount
    /\ UNCHANGED <<storage, history, pending, swapSell, swapBuy, released, now>>

(* The vault enforces the limits and the deadline it is given, and moves   *)
(* the tokens; the relayer then takes the fee.                             *)
batchSwapWithFee(sellDelta, buyDelta) ==
    /\ phase = "swap"
    /\ now <= order[swapUid].validTo
    /\ IF order[swapUid].kind = "sell"
       THEN sellDelta <= order[swapUid].sellAmount /\ buyDelta >= swapLimit
       ELSE sellDelta <= swapLimit /\ buyDelta >= order[swapUid].buyAmount
    /\ swapSell' = sellDelta
    /\ swapBuy' = buyDelta
    /\ phase' = "swapped"
    /\ UNCHANGED <<storage, history, pending, swapUid, swapLimit, released, now,
                   saved>>

(* The checks after the call.  The history takes up what the vault moved   *)
(* here: had a check failed, the revert would have returned it.            *)
finishSwap ==
    /\ phase = "swapped"
    /\ filledAmount[swapUid] = 0
    /\ IF order[swapUid].kind = "sell" THEN swapSell = order[swapUid].sellAmount
                                       ELSE swapBuy = order[swapUid].buyAmount
    /\ filledAmount' = [filledAmount EXCEPT ![swapUid] = Target(swapUid)]
    /\ sold' = [sold EXCEPT ![swapUid] = @ + swapSell]
    /\ fees' = [fees EXCEPT ![swapUid] = @ + order[swapUid].feeAmount]
    /\ bought' = [bought EXCEPT ![swapUid] = @ + swapBuy]
    /\ swapUid' = NoUid /\ swapLimit' = 0 /\ swapSell' = 0 /\ swapBuy' = 0
    /\ phase' = "idle"
    /\ saved' = NothingSaved
    /\ UNCHANGED <<preSignature, wallet1271, cancelled, consented, pending,
                   released, now>>

-----------------------------------------------------------------------------
(* Any running transaction may fail: a requirement, a transfer, an         *)
(* interaction, gas.                                                       *)
Revert ==
    /\ phase # "idle"
    /\ phase' = "idle"
    /\ filledAmount' = saved.filledAmount
    /\ preSignature' = saved.preSignature
    /\ wallet1271' = saved.wallet1271
    /\ sold' = saved.sold /\ fees' = saved.fees /\ bought' = saved.bought
    /\ cancelled' = saved.cancelled /\ consented' = saved.consented
    /\ inSell' = Zero /\ inFee' = Zero /\ outBuy' = Zero
    /\ swapUid' = NoUid /\ swapLimit' = 0 /\ swapSell' = 0 /\ swapBuy' = 0
    /\ saved' = NothingSaved
    /\ UNCHANGED <<released, now>>

(* A later block; transactions see one timestamp throughout.               *)
Tick ==
    /\ phase = "idle"
    /\ now < MaxTime
    /\ now' = now + 1
    /\ UNCHANGED <<storage, history, pending, swapping, released, phase, saved>>

OwnerCall(o) ==
    \/ \E caller \in Account :
          \/ invalidateOrder(caller, o)
          \/ \E signed \in BOOLEAN : setPreSignature(caller, o, signed)
    \/ ReleaseSignature(o)
    \/ \E vouches \in BOOLEAN : WalletVouches(o, vouches)

SettleStep(o) ==
    \/ freeFilledAmountStorage(o)
    \/ freePreSignatureStorage(o)
    \/ \E sellPrice, buyPrice \in Price, executedAmount \in Amount :
          computeTradeExecution(o, sellPrice, buyPrice, executedAmount)
    \/ transferFromAccounts(o)
    \/ transferToAccounts(o)
    \/ \E limitAmount \in Amount : swap(o, limitAmount)

Next ==
    \/ \E o \in Uid : OwnerCall(o) \/ SettleStep(o)
    \/ settle
    \/ settlePhases
    \/ finishSettle
    \/ \E sellDelta, buyDelta \in Amount : batchSwapWithFee(sellDelta, buyDelta)
    \/ finishSwap
    \/ Revert
    \/ Tick

Spec == Init /\ [][Next]_vars

-----------------------------------------------------------------------------
(* Safety.                                                                 *)

(* Every variable has its type, and a swap is running exactly when there   *)
(* is an order it trades.                                                  *)
TypeOK ==
    /\ filledAmount \in [Uid -> Amount]
    /\ preSignature \in [Uid -> BOOLEAN]
    /\ released \subseteq Uid /\ wallet1271 \subseteq Uid
    /\ phase \in Phase
    /\ inSell \in [Uid -> Nat] /\ inFee \in [Uid -> Nat] /\ outBuy \in [Uid -> Nat]
    /\ swapUid \in Uid \union {NoUid}
    /\ swapUid # NoUid <=> phase \in {"swap", "swapped"}
    /\ swapLimit \in Amount /\ swapSell \in Amount /\ swapBuy \in Amount
    /\ now \in 0..MaxTime
    /\ sold \in [Uid -> Nat] /\ fees \in [Uid -> Nat] /\ bought \in [Uid -> Nat]
    /\ cancelled \subseteq Uid /\ consented \subseteq Uid
    /\ saved \in [filledAmount : [Uid -> Amount], preSignature : [Uid -> BOOLEAN],
                  wallet1271 : SUBSET Uid, sold : [Uid -> Nat], fees : [Uid -> Nat],
                  bought : [Uid -> Nat], cancelled : SUBSET Uid,
                  consented : SUBSET Uid]

TotalSold(o) == sold[o] + inSell[o]
TotalFee(o) == fees[o] + inFee[o]
TotalBought(o) == bought[o] + outBuy[o]

(* What filledAmount should count, were it never freed.                    *)
Executed(o, s, b) == IF order[o].kind = "sell" THEN s ELSE b

(* While an order can still trade, filledAmount is exactly what it has     *)
(* executed, over all settlements, swaps, reverts and freed storage, or    *)
(* the mark of a cancellation.                                             *)
FillTracksLedger ==
    \A o \in Uid :
        now <= order[o].validTo =>
            filledAmount[o] = IF o \in cancelled THEN MaxUint
                              ELSE Executed(o, TotalSold(o), TotalBought(o))

(* The owner never gives more than the signed amounts, and gets the limit  *)
(* price or better over all partial fills, whatever the rounding of each.  *)
OwnerProtected ==
    \A o \in Uid :
        /\ TotalSold(o) <= order[o].sellAmount
        /\ TotalFee(o) <= order[o].feeAmount
        /\ order[o].kind = "buy" => TotalBought(o) <= order[o].buyAmount
        /\ TotalSold(o) * order[o].buyAmount <= TotalBought(o) * order[o].sellAmount

(* Nothing trades that its owner has not signed under some scheme.         *)
TradedOnlyWithConsent ==
    \A o \in Uid : TotalSold(o) + TotalBought(o) > 0 => o \in consented

(* Once cancelled, in an earlier transaction or from inside this one, an   *)
(* order adds nothing to what it had already traded.                       *)
CancelIsFinal ==
    [][\A o \in Uid :
          o \in cancelled /\ o \in cancelled' =>
              /\ TotalSold(o)' = TotalSold(o)
              /\ TotalFee(o)' = TotalFee(o)
              /\ TotalBought(o)' = TotalBought(o)]_vars

(* The contract's committed storage: what a reader of the chain sees.      *)
Committed(current, before) == IF phase = "idle" THEN current ELSE before

Promise == INSTANCE OrderPromise WITH
    sold <- Committed(sold, saved.sold),
    fees <- Committed(fees, saved.fees),
    bought <- Committed(bought, saved.bought),
    cancelled <- Committed(cancelled, saved.cancelled)

(* Every transaction is, to the owner of an order, one step of the promise *)
(* or none: no half-settled state is ever committed.                       *)
ImplementsPromise == Promise!Spec
=============================================================================
