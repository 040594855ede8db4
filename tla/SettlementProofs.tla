-------------------------- MODULE SettlementProofs --------------------------
(***************************************************************************)
(* Proofs about Settlement.tla, for every set of orders, every amount and  *)
(* price, and every uint width.                                            *)
(*                                                                         *)
(* The properties are not inductive: FillTracksLedger alone does not       *)
(* survive a Revert, which brings back storage saved earlier, nor the end  *)
(* of a swap, whose amounts the vault chose within limits fixed before it  *)
(* was called.  IInv adds what is true of the saved storage, of the        *)
(* transfers each phase still owes, and of a running swap.                 *)
(***************************************************************************)
EXTENDS Settlement, TLAPS

-----------------------------------------------------------------------------
(* Arithmetic.                                                             *)

(* A uint256 sum that passes SafeMath's check is the sum of the integers.  *)
LEMMA SumIsSum ==
    ASSUME NEW a \in Amount, NEW b \in Amount, AddSucceeds(a, b)
    PROVE  Sum(a, b) = a + b /\ a + b \in Amount
<1>1. MaxUint \in Nat
    BY BoundAssumption
<1>2. CASE a + b > MaxUint
    <2>1. (a + b) % (MaxUint + 1) = a + b - (MaxUint + 1)
        BY <1>1, <1>2 DEF Amount
    <2>. QED
        BY <1>1, <2>1 DEF AddSucceeds, Sum, Amount
<1>3. CASE a + b <= MaxUint
    <2>1. (a + b) % (MaxUint + 1) = a + b
        BY <1>1, <1>3 DEF Amount
    <2>. QED
        BY <1>1, <1>3, <2>1 DEF Sum, Amount
<1>. QED
    BY <1>1, <1>2, <1>3 DEF Amount

(* Division rounds down.                                                   *)
LEMMA DivBelow ==
    ASSUME NEW a \in Nat, NEW b \in Nat, b > 0
    PROVE  a \div b \in Nat /\ (a \div b) * b <= a
OBVIOUS

(* ceilDiv rounds up.                                                      *)
LEMMA CeilDivAbove ==
    ASSUME NEW a \in Nat, NEW b \in Nat, b > 0
    PROVE  ceilDiv(a, b) \in Nat /\ ceilDiv(a, b) * b >= a
BY DEF ceilDiv

(* Products of naturals are naturals, and keep an order between factors.   *)
LEMMA MulMono ==
    ASSUME NEW a \in Nat, NEW b \in Nat, NEW c \in Nat, a <= b
    PROVE  a * c \in Nat /\ b * c \in Nat /\ a * c <= b * c
OBVIOUS

(* A common positive factor cancels.                                       *)
LEMMA MulCancel ==
    ASSUME NEW a \in Nat, NEW b \in Nat, NEW c \in Nat, c > 0, a * c <= b * c
    PROVE  a <= b
OBVIOUS

(* Rates multiply: what is sold at the clearing price x:y, and the         *)
(* clearing price within the limit price, is sold within the limit price.  *)
LEMMA LimitFromClearing ==
    ASSUME NEW s \in Nat, NEW b \in Nat, NEW S \in Nat, NEW B \in Nat,
           NEW x \in Nat, NEW y \in Nat,
           s * x <= b * y, B * y <= S * x,
           x > 0
    PROVE  s * B <= b * S
<1>1. (s * x) * B <= (b * y) * B /\ (B * y) * b <= (S * x) * b
    BY MulMono
<1>2. (s * B) * x = (s * x) * B /\ (b * y) * B = (B * y) * b /\ (S * x) * b = (b * S) * x
    OBVIOUS
<1>. DEFINE p == (s * B) * x
            q == (b * y) * B
            r == (b * S) * x
<1>3. p \in Nat /\ q \in Nat /\ r \in Nat /\ s * B \in Nat /\ b * S \in Nat
    OBVIOUS
<1>4. p <= q /\ q <= r
    BY <1>1, <1>2
<1>. HIDE DEF p, q, r
<1>5. p <= r
    BY <1>3, <1>4
<1>. QED
    BY <1>3, <1>5, MulCancel DEF p, r

-----------------------------------------------------------------------------
(* The inductive invariant.                                                *)

(* What an order has executed, sold and paid in fees, in proportion.       *)
WithinLedger(o, s, f, b) ==
    /\ Executed(o, s, b) <= Target(o)
    /\ s * order[o].buyAmount <= b * order[o].sellAmount
    /\ f * Target(o) <= order[o].feeAmount * Executed(o, s, b)

(* An order's stored fill against its ledger.                              *)
FillMatches(o, filled, isCancelled, s, b) ==
    now <= order[o].validTo =>
        filled = IF isCancelled THEN MaxUint ELSE Executed(o, s, b)

LedgerOK ==
    \A o \in Uid :
        /\ WithinLedger(o, TotalSold(o), TotalFee(o), TotalBought(o))
        /\ FillMatches(o, filledAmount[o], o \in cancelled, TotalSold(o), TotalBought(o))

(* The storage a Revert would bring back.                                  *)
SavedOK ==
    phase # "idle" =>
        \A o \in Uid :
            /\ WithinLedger(o, saved.sold[o], saved.fees[o], saved.bought[o])
            /\ FillMatches(o, saved.filledAmount[o], o \in saved.cancelled,
                           saved.sold[o], saved.bought[o])

(* Transfers are owed only between the trades and the calls that make them.*)
OwedOK ==
    /\ phase \notin {"trades", "in"} => inSell = Zero /\ inFee = Zero
    /\ phase \notin {"trades", "in", "intra", "out"} => outBuy = Zero

(* A swap's limits, and what the vault did within them.                    *)
SwapOK ==
    /\ phase \in {"swap", "swapped"} =>
          IF order[swapUid].kind = "sell" THEN swapLimit >= order[swapUid].buyAmount
                                          ELSE swapLimit <= order[swapUid].sellAmount
    /\ phase = "swapped" =>
          /\ now <= order[swapUid].validTo
          /\ IF order[swapUid].kind = "sell"
             THEN swapSell <= order[swapUid].sellAmount /\ swapBuy >= swapLimit
             ELSE swapSell <= swapLimit /\ swapBuy >= order[swapUid].buyAmount

IInv == TypeOK /\ LedgerOK /\ SavedOK /\ OwedOK /\ SwapOK
-----------------------------------------------------------------------------
(* Orders and their ledgers.                                               *)

LEMMA OrderType ==
    ASSUME NEW o \in Uid
    PROVE  /\ order[o].owner \in Account
           /\ order[o].kind \in {"sell", "buy"}
           /\ order[o].partiallyFillable \in BOOLEAN
           /\ order[o].sellAmount \in 1..MaxUint
           /\ order[o].buyAmount \in 1..MaxUint
           /\ order[o].feeAmount \in 0..MaxUint
           /\ order[o].validTo \in Nat
           /\ Target(o) \in 1..MaxUint
           /\ MaxUint \in Nat \ {0}
BY OrderAssumption, BoundAssumption DEF OrderTerms, Target

(* A ledger in proportion keeps the owner within the signed terms.         *)
LEMMA LedgerProtects ==
    ASSUME NEW o \in Uid, NEW s \in Nat, NEW f \in Nat, NEW b \in Nat,
           WithinLedger(o, s, f, b)
    PROVE  /\ s <= order[o].sellAmount
           /\ f <= order[o].feeAmount
           /\ order[o].kind = "buy" => b <= order[o].buyAmount
           /\ s * order[o].buyAmount <= b * order[o].sellAmount
<1>. DEFINE S == order[o].sellAmount
            B == order[o].buyAmount
            F == order[o].feeAmount
            T == Target(o)
            e == Executed(o, s, b)
<1>1. S \in Nat /\ B \in Nat /\ F \in Nat /\ T \in Nat /\ S > 0 /\ B > 0 /\ T > 0
    BY OrderType
<1>2. e \in Nat /\ e <= T /\ s * B <= b * S /\ f * T <= F * e
    BY DEF WithinLedger, Executed
<1>3. order[o].kind = "sell" => e = s /\ T = S
    BY DEF Executed, Target
<1>4. order[o].kind = "buy" => e = b /\ T = B
    BY DEF Executed, Target
<1>5. order[o].kind = "sell" \/ order[o].kind = "buy"
    BY OrderType
<1>. HIDE DEF S, B, F, T, e
<1>6. f <= F
    <2>1. e * F <= T * F /\ e * F = F * e /\ T * F = F * T
        BY <1>1, <1>2, MulMono
    <2>2. f * T \in Nat /\ F * e \in Nat /\ F * T \in Nat
        BY <1>1, <1>2
    <2>3. f * T <= F * T
        BY <1>2, <2>1, <2>2
    <2>. QED
        BY <1>1, <2>3, MulCancel
<1>7. s <= S
    <2>1. CASE order[o].kind = "sell"
        BY <1>2, <1>3, <2>1
    <2>2. CASE order[o].kind = "buy"
        <3>1. b * S <= B * S /\ S * B = B * S
            BY <1>1, <1>2, <1>4, <2>2, MulMono
        <3>2. s * B \in Nat /\ b * S \in Nat /\ S * B \in Nat
            BY <1>1
        <3>3. s * B <= S * B
            BY <1>2, <3>1, <3>2
        <3>. QED
            BY <1>1, <3>3, MulCancel
    <2>. QED
        BY <1>5, <2>1, <2>2
<1>. QED
    BY <1>2, <1>4, <1>6, <1>7 DEF S, B, F

(* A fill in proportion keeps the ledger in proportion.                    *)
LEMMA LedgerGrows ==
    ASSUME NEW o \in Uid, NEW s \in Nat, NEW f \in Nat, NEW b \in Nat,
           NEW ds \in Nat, NEW df \in Nat, NEW db \in Nat,
           WithinLedger(o, s, f, b),
           Executed(o, s, b) + Executed(o, ds, db) <= Target(o),
           ds * order[o].buyAmount <= db * order[o].sellAmount,
           df * Target(o) <= order[o].feeAmount * Executed(o, ds, db)
    PROVE  WithinLedger(o, s + ds, f + df, b + db)
<1>. DEFINE S == order[o].sellAmount
            B == order[o].buyAmount
            F == order[o].feeAmount
            T == Target(o)
            e == Executed(o, s, b)
            de == Executed(o, ds, db)
<1>1. S \in Nat /\ B \in Nat /\ F \in Nat /\ T \in Nat /\ e \in Nat /\ de \in Nat
    BY OrderType DEF Executed
<1>2. Executed(o, s + ds, b + db) = e + de
    BY DEF Executed
<1>3. s * B <= b * S /\ ds * B <= db * S /\ f * T <= F * e /\ df * T <= F * de
    BY DEF WithinLedger
<1>4. e + de <= T
    OBVIOUS
<1>. HIDE DEF S, B, F, T, e, de
<1>5. (s + ds) * B <= (b + db) * S
    BY <1>1, <1>3
<1>6. (f + df) * T <= F * (e + de)
    BY <1>1, <1>3
<1>. QED
    BY <1>2, <1>4, <1>5, <1>6 DEF WithinLedger, S, B, F, T

-----------------------------------------------------------------------------
(* computeTradeExecution keeps an order's ledger and fill consistent.      *)

(* The amounts of one trade are naturals, within the limit price and the   *)
(* proportional fee.                                                       *)
LEMMA TradeAmounts ==
    ASSUME NEW o \in Uid, NEW x \in Price, NEW y \in Price, NEW e \in Amount,
           LimitPriceRespected(o, x, y), ArithmeticSucceeds(o, e, x, y),
           ~order[o].partiallyFillable => e = Target(o)
    PROVE  LET ds == SellOf(o, e, x, y)
               df == FeeOf(o, e)
               db == BuyOf(o, e, x, y)
           IN  /\ ds \in Nat /\ df \in Nat /\ db \in Nat
               /\ Executed(o, ds, db) = e
               /\ ds * order[o].buyAmount <= db * order[o].sellAmount
               /\ df * Target(o) <= order[o].feeAmount * e
               /\ order[o].partiallyFillable /\ e = 0 => ds = 0 /\ df = 0 /\ db = 0
<1>. DEFINE S == order[o].sellAmount
            B == order[o].buyAmount
            F == order[o].feeAmount
            T == Target(o)
            ds == SellOf(o, e, x, y)
            df == FeeOf(o, e)
            db == BuyOf(o, e, x, y)
<1>1. /\ S \in Nat /\ B \in Nat /\ F \in Nat /\ T \in Nat /\ S > 0 /\ B > 0 /\ T > 0
      /\ x \in Nat /\ y \in Nat /\ e \in Nat
    BY OrderType, BoundAssumption DEF Amount
<1>2. df \in Nat /\ df * T <= F * e /\ (order[o].partiallyFillable /\ e = 0 => df = 0)
    <2>1. F * e \in Nat
        BY <1>1
    <2>2. CASE order[o].partiallyFillable
        <3>1. df = (F * e) \div T
            BY <2>2 DEF FeeOf
        <3>2. df \in Nat /\ df * T <= F * e
            BY <1>1, <2>1, <3>1, DivBelow
        <3>3. e = 0 => F * e = 0
            BY <1>1
        <3>. HIDE DEF df, F, T
        <3>4. e = 0 => df = 0
            BY <1>1, <3>2, <3>3
        <3>. QED
            BY <3>2, <3>4
    <2>3. CASE ~order[o].partiallyFillable
        <3>1. df = F /\ e = T
            BY <2>3 DEF FeeOf
        <3>. QED
            BY <1>1, <2>3, <3>1
    <2>. QED
        BY <2>2, <2>3
<1>3. S * x >= B * y
    BY DEF LimitPriceRespected
<1>4. CASE order[o].kind = "sell"
    <2>1. ds = e /\ db = ceilDiv(e * x, y) /\ y > 0
        BY <1>4 DEF SellOf, BuyOf, ArithmeticSucceeds
    <2>2. e * x \in Nat
        BY <1>1
    <2>3. db \in Nat /\ db * y >= e * x
        BY <1>1, <2>1, <2>2, CeilDivAbove
    <2>4. x > 0
        <3>. HIDE DEF S, B
        <3>1. B * y > 0
            BY <1>1, <2>1
        <3>. QED
            BY <1>1, <1>3, <3>1
    <2>5. ds * B <= db * S
        <3>. HIDE DEF S, B, db, ds
        <3>. QED
            BY <1>1, <1>3, <2>1, <2>3, <2>4, LimitFromClearing
    <2>6. e = 0 => db = 0
        BY <1>1, <2>1 DEF ceilDiv
    <2>. QED
        BY <1>1, <1>2, <1>4, <2>1, <2>3, <2>5, <2>6 DEF Executed
<1>5. CASE order[o].kind = "buy"
    <2>1. db = e /\ ds = (e * y) \div x /\ x > 0
        BY <1>5 DEF SellOf, BuyOf, ArithmeticSucceeds
    <2>2. e * y \in Nat
        BY <1>1
    <2>3. ds \in Nat /\ ds * x <= e * y
        BY <1>1, <2>1, <2>2, DivBelow
    <2>4. ds * B <= db * S
        <3>. HIDE DEF S, B, db, ds
        <3>. QED
            BY <1>1, <1>3, <2>1, <2>3, LimitFromClearing
    <2>5. e = 0 => ds = 0
        <3>1. e = 0 => e * y = 0
            BY <1>1
        <3>. HIDE DEF ds
        <3>. QED
            BY <1>1, <2>1, <2>3, <3>1
    <2>. QED
        BY <1>1, <1>2, <1>5, <2>1, <2>3, <2>4, <2>5 DEF Executed
<1>. QED
    BY <1>4, <1>5, OrderType

(* What one trade does to its own order, and that it does nothing to the   *)
(* others.                                                                 *)
LEMMA TradeStep ==
    ASSUME TypeOK, NEW o \in Uid, NEW x \in Price, NEW y \in Price, NEW a \in Amount,
           computeTradeExecution(o, x, y, a)
    PROVE  \E e \in Amount, ds, df, db \in Nat :
               /\ inSell' = [inSell EXCEPT ![o] = @ + ds]
               /\ inFee' = [inFee EXCEPT ![o] = @ + df]
               /\ outBuy' = [outBuy EXCEPT ![o] = @ + db]
               /\ filledAmount' = [filledAmount EXCEPT ![o] = @ + e]
               /\ filledAmount[o] + e <= Target(o)
               /\ filledAmount[o] + e \in Amount
               /\ now <= order[o].validTo
               /\ Executed(o, ds, db) = e
               /\ ds * order[o].buyAmount <= db * order[o].sellAmount
               /\ df * Target(o) <= order[o].feeAmount * e
               /\ filledAmount[o] = MaxUint => ds = 0 /\ df = 0 /\ db = 0
<1>. DEFINE e == ExecutedOf(o, a)
            ds == SellOf(o, e, x, y)
            df == FeeOf(o, e)
            db == BuyOf(o, e, x, y)
<1>1. e \in Amount /\ (~order[o].partiallyFillable => e = Target(o))
    BY OrderType DEF ExecutedOf, Target, Amount
<1>2. /\ LimitPriceRespected(o, x, y)
      /\ ArithmeticSucceeds(o, e, x, y)
      /\ NotOverfilled(o, e)
      /\ now <= order[o].validTo
      /\ inSell' = [inSell EXCEPT ![o] = @ + ds]
      /\ inFee' = [inFee EXCEPT ![o] = @ + df]
      /\ outBuy' = [outBuy EXCEPT ![o] = @ + db]
      /\ filledAmount' = [filledAmount EXCEPT ![o] = Sum(@, e)]
    BY OrderType DEF computeTradeExecution, TypeOK
<1>3. /\ ds \in Nat /\ df \in Nat /\ db \in Nat
      /\ Executed(o, ds, db) = e
      /\ ds * order[o].buyAmount <= db * order[o].sellAmount
      /\ df * Target(o) <= order[o].feeAmount * e
      /\ order[o].partiallyFillable /\ e = 0 => ds = 0 /\ df = 0 /\ db = 0
    BY <1>1, <1>2, TradeAmounts
<1>4. filledAmount[o] \in Amount
    BY DEF TypeOK
<1>5. Sum(filledAmount[o], e) = filledAmount[o] + e /\ filledAmount[o] + e \in Amount
    BY <1>1, <1>2, <1>4, SumIsSum DEF ArithmeticSucceeds
<1>6. filledAmount[o] + e <= Target(o)
    BY <1>2, <1>5 DEF NotOverfilled
<1>7. filledAmount' = [filledAmount EXCEPT ![o] = @ + e]
    BY <1>2, <1>5
<1>8. filledAmount[o] = MaxUint => order[o].partiallyFillable /\ e = 0
    <2>1. Target(o) \in 1..MaxUint
        BY OrderType
    <2>. HIDE DEF e
    <2>. QED
        BY <1>1, <1>4, <1>5, <1>6, <2>1, OrderType DEF Amount
<1>. HIDE DEF e, ds, df, db
<1>. QED
    BY <1>1, <1>2, <1>3, <1>5, <1>6, <1>7, <1>8

-----------------------------------------------------------------------------
(* Type correctness.                                                       *)

LEMMA TypeInit == Init => TypeOK
BY BoundAssumption, UidAssumption
   DEF Init, TypeOK, Zero, NothingSaved, Amount, Phase

LEMMA NothingSavedType ==
    NothingSaved \in [filledAmount : [Uid -> Amount], preSignature : [Uid -> BOOLEAN],
                      wallet1271 : SUBSET Uid, sold : [Uid -> Nat], fees : [Uid -> Nat],
                      bought : [Uid -> Nat], cancelled : SUBSET Uid,
                      consented : SUBSET Uid]
BY BoundAssumption DEF NothingSaved, Zero, Amount

LEMMA TypeOwnerCall ==
    ASSUME TypeOK, NEW o \in Uid, OwnerCall(o)
    PROVE  TypeOK'
<1>. USE BoundAssumption DEF TypeOK, Amount, pending, swapping, storage, history
<1>1. ASSUME NEW caller \in Account, invalidateOrder(caller, o)
      PROVE  TypeOK'
    BY <1>1 DEF invalidateOrder
<1>2. ASSUME NEW caller \in Account, NEW signed \in BOOLEAN,
             setPreSignature(caller, o, signed)
      PROVE  TypeOK'
    BY <1>2 DEF setPreSignature, OwnedBy
<1>3. ASSUME ReleaseSignature(o)
      PROVE  TypeOK'
    BY <1>3 DEF ReleaseSignature
<1>4. ASSUME NEW vouches \in BOOLEAN, WalletVouches(o, vouches)
      PROVE  TypeOK'
    BY <1>4 DEF WalletVouches
<1>. QED
    BY <1>1, <1>2, <1>3, <1>4 DEF OwnerCall

LEMMA TypeSettleStep ==
    ASSUME TypeOK, NEW o \in Uid, SettleStep(o)
    PROVE  TypeOK'
<1>. USE BoundAssumption DEF TypeOK, Amount
<1>1. CASE freeFilledAmountStorage(o)
    BY <1>1 DEF freeFilledAmountStorage, pending, swapping, history
<1>2. CASE freePreSignatureStorage(o)
    BY <1>2 DEF freePreSignatureStorage, pending, swapping, history
<1>3. ASSUME NEW x \in Price, NEW y \in Price, NEW a \in Amount,
             computeTradeExecution(o, x, y, a)
      PROVE  TypeOK'
    <2>1. PICK e \in Amount, ds \in Nat, df \in Nat, db \in Nat :
               /\ inSell' = [inSell EXCEPT ![o] = @ + ds]
               /\ inFee' = [inFee EXCEPT ![o] = @ + df]
               /\ outBuy' = [outBuy EXCEPT ![o] = @ + db]
               /\ filledAmount' = [filledAmount EXCEPT ![o] = @ + e]
               /\ filledAmount[o] + e \in Amount
        BY <1>3, TradeStep
    <2>2. UNCHANGED <<preSignature, wallet1271, history, swapping, released,
                      phase, now, saved>>
        BY <1>3 DEF computeTradeExecution
    <2>. QED
        BY <2>1, <2>2 DEF history, swapping
<1>4. CASE transferFromAccounts(o)
    BY <1>4 DEF transferFromAccounts, storage, swapping
<1>5. CASE transferToAccounts(o)
    BY <1>5 DEF transferToAccounts, storage, swapping
<1>6. ASSUME NEW limit \in Amount, swap(o, limit)
      PROVE  TypeOK'
    BY <1>6, UidAssumption DEF swap, Enter, storage, history, pending, Phase
<1>. QED
    BY <1>1, <1>2, <1>3, <1>4, <1>5, <1>6 DEF SettleStep

LEMMA TypeOtherStep ==
    ASSUME TypeOK,
           \/ settle
           \/ settlePhases
           \/ finishSettle
           \/ \E sellDelta, buyDelta \in Amount : batchSwapWithFee(sellDelta, buyDelta)
           \/ finishSwap
           \/ Revert
           \/ Tick
    PROVE  TypeOK'
<1>1. CASE settle
    BY <1>1 DEF TypeOK, settle, Enter, storage, history, pending, swapping, Phase
<1>2. CASE settlePhases
    BY <1>2 DEF TypeOK, settlePhases, Advance, storage, history, pending, swapping, Phase
<1>3. CASE finishSettle
    BY <1>3, NothingSavedType
       DEF TypeOK, finishSettle, storage, history, pending, swapping, Phase
<1>4. ASSUME NEW sd \in Amount, NEW bd \in Amount, batchSwapWithFee(sd, bd)
      PROVE  TypeOK'
    BY <1>4 DEF TypeOK, batchSwapWithFee, storage, history, pending, Phase
<1>5. CASE finishSwap
    <2>1. swapUid \in Uid
        BY <1>5 DEF finishSwap, TypeOK
    <2>2. Target(swapUid) \in Amount /\ order[swapUid].feeAmount \in Nat /\ 0 \in Amount
        BY <2>1, OrderType, BoundAssumption DEF Amount
    <2>3. swapSell \in Nat /\ swapBuy \in Nat
        BY BoundAssumption DEF TypeOK, Amount
    <2>. QED
        BY <1>5, <2>1, <2>2, <2>3, NothingSavedType
           DEF finishSwap, TypeOK, pending, Phase
<1>6. CASE Revert
    <2>1. 0 \in Amount /\ Zero \in [Uid -> Nat]
        BY BoundAssumption DEF Amount, Zero
    <2>. QED
        BY <1>6, <2>1, NothingSavedType DEF Revert, TypeOK, Phase
<1>7. CASE Tick
    BY <1>7, BoundAssumption DEF Tick, TypeOK, storage, history, pending, swapping
<1>. QED
    BY <1>1, <1>2, <1>3, <1>4, <1>5, <1>6, <1>7

LEMMA TypeNext == TypeOK /\ [Next]_vars => TypeOK'
<1>. SUFFICES ASSUME TypeOK, [Next]_vars
              PROVE  TypeOK'
    OBVIOUS
<1>1. CASE UNCHANGED vars
    BY <1>1 DEF vars, storage, history, pending, swapping, TypeOK
<1>2. CASE Next
    BY <1>2, TypeOwnerCall, TypeSettleStep, TypeOtherStep DEF Next
<1>. QED
    BY <1>1, <1>2

(* Every variable keeps its type, and a swap's order is known exactly      *)
(* while the swap runs, for any orders, prices and uint width.             *)
THEOREM TypeCorrect == Spec => []TypeOK
<1>. QED
    BY TypeInit, TypeNext, PTL DEF Spec

-----------------------------------------------------------------------------
(* IInv is inductive.                                                      *)

LEMMA IInvInit == Init => IInv
<1>. SUFFICES ASSUME Init PROVE IInv
    OBVIOUS
<1>1. TypeOK
    BY TypeInit
<1>2. LedgerOK
    <2>. SUFFICES ASSUME NEW o \in Uid
                  PROVE  /\ WithinLedger(o, TotalSold(o), TotalFee(o), TotalBought(o))
                         /\ FillMatches(o, filledAmount[o], o \in cancelled,
                                        TotalSold(o), TotalBought(o))
        BY DEF LedgerOK
    <2>1. TotalSold(o) = 0 /\ TotalFee(o) = 0 /\ TotalBought(o) = 0
          /\ filledAmount[o] = 0 /\ o \notin cancelled
        BY DEF Init, Zero, TotalSold, TotalFee, TotalBought
    <2>2. Executed(o, 0, 0) = 0
        BY DEF Executed
    <2>. QED
        BY <2>1, <2>2, OrderType DEF WithinLedger, FillMatches
<1>. QED
    BY <1>1, <1>2 DEF Init, IInv, SavedOK, OwedOK, SwapOK

(* What of the state the ledger conjuncts read.                            *)
ledgerState == <<filledAmount, sold, fees, bought, cancelled, inSell, inFee, outBuy, now>>

LEMMA LedgerFrame ==
    ASSUME LedgerOK, UNCHANGED ledgerState
    PROVE  LedgerOK'
BY DEF LedgerOK, ledgerState, WithinLedger, FillMatches, TotalSold, TotalFee,
       TotalBought, Executed, Target

(* Moving pending amounts to the history, or freeing and cancelling, keeps *)
(* the ledger of an order whose totals do not change.                      *)
LEMMA LedgerSameTotals ==
    ASSUME LedgerOK, now' = now,
           \A o \in Uid :
               /\ TotalSold(o)' = TotalSold(o)
               /\ TotalFee(o)' = TotalFee(o)
               /\ TotalBought(o)' = TotalBought(o)
               /\ \/ filledAmount'[o] = filledAmount[o] /\ (o \in cancelled' <=> o \in cancelled)
                  \/ filledAmount'[o] = MaxUint /\ o \in cancelled'
                  \/ ~(now <= order[o].validTo)
    PROVE  LedgerOK'
<1>. SUFFICES ASSUME NEW o \in Uid
              PROVE  /\ WithinLedger(o, TotalSold(o), TotalFee(o), TotalBought(o))'
                     /\ FillMatches(o, filledAmount[o], o \in cancelled,
                                    TotalSold(o), TotalBought(o))'
    BY DEF LedgerOK
<1>1. /\ WithinLedger(o, TotalSold(o), TotalFee(o), TotalBought(o))
      /\ FillMatches(o, filledAmount[o], o \in cancelled, TotalSold(o), TotalBought(o))
    BY DEF LedgerOK
<1>2. WithinLedger(o, TotalSold(o), TotalFee(o), TotalBought(o))'
    BY <1>1 DEF WithinLedger, Executed, Target
<1>3. FillMatches(o, filledAmount[o], o \in cancelled, TotalSold(o), TotalBought(o))'
    <2>1. CASE o \in cancelled'
        BY <1>1, <2>1 DEF FillMatches
    <2>2. CASE o \notin cancelled'
        <3>1. Executed(o, TotalSold(o), TotalBought(o))' = Executed(o, TotalSold(o), TotalBought(o))
            BY DEF Executed
        <3>. QED
            BY <1>1, <2>2, <3>1 DEF FillMatches
    <2>. QED
        BY <2>1, <2>2
<1>. QED
    BY <1>2, <1>3

LEMMA TradeKeepsLedger ==
    ASSUME TypeOK, LedgerOK, NEW o \in Uid, NEW x \in Price, NEW y \in Price,
           NEW a \in Amount, computeTradeExecution(o, x, y, a)
    PROVE  LedgerOK'
<1>1. PICK e \in Amount, ds \in Nat, df \in Nat, db \in Nat :
           /\ inSell' = [inSell EXCEPT ![o] = @ + ds]
           /\ inFee' = [inFee EXCEPT ![o] = @ + df]
           /\ outBuy' = [outBuy EXCEPT ![o] = @ + db]
           /\ filledAmount' = [filledAmount EXCEPT ![o] = @ + e]
           /\ filledAmount[o] + e <= Target(o)
           /\ filledAmount[o] + e \in Amount
           /\ now <= order[o].validTo
           /\ Executed(o, ds, db) = e
           /\ ds * order[o].buyAmount <= db * order[o].sellAmount
           /\ df * Target(o) <= order[o].feeAmount * e
           /\ filledAmount[o] = MaxUint => ds = 0 /\ df = 0 /\ db = 0
    BY TradeStep
<1>2. UNCHANGED <<sold, fees, bought, cancelled, now>>
    BY DEF computeTradeExecution, history
<1>3. ASSUME NEW p \in Uid
      PROVE  /\ WithinLedger(p, TotalSold(p), TotalFee(p), TotalBought(p))'
             /\ FillMatches(p, filledAmount[p], p \in cancelled,
                            TotalSold(p), TotalBought(p))'
    <2>1. /\ WithinLedger(p, TotalSold(p), TotalFee(p), TotalBought(p))
          /\ FillMatches(p, filledAmount[p], p \in cancelled,
                         TotalSold(p), TotalBought(p))
        BY DEF LedgerOK
    <2>2. CASE p # o
        <3>1. /\ TotalSold(p)' = TotalSold(p) /\ TotalFee(p)' = TotalFee(p)
              /\ TotalBought(p)' = TotalBought(p) /\ filledAmount'[p] = filledAmount[p]
            BY <1>1, <1>2, <2>2 DEF TotalSold, TotalFee, TotalBought, TypeOK
        <3>. QED
            BY <1>2, <2>1, <3>1 DEF WithinLedger, FillMatches, Executed, Target
    <2>3. CASE p = o
        <3>. DEFINE s == TotalSold(o)
                    f == TotalFee(o)
                    b == TotalBought(o)
        <3>1. s \in Nat /\ f \in Nat /\ b \in Nat /\ filledAmount[o] \in Nat
            BY BoundAssumption DEF TypeOK, TotalSold, TotalFee, TotalBought, Amount
        <3>2. TotalSold(o)' = s + ds /\ TotalFee(o)' = f + df /\ TotalBought(o)' = b + db
            BY <1>1, <1>2 DEF TotalSold, TotalFee, TotalBought, TypeOK
        <3>3. filledAmount'[o] = filledAmount[o] + e
            BY <1>1 DEF TypeOK
        <3>4. CASE o \in cancelled
            <4>1. filledAmount[o] = MaxUint
                BY <1>1, <2>1, <2>3, <3>4 DEF FillMatches
            <4>2. ds = 0 /\ df = 0 /\ db = 0
                BY <1>1, <4>1
            <4>3. e = 0
                BY <1>1, <4>2 DEF Executed
            <4>4. /\ TotalSold(o)' = s /\ TotalFee(o)' = f /\ TotalBought(o)' = b
                  /\ filledAmount'[o] = filledAmount[o]
                BY <3>1, <3>2, <3>3, <4>2, <4>3
            <4>. QED
                BY <1>2, <2>1, <2>3, <4>4 DEF WithinLedger, FillMatches, Executed, Target
        <3>5. CASE o \notin cancelled
            <4>1. filledAmount[o] = Executed(o, s, b)
                BY <1>1, <2>1, <2>3, <3>5 DEF FillMatches
            <4>2. Executed(o, s + ds, b + db) = filledAmount'[o]
                BY <1>1, <3>3, <4>1 DEF Executed
            <4>3. WithinLedger(o, s, f, b)
                BY <2>1, <2>3
            <4>4. WithinLedger(o, s + ds, f + df, b + db)
                <5>. HIDE DEF s, f, b
                <5>. QED
                    BY <1>1, <3>1, <4>1, <4>3, LedgerGrows
            <4>5. WithinLedger(o, TotalSold(o), TotalFee(o), TotalBought(o))'
                BY <3>2, <4>4 DEF WithinLedger, Executed, Target
            <4>6. FillMatches(o, filledAmount[o], o \in cancelled,
                              TotalSold(o), TotalBought(o))'
                <5>1. Executed(o, TotalSold(o), TotalBought(o))' = Executed(o, s + ds, b + db)
                    BY <3>2 DEF Executed
                <5>. QED
                    BY <1>2, <3>5, <4>2, <5>1 DEF FillMatches
            <4>. QED
                BY <2>3, <4>5, <4>6
        <3>. QED
            BY <3>4, <3>5
    <2>. QED
        BY <2>2, <2>3
<1>. QED
    BY <1>3 DEF LedgerOK

(* A swap fills an order that had executed nothing: the final check sees a *)
(* cancellation or a fill made while the vault was running.                *)
LEMMA SwapKeepsLedger ==
    ASSUME TypeOK, LedgerOK, SwapOK, NEW o \in Uid, o = swapUid, finishSwap
    PROVE  LedgerOK'
<1>. DEFINE s == TotalSold(o)
            f == TotalFee(o)
            b == TotalBought(o)
            F == order[o].feeAmount
<1>1. /\ phase = "swapped"
      /\ filledAmount[o] = 0
      /\ filledAmount' = [filledAmount EXCEPT ![o] = Target(o)]
      /\ sold' = [sold EXCEPT ![o] = @ + swapSell]
      /\ fees' = [fees EXCEPT ![o] = @ + F]
      /\ bought' = [bought EXCEPT ![o] = @ + swapBuy]
      /\ UNCHANGED <<cancelled, inSell, inFee, outBuy, now>>
    BY DEF finishSwap, pending
<1>2. swapSell \in Nat /\ swapBuy \in Nat /\ F \in Nat /\ swapLimit \in Nat
      /\ s \in Nat /\ f \in Nat /\ b \in Nat
    BY OrderType, BoundAssumption
       DEF TypeOK, Amount, TotalSold, TotalFee, TotalBought
<1>3. now <= order[o].validTo
    BY <1>1 DEF SwapOK
<1>4. /\ WithinLedger(o, s, f, b)
      /\ FillMatches(o, filledAmount[o], o \in cancelled, s, b)
    BY DEF LedgerOK
<1>5. o \notin cancelled /\ Executed(o, s, b) = 0
    BY <1>1, <1>3, <1>4, OrderType DEF FillMatches
<1>6. /\ Executed(o, swapSell, swapBuy) = Target(o)
      /\ swapSell * order[o].buyAmount <= swapBuy * order[o].sellAmount
    <2>1. order[o].sellAmount \in Nat /\ order[o].buyAmount \in Nat
        BY OrderType
    <2>2. CASE order[o].kind = "sell"
        <3>1. swapSell = order[o].sellAmount /\ order[o].buyAmount <= swapBuy
            BY <1>1, <1>2, <2>1, <2>2 DEF finishSwap, SwapOK
        <3>2. order[o].buyAmount * order[o].sellAmount <= swapBuy * order[o].sellAmount
            BY <1>2, <2>1, <3>1, MulMono
        <3>3. order[o].buyAmount * order[o].sellAmount = swapSell * order[o].buyAmount
            BY <2>1, <3>1
        <3>. QED
            BY <2>2, <3>1, <3>2, <3>3 DEF Executed, Target
    <2>3. CASE order[o].kind # "sell"
        <3>1. swapBuy = order[o].buyAmount /\ swapSell <= order[o].sellAmount
            BY <1>1, <1>2, <2>1, <2>3 DEF finishSwap, SwapOK
        <3>2. swapSell * order[o].buyAmount <= order[o].sellAmount * order[o].buyAmount
            BY <1>2, <2>1, <3>1, MulMono
        <3>3. order[o].sellAmount * order[o].buyAmount = swapBuy * order[o].sellAmount
            BY <2>1, <3>1
        <3>. QED
            BY <2>3, <3>1, <3>2, <3>3 DEF Executed, Target
    <2>. QED
        BY <2>2, <2>3
<1>7. Target(o) \in Nat /\ 0 + Target(o) <= Target(o) /\ F * Target(o) <= F * Target(o)
    BY <1>2, OrderType
<1>8. WithinLedger(o, s + swapSell, f + F, b + swapBuy)
    <2>. HIDE DEF s, f, b, F
    <2>. QED
        BY <1>2, <1>4, <1>5, <1>6, <1>7, LedgerGrows DEF F
<1>9. ASSUME NEW p \in Uid
      PROVE  /\ WithinLedger(p, TotalSold(p), TotalFee(p), TotalBought(p))'
             /\ FillMatches(p, filledAmount[p], p \in cancelled,
                            TotalSold(p), TotalBought(p))'
    <2>1. CASE p # o
        <3>1. /\ TotalSold(p)' = TotalSold(p) /\ TotalFee(p)' = TotalFee(p)
              /\ TotalBought(p)' = TotalBought(p) /\ filledAmount'[p] = filledAmount[p]
            BY <1>1, <2>1 DEF TotalSold, TotalFee, TotalBought, TypeOK
        <3>. QED
            BY <1>1, <3>1 DEF LedgerOK, WithinLedger, FillMatches, Executed, Target
    <2>2. CASE p = o
        <3>1. TotalSold(o)' = s + swapSell /\ TotalFee(o)' = f + F
              /\ TotalBought(o)' = b + swapBuy /\ filledAmount'[o] = Target(o)
            BY <1>1, <1>2 DEF TotalSold, TotalFee, TotalBought, TypeOK
        <3>2. Executed(o, s + swapSell, b + swapBuy) = Target(o)
            BY <1>2, <1>5, <1>6 DEF Executed
        <3>3. WithinLedger(o, TotalSold(o), TotalFee(o), TotalBought(o))'
            BY <1>8, <3>1 DEF WithinLedger, Executed, Target
        <3>4. FillMatches(o, filledAmount[o], o \in cancelled,
                          TotalSold(o), TotalBought(o))'
            <4>1. Executed(o, TotalSold(o), TotalBought(o))' = Executed(o, s + swapSell, b + swapBuy)
                BY <3>1 DEF Executed
            <4>. QED
                BY <1>1, <1>5, <3>1, <3>2, <4>1 DEF FillMatches
        <3>. QED
            BY <2>2, <3>3, <3>4
    <2>. QED
        BY <2>1, <2>2
<1>. QED
    BY <1>9 DEF LedgerOK

LEMMA SavedFrame ==
    ASSUME SavedOK, UNCHANGED <<saved, now>>, phase = "idle" => phase' = "idle"
    PROVE  SavedOK'
BY DEF SavedOK, WithinLedger, FillMatches, Executed, Target

(* Between transactions nothing is owed, so what is saved is consistent.   *)
LEMMA SavedEnter ==
    ASSUME TypeOK, LedgerOK, OwedOK, NEW first, Enter(first),
           UNCHANGED <<filledAmount, sold, fees, bought, cancelled, now>>
    PROVE  SavedOK'
<1>. SUFFICES ASSUME NEW o \in Uid
              PROVE  /\ WithinLedger(o, saved.sold[o], saved.fees[o], saved.bought[o])'
                     /\ FillMatches(o, saved.filledAmount[o], o \in saved.cancelled,
                                    saved.sold[o], saved.bought[o])'
    BY DEF SavedOK
<1>1. /\ saved'.sold = sold /\ saved'.fees = fees /\ saved'.bought = bought
      /\ saved'.filledAmount = filledAmount /\ saved'.cancelled = cancelled
      /\ phase = "idle"
    BY DEF Enter
<1>2. TotalSold(o) = sold[o] /\ TotalFee(o) = fees[o] /\ TotalBought(o) = bought[o]
    BY <1>1 DEF OwedOK, Zero, TotalSold, TotalFee, TotalBought, TypeOK
<1>3. /\ WithinLedger(o, sold[o], fees[o], bought[o])
      /\ FillMatches(o, filledAmount[o], o \in cancelled, sold[o], bought[o])
    BY <1>2 DEF LedgerOK
<1>. QED
    BY <1>1, <1>3 DEF WithinLedger, FillMatches, Executed, Target

LEMMA IInvOwnerCall ==
    ASSUME IInv, NEW o \in Uid, OwnerCall(o)
    PROVE  IInv'
<1>1. TypeOK'
    BY TypeOwnerCall DEF IInv
<1>2. UNCHANGED <<pending, swapping, phase, now, saved, sold, fees, bought>>
    BY DEF OwnerCall, invalidateOrder, setPreSignature, ReleaseSignature, WalletVouches
<1>3. SavedOK'
    BY <1>2, SavedFrame DEF IInv
<1>4. OwedOK' /\ SwapOK'
    BY <1>2 DEF IInv, OwedOK, SwapOK, pending, swapping, Zero
<1>5. LedgerOK'
    <2>1. ASSUME NEW p \in Uid
          PROVE  \/ filledAmount'[p] = filledAmount[p] /\ (p \in cancelled' <=> p \in cancelled)
                 \/ filledAmount'[p] = MaxUint /\ p \in cancelled'
        <3>1. ASSUME NEW caller \in Account, invalidateOrder(caller, o)
              PROVE  \/ filledAmount'[p] = filledAmount[p] /\ (p \in cancelled' <=> p \in cancelled)
                     \/ filledAmount'[p] = MaxUint /\ p \in cancelled'
            BY <3>1 DEF invalidateOrder, IInv, TypeOK
        <3>2. CASE UNCHANGED <<filledAmount, cancelled>>
            BY <3>2
        <3>. QED
            BY <3>1, <3>2
               DEF OwnerCall, setPreSignature, ReleaseSignature, WalletVouches, storage
    <2>2. ASSUME NEW p \in Uid
          PROVE  /\ TotalSold(p)' = TotalSold(p)
                 /\ TotalFee(p)' = TotalFee(p)
                 /\ TotalBought(p)' = TotalBought(p)
        BY <1>2 DEF pending, TotalSold, TotalFee, TotalBought
    <2>. QED
        BY <1>2, <2>1, <2>2, LedgerSameTotals DEF IInv
<1>. QED
    BY <1>1, <1>3, <1>4, <1>5 DEF IInv

LEMMA IInvSettleStep ==
    ASSUME IInv, NEW o \in Uid, SettleStep(o)
    PROVE  IInv'
<1>. USE DEF IInv
<1>1. TypeOK'
    BY TypeSettleStep
<1>2. CASE freeFilledAmountStorage(o)
    <2>1. UNCHANGED <<history, pending, swapping, phase, now, saved>>
        BY <1>2 DEF freeFilledAmountStorage
    <2>2. ~(now <= order[o].validTo)
        BY <1>2, OrderType DEF freeFilledAmountStorage, MayFree, TypeOK
    <2>3. ASSUME NEW p \in Uid
          PROVE  /\ TotalSold(p)' = TotalSold(p)
                 /\ TotalFee(p)' = TotalFee(p)
                 /\ TotalBought(p)' = TotalBought(p)
                 /\ \/ filledAmount'[p] = filledAmount[p] /\ (p \in cancelled' <=> p \in cancelled)
                    \/ ~(now <= order[p].validTo)
        BY <1>2, <2>1, <2>2
           DEF freeFilledAmountStorage, history, pending, TotalSold, TotalFee,
               TotalBought, TypeOK
    <2>4. LedgerOK'
        BY <2>1, <2>3, LedgerSameTotals
    <2>. QED
        BY <1>1, <2>1, <2>4, SavedFrame DEF OwedOK, SwapOK, pending, swapping, Zero
<1>3. CASE freePreSignatureStorage(o)
    <2>1. UNCHANGED <<filledAmount, history, pending, swapping, phase, now, saved>>
        BY <1>3 DEF freePreSignatureStorage
    <2>2. LedgerOK'
        BY <2>1, LedgerFrame DEF ledgerState, history, pending
    <2>. QED
        BY <1>1, <2>1, <2>2, SavedFrame DEF OwedOK, SwapOK, pending, swapping, Zero
<1>4. ASSUME NEW x \in Price, NEW y \in Price, NEW a \in Amount,
             computeTradeExecution(o, x, y, a)
      PROVE  IInv'
    <2>1. phase = "trades" /\ UNCHANGED <<swapping, phase, now, saved>>
        BY <1>4 DEF computeTradeExecution
    <2>2. LedgerOK'
        BY <1>4, TradeKeepsLedger
    <2>. QED
        BY <1>1, <2>1, <2>2, SavedFrame DEF OwedOK, SwapOK, swapping
<1>5. CASE transferFromAccounts(o)
    <2>1. phase = "in" /\ UNCHANGED <<filledAmount, bought, cancelled, outBuy,
                                      swapping, phase, now, saved>>
        BY <1>5 DEF transferFromAccounts, storage
    <2>2. ASSUME NEW p \in Uid
          PROVE  /\ TotalSold(p)' = TotalSold(p)
                 /\ TotalFee(p)' = TotalFee(p)
                 /\ TotalBought(p)' = TotalBought(p)
        BY <1>5, <2>1
           DEF transferFromAccounts, TotalSold, TotalFee, TotalBought, TypeOK
    <2>3. LedgerOK'
        BY <2>1, <2>2, LedgerSameTotals
    <2>. QED
        BY <1>1, <2>1, <2>3, SavedFrame DEF OwedOK, SwapOK, swapping
<1>6. CASE transferToAccounts(o)
    <2>1. phase = "out" /\ UNCHANGED <<filledAmount, sold, fees, cancelled, inSell, inFee,
                                       swapping, phase, now, saved>>
        BY <1>6 DEF transferToAccounts, storage
    <2>2. ASSUME NEW p \in Uid
          PROVE  /\ TotalSold(p)' = TotalSold(p)
                 /\ TotalFee(p)' = TotalFee(p)
                 /\ TotalBought(p)' = TotalBought(p)
        BY <1>6, <2>1
           DEF transferToAccounts, TotalSold, TotalFee, TotalBought, TypeOK
    <2>3. LedgerOK'
        BY <2>1, <2>2, LedgerSameTotals
    <2>. QED
        BY <1>1, <2>1, <2>3, SavedFrame DEF OwedOK, SwapOK, swapping, Zero
<1>7. ASSUME NEW limit \in Amount, swap(o, limit)
      PROVE  IInv'
    <2>1. /\ phase' = "swap" /\ phase = "idle" /\ swapUid' = o /\ swapLimit' = limit
          /\ Enter("swap")
          /\ UNCHANGED <<storage, history, pending, now>>
        BY <1>7 DEF swap, Enter
    <2>2. LedgerOK'
        BY <2>1, LedgerFrame DEF ledgerState, storage, history, pending
    <2>3. SavedOK'
        BY <2>1, SavedEnter DEF storage, history
    <2>4. OwedOK'
        BY <2>1 DEF OwedOK, pending, Zero
    <2>5. SwapOK'
        BY <1>7, <2>1 DEF SwapOK, swap
    <2>. QED
        BY <1>1, <2>2, <2>3, <2>4, <2>5
<1>. QED
    BY <1>2, <1>3, <1>4, <1>5, <1>6, <1>7 DEF SettleStep

LEMMA IInvOtherStep ==
    ASSUME IInv,
           \/ settle
           \/ settlePhases
           \/ finishSettle
           \/ \E sellDelta, buyDelta \in Amount : batchSwapWithFee(sellDelta, buyDelta)
           \/ finishSwap
           \/ Revert
           \/ Tick
    PROVE  IInv'
<1>. USE DEF IInv
<1>1. TypeOK'
    BY TypeOtherStep
<1>2. CASE settle
    <2>1. /\ Enter("pre") /\ phase' = "pre" /\ phase = "idle"
          /\ UNCHANGED <<storage, history, pending, now>>
        BY <1>2 DEF settle, Enter
    <2>2. LedgerOK'
        BY <2>1, LedgerFrame DEF ledgerState, storage, history, pending
    <2>3. SavedOK'
        BY <2>1, SavedEnter DEF storage, history
    <2>4. OwedOK' /\ SwapOK'
        BY <2>1 DEF OwedOK, SwapOK, pending, Zero
    <2>. QED
        BY <1>1, <2>2, <2>3, <2>4
<1>3. CASE settlePhases
    <2>1. UNCHANGED <<storage, history, pending, swapping, now, saved>>
        BY <1>3 DEF settlePhases, Advance
    <2>2. LedgerOK'
        BY <2>1, LedgerFrame DEF ledgerState, storage, history, pending
    <2>3. SavedOK'
        BY <1>3, <2>1, SavedFrame DEF settlePhases, Advance
    <2>4. OwedOK' /\ SwapOK'
        BY <1>3, <2>1
           DEF settlePhases, Advance, OwedOK, SwapOK, InDone, OutDone, pending, Zero
    <2>. QED
        BY <1>1, <2>2, <2>3, <2>4
<1>4. CASE finishSettle
    <2>1. phase = "post" /\ phase' = "idle" /\ UNCHANGED <<storage, history, pending, now>>
        BY <1>4 DEF finishSettle
    <2>2. LedgerOK'
        BY <2>1, LedgerFrame DEF ledgerState, storage, history, pending
    <2>3. OwedOK' /\ SwapOK' /\ SavedOK'
        BY <2>1 DEF OwedOK, SwapOK, SavedOK, pending, Zero
    <2>. QED
        BY <1>1, <2>2, <2>3
<1>5. ASSUME NEW sd \in Amount, NEW bd \in Amount, batchSwapWithFee(sd, bd)
      PROVE  IInv'
    <2>1. /\ phase = "swap" /\ phase' = "swapped"
          /\ UNCHANGED <<storage, history, pending, swapUid, swapLimit, now, saved>>
        BY <1>5 DEF batchSwapWithFee
    <2>2. LedgerOK'
        BY <2>1, LedgerFrame DEF ledgerState, storage, history, pending
    <2>3. SavedOK' /\ OwedOK'
        BY <2>1, SavedFrame DEF OwedOK, pending, Zero
    <2>4. SwapOK'
        BY <1>5, <2>1 DEF batchSwapWithFee, SwapOK
    <2>. QED
        BY <1>1, <2>2, <2>3, <2>4
<1>6. CASE finishSwap
    <2>1. swapUid \in Uid /\ phase = "swapped" /\ phase' = "idle" /\ UNCHANGED pending
        BY <1>6 DEF finishSwap, TypeOK
    <2>2. LedgerOK'
        BY <1>6, <2>1, SwapKeepsLedger
    <2>3. OwedOK' /\ SwapOK' /\ SavedOK'
        BY <2>1 DEF OwedOK, SwapOK, SavedOK, pending, Zero
    <2>. QED
        BY <1>1, <2>2, <2>3
<1>7. CASE Revert
    <2>1. /\ phase # "idle" /\ phase' = "idle" /\ now' = now
          /\ inSell' = Zero /\ inFee' = Zero /\ outBuy' = Zero
          /\ filledAmount' = saved.filledAmount /\ cancelled' = saved.cancelled
          /\ sold' = saved.sold /\ fees' = saved.fees /\ bought' = saved.bought
        BY <1>7 DEF Revert
    <2>2. ASSUME NEW o \in Uid
          PROVE  /\ WithinLedger(o, TotalSold(o), TotalFee(o), TotalBought(o))'
                 /\ FillMatches(o, filledAmount[o], o \in cancelled,
                                TotalSold(o), TotalBought(o))'
        <3>1. /\ TotalSold(o)' = saved.sold[o] /\ TotalFee(o)' = saved.fees[o]
              /\ TotalBought(o)' = saved.bought[o]
            BY <2>1 DEF TotalSold, TotalFee, TotalBought, TypeOK, Zero
        <3>2. /\ WithinLedger(o, saved.sold[o], saved.fees[o], saved.bought[o])
              /\ FillMatches(o, saved.filledAmount[o], o \in saved.cancelled,
                             saved.sold[o], saved.bought[o])
            BY <2>1 DEF SavedOK
        <3>. QED
            BY <2>1, <3>1, <3>2 DEF WithinLedger, FillMatches, Executed, Target
    <2>3. LedgerOK'
        BY <2>2 DEF LedgerOK
    <2>4. OwedOK' /\ SwapOK' /\ SavedOK'
        BY <2>1 DEF OwedOK, SwapOK, SavedOK, Zero
    <2>. QED
        BY <1>1, <2>3, <2>4
<1>8. CASE Tick
    <2>1. /\ phase = "idle" /\ now \in Nat /\ now' = now + 1
          /\ UNCHANGED <<storage, history, pending, phase>>
        BY <1>8 DEF Tick, TypeOK
    <2>2. ASSUME NEW o \in Uid
          PROVE  /\ WithinLedger(o, TotalSold(o), TotalFee(o), TotalBought(o))'
                 /\ FillMatches(o, filledAmount[o], o \in cancelled,
                                TotalSold(o), TotalBought(o))'
        <3>1. /\ TotalSold(o)' = TotalSold(o) /\ TotalFee(o)' = TotalFee(o)
              /\ TotalBought(o)' = TotalBought(o)
              /\ UNCHANGED <<filledAmount, cancelled>>
            BY <2>1 DEF TotalSold, TotalFee, TotalBought, storage, history, pending
        <3>2. now + 1 <= order[o].validTo => now <= order[o].validTo
            BY <2>1, OrderType
        <3>3. WithinLedger(o, TotalSold(o), TotalFee(o), TotalBought(o))'
            BY <3>1 DEF LedgerOK, WithinLedger, Executed, Target
        <3>4. FillMatches(o, filledAmount[o], o \in cancelled, TotalSold(o), TotalBought(o))
            BY DEF LedgerOK
        <3>5. FillMatches(o, filledAmount[o], o \in cancelled, TotalSold(o), TotalBought(o))'
            BY <2>1, <3>1, <3>2, <3>4 DEF FillMatches, Executed
        <3>. QED
            BY <3>3, <3>5
    <2>3. LedgerOK'
        BY <2>2 DEF LedgerOK
    <2>4. OwedOK' /\ SwapOK' /\ SavedOK'
        BY <2>1 DEF OwedOK, SwapOK, SavedOK, pending, Zero
    <2>. QED
        BY <1>1, <2>3, <2>4
<1>. QED
    BY <1>2, <1>3, <1>4, <1>5, <1>6, <1>7, <1>8

LEMMA IInvNext == IInv /\ [Next]_vars => IInv'
<1>. SUFFICES ASSUME IInv, [Next]_vars
              PROVE  IInv'
    OBVIOUS
<1>1. CASE UNCHANGED vars
    <2>1. TypeOK'
        BY <1>1, TypeNext DEF IInv
    <2>2. LedgerOK'
        BY <1>1, LedgerFrame DEF IInv, vars, ledgerState, storage, history, pending
    <2>3. SavedOK'
        BY <1>1, SavedFrame DEF IInv, vars
    <2>. QED
        BY <1>1, <2>1, <2>2, <2>3
           DEF IInv, vars, OwedOK, SwapOK, pending, swapping, Zero
<1>2. CASE Next
    BY <1>2, IInvOwnerCall, IInvSettleStep, IInvOtherStep DEF Next
<1>. QED
    BY <1>1, <1>2

LEMMA IInvAlways == Spec => []IInv
BY IInvInit, IInvNext, PTL DEF Spec

-----------------------------------------------------------------------------
(* The properties.                                                         *)

(* For any set of orders: while an order can trade, filledAmount is what   *)
(* it has executed, or marks it cancelled, whatever interleaves.           *)
THEOREM FillCorrect == Spec => []FillTracksLedger
<1>1. IInv => FillTracksLedger
    BY DEF IInv, LedgerOK, FillMatches, FillTracksLedger
<1>. QED
    BY <1>1, IInvAlways, PTL

(* For any orders, prices and partial fills: no owner ever gives more than *)
(* the signed amounts or trades below the limit price.                     *)
THEOREM OwnersProtected == Spec => []OwnerProtected
<1>1. IInv => OwnerProtected
    <2>. SUFFICES ASSUME IInv, NEW o \in Uid
                  PROVE  /\ TotalSold(o) <= order[o].sellAmount
                         /\ TotalFee(o) <= order[o].feeAmount
                         /\ order[o].kind = "buy" => TotalBought(o) <= order[o].buyAmount
                         /\ TotalSold(o) * order[o].buyAmount
                              <= TotalBought(o) * order[o].sellAmount
        BY DEF OwnerProtected
    <2>1. TotalSold(o) \in Nat /\ TotalFee(o) \in Nat /\ TotalBought(o) \in Nat
        BY DEF IInv, TypeOK, TotalSold, TotalFee, TotalBought
    <2>2. WithinLedger(o, TotalSold(o), TotalFee(o), TotalBought(o))
        BY DEF IInv, LedgerOK
    <2>. QED
        BY <2>1, <2>2, LedgerProtects
<1>. QED
    BY <1>1, IInvAlways, PTL

-----------------------------------------------------------------------------
(* What a running transaction has done since it began: the totals only     *)
(* grow, and only for orders that were live when it began.                 *)

Touched(o) ==
    /\ o \notin saved.cancelled
    /\ now <= order[o].validTo

SinceBegin ==
    phase # "idle" =>
        /\ saved.cancelled \subseteq cancelled
        /\ \A o \in Uid :
              /\ saved.sold[o] <= TotalSold(o)
              /\ saved.fees[o] <= TotalFee(o)
              /\ saved.bought[o] <= TotalBought(o)
              /\ \/ /\ TotalSold(o) = saved.sold[o]
                    /\ TotalFee(o) = saved.fees[o]
                    /\ TotalBought(o) = saved.bought[o]
                 \/ Touched(o)

(* How a step inside a transaction changes an order's totals.              *)
Grows(o) ==
    \/ /\ TotalSold(o)' = TotalSold(o)
       /\ TotalFee(o)' = TotalFee(o)
       /\ TotalBought(o)' = TotalBought(o)
    \/ /\ TotalSold(o)' >= TotalSold(o)
       /\ TotalFee(o)' >= TotalFee(o)
       /\ TotalBought(o)' >= TotalBought(o)
       /\ o \notin cancelled
       /\ now <= order[o].validTo

LEMMA TradeGrows ==
    ASSUME TypeOK, LedgerOK, NEW o \in Uid, NEW x \in Price, NEW y \in Price,
           NEW a \in Amount, computeTradeExecution(o, x, y, a), NEW p \in Uid
    PROVE  Grows(p)
<1>1. PICK e \in Amount, ds \in Nat, df \in Nat, db \in Nat :
           /\ inSell' = [inSell EXCEPT ![o] = @ + ds]
           /\ inFee' = [inFee EXCEPT ![o] = @ + df]
           /\ outBuy' = [outBuy EXCEPT ![o] = @ + db]
           /\ now <= order[o].validTo
           /\ filledAmount[o] = MaxUint => ds = 0 /\ df = 0 /\ db = 0
    BY TradeStep
<1>2. UNCHANGED <<sold, fees, bought>>
    BY DEF computeTradeExecution, history
<1>3. CASE p # o
    BY <1>1, <1>2, <1>3 DEF Grows, TotalSold, TotalFee, TotalBought, TypeOK
<1>4. CASE p = o
    <2>1. /\ TotalSold(o) \in Nat /\ TotalFee(o) \in Nat /\ TotalBought(o) \in Nat
          /\ TotalSold(o)' = TotalSold(o) + ds
          /\ TotalFee(o)' = TotalFee(o) + df
          /\ TotalBought(o)' = TotalBought(o) + db
        BY <1>1, <1>2 DEF TotalSold, TotalFee, TotalBought, TypeOK
    <2>2. o \in cancelled => filledAmount[o] = MaxUint
        BY <1>1 DEF LedgerOK, FillMatches
    <2>3. CASE o \in cancelled
        BY <1>1, <1>4, <2>1, <2>2, <2>3 DEF Grows
    <2>4. CASE o \notin cancelled
        BY <1>1, <1>4, <2>1, <2>4 DEF Grows
    <2>. QED
        BY <2>3, <2>4
<1>. QED
    BY <1>3, <1>4

LEMMA SwapGrows ==
    ASSUME TypeOK, LedgerOK, SwapOK, NEW o \in Uid, o = swapUid, finishSwap, NEW p \in Uid
    PROVE  Grows(p)
<1>1. /\ sold' = [sold EXCEPT ![o] = @ + swapSell]
      /\ fees' = [fees EXCEPT ![o] = @ + order[o].feeAmount]
      /\ bought' = [bought EXCEPT ![o] = @ + swapBuy]
      /\ filledAmount[o] = 0
      /\ now <= order[o].validTo
      /\ UNCHANGED <<inSell, inFee, outBuy>>
    BY DEF finishSwap, pending, SwapOK
<1>2. o \notin cancelled
    BY <1>1, BoundAssumption DEF LedgerOK, FillMatches
<1>3. swapSell \in Nat /\ swapBuy \in Nat /\ order[o].feeAmount \in Nat
    BY OrderType, BoundAssumption DEF TypeOK, Amount
<1>4. CASE p # o
    BY <1>1, <1>4 DEF Grows, TotalSold, TotalFee, TotalBought, TypeOK
<1>5. CASE p = o
    <2>1. /\ TotalSold(o) \in Nat /\ TotalFee(o) \in Nat /\ TotalBought(o) \in Nat
          /\ TotalSold(o)' = TotalSold(o) + swapSell
          /\ TotalFee(o)' = TotalFee(o) + order[o].feeAmount
          /\ TotalBought(o)' = TotalBought(o) + swapBuy
        BY <1>1, <1>3 DEF TotalSold, TotalFee, TotalBought, TypeOK
    <2>. QED
        BY <1>1, <1>2, <1>3, <1>5, <2>1 DEF Grows
<1>. QED
    BY <1>4, <1>5

(* Every step but a Revert lets an order's totals only grow, and only      *)
(* while the order is live.                                                *)
LEMMA StepGrows ==
    ASSUME IInv, [Next]_vars, ~Revert, NEW p \in Uid
    PROVE  Grows(p)
<1>. USE DEF IInv
<1>1. CASE UNCHANGED <<sold, fees, bought, inSell, inFee, outBuy>>
    BY <1>1 DEF Grows, TotalSold, TotalFee, TotalBought
<1>2. ASSUME NEW o \in Uid, NEW x \in Price, NEW y \in Price, NEW a \in Amount,
             computeTradeExecution(o, x, y, a)
      PROVE  Grows(p)
    BY <1>2, TradeGrows
<1>3. ASSUME NEW o \in Uid, transferFromAccounts(o)
      PROVE  Grows(p)
    <2>1. UNCHANGED <<bought, outBuy>>
        BY <1>3 DEF transferFromAccounts
    <2>2. TotalSold(p)' = TotalSold(p) /\ TotalFee(p)' = TotalFee(p)
        BY <1>3 DEF transferFromAccounts, TotalSold, TotalFee, TypeOK
    <2>. QED
        BY <2>1, <2>2 DEF Grows, TotalBought
<1>4. ASSUME NEW o \in Uid, transferToAccounts(o)
      PROVE  Grows(p)
    <2>1. UNCHANGED <<sold, fees, inSell, inFee>>
        BY <1>4 DEF transferToAccounts
    <2>2. TotalBought(p)' = TotalBought(p)
        BY <1>4 DEF transferToAccounts, TotalBought, TypeOK
    <2>. QED
        BY <2>1, <2>2 DEF Grows, TotalSold, TotalFee
<1>5. CASE finishSwap
    <2>1. swapUid \in Uid
        BY <1>5 DEF finishSwap, TypeOK
    <2>. QED
        BY <1>5, <2>1, SwapGrows
<1>6. ASSUME NEW o \in Uid, OwnerCall(o)
      PROVE  Grows(p)
    <2>1. UNCHANGED <<sold, fees, bought, pending>>
        BY <1>6 DEF OwnerCall, invalidateOrder, setPreSignature, ReleaseSignature,
                    WalletVouches
    <2>. QED
        BY <1>1, <2>1 DEF pending
<1>7. ASSUME NEW o \in Uid, SettleStep(o)
      PROVE  Grows(p)
    <2>1. CASE freeFilledAmountStorage(o) \/ freePreSignatureStorage(o)
        BY <1>1, <2>1 DEF freeFilledAmountStorage, freePreSignatureStorage, history, pending
    <2>2. CASE \E limit \in Amount : swap(o, limit)
        BY <1>1, <2>2 DEF swap, history, pending
    <2>. QED
        BY <1>2, <1>3, <1>4, <1>7, <2>1, <2>2 DEF SettleStep
<1>8. CASE settle \/ settlePhases \/ finishSettle \/ Tick
           \/ \E sellDelta, buyDelta \in Amount : batchSwapWithFee(sellDelta, buyDelta)
    BY <1>1, <1>8 DEF settle, settlePhases, Advance, finishSettle, Tick,
                      batchSwapWithFee, history, pending
<1>9. CASE UNCHANGED vars
    BY <1>1, <1>9 DEF vars, history, pending
<1>. QED
    BY <1>5, <1>6, <1>7, <1>8, <1>9 DEF Next

(* The steps by what they do to the transaction frame.                     *)
LEMMA FrameSteps ==
    ASSUME TypeOK, [Next]_vars, ~Revert
    PROVE  /\ cancelled \subseteq cancelled'
           /\ Tick \/ now' = now
           /\ \/ /\ phase = "idle" /\ phase' # "idle"
                 /\ saved' = [filledAmount |-> filledAmount, preSignature |-> preSignature,
                              wallet1271 |-> wallet1271, sold |-> sold, fees |-> fees,
                              bought |-> bought, cancelled |-> cancelled,
                              consented |-> consented]
                 /\ UNCHANGED <<history, pending, now>>
              \/ phase # "idle" /\ UNCHANGED <<saved, now>>
              \/ phase # "idle" /\ phase' = "idle" /\ UNCHANGED now
              \/ phase = "idle" /\ phase' = "idle" /\ UNCHANGED <<sold, fees, bought, pending>>
<1>1. CASE UNCHANGED vars
    BY <1>1 DEF vars, history, pending
<1>2. ASSUME NEW o \in Uid, OwnerCall(o)
      PROVE  /\ cancelled \subseteq cancelled'
             /\ UNCHANGED <<now, phase, saved, sold, fees, bought, pending>>
    BY <1>2 DEF OwnerCall, invalidateOrder, setPreSignature, ReleaseSignature,
                WalletVouches
<1>3. ASSUME NEW o \in Uid, SettleStep(o), ~(\E limit \in Amount : swap(o, limit))
      PROVE  phase # "idle" /\ UNCHANGED <<saved, now, cancelled>>
    BY <1>3 DEF SettleStep, freeFilledAmountStorage, freePreSignatureStorage, MayFree,
                Interacting, computeTradeExecution, transferFromAccounts,
                transferToAccounts, history
<1>4. ASSUME NEW o \in Uid, NEW limit \in Amount, swap(o, limit)
      PROVE  /\ phase = "idle" /\ phase' # "idle" /\ Enter("swap")
             /\ UNCHANGED <<history, pending, now>>
    BY <1>4 DEF swap, Enter
<1>5. CASE settle
    BY <1>5 DEF settle, Enter, history
<1>6. CASE settlePhases
    BY <1>6 DEF settlePhases, Advance, history
<1>7. CASE finishSettle \/ finishSwap
    BY <1>7 DEF finishSettle, finishSwap, history
<1>8. ASSUME NEW sd \in Amount, NEW bd \in Amount, batchSwapWithFee(sd, bd)
      PROVE  phase # "idle" /\ UNCHANGED <<saved, now, cancelled>>
    BY <1>8 DEF batchSwapWithFee, history
<1>9. CASE Tick
    BY <1>9 DEF Tick, history
<1>10. CASE \E o \in Uid : OwnerCall(o) \/ SettleStep(o)
    <2>1. PICK o \in Uid : OwnerCall(o) \/ SettleStep(o)
        BY <1>10
    <2>2. CASE OwnerCall(o)
        BY <1>2, <2>2
    <2>3. CASE \E limit \in Amount : swap(o, limit)
        BY <1>4, <2>3 DEF Enter, history
    <2>4. CASE SettleStep(o) /\ ~(\E limit \in Amount : swap(o, limit))
        BY <1>3, <2>4
    <2>. QED
        BY <2>1, <2>2, <2>3, <2>4
<1>. QED
    BY <1>1, <1>5, <1>6, <1>7, <1>8, <1>9, <1>10 DEF Next

(* Totals of an order never shrink over two consecutive growths.           *)
LEMMA SinceBeginNext ==
    ASSUME IInv, SinceBegin, [Next]_vars
    PROVE  SinceBegin'
<1>. USE DEF IInv
<1>1. CASE Revert
    BY <1>1 DEF Revert, SinceBegin
<1>2. CASE ~Revert /\ phase' # "idle"
    <2>1. TypeOK'
        BY TypeNext
    <2>2. ASSUME NEW o \in Uid
          PROVE  /\ TotalSold(o) \in Nat /\ TotalSold(o)' \in Nat
                 /\ TotalFee(o) \in Nat /\ TotalFee(o)' \in Nat
                 /\ TotalBought(o) \in Nat /\ TotalBought(o)' \in Nat
                 /\ saved.sold[o] \in Nat /\ saved.fees[o] \in Nat /\ saved.bought[o] \in Nat
        BY <2>1 DEF TypeOK, TotalSold, TotalFee, TotalBought
    <2>3. CASE phase = "idle"
        <3>1. /\ saved'.sold = sold /\ saved'.fees = fees /\ saved'.bought = bought
              /\ saved'.cancelled = cancelled /\ cancelled' = cancelled
              /\ UNCHANGED <<sold, fees, bought, inSell, inFee, outBuy>>
            BY <1>2, <2>3, FrameSteps DEF history, pending
        <3>2. inSell = Zero /\ inFee = Zero /\ outBuy = Zero
            BY <2>3 DEF OwedOK
        <3>. QED
            BY <3>1, <3>2 DEF SinceBegin, TotalSold, TotalFee, TotalBought, TypeOK, Zero
    <2>4. CASE phase # "idle"
        <3>1. UNCHANGED <<saved, now>> /\ cancelled \subseteq cancelled'
            BY <1>2, <2>4, FrameSteps
        <3>2. ASSUME NEW o \in Uid
              PROVE  /\ saved.sold[o] <= TotalSold(o)'
                     /\ saved.fees[o] <= TotalFee(o)'
                     /\ saved.bought[o] <= TotalBought(o)'
                     /\ \/ /\ TotalSold(o)' = saved.sold[o]
                           /\ TotalFee(o)' = saved.fees[o]
                           /\ TotalBought(o)' = saved.bought[o]
                        \/ Touched(o)
            <4>1. Grows(o)
                BY <1>2, StepGrows
            <4>2. saved.cancelled \subseteq cancelled
                BY <2>4 DEF SinceBegin
            <4>3. CASE UNCHANGED <<TotalSold(o), TotalFee(o), TotalBought(o)>>
                BY <2>4, <4>3 DEF SinceBegin
            <4>4. CASE ~UNCHANGED <<TotalSold(o), TotalFee(o), TotalBought(o)>>
                <5>1. /\ TotalSold(o)' >= TotalSold(o) /\ TotalFee(o)' >= TotalFee(o)
                      /\ TotalBought(o)' >= TotalBought(o)
                      /\ o \notin cancelled /\ now <= order[o].validTo
                    BY <4>1, <4>4 DEF Grows
                <5>2. Touched(o)
                    BY <4>2, <5>1 DEF Touched
                <5>3. /\ saved.sold[o] <= TotalSold(o) /\ saved.fees[o] <= TotalFee(o)
                      /\ saved.bought[o] <= TotalBought(o)
                    BY <2>4 DEF SinceBegin
                <5>. QED
                    BY <2>2, <5>1, <5>2, <5>3
            <4>. QED
                BY <4>3, <4>4
        <3>3. ASSUME NEW o \in Uid
              PROVE  Touched(o)' <=> Touched(o)
            BY <3>1 DEF Touched
        <3>4. (saved.cancelled \subseteq cancelled)'
            BY <2>4, <3>1 DEF SinceBegin
        <3>. QED
            BY <3>1, <3>2, <3>3, <3>4 DEF SinceBegin
    <2>. QED
        BY <2>3, <2>4
<1>3. CASE phase' = "idle"
    BY <1>3 DEF SinceBegin
<1>. QED
    BY <1>1, <1>2, <1>3

LEMMA SinceBeginAlways == Spec => []SinceBegin
<1>1. Init => SinceBegin
    BY DEF Init, SinceBegin
<1>2. IInv /\ SinceBegin /\ [Next]_vars => SinceBegin'
    BY SinceBeginNext
<1>. QED
    BY <1>1, <1>2, IInvAlways, PTL DEF Spec

(* For any orders: a cancelled order's totals never change again, not even *)
(* when the cancellation happens inside a settlement or swap of the order. *)
THEOREM CancelsAreFinal == Spec => CancelIsFinal
<1>1. IInv /\ SinceBegin /\ [Next]_vars =>
          [\A o \in Uid :
              o \in cancelled /\ o \in cancelled' =>
                  /\ TotalSold(o)' = TotalSold(o)
                  /\ TotalFee(o)' = TotalFee(o)
                  /\ TotalBought(o)' = TotalBought(o)]_vars
    <2>. SUFFICES ASSUME IInv, SinceBegin, [Next]_vars, NEW o \in Uid,
                         o \in cancelled, o \in cancelled'
                  PROVE  /\ TotalSold(o)' = TotalSold(o)
                         /\ TotalFee(o)' = TotalFee(o)
                         /\ TotalBought(o)' = TotalBought(o)
        OBVIOUS
    <2>1. CASE Revert
        <3>1. /\ TotalSold(o)' = saved.sold[o] /\ TotalFee(o)' = saved.fees[o]
              /\ TotalBought(o)' = saved.bought[o]
            BY <2>1 DEF Revert, IInv, TypeOK, TotalSold, TotalFee, TotalBought, Zero
        <3>2. o \in saved.cancelled /\ phase # "idle"
            BY <2>1 DEF Revert
        <3>. QED
            BY <3>1, <3>2 DEF SinceBegin, Touched
    <2>2. CASE ~Revert
        BY <2>2, StepGrows DEF Grows
    <2>. QED
        BY <2>1, <2>2
<1>. QED
    BY <1>1, IInvAlways, SinceBeginAlways, PTL DEF Spec, CancelIsFinal

-----------------------------------------------------------------------------
(* Settlement implements OrderPromise.                                     *)

(* The committed history, as the refinement mapping names it.              *)
cSold == Committed(sold, saved.sold)
cFees == Committed(fees, saved.fees)
cBought == Committed(bought, saved.bought)
cCancelled == Committed(cancelled, saved.cancelled)
cVars == <<cSold, cFees, cBought, cCancelled, now>>

LEMMA PromiseInit == Init => Promise!Init
BY DEF Init, Promise!Init, Committed, Zero

(* A transaction that ends without reverting is one step of the promise.   *)
LEMMA CommitIsTransaction ==
    ASSUME IInv, SinceBegin, [Next]_vars, ~Revert, phase # "idle", phase' = "idle"
    PROVE  Promise!Transaction
<1>. USE DEF IInv
<1>1. TypeOK' /\ LedgerOK' /\ OwedOK'
    BY IInvNext
<1>2. now' = now /\ cancelled \subseteq cancelled'
    BY FrameSteps DEF Tick
<1>3. ASSUME NEW o \in Uid
      PROVE  /\ sold'[o] = TotalSold(o)' /\ fees'[o] = TotalFee(o)'
             /\ bought'[o] = TotalBought(o)'
             /\ sold'[o] \in Nat /\ fees'[o] \in Nat /\ bought'[o] \in Nat
             /\ TotalSold(o) \in Nat /\ TotalFee(o) \in Nat /\ TotalBought(o) \in Nat
             /\ saved.sold[o] \in Nat /\ saved.fees[o] \in Nat /\ saved.bought[o] \in Nat
    BY <1>1 DEF OwedOK, TotalSold, TotalFee, TotalBought, TypeOK, Zero
<1>4. ASSUME NEW o \in Uid
      PROVE  \/ /\ sold'[o] = saved.sold[o] /\ fees'[o] = saved.fees[o]
                /\ bought'[o] = saved.bought[o]
             \/ /\ Touched(o)
                /\ sold'[o] >= saved.sold[o] /\ fees'[o] >= saved.fees[o]
                /\ bought'[o] >= saved.bought[o]
    <2>1. Grows(o)
        BY StepGrows
    <2>2. /\ saved.cancelled \subseteq cancelled
          /\ saved.sold[o] <= TotalSold(o) /\ saved.fees[o] <= TotalFee(o)
          /\ saved.bought[o] <= TotalBought(o)
          /\ \/ /\ TotalSold(o) = saved.sold[o] /\ TotalFee(o) = saved.fees[o]
                /\ TotalBought(o) = saved.bought[o]
             \/ Touched(o)
        BY DEF SinceBegin
    <2>3. CASE UNCHANGED <<TotalSold(o), TotalFee(o), TotalBought(o)>>
        BY <1>3, <2>2, <2>3
    <2>4. CASE ~UNCHANGED <<TotalSold(o), TotalFee(o), TotalBought(o)>>
        <3>1. /\ TotalSold(o)' >= TotalSold(o) /\ TotalFee(o)' >= TotalFee(o)
              /\ TotalBought(o)' >= TotalBought(o)
              /\ o \notin cancelled /\ now <= order[o].validTo
            BY <2>1, <2>4 DEF Grows
        <3>2. Touched(o)
            BY <2>2, <3>1 DEF Touched
        <3>. QED
            BY <1>3, <2>2, <3>1, <3>2
    <2>. QED
        BY <2>3, <2>4
<1>5. ASSUME NEW o \in Uid
      PROVE  Promise!WithinTerms(o, sold'[o], fees'[o], bought'[o])
    <2>1. WithinLedger(o, sold'[o], fees'[o], bought'[o])
        <3>1. WithinLedger(o, TotalSold(o), TotalFee(o), TotalBought(o))'
            BY <1>1 DEF LedgerOK
        <3>. QED
            BY <1>3, <3>1 DEF WithinLedger, Executed, Target
    <2>. QED
        BY <1>3, <2>1, LedgerProtects DEF Promise!WithinTerms
<1>6. /\ cSold = saved.sold /\ cSold' = sold' /\ cFees = saved.fees /\ cFees' = fees'
      /\ cBought = saved.bought /\ cBought' = bought'
      /\ cCancelled = saved.cancelled /\ cCancelled' = cancelled'
    BY DEF cSold, cFees, cBought, cCancelled, Committed
<1>7. saved.cancelled \subseteq cancelled'
    BY <1>2 DEF SinceBegin
<1>8. ASSUME NEW o \in Uid
      PROVE  Promise!Untouched(o) \/ Promise!Filled(o)
    <2>1. CASE sold'[o] = saved.sold[o] /\ fees'[o] = saved.fees[o]
               /\ bought'[o] = saved.bought[o]
        BY <1>6, <2>1 DEF Promise!Untouched, cSold, cFees, cBought
    <2>2. CASE Touched(o) /\ sold'[o] >= saved.sold[o] /\ fees'[o] >= saved.fees[o]
               /\ bought'[o] >= saved.bought[o]
        BY <1>5, <1>6, <2>2
           DEF Promise!Filled, Touched, cSold, cFees, cBought, cCancelled
    <2>. QED
        BY <1>4, <2>1, <2>2
<1>. QED
    BY <1>2, <1>6, <1>7, <1>8 DEF Promise!Transaction, cCancelled

LEMMA PromiseNext ==
    ASSUME IInv, SinceBegin, [Next]_vars
    PROVE  [Promise!Next]_(Promise!vars)
<1>. USE DEF IInv, Promise!vars, Committed
<1>1. CASE Revert
    BY <1>1 DEF Revert
<1>2. CASE ~Revert /\ phase = "idle" /\ phase' # "idle"
    <2>1. /\ saved'.sold = sold /\ saved'.fees = fees /\ saved'.bought = bought
          /\ saved'.cancelled = cancelled /\ now' = now
        BY <1>2, FrameSteps
    <2>. QED
        BY <1>2, <2>1
<1>3. CASE ~Revert /\ phase # "idle" /\ phase' # "idle"
    <2>1. UNCHANGED <<saved, now>>
        BY <1>3, FrameSteps
    <2>. QED
        BY <1>3, <2>1
<1>4. CASE ~Revert /\ phase # "idle" /\ phase' = "idle"
    BY <1>4, CommitIsTransaction DEF Promise!Next
<1>5. CASE ~Revert /\ phase = "idle" /\ phase' = "idle"
    <2>1. CASE Tick
        BY <1>5, <2>1 DEF Tick, Promise!Next, Promise!Tick, history
    <2>2. CASE ~Tick
        BY <1>5, <2>2, FrameSteps DEF Promise!Next, Promise!Transaction, Promise!Untouched
    <2>. QED
        BY <2>1, <2>2
<1>. QED
    BY <1>1, <1>2, <1>3, <1>4, <1>5

(* For any orders, prices and uint width: the contract, transactions,      *)
(* callbacks and reverts and all, implements the promise to order owners.  *)
THEOREM PromiseKept == Spec => ImplementsPromise
BY PromiseInit, PromiseNext, IInvAlways, SinceBeginAlways, PTL
   DEF Spec, ImplementsPromise, Promise!Spec

-----------------------------------------------------------------------------
(* Consent.  A Revert takes back a presignature made in the transaction,   *)
(* so the saved storage needs the same invariant as the current one.       *)

ConsentOK ==
    /\ released \subseteq consented
    /\ wallet1271 \subseteq consented
    /\ \A o \in Uid : preSignature[o] => o \in consented
    /\ TradedOnlyWithConsent
    /\ swapUid # NoUid => swapUid \in consented

SavedConsentOK ==
    phase # "idle" =>
        /\ released \subseteq saved.consented
        /\ saved.wallet1271 \subseteq saved.consented
        /\ \A o \in Uid : saved.preSignature[o] => o \in saved.consented
        /\ \A o \in Uid : saved.sold[o] + saved.bought[o] > 0 => o \in saved.consented

ConsentInv == ConsentOK /\ SavedConsentOK

(* Consent is never taken back but by a Revert.                            *)
LEMMA ConsentOwnerCall ==
    ASSUME TypeOK, ConsentInv, NEW o \in Uid, OwnerCall(o)
    PROVE  ConsentInv'
<1>. USE DEF ConsentInv, ConsentOK, SavedConsentOK, TradedOnlyWithConsent, TotalSold,
             TotalBought, pending, swapping, storage
<1>1. ASSUME NEW caller \in Account, invalidateOrder(caller, o)
      PROVE  ConsentInv'
    BY <1>1 DEF invalidateOrder
<1>2. ASSUME NEW caller \in Account, NEW signed \in BOOLEAN,
             setPreSignature(caller, o, signed)
      PROVE  ConsentInv'
    <2>1. signed => o \in consented'
        BY <1>2 DEF setPreSignature, OwnedBy
    <2>2. consented \subseteq consented'
        BY <1>2 DEF setPreSignature
    <2>3. \A p \in Uid : preSignature'[p] => p \in consented'
        BY <1>2, <2>1, <2>2 DEF setPreSignature, TypeOK
    <2>. QED
        BY <1>2, <2>2, <2>3 DEF setPreSignature
<1>3. ASSUME ReleaseSignature(o)
      PROVE  ConsentInv'
    BY <1>3 DEF ReleaseSignature
<1>4. ASSUME NEW vouches \in BOOLEAN, WalletVouches(o, vouches)
      PROVE  ConsentInv'
    BY <1>4 DEF WalletVouches
<1>. QED
    BY <1>1, <1>2, <1>3, <1>4 DEF OwnerCall

LEMMA ConsentSettleStep ==
    ASSUME TypeOK, OwedOK, ConsentInv, NEW o \in Uid, SettleStep(o)
    PROVE  ConsentInv'
<1>. USE DEF ConsentInv, ConsentOK, SavedConsentOK, TradedOnlyWithConsent, TotalSold,
             TotalBought
<1>1. CASE freeFilledAmountStorage(o)
    BY <1>1 DEF freeFilledAmountStorage, history, pending, swapping
<1>2. CASE freePreSignatureStorage(o)
    BY <1>2 DEF freePreSignatureStorage, history, pending, swapping, TypeOK
<1>3. ASSUME NEW x \in Price, NEW y \in Price, NEW a \in Amount,
             computeTradeExecution(o, x, y, a)
      PROVE  ConsentInv'
    <2>1. o \in consented
        BY <1>3 DEF computeTradeExecution, recoverOrderSigner
    <2>2. UNCHANGED <<preSignature, wallet1271, history, swapping, released,
                      phase, now, saved>>
        BY <1>3 DEF computeTradeExecution
    <2>3. \A p \in Uid : p # o => inSell'[p] = inSell[p] /\ outBuy'[p] = outBuy[p]
        BY <1>3 DEF computeTradeExecution, TypeOK
    <2>. QED
        BY <2>1, <2>2, <2>3 DEF history, swapping
<1>4. CASE transferFromAccounts(o)
    <2>1. \A p \in Uid : TotalSold(p)' = TotalSold(p)
        BY <1>4 DEF transferFromAccounts, TypeOK
    <2>. QED
        BY <1>4, <2>1 DEF transferFromAccounts, storage, swapping
<1>5. CASE transferToAccounts(o)
    <2>1. \A p \in Uid : TotalBought(p)' = TotalBought(p)
        BY <1>5 DEF transferToAccounts, TypeOK
    <2>. QED
        BY <1>5, <2>1 DEF transferToAccounts, storage, swapping
<1>6. ASSUME NEW limit \in Amount, swap(o, limit)
      PROVE  ConsentInv'
    <2>1. o \in consented
        BY <1>6 DEF swap, recoverOrderSigner
    <2>2. \A p \in Uid : TotalSold(p) = sold[p] /\ TotalBought(p) = bought[p]
        BY <1>6 DEF swap, Enter, OwedOK, Zero, TypeOK
    <2>3. UNCHANGED <<storage, history, pending, released>> /\ swapUid' = o
        BY <1>6 DEF swap
    <2>4. SavedConsentOK'
        BY <1>6, <2>2, <2>3 DEF swap, Enter, storage, history
    <2>5. ConsentOK'
        BY <2>1, <2>3 DEF storage, history, pending
    <2>. QED
        BY <2>4, <2>5
<1>. QED
    BY <1>1, <1>2, <1>3, <1>4, <1>5, <1>6 DEF SettleStep

LEMMA ConsentOtherStep ==
    ASSUME TypeOK, OwedOK, ConsentInv,
           \/ settle
           \/ settlePhases
           \/ finishSettle
           \/ \E sellDelta, buyDelta \in Amount : batchSwapWithFee(sellDelta, buyDelta)
           \/ finishSwap
           \/ Revert
           \/ Tick
    PROVE  ConsentInv'
<1>. USE DEF ConsentInv, ConsentOK, SavedConsentOK, TradedOnlyWithConsent, TotalSold,
             TotalBought
<1>1. CASE settle
    <2>1. \A p \in Uid : TotalSold(p) = sold[p] /\ TotalBought(p) = bought[p]
        BY <1>1 DEF settle, Enter, OwedOK, Zero, TypeOK
    <2>. QED
        BY <1>1, <2>1 DEF settle, Enter, storage, history, pending, swapping
<1>2. CASE settlePhases
    BY <1>2 DEF settlePhases, Advance, storage, history, pending, swapping
<1>3. CASE finishSettle
    BY <1>3 DEF finishSettle, storage, history, pending, swapping
<1>4. ASSUME NEW sd \in Amount, NEW bd \in Amount, batchSwapWithFee(sd, bd)
      PROVE  ConsentInv'
    BY <1>4 DEF batchSwapWithFee, storage, history, pending
<1>5. CASE finishSwap
    <2>1. swapUid \in consented /\ swapUid \in Uid
        BY <1>5, UidAssumption DEF finishSwap, TypeOK
    <2>2. \A p \in Uid : p # swapUid => sold'[p] = sold[p] /\ bought'[p] = bought[p]
        BY <1>5 DEF finishSwap, TypeOK
    <2>. QED
        BY <1>5, <2>1, <2>2 DEF finishSwap, pending
<1>6. CASE Revert
    <2>1. \A p \in Uid : TotalSold(p)' = saved.sold[p] /\ TotalBought(p)' = saved.bought[p]
        BY <1>6 DEF Revert, Zero, TypeOK
    <2>. QED
        BY <1>6, <2>1 DEF Revert
<1>7. CASE Tick
    BY <1>7 DEF Tick, storage, history, pending, swapping
<1>. QED
    BY <1>1, <1>2, <1>3, <1>4, <1>5, <1>6, <1>7

(* For any orders: only what its owner has signed is ever traded, whether  *)
(* by a released signature, an EIP-1271 wallet or a presignature.          *)
THEOREM ConsentRequired == Spec => []TradedOnlyWithConsent
<1>1. Init => ConsentInv
    BY DEF Init, ConsentInv, ConsentOK, SavedConsentOK, TradedOnlyWithConsent,
           TotalSold, TotalBought, Zero
<1>2. IInv /\ ConsentInv /\ [Next]_vars => ConsentInv'
    <2>1. IInv /\ ConsentInv /\ UNCHANGED vars => ConsentInv'
        BY DEF ConsentInv, ConsentOK, SavedConsentOK, TradedOnlyWithConsent, TotalSold,
               TotalBought, vars, storage, history, pending, swapping
    <2>2. IInv /\ ConsentInv /\ Next => ConsentInv'
        BY ConsentOwnerCall, ConsentSettleStep, ConsentOtherStep DEF Next, IInv
    <2>. QED
        BY <2>1, <2>2
<1>3. ConsentInv => TradedOnlyWithConsent
    BY DEF ConsentInv, ConsentOK
<1>. QED
    BY <1>1, <1>2, <1>3, IInvAlways, PTL DEF Spec
=============================================================================
