---------------------------- MODULE VaultProofs -----------------------------
(***************************************************************************)
(* What VaultPolicy keeps for any tokens, orders, prices and limits.       *)
(*                                                                         *)
(* The bound on a day's turnover is not inductive: it says nothing of how  *)
(* full the bucket is.  BucketInv does: over any window, what was          *)
(* presigned is at most what the bucket holds now and what has drained     *)
(* from it since the window opened.                                        *)
(***************************************************************************)
EXTENDS VaultPolicy, TLAPS

(* From t on, the curator presigned what is still in the bucket and what   *)
(* drained up to the last accrual; nothing since that accrual.             *)
BucketInv ==
    \A t \in 0..now :
        /\ turnoverBefore[t] <= turnover
        /\ IF t > lastTurnoverTs THEN turnoverBefore[t] = turnover
           ELSE (turnover - turnoverBefore[t]) * OneDay <=
                   turnoverSpentUsd * OneDay + (lastTurnoverTs - t) * dailyUsdTurnoverCap

(* What held when the module presigned an order holds while it stands.     *)
SignedInv ==
    \A o \in byModule :
        /\ order[o].validTo <= signed[o].at + maxTtl
        /\ (order[o].buyAmount + 2) * signed[o].buyPrice * Unit[order[o].sellToken] * BPS >=
              order[o].sellAmount * signed[o].sellPrice * Unit[order[o].buyToken]
                 * (BPS - maxSlippageBps)

IInv == TypeOK /\ BucketInv /\ OneLivePresignature /\ AllowanceFollowsOrder /\ SignedInv

-----------------------------------------------------------------------------
(* A quotient times its divisor brackets the dividend.                     *)
LEMMA Quotient ==
    ASSUME NEW a \in Nat, NEW d \in Nat, d > 0
    PROVE  /\ a \div d \in Nat
           /\ (a \div d) * d <= a
           /\ a < (a \div d + 1) * d
    BY SMT

LEMMA Times ==
    ASSUME NEW a \in Nat, NEW b \in Nat
    PROVE  a * b \in Nat
    BY SMT

LEMMA Scale ==
    ASSUME NEW a \in Nat, NEW b \in Nat, NEW c \in Nat, a <= b
    PROVE  a * c <= b * c
    BY SMT

(* A product of two positive factors is positive.                          *)
LEMMA Positive ==
    ASSUME NEW a \in Nat, NEW b \in Nat, a > 0, b > 0
    PROVE  a * b \in Nat /\ a * b > 0
    BY SMT

(* The two roundings of the floor cost less than two base units: x is the  *)
(* exact value sold, d what one unit bought is worth, k of m the band.     *)
LEMMA FloorRounds ==
    ASSUME NEW x \in Nat, NEW d \in Nat, d > 0, NEW k \in Nat, NEW m \in Nat, m > 0, k <= m,
           NEW b \in Nat, b >= ((x \div d) * k) \div m
    PROVE  (b + 2) * (d * m) >= x * k
<1> DEFINE g == x \div d
           f == (g * k) \div m
<1>1. g \in Nat /\ x < (g + 1) * d
    BY Quotient
<1>2. g * k \in Nat
    BY <1>1, Times
<1>3. f \in Nat /\ g * k < (f + 1) * m
    BY <1>2, Quotient
<1>4. b >= f
    OBVIOUS
<1> HIDE DEF g, f
<1>5. x * k <= ((g + 1) * d) * k
    BY <1>1, Scale, Times
<1>6. ((g + 1) * d) * k = (g * k + k) * d
    BY <1>1
<1>7. g * k + k <= (b + 2) * m
    <2>1. (f + 1) * m + m <= (b + 2) * m
        <3>1. (f + 2) * m <= (b + 2) * m
            BY <1>3, <1>4, Scale
        <3>2. (f + 1) * m + m = (f + 2) * m
            BY <1>3
        <3> QED BY <3>1, <3>2
    <2> QED BY <2>1, <1>1, <1>2, <1>3, Times
<1>8. (g * k + k) * d <= ((b + 2) * m) * d
    BY <1>2, <1>7, Scale, Times
<1>9. ((b + 2) * m) * d = (b + 2) * (d * m)
    BY SMT
<1> QED BY <1>5, <1>6, <1>8, <1>9, <1>1, <1>2, Times

(* The constants' types, in the form the steps below use.                  *)
LEMMA Constants ==
    /\ dailyUsdTurnoverCap \in Nat /\ OneDay \in Nat /\ OneDay > 0
    /\ maxTtl \in Nat /\ maxSlippageBps \in Nat /\ maxSlippageBps <= BPS
    /\ BPS \in Nat /\ BPS > 0 /\ BPS - maxSlippageBps \in Nat
    /\ BPS - maxSlippageBps <= BPS
    /\ \A t \in Token : Unit[t] \in Nat /\ Unit[t] > 0
    BY LimitAssumption, PriceAssumption DEF BPS

(* What an order sells is worth a natural number of dollars.               *)
LEMMA OrderUsdType ==
    ASSUME TypeOK, NEW o \in Order
    PROVE  orderUsd(o) \in Nat
<1>1. /\ order[o].sellToken \in Token /\ order[o].sellAmount \in Nat
      /\ feed[order[o].sellToken].price \in Nat
    BY OrderAssumption DEF OrderFields, TypeOK
<1>2. order[o].sellAmount * feed[order[o].sellToken].price \in Nat
    BY <1>1, Times
<1> QED BY <1>1, <1>2, Constants, Quotient DEF orderUsd

(* The bucket drains no faster than the cap per day.                       *)
LEMMA DrainRate ==
    ASSUME TypeOK
    PROVE  /\ Drained \in Nat
           /\ turnoverSpentUsd * OneDay <=
                 Drained * OneDay + (now - lastTurnoverTs) * dailyUsdTurnoverCap
<1> DEFINE r == (now - lastTurnoverTs) * dailyUsdTurnoverCap
           l == r \div OneDay
<1>1. turnoverSpentUsd \in Nat /\ now - lastTurnoverTs \in Nat
    BY Constants, LimitAssumption DEF TypeOK, Time
<1>2. r \in Nat
    BY <1>1, Constants, Times
<1>3. l \in Nat /\ l * OneDay <= r
    BY <1>2, Constants, Quotient
<1>4. Drained = IF turnoverSpentUsd > l THEN turnoverSpentUsd - l ELSE 0
    BY DEF Drained
<1> HIDE DEF r, l
<1>5. Drained \in Nat /\ turnoverSpentUsd <= Drained + l
    BY <1>1, <1>3, <1>4
<1>6. turnoverSpentUsd * OneDay <= Drained * OneDay + l * OneDay
    <2>1. turnoverSpentUsd * OneDay <= (Drained + l) * OneDay
        BY <1>1, <1>3, <1>5, Constants, Scale
    <2>2. (Drained + l) * OneDay = Drained * OneDay + l * OneDay
        BY <1>3, <1>5, Constants
    <2> QED BY <2>1, <2>2
<1> QED BY <1>1, <1>2, <1>3, <1>5, <1>6, Constants, Times DEF r

-----------------------------------------------------------------------------
LEMMA InitIInv == Init => IInv
<1> SUFFICES ASSUME Init PROVE IInv
    OBVIOUS
<1> USE Constants
<1>0. \A o \in Order : signed[o] = Unsigned
    BY DEF Init
<1>1. byModule = {}
    BY <1>0 DEF byModule
<1>2. feed \in [Token -> [price : Nat, updatedAt : Time]]
    <2>1. 0 \in Time
        BY LimitAssumption DEF Time
    <2>2. \A t \in Token : feed[t].price \in Nat
        BY PriceAssumption DEF Init
    <2> QED BY <2>1, <2>2 DEF Init
<1>3. sequencer \in [up : BOOLEAN, startedAt : -sequencerGracePeriod..MaxTime]
    BY LimitAssumption DEF Init
<1>4. /\ now \in Time /\ turnoverSpentUsd \in 0..dailyUsdTurnoverCap /\ lastTurnoverTs \in 0..now
      /\ turnover \in Nat /\ turnoverBefore \in [Time -> Nat]
    BY LimitAssumption DEF Init, Time
<1>5. /\ liveAllowanceUid \in [Token -> Order \union {NoOrder}]
      /\ signed \in [Order -> [at : Time, sellPrice : Nat, buyPrice : Nat] \union {Unsigned}]
      /\ allowance \in [Token -> Nat]
      /\ moduleOrderSellToken \subseteq Order /\ preSignature \subseteq Order
      /\ filled \subseteq Order /\ touched \subseteq Token
    BY DEF Init
<1>6. curatorPrivileged \in BOOLEAN
    BY DEF Init
<1>7. TypeOK
    BY <1>2, <1>3, <1>4, <1>5, <1>6 DEF TypeOK
<1>8. BucketInv
    <2>1. now = 0 /\ lastTurnoverTs = 0 /\ turnoverBefore[0] = 0 /\ turnover = 0 /\ turnoverSpentUsd = 0
        BY LimitAssumption DEF Init, Time
    <2> QED BY <2>1 DEF BucketInv
<1>9. AllowanceFollowsOrder
    BY DEF Init, AllowanceFollowsOrder
<1> QED BY <1>1, <1>7, <1>8, <1>9 DEF IInv, OneLivePresignature, SignedInv

(* An accepted order is within the policy at the prices it is stamped with.*)
LEMMA AcceptedKeepsValue ==
    ASSUME TypeOK, NEW o \in Order, _enforcePolicy(o)
    PROVE  (order[o].buyAmount + 2) * feed[order[o].buyToken].price
              * Unit[order[o].sellToken] * BPS >=
           order[o].sellAmount * feed[order[o].sellToken].price * Unit[order[o].buyToken]
              * (BPS - maxSlippageBps)
<1> DEFINE s == order[o].sellToken
           b == order[o].buyToken
           x == order[o].sellAmount * feed[s].price * Unit[b]
           d == feed[b].price * Unit[s]
<1>1. /\ s \in Token /\ b \in Token /\ order[o].sellAmount \in Nat /\ order[o].buyAmount \in Nat
      /\ feed[s].price \in Nat /\ feed[b].price \in Nat /\ feed[b].price > 0
      /\ Unit[s] \in Nat /\ Unit[s] > 0 /\ Unit[b] \in Nat
    BY OrderAssumption, Constants DEF OrderFields, TypeOK, _enforcePolicy, Readable
<1>2. x \in Nat
    BY <1>1, Times
<1>3. d \in Nat /\ d > 0
    BY <1>1, Positive
<1>4. order[o].buyAmount >= ((x \div d) * (BPS - maxSlippageBps)) \div BPS
    BY DEF _enforcePolicy, floorBuyAmount
<1>5. (order[o].buyAmount + 2) * (d * BPS) >= x * (BPS - maxSlippageBps)
    <2> HIDE DEF x, d
    <2> QED BY <1>1, <1>2, <1>3, <1>4, Constants, FloorRounds
<1>6. ASSUME NEW p \in Nat, NEW q \in Nat, NEW u \in Nat, NEW m \in Nat
      PROVE  p * ((q * u) * m) = p * q * u * m
    BY SMT
<1>7. (order[o].buyAmount + 2) * (d * BPS) =
         (order[o].buyAmount + 2) * feed[b].price * Unit[s] * BPS
    BY <1>1, <1>6, Constants
<1> QED BY <1>5, <1>7

(* Every action keeps the types.                                           *)
LEMMA TypeStep == TypeOK /\ [Next]_vars => TypeOK'
<1> SUFFICES ASSUME TypeOK, [Next]_vars PROVE TypeOK'
    OBVIOUS
<1>1. ASSUME NEW o \in Order, rebalance(o) PROVE TypeOK'
    <2> DEFINE t == order[o].sellToken
    <2>1. /\ t \in Token /\ order[o].buyToken \in Token /\ order[o].sellAmount \in Nat
          /\ feed[t].price \in Nat /\ feed[order[o].buyToken].price \in Nat
        BY OrderAssumption DEF OrderFields, TypeOK
    <2>2. orderUsd(o) \in Nat /\ Drained \in Nat
        BY OrderUsdType, DrainRate
    <2>3. /\ turnoverSpentUsd' \in 0..dailyUsdTurnoverCap /\ turnover' \in Nat
          /\ lastTurnoverTs' = now /\ now' = now
        BY <1>1, <2>2, Constants DEF rebalance, _recordTurnover, TypeOK, world
    <2>4. /\ moduleOrderSellToken' \subseteq Order /\ preSignature' \subseteq Order
          /\ liveAllowanceUid' \in [Token -> Order \union {NoOrder}]
          /\ allowance' \in [Token -> Nat] /\ touched' \subseteq Token
        BY <1>1, <2>1 DEF rebalance, TypeOK
    <2>5. signed' \in [Order -> [at : Time, sellPrice : Nat, buyPrice : Nat] \union {Unsigned}]
        BY <1>1, <2>1 DEF rebalance, TypeOK
    <2>6. lastTurnoverTs' \in 0..now'
        BY <2>3 DEF TypeOK, Time
    <2> QED BY <1>1, <2>3, <2>4, <2>5, <2>6 DEF rebalance, TypeOK, world
<1>2. ASSUME NEW o \in Order, cancel(o) PROVE TypeOK'
    <2>1. /\ liveAllowanceUid' \in [Token -> Order \union {NoOrder}]
          /\ allowance' \in [Token -> Nat]
        BY <1>2 DEF cancel, Release, TypeOK
    <2>2. signed' \in [Order -> [at : Time, sellPrice : Nat, buyPrice : Nat] \union {Unsigned}]
        BY <1>2 DEF cancel, TypeOK
    <2> QED BY <1>2, <2>1, <2>2 DEF cancel, TypeOK, bucket, world
<1>3. ASSUME NEW o \in Order, Fill(o) PROVE TypeOK'
    <2>1. order[o].sellToken \in Token /\ order[o].sellAmount \in Nat
        BY OrderAssumption DEF OrderFields
    <2>2. allowance' \in [Token -> Nat] /\ touched' \subseteq Token /\ filled' \subseteq Order
        BY <1>3, <2>1 DEF Fill, TypeOK
    <2> QED BY <1>3, <2>2 DEF Fill, TypeOK, module, bucket, world
<1>4. ASSUME NEW o \in Order, NEW on \in BOOLEAN, OwnersSign(o, on) PROVE TypeOK'
    <2>1. signed' \in [Order -> [at : Time, sellPrice : Nat, buyPrice : Nat] \union {Unsigned}]
        BY <1>4 DEF OwnersSign, TypeOK
    <2>2. preSignature' \subseteq Order
        BY <1>4 DEF OwnersSign, TypeOK
    <2> QED BY <1>4, <2>1, <2>2 DEF OwnersSign, TypeOK, module, bucket, world
<1>5. ASSUME NEW t \in Token, OwnersClear(t) PROVE TypeOK'
    <2>1. allowance' \in [Token -> Nat] /\ touched' \subseteq Token
        BY <1>5 DEF OwnersClear, TypeOK
    <2> QED BY <1>5, <2>1 DEF OwnersClear, TypeOK, module, bucket, world
<1>6. ASSUME NEW t \in Token, NEW p \in Price[t], UpdateFeed(t, p) PROVE TypeOK'
    <2>1. p \in Nat /\ now \in Time
        BY PriceAssumption DEF TypeOK
    <2>2. feed' \in [Token -> [price : Nat, updatedAt : Time]]
        BY <1>6, <2>1 DEF UpdateFeed, TypeOK
    <2> QED BY <1>6, <2>2 DEF UpdateFeed, TypeOK, module, bucket, chain, history
<1>7. CASE OwnersPromoteCurator
    <2>1. curatorPrivileged' \in BOOLEAN
        BY <1>7 DEF OwnersPromoteCurator
    <2> QED BY <1>7, <2>1 DEF OwnersPromoteCurator, TypeOK, module, bucket, chain, history
<1>8. CASE SequencerTurns
    <2>1. now \in -sequencerGracePeriod..MaxTime
        BY LimitAssumption DEF TypeOK, Time
    <2>2. sequencer' \in [up : BOOLEAN, startedAt : -sequencerGracePeriod..MaxTime]
        BY <1>8, <2>1 DEF SequencerTurns
    <2> QED BY <1>8, <2>2 DEF SequencerTurns, TypeOK, module, bucket, chain, history
<1>9. CASE Tick
    <2>1. /\ now' \in Time /\ lastTurnoverTs' \in 0..now'
          /\ turnoverBefore' \in [Time -> Nat]
        BY <1>9, LimitAssumption DEF Tick, TypeOK, Time, bucket
    <2> QED BY <1>9, <2>1 DEF Tick, TypeOK, module, bucket, chain, history
<1>10. CASE UNCHANGED vars
    BY <1>10 DEF vars, TypeOK, module, bucket, chain, world, history
<1> QED BY <1>1, <1>2, <1>3, <1>4, <1>5, <1>6, <1>7, <1>8, <1>9, <1>10 DEF Next

(* Only rebalance fills the bucket, and only time drains it.               *)
LEMMA BucketStep == TypeOK /\ BucketInv /\ [Next]_vars => BucketInv'
<1> SUFFICES ASSUME TypeOK, BucketInv, [Next]_vars PROVE BucketInv'
    OBVIOUS
<1>0. /\ now \in Nat /\ lastTurnoverTs \in Nat /\ lastTurnoverTs <= now
      /\ turnover \in Nat /\ turnoverSpentUsd \in Nat
      /\ turnoverBefore \in [Time -> Nat] /\ now <= MaxTime /\ 0..now \subseteq Time
    BY LimitAssumption, Constants DEF TypeOK, Time
<1>1. ASSUME NEW o \in Order, rebalance(o) PROVE BucketInv'
    <2> DEFINE u == orderUsd(o)
    <2>1. u \in Nat /\ Drained \in Nat
        BY OrderUsdType, DrainRate
    <2>2. /\ turnoverSpentUsd' = Drained + u /\ turnover' = turnover + u
          /\ lastTurnoverTs' = now /\ now' = now /\ turnoverBefore' = turnoverBefore
        BY <1>1 DEF rebalance, _recordTurnover, world
    <2>3. turnoverSpentUsd * OneDay <=
             Drained * OneDay + (now - lastTurnoverTs) * dailyUsdTurnoverCap
        BY DrainRate
    <2> HIDE DEF u
    <2>4. ASSUME NEW t \in 0..now
          PROVE  /\ turnoverBefore[t] <= turnover + u
                 /\ (turnover + u - turnoverBefore[t]) * OneDay <=
                       (Drained + u) * OneDay + (now - t) * dailyUsdTurnoverCap
        <3> DEFINE b == turnoverBefore[t]
        <3>1. b \in Nat /\ b <= turnover /\ t \in Nat /\ t <= now
            BY <1>0 DEF BucketInv
        <3>2. (Drained + u) * OneDay = Drained * OneDay + u * OneDay
            BY <2>1, Constants
        <3>3. (turnover + u - b) * OneDay = (turnover - b) * OneDay + u * OneDay
            BY <2>1, <3>1, <1>0, Constants
        <3>4. CASE t > lastTurnoverTs
            <4>1. (turnover - b) * OneDay = 0
                BY <3>4, <3>1, <1>0, Constants DEF BucketInv
            <4>2. Drained * OneDay \in Nat /\ (now - t) * dailyUsdTurnoverCap \in Nat
                  /\ u * OneDay \in Nat
                BY <2>1, <3>1, <1>0, Constants, Times
            <4> QED BY <4>1, <4>2, <3>1, <3>2, <3>3, <2>1, <1>0
        <3>5. CASE t <= lastTurnoverTs
            <4>1. (turnover - b) * OneDay <=
                     turnoverSpentUsd * OneDay + (lastTurnoverTs - t) * dailyUsdTurnoverCap
                BY <3>5, <3>1, <1>0 DEF BucketInv
            <4>2. (lastTurnoverTs - t) * dailyUsdTurnoverCap
                     + (now - lastTurnoverTs) * dailyUsdTurnoverCap
                     = (now - t) * dailyUsdTurnoverCap
                BY <3>1, <1>0, Constants
            <4>3. /\ (turnover - b) * OneDay \in Nat /\ u * OneDay \in Nat
                  /\ turnoverSpentUsd * OneDay \in Nat /\ Drained * OneDay \in Nat
                  /\ (lastTurnoverTs - t) * dailyUsdTurnoverCap \in Nat
                  /\ (now - lastTurnoverTs) * dailyUsdTurnoverCap \in Nat
                BY <3>1, <3>5, <2>1, <1>0, Constants, Times
            <4> HIDE DEF b
            <4>4. (turnover - b) * OneDay + u * OneDay <=
                     Drained * OneDay + u * OneDay + (now - t) * dailyUsdTurnoverCap
                BY <4>1, <4>2, <4>3, <2>3
            <4> QED BY <4>4, <3>1, <3>2, <3>3, <2>1, <1>0 DEF b
        <3> QED BY <3>1, <3>4, <3>5, <1>0
    <2>5. ASSUME NEW t \in 0..now'
          PROVE  /\ turnoverBefore'[t] <= turnover' /\ ~(t > lastTurnoverTs')
                 /\ (turnover' - turnoverBefore'[t]) * OneDay <=
                       turnoverSpentUsd' * OneDay + (lastTurnoverTs' - t) * dailyUsdTurnoverCap
        <3>1. t \in 0..now /\ ~(t > now)
            BY <2>2, <1>0
        <3>2. /\ turnoverBefore[t] <= turnover + u
              /\ (turnover + u - turnoverBefore[t]) * OneDay <=
                    (Drained + u) * OneDay + (now - t) * dailyUsdTurnoverCap
            BY <2>4, <3>1
        <3>3. turnoverBefore'[t] <= turnover'
            BY <2>2, <3>2
        <3>4. ~(t > lastTurnoverTs')
            BY <2>2, <3>1
        <3>5. (turnover' - turnoverBefore'[t]) * OneDay <=
                 turnoverSpentUsd' * OneDay + (lastTurnoverTs' - t) * dailyUsdTurnoverCap
            <4>1. turnoverBefore'[t] = turnoverBefore[t] /\ turnoverBefore[t] \in Nat
                BY <2>2, <3>1, <1>0
            <4> QED BY <2>2, <3>2, <4>1, <2>1, <1>0
        <3> QED BY <3>3, <3>4, <3>5
    <2> QED BY <2>5 DEF BucketInv
<1>2. CASE Tick
    <2>1. /\ now' = now + 1 /\ turnoverBefore' = [turnoverBefore EXCEPT ![now + 1] = turnover]
          /\ turnover' = turnover /\ turnoverSpentUsd' = turnoverSpentUsd
          /\ lastTurnoverTs' = lastTurnoverTs /\ now + 1 \in Time
        BY <1>2, <1>0, LimitAssumption DEF Tick, bucket, Time
    <2>2. turnoverBefore'[now + 1] = turnover
        BY <2>1, <1>0
    <2>3. \A t \in 0..now : turnoverBefore'[t] = turnoverBefore[t]
        BY <2>1, <1>0
    <2>4. \A t \in 0..(now + 1) : t \in 0..now \/ t = now + 1
        BY <1>0
    <2> QED BY <2>1, <2>2, <2>3, <2>4, <1>0 DEF BucketInv
<1>3. CASE UNCHANGED <<bucket, now, turnoverBefore>>
    BY <1>3 DEF BucketInv, bucket
<1>4. ASSUME NEW o \in Order, cancel(o) \/ Fill(o) PROVE BucketInv'
    BY <1>3, <1>4 DEF cancel, Fill, world
<1>5. ASSUME NEW o \in Order, NEW on \in BOOLEAN, OwnersSign(o, on) PROVE BucketInv'
    BY <1>3, <1>5 DEF OwnersSign, world
<1>6. ASSUME NEW t \in Token, OwnersClear(t) PROVE BucketInv'
    BY <1>3, <1>6 DEF OwnersClear, world
<1>7. ASSUME NEW t \in Token, NEW p \in Price[t], UpdateFeed(t, p) PROVE BucketInv'
    BY <1>3, <1>7 DEF UpdateFeed
<1>8. CASE OwnersPromoteCurator \/ SequencerTurns
    BY <1>3, <1>8 DEF OwnersPromoteCurator, SequencerTurns
<1>9. CASE UNCHANGED vars
    BY <1>3, <1>9 DEF vars, world
<1> QED BY <1>1, <1>2, <1>4, <1>5, <1>6, <1>7, <1>8, <1>9 DEF Next

(* What the presignatures and allowances depend on.                        *)
LEMMA ChainUntouched ==
    ASSUME UNCHANGED <<module, chain, history>>, OneLivePresignature, AllowanceFollowsOrder, SignedInv
    PROVE  OneLivePresignature' /\ AllowanceFollowsOrder' /\ SignedInv'
<1>1. /\ preSignature' = preSignature /\ liveAllowanceUid' = liveAllowanceUid
      /\ moduleOrderSellToken' = moduleOrderSellToken /\ signed' = signed
      /\ allowance' = allowance /\ touched' = touched
    BY DEF module, chain, history
<1>2. byModule' = byModule
    BY <1>1 DEF byModule
<1> QED BY <1>1, <1>2 DEF OneLivePresignature, AllowanceFollowsOrder, SignedInv

(* An accepted order is the only one of its token left in force.           *)
LEMMA RebalanceKeeps ==
    ASSUME IInv, NEW o \in Order, rebalance(o)
    PROVE  OneLivePresignature' /\ AllowanceFollowsOrder' /\ SignedInv'
<1> DEFINE t == order[o].sellToken
           stamp == [at |-> now, sellPrice |-> feed[t].price,
                     buyPrice |-> feed[order[o].buyToken].price]
<1>0. /\ t \in Token /\ o # NoOrder /\ \A p \in Order : order[p].sellToken \in Token
      /\ \A p \in Order : p # NoOrder
      /\ liveAllowanceUid \in [Token -> Order \union {NoOrder}]
      /\ allowance \in [Token -> Nat] /\ order[o].sellAmount \in Nat
    BY OrderAssumption DEF OrderFields, IInv, TypeOK
<1>1. /\ moduleOrderSellToken' = (moduleOrderSellToken \union {o}) \ Superseded(o)
      /\ liveAllowanceUid' = [liveAllowanceUid EXCEPT ![t] = o]
      /\ preSignature' = (preSignature \ Superseded(o)) \union {o}
      /\ allowance' = [allowance EXCEPT ![t] = order[o].sellAmount]
      /\ touched' = touched \ {t}
    BY DEF rebalance
<1>2. Superseded(o) = {liveAllowanceUid[t]} \ {o, NoOrder}
    BY DEF Superseded
<1>3. signed' = [p \in Order |-> IF p = o THEN stamp
                                 ELSE IF p \in preSignature' THEN signed[p] ELSE Unsigned]
    BY DEF rebalance
<1> HIDE DEF stamp
<1>5. \A p \in byModule' : p \in Order /\ (p = o \/ (p \in byModule /\ p \in preSignature'))
    BY <1>3 DEF byModule
<1>6. \A p \in byModule : /\ p \in preSignature /\ p \in moduleOrderSellToken
                          /\ liveAllowanceUid[order[p].sellToken] = p
    BY DEF IInv, OneLivePresignature
<1>7. ASSUME NEW p \in byModule', p # o
      PROVE  /\ p \in byModule /\ p \notin Superseded(o) /\ order[p].sellToken # t
             /\ order[p].sellToken \in Token /\ signed'[p] = signed[p]
    <2>1. p \in Order /\ p \in byModule /\ p \in preSignature'
        BY <1>5, <1>7
    <2>2. p \notin Superseded(o)
        BY <1>1, <1>7, <2>1
    <2>3. order[p].sellToken # t
        BY <1>0, <1>2, <1>6, <1>7, <2>1, <2>2
    <2>4. signed'[p] = signed[p]
        BY <1>3, <1>7, <2>1
    <2> QED BY <1>0, <2>1, <2>2, <2>3, <2>4
<1> HIDE DEF t
<1>8. OneLivePresignature'
    <2> SUFFICES ASSUME NEW p \in byModule'
                 PROVE  /\ p \in preSignature' /\ p \in moduleOrderSellToken'
                        /\ liveAllowanceUid'[order[p].sellToken] = p
        BY DEF OneLivePresignature
    <2>1. CASE p = o
        BY <2>1, <1>0, <1>1, <1>2 DEF t
    <2>2. CASE p # o
        BY <2>2, <1>0, <1>1, <1>6, <1>7
    <2> QED BY <2>1, <2>2
<1>9. AllowanceFollowsOrder'
    <2> SUFFICES ASSUME NEW k \in Token
                 PROVE  IF liveAllowanceUid'[k] = NoOrder THEN allowance'[k] = 0
                        ELSE /\ order[liveAllowanceUid'[k]].sellToken = k
                             /\ allowance'[k] <= order[liveAllowanceUid'[k]].sellAmount
                             /\ k \notin touched' =>
                                   allowance'[k] = order[liveAllowanceUid'[k]].sellAmount
        BY DEF AllowanceFollowsOrder
    <2>1. CASE k = t
        <3>1. liveAllowanceUid'[k] = o /\ allowance'[k] = order[o].sellAmount /\ order[o].sellToken = k
            BY <2>1, <1>0, <1>1 DEF t
        <3> QED BY <3>1, <1>0
    <2>2. CASE k # t
        <3>1. /\ liveAllowanceUid'[k] = liveAllowanceUid[k] /\ allowance'[k] = allowance[k]
              /\ k \in touched' <=> k \in touched
            BY <2>2, <1>0, <1>1
        <3> QED BY <3>1 DEF IInv, AllowanceFollowsOrder
    <2> QED BY <2>1, <2>2
<1>10. SignedInv'
    <2>1. /\ _enforcePolicy(o) /\ TypeOK
        BY DEF rebalance, IInv
    <2>2. /\ signed'[o].at = now /\ signed'[o].sellPrice = feed[t].price
          /\ signed'[o].buyPrice = feed[order[o].buyToken].price
        BY <1>3 DEF stamp
    <2>3. /\ order[o].validTo <= signed'[o].at + maxTtl
          /\ (order[o].buyAmount + 2) * signed'[o].buyPrice * Unit[order[o].sellToken] * BPS >=
                order[o].sellAmount * signed'[o].sellPrice * Unit[order[o].buyToken]
                   * (BPS - maxSlippageBps)
        BY <2>1, <2>2, AcceptedKeepsValue DEF _enforcePolicy, t
    <2>4. ASSUME NEW p \in byModule', p # o
          PROVE  /\ order[p].validTo <= signed'[p].at + maxTtl
                 /\ (order[p].buyAmount + 2) * signed'[p].buyPrice * Unit[order[p].sellToken] * BPS >=
                       order[p].sellAmount * signed'[p].sellPrice * Unit[order[p].buyToken]
                          * (BPS - maxSlippageBps)
        BY <2>4, <1>7 DEF IInv, SignedInv
    <2> QED BY <2>3, <2>4 DEF SignedInv
<1> QED BY <1>8, <1>9, <1>10

(* A fill, or an owner, only takes presignatures and allowances away, or   *)
(* gives presignatures that are not the module's.                          *)
LEMMA ChainStep == IInv /\ [Next]_vars =>
                      OneLivePresignature' /\ AllowanceFollowsOrder' /\ SignedInv'
<1> SUFFICES ASSUME IInv, [Next]_vars
             PROVE  OneLivePresignature' /\ AllowanceFollowsOrder' /\ SignedInv'
    OBVIOUS
<1>0. /\ \A p \in Order : order[p].sellToken \in Token /\ order[p].sellAmount \in Nat /\ p # NoOrder
      /\ liveAllowanceUid \in [Token -> Order \union {NoOrder}]
      /\ allowance \in [Token -> Nat] /\ signed \in [Order -> [at : Time, sellPrice : Nat, buyPrice : Nat] \union {Unsigned}]
    BY OrderAssumption DEF OrderFields, IInv, TypeOK
<1>a. OneLivePresignature /\ AllowanceFollowsOrder /\ SignedInv
    BY DEF IInv
<1>1. ASSUME NEW o \in Order, cancel(o)
      PROVE  OneLivePresignature' /\ AllowanceFollowsOrder' /\ SignedInv'
    <2> DEFINE t == order[o].sellToken
    <2>1. /\ moduleOrderSellToken' = moduleOrderSellToken \ {o} /\ preSignature' = preSignature \ {o}
          /\ signed' = [signed EXCEPT ![o] = Unsigned] /\ touched' = touched
        BY <1>1 DEF cancel
    <2>2. byModule' = byModule \ {o}
        BY <1>0, <2>1 DEF byModule
    <2>3. \A p \in byModule' : p # o /\ p \in byModule /\ p \in Order /\ signed'[p] = signed[p]
        BY <1>0, <2>1, <2>2 DEF byModule
    <2>4. \A k \in Token : liveAllowanceUid[k] # o =>
             liveAllowanceUid'[k] = liveAllowanceUid[k] /\ allowance'[k] = allowance[k]
        BY <1>0, <1>1 DEF cancel, Release
    <2>5. \A k \in Token : liveAllowanceUid[k] = o =>
             liveAllowanceUid'[k] = NoOrder /\ allowance'[k] = 0
        <3>1. \A k \in Token : liveAllowanceUid[k] = o => k = t
            BY <1>0, <1>a DEF AllowanceFollowsOrder
        <3> QED BY <3>1, <1>0, <1>1 DEF cancel, Release
    <2>6. OneLivePresignature'
        BY <2>1, <2>3, <2>4, <1>0, <1>a DEF OneLivePresignature
    <2>7. AllowanceFollowsOrder'
        BY <2>1, <2>4, <2>5, <1>a DEF AllowanceFollowsOrder
    <2>8. SignedInv'
        BY <2>3, <1>a DEF SignedInv
    <2> QED BY <2>6, <2>7, <2>8
<1>2. ASSUME NEW o \in Order, Fill(o)
      PROVE  OneLivePresignature' /\ AllowanceFollowsOrder' /\ SignedInv'
    <2> DEFINE t == order[o].sellToken
    <2>1. /\ t \in Token /\ order[o].sellAmount \in Nat /\ order[o].sellAmount <= allowance[t]
          /\ allowance' = [allowance EXCEPT ![t] = @ - order[o].sellAmount]
          /\ touched' = touched \union {t}
          /\ UNCHANGED <<module, preSignature, signed>>
        BY <1>0, <1>2 DEF Fill
    <2>2. byModule' = byModule
        BY <2>1 DEF byModule
    <2>3. OneLivePresignature' /\ SignedInv'
        BY <2>1, <2>2, <1>a DEF OneLivePresignature, SignedInv, module
    <2>4. liveAllowanceUid[t] # NoOrder \/ order[o].sellAmount = 0
        BY <2>1, <1>0, <1>a DEF AllowanceFollowsOrder
    <2>5. allowance'[t] = allowance[t] - order[o].sellAmount /\ allowance[t] \in Nat
        BY <2>1, <1>0
    <2> HIDE DEF t
    <2>6. AllowanceFollowsOrder'
        <3> SUFFICES ASSUME NEW k \in Token
                     PROVE  IF liveAllowanceUid[k] = NoOrder THEN allowance'[k] = 0
                            ELSE /\ order[liveAllowanceUid[k]].sellToken = k
                                 /\ allowance'[k] <= order[liveAllowanceUid[k]].sellAmount
                                 /\ k \notin touched' =>
                                       allowance'[k] = order[liveAllowanceUid[k]].sellAmount
            BY <2>1 DEF AllowanceFollowsOrder, module
        <3>0. IF liveAllowanceUid[k] = NoOrder THEN allowance[k] = 0
              ELSE /\ order[liveAllowanceUid[k]].sellToken = k
                   /\ allowance[k] <= order[liveAllowanceUid[k]].sellAmount
                   /\ k \notin touched => allowance[k] = order[liveAllowanceUid[k]].sellAmount
            BY <1>a DEF AllowanceFollowsOrder
        <3>1. CASE k = t
            <4>1. liveAllowanceUid[k] \in Order => order[liveAllowanceUid[k]].sellAmount \in Nat
                BY <1>0
            <4>2. liveAllowanceUid[k] \in Order \union {NoOrder} /\ k \in touched'
                BY <1>0, <2>1, <3>1
            <4> QED BY <3>0, <3>1, <4>1, <4>2, <2>1, <2>4, <2>5
        <3>2. CASE k # t
            <4>1. allowance'[k] = allowance[k] /\ (k \in touched' <=> k \in touched)
                BY <3>2, <2>1, <1>0
            <4> QED BY <3>0, <4>1
        <3> QED BY <3>1, <3>2
    <2> QED BY <2>3, <2>6
<1>3. ASSUME NEW o \in Order, NEW on \in BOOLEAN, OwnersSign(o, on)
      PROVE  OneLivePresignature' /\ AllowanceFollowsOrder' /\ SignedInv'
    <2>1. /\ signed' = [signed EXCEPT ![o] = Unsigned] /\ UNCHANGED <<module, allowance, touched>>
          /\ \A p \in Order : p # o => (p \in preSignature' <=> p \in preSignature)
        BY <1>3 DEF OwnersSign
    <2>2. byModule' = byModule \ {o}
        BY <1>0, <2>1 DEF byModule
    <2>3. \A p \in byModule' : p # o /\ p \in byModule /\ p \in Order /\ signed'[p] = signed[p]
        BY <1>0, <2>1, <2>2 DEF byModule
    <2>4. OneLivePresignature' /\ SignedInv'
        BY <2>1, <2>3, <1>a DEF OneLivePresignature, SignedInv, module
    <2>5. AllowanceFollowsOrder'
        BY <2>1, <1>a DEF AllowanceFollowsOrder, module
    <2> QED BY <2>4, <2>5
<1>4. ASSUME NEW t \in Token, OwnersClear(t)
      PROVE  OneLivePresignature' /\ AllowanceFollowsOrder' /\ SignedInv'
    <2>1. /\ allowance' = [allowance EXCEPT ![t] = 0] /\ touched' = touched \union {t}
          /\ UNCHANGED <<module, preSignature, signed>>
        BY <1>4 DEF OwnersClear
    <2>2. byModule' = byModule
        BY <2>1 DEF byModule
    <2>3. OneLivePresignature' /\ SignedInv'
        BY <2>1, <2>2, <1>a DEF OneLivePresignature, SignedInv, module
    <2>4. \A k \in Token : \/ k = t /\ allowance'[k] = 0 /\ k \in touched'
                           \/ k # t /\ allowance'[k] = allowance[k] /\ (k \in touched' <=> k \in touched)
        BY <2>1, <1>0
    <2>5. \A k \in Token : liveAllowanceUid[k] # NoOrder => order[liveAllowanceUid[k]].sellAmount \in Nat
        BY <1>0
    <2>6. liveAllowanceUid' = liveAllowanceUid
        BY <2>1 DEF module
    <2>7. AllowanceFollowsOrder'
        BY <2>4, <2>5, <2>6, <1>a DEF AllowanceFollowsOrder
    <2> QED BY <2>3, <2>7
<1>5. ASSUME NEW t \in Token, NEW p \in Price[t], UpdateFeed(t, p)
      PROVE  OneLivePresignature' /\ AllowanceFollowsOrder' /\ SignedInv'
    BY <1>5, <1>a, ChainUntouched DEF UpdateFeed
<1>6. CASE OwnersPromoteCurator \/ SequencerTurns \/ Tick
    BY <1>6, <1>a, ChainUntouched DEF OwnersPromoteCurator, SequencerTurns, Tick
<1>7. CASE UNCHANGED vars
    BY <1>7, <1>a, ChainUntouched DEF vars
<1> QED BY <1>1, <1>2, <1>3, <1>4, <1>5, <1>6, <1>7, RebalanceKeeps DEF Next

LEMMA Inductive == Spec => []IInv
<1>1. IInv /\ [Next]_vars => IInv'
    BY TypeStep, BucketStep, ChainStep DEF IInv
<1> QED BY InitIInv, <1>1, PTL DEF Spec

-----------------------------------------------------------------------------
(* In particular the bucket never holds more than the cap.                 *)
THEOREM TypeCorrect == Spec => []TypeOK
<1>1. IInv => TypeOK
    BY DEF IInv
<1> QED BY Inductive, <1>1, PTL

(* However the curator rebalances and cancels, each sell token has at most *)
(* one presignature of the module's in force, and it can be cancelled.     *)
THEOREM OnePresignaturePerToken == Spec => []OneLivePresignature
<1>1. IInv => OneLivePresignature
    BY DEF IInv
<1> QED BY Inductive, <1>1, PTL

(* The relayer's allowance is the live order's, or less.                   *)
THEOREM AllowanceIsTheOrders == Spec => []AllowanceFollowsOrder
<1>1. IInv => AllowanceFollowsOrder
    BY DEF IInv
<1> QED BY Inductive, <1>1, PTL

(* The contract's claim on its leaky bucket: twice the cap in any day.     *)
THEOREM TwiceTheCap == Spec => []RollingTurnoverBounded
<1>1. IInv => RollingTurnoverBounded
    <2> SUFFICES ASSUME IInv, NEW t \in 0..now
                 PROVE  (turnover - turnoverBefore[t]) * OneDay <=
                           (OneDay + (now - t)) * dailyUsdTurnoverCap
        BY DEF RollingTurnoverBounded
    <2>0. /\ now \in Nat /\ t \in Nat /\ t <= now /\ t \in Time
          /\ lastTurnoverTs \in Nat /\ lastTurnoverTs <= now
          /\ turnover \in Nat /\ turnoverSpentUsd \in Nat
          /\ turnoverSpentUsd <= dailyUsdTurnoverCap /\ turnoverBefore[t] \in Nat
        BY LimitAssumption, Constants DEF IInv, TypeOK, Time
    <2>1. /\ (OneDay + (now - t)) * dailyUsdTurnoverCap =
                dailyUsdTurnoverCap * OneDay + (now - t) * dailyUsdTurnoverCap
          /\ dailyUsdTurnoverCap * OneDay \in Nat /\ (now - t) * dailyUsdTurnoverCap \in Nat
        BY <2>0, Constants, Times
    <2>2. CASE t > lastTurnoverTs
        <3>1. (turnover - turnoverBefore[t]) * OneDay = 0
            BY <2>0, <2>2, Constants DEF IInv, BucketInv
        <3> QED BY <3>1, <2>1
    <2>3. CASE t <= lastTurnoverTs
        <3>1. (turnover - turnoverBefore[t]) * OneDay <=
                 turnoverSpentUsd * OneDay + (lastTurnoverTs - t) * dailyUsdTurnoverCap
            BY <2>0, <2>3 DEF IInv, BucketInv
        <3>2. turnoverSpentUsd * OneDay <= dailyUsdTurnoverCap * OneDay
            BY <2>0, Constants, Scale
        <3>3. (lastTurnoverTs - t) * dailyUsdTurnoverCap <= (now - t) * dailyUsdTurnoverCap
            BY <2>0, <2>3, Constants, Scale
        <3>4. /\ (turnover - turnoverBefore[t]) * OneDay \in Int
              /\ turnoverSpentUsd * OneDay \in Nat
              /\ (lastTurnoverTs - t) * dailyUsdTurnoverCap \in Nat
            BY <2>0, <2>3, Constants, Times
        <3> QED BY <3>1, <3>2, <3>3, <3>4, <2>1
    <2> QED BY <2>0, <2>2, <2>3
<1> QED BY Inductive, <1>1, PTL

(* No fill of the module's orders is late, or below the slippage band.     *)
THEOREM FillsAreWithinPolicy == Spec => FillsKeepValue
<1> DEFINE Keeps ==
       \A o \in byModule : o \in filled' \ filled =>
          LET at == signed[o]
              sell == order[o].sellToken
              buy == order[o].buyToken
          IN  /\ now <= at.at + maxTtl
              /\ (order[o].buyAmount + 2) * at.buyPrice * Unit[sell] * BPS >=
                    order[o].sellAmount * at.sellPrice * Unit[buy] * (BPS - maxSlippageBps)
<1>1. ASSUME IInv, NEW p \in Order, Fill(p) PROVE Keeps
    <2> SUFFICES ASSUME NEW o \in byModule, o \in filled' \ filled
                 PROVE  /\ now <= signed[o].at + maxTtl
                        /\ (order[o].buyAmount + 2) * signed[o].buyPrice
                              * Unit[order[o].sellToken] * BPS >=
                           order[o].sellAmount * signed[o].sellPrice
                              * Unit[order[o].buyToken] * (BPS - maxSlippageBps)
        OBVIOUS
    <2>1. o = p /\ order[o].validTo >= now
        BY <1>1 DEF Fill
    <2>2. /\ order[o].validTo <= signed[o].at + maxTtl
          /\ (order[o].buyAmount + 2) * signed[o].buyPrice * Unit[order[o].sellToken] * BPS >=
                order[o].sellAmount * signed[o].sellPrice * Unit[order[o].buyToken]
                   * (BPS - maxSlippageBps)
        BY <1>1 DEF IInv, SignedInv
    <2>3. o \in Order /\ signed[o] # Unsigned
        BY DEF byModule
    <2>4. order[o].validTo \in Nat /\ now \in Nat
        BY <1>1, <2>3, OrderAssumption, LimitAssumption DEF IInv, TypeOK, OrderFields, Time
    <2>5. signed[o] \in [at : Time, sellPrice : Nat, buyPrice : Nat]
        BY <1>1, <2>3 DEF IInv, TypeOK
    <2>6. signed[o].at \in Nat
        BY <2>5, LimitAssumption DEF Time
    <2> QED BY <2>1, <2>2, <2>4, <2>6, Constants
<1>2. ASSUME IInv, [Next]_vars PROVE Keeps \/ UNCHANGED vars
    <2>1. CASE filled' = filled
        BY <2>1
    <2>2. ASSUME NEW o \in Order, rebalance(o) \/ cancel(o) PROVE filled' = filled
        BY <2>2 DEF rebalance, cancel
    <2>3. ASSUME NEW o \in Order, NEW on \in BOOLEAN, OwnersSign(o, on) PROVE filled' = filled
        BY <2>3 DEF OwnersSign
    <2>4. ASSUME NEW t \in Token, OwnersClear(t) PROVE filled' = filled
        BY <2>4 DEF OwnersClear
    <2>5. ASSUME NEW t \in Token, NEW q \in Price[t], UpdateFeed(t, q) PROVE filled' = filled
        BY <2>5 DEF UpdateFeed, chain
    <2>6. CASE OwnersPromoteCurator \/ SequencerTurns \/ Tick
        BY <2>1, <2>6 DEF OwnersPromoteCurator, SequencerTurns, Tick, chain
    <2> HIDE DEF Keeps
    <2> QED BY <1>1, <1>2, <2>1, <2>2, <2>3, <2>4, <2>5, <2>6 DEF Next
<1>3. IInv /\ [Next]_vars => [Keeps]_vars
    BY <1>2
<1> QED BY Inductive, <1>3, PTL DEF Spec, FillsKeepValue
=============================================================================
