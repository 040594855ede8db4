---------------------------- MODULE VaultPolicy -----------------------------
(***************************************************************************)
(* OphisVaultPolicyModule: a curator trades a Safe's tokens through one    *)
(* gate.  Each accepted order gets an exact allowance and a presignature,  *)
(* and takes both away from the order of the same token before it.         *)
(*                                                                         *)
(* With it run the settlement, which fills presigned orders (seen here by  *)
(* what a fill needs and takes), the price feeds, the sequencer's uptime   *)
(* feed and the Safe's owners, who may revoke, presign and clear           *)
(* allowances themselves, or make the curator an owner or a module.        *)
(*                                                                         *)
(* liveAllowanceUid and liveAllowanceOrderUid hold a uid's hash and its    *)
(* bytes and are always written together: one variable.  Allowed tokens    *)
(* call nobody back, so a call of the module is one step.                  *)
(***************************************************************************)
EXTENDS Integers, FiniteSets

CONSTANTS
    Token,        \* allowed tokens
    Order,        \* orders, by uid
    NoOrder,      \* an empty uid
    order,        \* Order -> its fields
    Price,        \* Token -> prices its feed may report, 0 when invalid
    Unit,         \* Token -> 10 ** its decimals
    minPrice18, maxPrice18, maxStaleness,  \* Token -> its TokenPolicy
    maxSlippageBps, maxTtl, dailyUsdTurnoverCap, sequencerGracePeriod,
    OneDay,       \* 1 days, in the model's time unit
    MaxTime       \* bound: timestamps are 0..MaxTime

BPS == 10000

(* wellFormed: the receiver is the Safe, the signed fee zero, the appData  *)
(* frozen, the kind a fill-or-kill sell with plain balances.               *)
OrderFields == [sellToken : Token, buyToken : Token, sellAmount : Nat, buyAmount : Nat,
                validTo : Nat, wellFormed : BOOLEAN]

ASSUME OrderAssumption == order \in [Order -> OrderFields] /\ NoOrder \notin Order
ASSUME PriceAssumption ==
    /\ Price \in [Token -> SUBSET Nat] /\ Unit \in [Token -> Nat \ {0}]
    /\ minPrice18 \in [Token -> Nat \ {0}] /\ maxPrice18 \in [Token -> Nat]
    /\ maxStaleness \in [Token -> Nat \ {0}]
ASSUME LimitAssumption ==
    /\ maxSlippageBps \in 0..1000 /\ maxTtl \in Nat \ {0}
    /\ dailyUsdTurnoverCap \in Nat \ {0} /\ sequencerGracePeriod \in Nat
    /\ OneDay \in Nat \ {0} /\ MaxTime \in Nat

Time == 0..MaxTime
Unsigned == [at |-> -1]

VARIABLES
    moduleOrderSellToken,  \* the orders the module has on record
    liveAllowanceUid,      \* Token -> the order that owns the relayer allowance
    turnoverSpentUsd, lastTurnoverTs,
    preSignature,          \* settlement: presigned orders of the Safe
    filled,                \* settlement: orders filled
    allowance,             \* Token -> the Safe's allowance to the relayer
    feed,                  \* Token -> last round: [price, updatedAt]
    sequencer,             \* uptime feed: [up, startedAt]
    curatorPrivileged,     \* the curator is an owner or an enabled module
    now,                   \* block.timestamp
    signed,                \* history: Order -> time and prices at which the module
                           \* presigned it, Unsigned when not by it or not any more
    touched,               \* history: tokens whose allowance others used since
    turnover,              \* history: USD presigned so far
    turnoverBefore         \* history: Time -> turnover before that timestamp

module == <<moduleOrderSellToken, liveAllowanceUid>>
bucket == <<turnoverSpentUsd, lastTurnoverTs, turnover>>
chain == <<preSignature, filled, allowance>>
world == <<feed, sequencer, curatorPrivileged, now, turnoverBefore>>
history == <<signed, touched>>
vars == <<module, bucket, chain, world, history>>

(* The constructor reads a valid price of every feed; the sequencer has    *)
(* been up for long enough.                                                *)
Init ==
    /\ moduleOrderSellToken = {}
    /\ liveAllowanceUid = [t \in Token |-> NoOrder]
    /\ turnoverSpentUsd = 0 /\ lastTurnoverTs = 0 /\ turnover = 0
    /\ preSignature = {} /\ filled = {}
    /\ allowance = [t \in Token |-> 0]
    /\ feed \in [Token -> [price : UNION {Price[t] : t \in Token}, updatedAt : {0}]]
    /\ \A t \in Token : /\ feed[t].price \in Price[t]
                        /\ minPrice18[t] <= feed[t].price /\ feed[t].price <= maxPrice18[t]
    /\ sequencer = [up |-> TRUE, startedAt |-> -sequencerGracePeriod]
    /\ curatorPrivileged = FALSE
    /\ now = 0
    /\ signed = [o \in Order |-> Unsigned]
    /\ touched = {}
    /\ turnoverBefore = [t \in Time |-> 0]

-----------------------------------------------------------------------------
(* The policy.                                                             *)

(* read18 returns a price: valid, of a complete round, fresh, in bounds.   *)
Readable(t) ==
    /\ feed[t].price > 0
    /\ now <= feed[t].updatedAt + maxStaleness[t]
    /\ minPrice18[t] <= feed[t].price /\ feed[t].price <= maxPrice18[t]

(* up is FALSE too for a round that was never started.                     *)
SequencerReady == sequencer.up /\ now - sequencer.startedAt >= sequencerGracePeriod

(* Mutant: the division comes first.                                       *)
floorDividedFirst(o) ==
    LET sell == order[o].sellToken
        buy  == order[o].buyToken
        gross == ((order[o].sellAmount \div Unit[sell]) * feed[sell].price * Unit[buy])
                   \div feed[buy].price
    IN  (gross * (BPS - maxSlippageBps)) \div BPS

(* The least acceptable buyAmount.                                         *)
floorBuyAmount(o) ==
    LET sell == order[o].sellToken
        buy  == order[o].buyToken
        gross == (order[o].sellAmount * feed[sell].price * Unit[buy])
                   \div (feed[buy].price * Unit[sell])
    IN  (gross * (BPS - maxSlippageBps)) \div BPS

orderUsd(o) ==
    LET sell == order[o].sellToken
    IN  (order[o].sellAmount * feed[sell].price) \div Unit[sell]

(* _enforcePolicy.  minBuyOverride can only raise the floor: left out.     *)
_enforcePolicy(o) ==
    /\ order[o].sellToken # order[o].buyToken
    /\ order[o].wellFormed
    /\ order[o].validTo > now /\ order[o].validTo <= now + maxTtl
    /\ order[o].sellAmount > 0
    /\ SequencerReady
    /\ Readable(order[o].sellToken) /\ Readable(order[o].buyToken)
    /\ floorBuyAmount(o) > 0
    /\ order[o].buyAmount >= floorBuyAmount(o)

(* The bucket's content after what has drained since the last accrual.     *)
Drained ==
    LET leaked == ((now - lastTurnoverTs) * dailyUsdTurnoverCap) \div OneDay
    IN  IF turnoverSpentUsd > leaked THEN turnoverSpentUsd - leaked ELSE 0

(* Mutant: the time of the last accrual is not moved.                      *)
recordTurnoverAtDeploy(usd) ==
    /\ Drained + usd <= dailyUsdTurnoverCap
    /\ turnoverSpentUsd' = Drained + usd
    /\ turnover' = turnover + usd
    /\ UNCHANGED lastTurnoverTs

_recordTurnover(usd) ==
    /\ Drained + usd <= dailyUsdTurnoverCap
    /\ turnoverSpentUsd' = Drained + usd
    /\ lastTurnoverTs' = now
    /\ turnover' = turnover + usd

-----------------------------------------------------------------------------
(* The curator's calls.                                                    *)

(* Mutant: the presignature of the order before stays.                     *)
SupersededKept(o) == {}

(* The order of the same token whose allowance o takes over, if another.   *)
Superseded(o) == {liveAllowanceUid[order[o].sellToken]} \ {o, NoOrder}

rebalance(o) ==
    LET t == order[o].sellToken
    IN  /\ ~curatorPrivileged
        /\ _enforcePolicy(o)
        /\ _recordTurnover(orderUsd(o))
        /\ moduleOrderSellToken' = (moduleOrderSellToken \union {o}) \ Superseded(o)
        /\ liveAllowanceUid' = [liveAllowanceUid EXCEPT ![t] = o]
        /\ preSignature' = (preSignature \ Superseded(o)) \union {o}
        /\ allowance' = [allowance EXCEPT ![t] = order[o].sellAmount]
        /\ signed' = [p \in Order |->
                        IF p = o THEN [at |-> now, sellPrice |-> feed[t].price,
                                       buyPrice |-> feed[order[o].buyToken].price]
                        ELSE IF p \in preSignature' THEN signed[p] ELSE Unsigned]
        /\ touched' = touched \ {t}
        /\ UNCHANGED <<filled, world>>

(* Mutant: the allowance of a cancelled order is left in place.            *)
ReleaseOwnership(o) ==
    LET t == order[o].sellToken
    IN  /\ liveAllowanceUid' =
             [liveAllowanceUid EXCEPT ![t] = IF @ = o THEN NoOrder ELSE @]
        /\ UNCHANGED allowance

(* The allowance goes with the order that owns it.                         *)
Release(o) ==
    LET t == order[o].sellToken
    IN  IF liveAllowanceUid[t] = o
        THEN /\ liveAllowanceUid' = [liveAllowanceUid EXCEPT ![t] = NoOrder]
             /\ allowance' = [allowance EXCEPT ![t] = 0]
        ELSE UNCHANGED <<liveAllowanceUid, allowance>>

cancel(o) ==
    /\ ~curatorPrivileged
    /\ o \in moduleOrderSellToken
    /\ moduleOrderSellToken' = moduleOrderSellToken \ {o}
    /\ preSignature' = preSignature \ {o}
    /\ Release(o)
    /\ signed' = [signed EXCEPT ![o] = Unsigned]
    /\ UNCHANGED <<filled, bucket, world, touched>>

-----------------------------------------------------------------------------
(* The settlement, the owners and the feeds.                               *)

(* A solver settles a presigned order in full.                             *)
Fill(o) ==
    LET t == order[o].sellToken
    IN  /\ o \in preSignature \ filled
        /\ order[o].validTo >= now
        /\ order[o].sellAmount <= allowance[t]
        /\ filled' = filled \union {o}
        /\ allowance' = [allowance EXCEPT ![t] = @ - order[o].sellAmount]
        /\ touched' = touched \union {t}
        /\ UNCHANGED <<module, bucket, preSignature, world, signed>>

(* The owners presign or revoke an order, or clear an allowance.           *)
OwnersSign(o, on) ==
    /\ preSignature' = IF on THEN preSignature \union {o} ELSE preSignature \ {o}
    /\ signed' = [signed EXCEPT ![o] = Unsigned]
    /\ UNCHANGED <<module, bucket, filled, allowance, world, touched>>

OwnersClear(t) ==
    /\ allowance' = [allowance EXCEPT ![t] = 0]
    /\ touched' = touched \union {t}
    /\ UNCHANGED <<module, bucket, preSignature, filled, world, signed>>

OwnersPromoteCurator ==
    /\ curatorPrivileged' = ~curatorPrivileged
    /\ UNCHANGED <<module, bucket, chain, feed, sequencer, now, turnoverBefore, history>>

UpdateFeed(t, price) ==
    /\ feed' = [feed EXCEPT ![t] = [price |-> price, updatedAt |-> now]]
    /\ UNCHANGED <<module, bucket, chain, sequencer, curatorPrivileged, now, turnoverBefore, history>>

SequencerTurns ==
    /\ sequencer' = [up |-> ~sequencer.up, startedAt |-> now]
    /\ UNCHANGED <<module, bucket, chain, feed, curatorPrivileged, now, turnoverBefore, history>>

Tick ==
    /\ now < MaxTime
    /\ now' = now + 1
    /\ turnoverBefore' = [turnoverBefore EXCEPT ![now + 1] = turnover]
    /\ UNCHANGED <<module, bucket, chain, feed, sequencer, curatorPrivileged, history>>

Next ==
    \/ \E o \in Order : rebalance(o) \/ cancel(o) \/ Fill(o)
    \/ \E o \in Order, on \in BOOLEAN : OwnersSign(o, on)
    \/ \E t \in Token : OwnersClear(t) \/ \E p \in Price[t] : UpdateFeed(t, p)
    \/ OwnersPromoteCurator
    \/ SequencerTurns
    \/ Tick

Spec == Init /\ [][Next]_vars

-----------------------------------------------------------------------------
(* Safety.                                                                 *)

(* The orders whose presignature in force is the module's.                 *)
byModule == {o \in Order : signed[o] # Unsigned}

TypeOK ==
    /\ moduleOrderSellToken \subseteq Order
    /\ liveAllowanceUid \in [Token -> Order \union {NoOrder}]
    /\ turnoverSpentUsd \in 0..dailyUsdTurnoverCap
    /\ lastTurnoverTs \in 0..now
    /\ preSignature \subseteq Order /\ filled \subseteq Order
    /\ allowance \in [Token -> Nat]
    /\ feed \in [Token -> [price : Nat, updatedAt : Time]]
    /\ sequencer \in [up : BOOLEAN, startedAt : -sequencerGracePeriod..MaxTime]
    /\ curatorPrivileged \in BOOLEAN
    /\ now \in Time
    /\ signed \in [Order -> [at : Time, sellPrice : Nat, buyPrice : Nat] \union {Unsigned}]
    /\ touched \subseteq Token
    /\ turnover \in Nat /\ turnoverBefore \in [Time -> Nat]

(* The module keeps at most one presignature per sell token in force, the  *)
(* one that owns the token's allowance, and can still cancel it.           *)
OneLivePresignature ==
    \A o \in byModule : /\ o \in preSignature
                        /\ liveAllowanceUid[order[o].sellToken] = o
                        /\ o \in moduleOrderSellToken

(* The relayer is never allowed more than the live order sells, nothing    *)
(* when there is none, and exactly that until a fill or an owner uses it.  *)
AllowanceFollowsOrder ==
    \A t \in Token :
        LET o == liveAllowanceUid[t]
        IN  IF o = NoOrder THEN allowance[t] = 0
            ELSE /\ order[o].sellToken = t
                 /\ allowance[t] <= order[o].sellAmount
                 /\ t \notin touched => allowance[t] = order[o].sellAmount

(* A fill of what the module presigned comes within maxTtl of the prices   *)
(* it was checked against, and at those prices the Safe gives away no more *)
(* than the slippage band, but for two base units of rounding.             *)
FillsKeepValue ==
    [][\A o \in byModule : o \in filled' \ filled =>
          LET at == signed[o]
              sell == order[o].sellToken
              buy == order[o].buyToken
          IN  /\ now <= at.at + maxTtl
              /\ (order[o].buyAmount + 2) * at.buyPrice * Unit[sell] * BPS >=
                    order[o].sellAmount * at.sellPrice * Unit[buy] * (BPS - maxSlippageBps)]_vars

(* Over any window of a day the curator presigns at most twice the cap, as *)
(* the contract's NatSpec says, and in proportion over a shorter one.      *)
RollingTurnoverBounded ==
    \A t \in 0..now :
        (turnover - turnoverBefore[t]) * OneDay <= (OneDay + (now - t)) * dailyUsdTurnoverCap
=============================================================================
