----------------------------- MODULE Broadcaster ----------------------------
(***************************************************************************)
(* The private-swap broadcaster: one gas wallet, a durable request journal *)
(* (rows), the protected transport's own journal (transport), a request    *)
(* handler and a reconciler that run concurrently and stop at every await, *)
(* and the operator's recovery commands, which take the service's lock.    *)
(*                                                                         *)
(* The chain includes any disclosed transaction of the wallet's next nonce *)
(* at any later time or never; its last block may be replaced, an older    *)
(* one not (the two confirmations the code waits for).  Nonces count from  *)
(* 1.  A row with raw = NoTx is not in the table.  Every check of a        *)
(* request's contents is a possible failure of the handler.                *)
(***************************************************************************)
EXTENDS Integers, Sequences, FiniteSets, FiniteSetsExt

CONSTANTS
    Request,               \* encrypted requests, by key
    NoTx, NoPending,       \* NULL columns, an empty transport journal
    maxTransactionCost, dailyBudget, reserve,    \* Settings
    Funds,                 \* what the gas wallet was given
    Day,                   \* 24 * 60 * 60_000, in the model's time unit
    NodeMisses,            \* whether the node may not find a receipt it has
    Horizon                \* bound: the pairs of a time and a number of stops

ASSUME LimitAssumption ==
    /\ maxTransactionCost \in Nat \ {0} /\ reserve \in Nat /\ Funds \in Nat
    /\ dailyBudget \in Nat /\ dailyBudget >= maxTransactionCost
    /\ Day \in Nat /\ <<0, 0>> \in Horizon /\ Horizon \subseteq Nat \X Nat
    /\ NodeMisses \in BOOLEAN

Cost == 1..maxTransactionCost
Tx == [key : Request, nonce : Nat \ {0}, cancels : BOOLEAN, max : Cost]
Row == [raw : Tx \cup {NoTx}, cancel_raw : Tx \cup {NoTx}, max_cost : Nat, actual_cost : Nat,
        mined_at : Nat, confirmed : BOOLEAN, assured : {"no", "fee-received", "cancelled"},
        acknowledged : BOOLEAN, response : {"none", "hash", "unknown"}]

Pending == [key : Request, nonce : Nat \ {0}, cancel_raw : Tx \cup {NoTx}]
ASSUME NothingAssumption == NoTx \notin Tx \cup Request /\ NoPending \notin Pending

VARIABLES
    now,
    mined,       \* the wallet's transactions on chain, by nonce: [tx, cost, at, ok]
    deep,        \* how many of them are below the last block
    disclosed,   \* transactions the private endpoint may have
    rows,        \* Store: Request -> Row
    transport,   \* ProtectedEthereumProvider's pending row
    up,          \* the service runs (and holds the operator lock)
    stops,       \* bound: times it stopped
    task,        \* the handler at work: busy, activeKey and its locals
    rec,         \* the reconciler at work and its locals
    cli,         \* the recovery command at work
    answer       \* the last reply to each request, "none" while it is handled

chain == <<mined, deep, disclosed>>
journals == <<rows, transport>>
service == <<up, stops>>
vars == <<now, chain, journals, service, task, rec, cli, answer>>

NoRow == [raw |-> NoTx, cancel_raw |-> NoTx, max_cost |-> 0, actual_cost |-> 0, mined_at |-> 0,
          confirmed |-> FALSE, assured |-> "no", acknowledged |-> FALSE, response |-> "none"]
Free == [phase |-> "idle", key |-> NoTx, nonce |-> 0, budget |-> 0]
Idle == [phase |-> "idle", key |-> NoTx, upto |-> 0, wasConfirmed |-> FALSE]
NoCommand == [phase |-> "idle", key |-> NoTx]

Init ==
    /\ now = 0 /\ mined = <<>> /\ deep = 0 /\ disclosed = {}
    /\ rows = [k \in Request |-> NoRow] /\ transport = NoPending
    /\ up = TRUE /\ stops = 0
    /\ task = Free /\ rec = Idle /\ cli = NoCommand
    /\ answer = [k \in Request |-> "none"]

-----------------------------------------------------------------------------
(* The journal *)

Rows == {k \in Request : rows[k].raw # NoTx}
Unconfirmed == {k \in Rows : ~rows[k].confirmed}
\* Variation: a confirmed row is no longer pending, whatever became of it.
pendingNonces == Unconfirmed
pending ==
    {k \in Rows : /\ ~rows[k].confirmed \/ rows[k].assured = "no"
                  /\ ~rows[k].acknowledged}
hasPending == pending # {}
nonceBlocked(nonce) == \E k \in Unconfirmed : rows[k].raw.nonce >= nonce

Recorded(row) == IF row.confirmed THEN row.actual_cost ELSE row.max_cost
exposure ==
    SumFunctionOnSet([k \in Request |-> Recorded(rows[k])],
                     {k \in Rows : ~rows[k].confirmed \/ rows[k].mined_at >= now - Day})

Signed(key, nonce, cost) ==
    [NoRow EXCEPT !.raw = [key |-> key, nonce |-> nonce, cancels |-> FALSE, max |-> cost],
                  !.max_cost = cost]
\* Variation: the cancellation's cost is not reserved.
CancelledUnreserved(row, tx) == [row EXCEPT !.cancel_raw = tx]
Cancelled(row, tx) ==
    [row EXCEPT !.cancel_raw = tx, !.max_cost = IF tx.max > @ THEN tx.max ELSE @]
Confirmed(row, cost, at) ==
    [row EXCEPT !.confirmed = TRUE, !.actual_cost = cost, !.mined_at = at]

(* The wallet, at the last block and at the one before *)
Nonce == Len(mined) + 1
ConfirmedNonce == deep + 1
Paid == [n \in DOMAIN mined |-> mined[n].cost]
Spent == SumFunctionOnSet(Paid, DOMAIN mined)
Balance == Funds - Spent

-----------------------------------------------------------------------------
(* Broadcaster.handle: up to the reservation of the wallet without an      *)
(* await, then a step from each await to the next                          *)

Replay(k) ==
    /\ up /\ task.key # k /\ rows[k].response # "none"
    /\ answer' = [answer EXCEPT ![k] = rows[k].response]
    /\ UNCHANGED <<now, chain, journals, service, task, rec, cli>>

Refuse(k) ==
    /\ up /\ task.key # k /\ rows[k].response = "none"
    /\ IF rows[k].raw # NoTx
       THEN /\ rows' = [rows EXCEPT ![k].response = "unknown"]
            /\ answer' = [answer EXCEPT ![k] = "unknown"]
       ELSE /\ answer' = [answer EXCEPT ![k] = "rejected"]
            /\ UNCHANGED rows
    /\ UNCHANGED <<now, chain, transport, service, task, rec, cli>>

Admit(k) ==
    /\ up /\ task = Free
    /\ rows[k].response = "none" /\ rows[k].raw = NoTx
    /\ ~hasPending
    /\ task' = [Free EXCEPT !.phase = "admitted", !.key = k]
    /\ answer' = [answer EXCEPT ![k] = "none"]
    /\ UNCHANGED <<now, chain, journals, service, rec, cli>>

ReadState(cost) ==
    /\ task.phase = "admitted"
    /\ Nonce = ConfirmedNonce /\ ~nonceBlocked(Nonce)
    /\ Balance >= cost + reserve
    /\ task' = [task EXCEPT !.phase = "validating", !.nonce = Nonce, !.budget = cost]
    /\ UNCHANGED <<now, chain, journals, service, rec, cli, answer>>

RecheckState ==
    /\ task.phase = "validating"
    /\ ~hasPending /\ Nonce = task.nonce /\ ConfirmedNonce = task.nonce
    /\ Balance >= task.budget + reserve
    /\ task' = [task EXCEPT !.phase = "rechecked"]
    /\ UNCHANGED <<now, chain, journals, service, rec, cli, answer>>

SignRequest ==
    /\ task.phase = "rechecked"
    /\ exposure + task.budget <= dailyBudget
    /\ task' = [task EXCEPT !.phase = "signed"]
    /\ UNCHANGED <<now, chain, journals, service, rec, cli, answer>>

JournalRequest ==
    /\ task.phase = "signed"
    /\ rows[task.key].raw = NoTx
    /\ exposure + task.budget <= dailyBudget /\ ~hasPending
    /\ rows' = [rows EXCEPT ![task.key] = Signed(task.key, task.nonce, task.budget)]
    /\ task' = [task EXCEPT !.phase = "journaled"]
    /\ UNCHANGED <<now, chain, transport, service, rec, cli, answer>>

(* ProtectedEthereumProvider.journalSigned: the transport's journal keeps  *)
(* one transaction until its nonce is confirmed                            *)
TransportHolds == transport # NoPending /\ deep < transport.nonce
MayStage(tx) ==
    /\ TransportHolds => transport.key = tx.key /\ transport.cancel_raw = NoTx
    /\ Nonce = tx.nonce
Staged(tx) ==
    IF TransportHolds THEN transport
    ELSE [key |-> tx.key, nonce |-> tx.nonce, cancel_raw |-> NoTx]

StageRequest ==
    /\ task.phase = "journaled"
    /\ LET tx == rows[task.key].raw
       IN MayStage(tx) /\ transport' = Staged(tx)
    /\ task' = [task EXCEPT !.phase = "staged"]
    /\ UNCHANGED <<now, chain, rows, service, rec, cli, answer>>

Disclose ==
    /\ task.phase = "staged"
    /\ disclosed' = disclosed \cup {rows[task.key].raw}
    /\ task' = [task EXCEPT !.phase = "sent"]
    /\ UNCHANGED <<now, mined, deep, journals, service, rec, cli, answer>>

Acknowledged ==
    /\ task.phase = "sent"
    /\ rows' = [rows EXCEPT ![task.key].response = "hash"]
    /\ answer' = [answer EXCEPT ![task.key] = "hash"]
    /\ task' = Free
    /\ UNCHANGED <<now, chain, transport, service, rec, cli>>

\* Variation: a failure is a rejection, also after the disclosure.
FailureRejects(k) == "rejected"
(* The catch block: whatever failed, a check, a read, the endpoint         *)
FailureAnswer(k) == IF rows[k].raw = NoTx THEN "rejected" ELSE "unknown"
HandleFails ==
    /\ task # Free
    /\ rows' = IF FailureAnswer(task.key) = "unknown"
               THEN [rows EXCEPT ![task.key].response = "unknown"] ELSE rows
    /\ answer' = [answer EXCEPT ![task.key] = FailureAnswer(task.key)]
    /\ task' = Free
    /\ UNCHANGED <<now, chain, transport, service, rec, cli>>

-----------------------------------------------------------------------------
(* Broadcaster.reconcile: rec.upto is what the block before the one it     *)
(* read first had consumed; deeper receipts no longer change               *)
\* Variation: a receipt in the last block counts as final.
SettledAtOnce == Len(mined)
Settled == deep

ReconcileStart(k) ==
    /\ up /\ rec = Idle /\ k \in pending
    /\ rec' = [phase |-> "reading", key |-> k, upto |-> Settled, wasConfirmed |-> rows[k].confirmed]
    /\ UNCHANGED <<now, chain, journals, service, task, cli, answer>>

Finds(row, n) == mined[n].tx \in {row.raw, row.cancel_raw}

ReconcileNothing ==
    /\ rec.phase = "reading" /\ rows[rec.key].raw.nonce > rec.upto
    /\ rec' = Idle
    /\ UNCHANGED <<now, chain, journals, service, task, cli, answer>>

ReconcileReceipt ==
    /\ rec.phase = "reading"
    /\ LET n == rows[rec.key].raw.nonce
       IN /\ n <= rec.upto /\ Finds(rows[rec.key], n)
          /\ rows' = [rows EXCEPT ![rec.key] = Confirmed(@, mined[n].cost, mined[n].at)]
    /\ rec' = [rec EXCEPT !.phase = "settling"]
    /\ UNCHANGED <<now, chain, transport, service, task, cli, answer>>

(* No receipt, but the nonce is consumed: the largest cost is recorded, at *)
(* the time of the block reconcile started from.  It is not before the one *)
(* that consumed the nonce; how old it is by now is open.                  *)
ReconcileUnknown ==
    /\ rec.phase = "reading"
    /\ LET n == rows[rec.key].raw.nonce
       IN /\ n <= rec.upto /\ (NodeMisses \/ ~Finds(rows[rec.key], n))
          /\ \E timestamp \in mined[n].at..now :
                rows' = [rows EXCEPT ![rec.key] = Confirmed(@, @.max_cost, timestamp)]
    /\ rec' = IF rec.wasConfirmed THEN [rec EXCEPT !.phase = "assuring"] ELSE Idle
    /\ UNCHANGED <<now, chain, transport, service, task, cli, answer>>

ReconcileCancelled ==
    /\ rec.phase = "settling"
    /\ mined[rows[rec.key].raw.nonce].tx.cancels
    /\ rows' = [rows EXCEPT ![rec.key].assured = "cancelled"]
    /\ rec' = Idle
    /\ UNCHANGED <<now, chain, transport, service, task, cli, answer>>

ReconcileAnswers ==
    /\ rec.phase = "settling"
    /\ LET e == mined[rows[rec.key].raw.nonce]
       IN /\ ~e.tx.cancels
          /\ rows' = [rows EXCEPT ![rec.key].response = "hash"]
          /\ rec' = IF e.ok /\ rows[rec.key].assured = "no"
                    THEN [rec EXCEPT !.phase = "assuring"] ELSE Idle
    /\ UNCHANGED <<now, chain, transport, service, task, cli, answer>>

(* The private wallet shows the fee note of this very transaction          *)
FeeDelivered(k) == mined[rows[k].raw.nonce].tx = rows[k].raw /\ mined[rows[k].raw.nonce].ok
ReconcileAssured ==
    /\ rec.phase = "assuring" /\ FeeDelivered(rec.key)
    /\ rows' = [rows EXCEPT ![rec.key].assured = "fee-received"]
    /\ rec' = Idle
    /\ UNCHANGED <<now, chain, transport, service, task, cli, answer>>

ReconcileFails ==
    /\ rec # Idle
    /\ rec' = Idle
    /\ UNCHANGED <<now, chain, journals, service, task, cli, answer>>

-----------------------------------------------------------------------------
(* Commands that run with the service stopped *)

Locked == ~up /\ cli = NoCommand

(* recover, common part *)
Recoverable(k) ==
    /\ Unconfirmed = {k}
    /\ Nonce = rows[k].raw.nonce /\ ConfirmedNonce = rows[k].raw.nonce
    /\ TransportHolds => transport.key = k
WithinLimits(cost) == cost <= maxTransactionCost /\ Balance >= cost + reserve

CancelCommand(k, cost) ==
    /\ Locked /\ Recoverable(k) /\ WithinLimits(cost)
    /\ rows[k].cancel_raw # NoTx => cost > rows[k].cancel_raw.max
    /\ LET tx == [key |-> k, nonce |-> rows[k].raw.nonce, cancels |-> TRUE, max |-> cost]
           row == Cancelled(rows[k], tx)
       IN /\ exposure + row.max_cost - rows[k].max_cost <= dailyBudget
          /\ rows' = [rows EXCEPT ![k] = row]
    /\ cli' = [phase |-> "staging", key |-> k]
    /\ UNCHANGED <<now, chain, transport, service, task, rec, answer>>

RetryCommand(k) ==
    /\ Locked /\ Recoverable(k) /\ rows[k].cancel_raw # NoTx
    /\ WithinLimits(rows[k].cancel_raw.max) /\ exposure <= dailyBudget
    /\ cli' = [phase |-> "staging", key |-> k]
    /\ UNCHANGED <<now, chain, journals, service, task, rec, answer>>

StageCommand ==
    /\ cli.phase = "staging"
    /\ LET tx == rows[cli.key].raw
       IN IF transport # NoPending /\ transport.key = cli.key
          THEN UNCHANGED transport
          ELSE MayStage(tx) /\ transport' = Staged(tx)
    /\ cli' = [cli EXCEPT !.phase = "sending"]
    /\ UNCHANGED <<now, chain, rows, service, task, rec, answer>>

CancelPending ==
    /\ cli.phase = "sending"
    /\ LET tx == rows[cli.key].cancel_raw
       IN /\ TransportHolds /\ transport.nonce = tx.nonce /\ Nonce = tx.nonce
          /\ transport' = [transport EXCEPT !.cancel_raw = tx]
          /\ disclosed' = disclosed \cup {tx}
    /\ cli' = NoCommand
    /\ UNCHANGED <<now, mined, deep, rows, service, task, rec, answer>>

CommandStops ==
    /\ cli # NoCommand
    /\ cli' = NoCommand
    /\ UNCHANGED <<now, chain, journals, service, task, rec, answer>>

acknowledgeLoss(k) ==
    /\ Locked /\ k \in Rows
    /\ LET row == rows[k]
           n == row.raw.nonce
       IN /\ row.confirmed /\ row.assured = "no" /\ ~row.acknowledged
          /\ n <= deep /\ mined[n].tx = row.raw /\ ~mined[n].ok
          /\ mined[n].cost = row.actual_cost /\ Nonce = n + 1
    /\ rows' = [rows EXCEPT ![k].acknowledged = TRUE]
    /\ UNCHANGED <<now, chain, transport, service, task, rec, cli, answer>>

(* A crash, or a stop that lets the handler and the reconciler fail        *)
Stop ==
    /\ up /\ <<now, stops + 1>> \in Horizon
    /\ up' = FALSE /\ stops' = stops + 1 /\ task' = Free /\ rec' = Idle
    /\ UNCHANGED <<now, chain, journals, cli, answer>>

Start ==
    /\ Locked
    /\ up' = TRUE
    /\ UNCHANGED <<now, chain, journals, stops, task, rec, cli, answer>>

-----------------------------------------------------------------------------
(* The chain *)

Include(tx, cost, ok) ==
    /\ tx \in disclosed /\ tx.nonce = Nonce /\ cost <= tx.max /\ (tx.cancels => ok)
    /\ mined' = Append(mined, [tx |-> tx, cost |-> cost, at |-> now, ok |-> ok])
    /\ deep' = Len(mined)
    /\ UNCHANGED <<now, disclosed, journals, service, task, rec, cli, answer>>

EmptyBlock ==
    /\ deep < Len(mined)
    /\ deep' = Len(mined)
    /\ UNCHANGED <<now, mined, disclosed, journals, service, task, rec, cli, answer>>

LastBlockReplaced ==
    /\ deep < Len(mined)
    /\ mined' = SubSeq(mined, 1, deep)
    /\ UNCHANGED <<now, deep, disclosed, journals, service, task, rec, cli, answer>>

Tick ==
    /\ <<now + 1, stops>> \in Horizon
    /\ now' = now + 1
    /\ UNCHANGED <<chain, journals, service, task, rec, cli, answer>>

-----------------------------------------------------------------------------
Handle ==
    \/ \E k \in Request : Replay(k) \/ Refuse(k) \/ Admit(k)
    \/ \E cost \in Cost : ReadState(cost)
    \/ RecheckState \/ SignRequest \/ JournalRequest \/ StageRequest \/ Disclose
    \/ Acknowledged \/ HandleFails
Reconcile ==
    \/ \E k \in Request : ReconcileStart(k)
    \/ ReconcileNothing \/ ReconcileReceipt \/ ReconcileUnknown \/ ReconcileCancelled
    \/ ReconcileAnswers \/ ReconcileAssured \/ ReconcileFails
Command ==
    \/ \E k \in Request, cost \in Cost : CancelCommand(k, cost)
    \/ \E k \in Request : RetryCommand(k) \/ acknowledgeLoss(k)
    \/ StageCommand \/ CancelPending \/ CommandStops
Chain ==
    \/ \E tx \in disclosed, cost \in Cost, ok \in BOOLEAN : Include(tx, cost, ok)
    \/ EmptyBlock \/ LastBlockReplaced \/ Tick

Next == Handle \/ Reconcile \/ Command \/ Stop \/ Start \/ Chain
Spec == Init /\ [][Next]_vars

(* The reconciler is started every 30 s and a stopped service restarted;   *)
(* reads may fail, but not all of them for ever.                           *)
Fairness ==
    /\ SF_vars(Start) /\ WF_vars(CommandStops) /\ WF_vars(ReconcileFails)
    /\ WF_vars(\E k \in Request : ReconcileStart(k))
    /\ SF_vars(ReconcileReceipt) /\ SF_vars(ReconcileCancelled)
    /\ SF_vars(ReconcileAnswers) /\ SF_vars(ReconcileAssured)
FairSpec == Spec /\ Fairness

-----------------------------------------------------------------------------
(* Types; the journal's nonces are the wallet's, and nothing is deeper     *)
(* than the chain is long.                                                 *)
TypeOK ==
    /\ <<now, stops>> \in Horizon /\ up \in BOOLEAN
    /\ mined \in Seq([tx : Tx, cost : Cost, at : 0..now, ok : BOOLEAN])
    /\ deep \in {Len(mined), Len(mined) - 1} /\ deep >= 0
    /\ disclosed \subseteq Tx
    /\ rows \in [Request -> Row]
    /\ transport \in Pending \cup {NoPending}
    /\ task \in [phase : {"idle", "admitted", "validating", "rechecked", "signed", "journaled",
                          "staged", "sent"},
                 key : Request \cup {NoTx}, nonce : Nat, budget : 0..maxTransactionCost]
    /\ rec \in [phase : {"idle", "reading", "settling", "assuring"},
                key : Request \cup {NoTx}, upto : 0..deep, wasConfirmed : BOOLEAN]
    /\ cli \in [phase : {"idle", "staging", "sending"}, key : Request \cup {NoTx}]
    /\ answer \in [Request -> {"none", "hash", "unknown", "rejected"}]

(* "Only one gas nonce may be pending": at most one request is signed and  *)
(* unsettled, and no two requests were ever signed for one nonce, though   *)
(* requests overlap, the service stops anywhere and a block is replaced.   *)
Unsettled(row) == row.assured = "no" /\ ~row.acknowledged
OneNoncePending ==
    /\ \A k, l \in Rows : Unsettled(rows[k]) /\ Unsettled(rows[l]) => k = l
    /\ \A k, l \in Rows : rows[k].raw.nonce = rows[l].raw.nonce => k = l

(* Whatever the endpoint may have is in the request journal, its largest   *)
(* cost reserved there, and, while it can still be mined, in the           *)
(* transport's: a restart never finds the chain knowing more.              *)
JournaledBeforeDisclosure ==
    \A tx \in disclosed :
        /\ IF tx.cancels THEN rows[tx.key].raw # NoTx /\ rows[tx.key].raw.nonce = tx.nonce
                         ELSE rows[tx.key].raw = tx
        /\ tx.max <= rows[tx.key].max_cost
        /\ tx.nonce > deep => transport # NoPending /\ transport.key = tx.key

(* The gas the wallet pays in any 24 hours of the chain stays within the   *)
(* daily budget, though the journal learns of it late, from receipts, and  *)
(* a cancellation may cost more than what it replaces.                     *)
DayWithinBudget ==
    \A n \in DOMAIN mined :
        SumFunctionOnSet(Paid, {i \in 1..n : mined[i].at >= mined[n].at - Day}) <= dailyBudget

(* No sponsored transaction or cancellation takes the reserve.             *)
ReserveKept == Spent > 0 => Balance >= reserve

(* What the operator configured: a budget per day and a reserve.           *)
LimitsKept == DayWithinBudget /\ ReserveKept

(* What ends a request in the journal happened on the chain for good: a    *)
(* received fee, a cancellation, an acknowledged loss; and a confirmed     *)
(* row's recorded cost covers what the nonce cost.                         *)
SettlementIsReal ==
    \A k \in Rows :
        LET row == rows[k]
            n == row.raw.nonce
        IN /\ row.confirmed => n <= deep /\ row.actual_cost >= mined[n].cost
           /\ row.assured = "fee-received" => mined[n].tx = row.raw /\ mined[n].ok
           /\ row.assured = "cancelled" => mined[n].tx.cancels
           /\ row.acknowledged => mined[n].tx = row.raw /\ ~mined[n].ok

(* A client told that its request was rejected may prepare another: the    *)
(* transaction of a rejected request was disclosed to no one.              *)
RejectedIsUndisclosed ==
    \A k \in Request : answer[k] = "rejected" =>
        \A tx \in disclosed : tx.key # k

(* The journals, and what clients are told, know what the endpoint has.    *)
DisclosureIsKnown == TypeOK /\ JournaledBeforeDisclosure /\ RejectedIsUndisclosed

(* README.md:61, "A confirmed explicit operator cancellation still         *)
(* resolves its nonce and records its actual cost": a cancellation that    *)
(* consumed the nonce is what the row, once confirmed, records.            *)
CancellationIsRecorded ==
    \A k \in Rows :
        rows[k].confirmed /\ mined[rows[k].raw.nonce].tx.cancels =>
            rows[k].actual_cost = mined[rows[k].raw.nonce].cost

(* A request whose transaction was mined for good and paid its fee is      *)
(* eventually settled, and the broadcaster available again.                *)
PaidIsSettled ==
    \A k \in Request :
        (rows[k].raw # NoTx /\ rows[k].raw.nonce <= deep /\ FeeDelivered(k))
            ~> (rows[k].assured = "fee-received")
=============================================================================
