---------------------------- MODULE OwnFeePayout ----------------------------
(***************************************************************************)
(* The monthly payout of integrators' own fees on one sovereign chain of   *)
(* the rebate indexer.  The nightly pipeline, one at a time under its      *)
(* advisory lock, reconciles the batches whose proposals are open and,     *)
(* when the monthly section is due, accrues the settled months and         *)
(* proposes every computed batch to the Safe's queue.  The Safe's owners   *)
(* execute proposals whenever they like, by nonce; a poller per proposal   *)
(* records executions while the process lives.  The process may stop       *)
(* anywhere.  Amounts are small numbers: how a month's trades make what is *)
(* owed, and to how many recipients, is left open.                         *)
(***************************************************************************)
EXTENDS Integers, FiniteSetsExt

CONSTANTS
    MaxMonth, MaxOwed, MaxFunds,       \* bounds: settled months, amounts
    MaxNonce, MaxFaults,                \* bounds: Safe transactions, faults
    OWN_FEE_ACCRUAL_LOOKBACK_MONTHS,
    NoTx

ASSUME OwnFeeAssumption ==
    /\ {MaxOwed, MaxFunds, MaxNonce, MaxFaults} \subseteq Nat /\ MaxMonth \in Nat \ {0}
    /\ OWN_FEE_ACCRUAL_LOOKBACK_MONTHS \in Nat \ {0}

Month == 1..MaxMonth
Proposal == [month : Month, amount : 1..MaxOwed, nonce : 0..(MaxNonce + MaxMonth)]

ASSUME NoTxAssumption == NoTx \notin Proposal      \* NULL is no hash

VARIABLES
    month,      \* months settled so far
    batch,      \* own_fee_batches; paid: its entries are marked as paid
    run,        \* the pipeline that holds the lock
    pollers,    \* proposals a background poller waits for
    paying,     \* months whose poller has recorded the execution, not the entries
    wire,       \* proposals sent to the Safe Transaction Service
    queue,      \* proposals the service has
    mined,      \* executed proposals, and whether they succeeded
    weth,       \* the Safe's WETH
    nonce,      \* the Safe's next nonce
    faults,     \* stops and failed writes so far
    slipped     \* what was executed and recorded between two reads of a run

ledger == <<month, batch>>
process == <<run, pollers, paying>>
service == <<wire, queue>>
safe == <<mined, weth, nonce>>
history == <<faults, slipped>>
ownFeeVars == <<ledger, process, service, safe, history>>

PROPOSED_STATUSES == {"proposing", "proposed", "executed", "failed"}
Queued == {m \in Month : batch[m].status \in {"proposing", "proposed"}}

NoRow == [status |-> "none", owed |-> 0, hash |-> NoTx, paid |-> FALSE]
NoRun == [pc |-> "off", todo |-> {}, month |-> 1, known |-> {}, balance |-> 0, remaining |-> 0,
          nonce |-> -1, sent |-> {}]

OwnFeeInit ==
    /\ month = 1 /\ batch = [m \in Month |-> NoRow]
    /\ run = NoRun /\ pollers = {} /\ paying = {}
    /\ wire = {} /\ queue = {} /\ mined = {} /\ weth \in 0..MaxFunds /\ nonce = 0
    /\ faults = 0 /\ slipped = 0

At(pc) == run.pc = pc
Goes(pc, todo) == run' = [run EXCEPT !.pc = pc, !.todo = todo]
Total(txs) == SumFunctionOnSet([tx \in txs |-> tx.amount], txs)
Executions(m) == {e \in mined : e.tx.month = m}
Result(e) == IF e.ok THEN "executed" ELSE "failed"
SetStatus(m, status) == batch' = [batch EXCEPT ![m].status = status]
MarkPaid(m) == batch' = [batch EXCEPT ![m].paid = TRUE]

-----------------------------------------------------------------------------
(* reconcileOwnFeeBatches *)

\* Variation: only the last month's batch is looked at.
OpenOfLastMonth == {m \in Queued : batch[m].hash # NoTx /\ m = month}
\* A proposing row has no hash: it is left to the operator.
Open == {m \in Queued : batch[m].hash # NoTx}

Night ==
    /\ At("off")
    /\ run' = [NoRun EXCEPT !.pc = "reconcile", !.todo = Open]
    /\ UNCHANGED <<ledger, pollers, paying, service, safe, history>>

\* Not executed, or the service could not be asked.
LeavesOpen(m) ==
    /\ At("reconcile") /\ m \in run.todo
    /\ Goes("reconcile", run.todo \ {m})
    /\ UNCHANGED <<ledger, pollers, paying, service, safe, history>>

Records(m) ==
    /\ At("reconcile") /\ m \in run.todo
    /\ \E e \in mined :
         /\ e.tx = batch[m].hash
         /\ SetStatus(m, Result(e))
         /\ run' = [run EXCEPT !.pc = IF e.ok THEN "pay" ELSE @, !.todo = @ \ {m}, !.month = m]
    /\ UNCHANGED <<month, pollers, paying, service, safe, history>>

MarksPaid ==
    /\ At("pay")
    /\ MarkPaid(run.month)
    /\ Goes("reconcile", run.todo)
    /\ UNCHANGED <<month, pollers, paying, service, safe, history>>

\* The pipeline goes on without the rest of the reconciliation.
EntriesFail ==
    /\ At("pay") /\ faults < MaxFaults
    /\ faults' = faults + 1
    /\ Goes("reconcile", {})
    /\ UNCHANGED <<ledger, pollers, paying, service, safe, slipped>>

-----------------------------------------------------------------------------
(* The monthly section: accrueOwnFee, then proposeOwnFeeBatches            *)

settledMonthsToAccrue == {m \in 1..month : m > month - OWN_FEE_ACCRUAL_LOOKBACK_MONTHS}

MonthlySection ==
    /\ At("reconcile") /\ run.todo = {}
    /\ \/ Goes("accrue", settledMonthsToAccrue)
       \/ run' = NoRun
    /\ UNCHANGED <<ledger, pollers, paying, service, safe, history>>

Locked(m) == batch[m].status \in PROPOSED_STATUSES

\* Oldest first.  What is owed may change until the month is proposed: trades
\* are indexed late.  An empty back-month without a row gets none.
AccrueMonth ==
    /\ At("accrue") /\ run.todo # {}
    /\ LET m == Min(run.todo) IN
       /\ Goes("accrue", run.todo \ {m})
       /\ \/ Locked(m) /\ UNCHANGED batch
          \/ /\ ~Locked(m)
             /\ \E owed \in 0..MaxOwed :
                  batch' = IF batch[m] = NoRow /\ m # month /\ owed = 0 THEN batch
                           ELSE [batch EXCEPT ![m].owed = owed,
                                   ![m].status = IF owed > 0 THEN "computed" ELSE "no_recipients"]
    /\ UNCHANGED <<month, pollers, paying, service, safe, history>>

Payable == {m \in Month : batch[m].status = "computed" /\ batch[m].owed > 0}

\* The accrual is done or has failed; the payout may be off or a dry run.
SelectPayable ==
    /\ At("accrue")
    /\ \/ Payable # {} /\ Goes("balance", Payable)
       \/ run' = NoRun
    /\ UNCHANGED <<ledger, pollers, paying, service, safe, history>>

ReadBalance ==
    /\ At("balance")
    /\ run' = [run EXCEPT !.pc = "reserve", !.balance = weth, !.known = mined]
    /\ UNCHANGED <<ledger, pollers, paying, service, safe, history>>

Sum(months) == SumFunctionOnSet([m \in months |-> batch[m].owed], months)

\* Variation: only proposals that the service confirmed are reserved.
reservedForProposed == Sum({m \in Month : batch[m].status = "proposed"})
reservedForQueued == Sum(Queued)

\* slipped: executed after the balance was read, and reserved no more.
ReadReserve ==
    /\ At("reserve")
    /\ run' = [run EXCEPT !.pc = "propose", !.balance = 0, !.known = {},
                 !.remaining = IF run.balance > reservedForQueued
                               THEN run.balance - reservedForQueued ELSE 0]
    /\ slipped' = slipped + Total({e.tx : e \in {x \in mined \ run.known :
                                                    x.ok /\ x.tx.month \notin Queued}})
    /\ UNCHANGED <<ledger, pollers, paying, service, safe, faults>>

Oldest == Min(run.todo)
Others == run.todo \ {Oldest}

\* planOwnFeePayout
Blocked ==
    /\ At("propose") /\ run.todo # {}
    /\ batch[Oldest].owed > run.remaining
    /\ Goes("propose", Others)
    /\ UNCHANGED <<ledger, pollers, paying, service, safe, history>>

\* One more than the highest nonce the service knows of.
NextNonce == Max({nonce} \cup {tx.nonce + 1 : tx \in queue})

\* The nonce is read once in a run, by the first batch that is proposed.
Prepare ==
    /\ At("propose") /\ run.todo # {}
    /\ batch[Oldest].owed <= run.remaining
    /\ run' = [run EXCEPT !.pc = "submit", !.nonce = IF @ = -1 THEN NextNonce ELSE @]
    /\ UNCHANGED <<ledger, pollers, paying, service, safe, history>>

PresubmitFails ==
    /\ At("submit")
    /\ Goes("propose", Others)
    /\ UNCHANGED <<ledger, pollers, paying, service, safe, history>>

\* Variation: the row is marked when the service has answered.
MarkLater == UNCHANGED batch
Mark == SetStatus(Oldest, "proposing")

OnBeforeSubmit ==
    /\ At("submit")
    /\ Mark
    /\ Goes("send", run.todo)
    /\ UNCHANGED <<month, pollers, paying, service, safe, history>>

Submission == [month |-> Oldest, amount |-> batch[Oldest].owed, nonce |-> run.nonce]

Send ==
    /\ At("send")
    /\ wire' = wire \cup {Submission}
    /\ run' = [run EXCEPT !.pc = "sent", !.sent = @ \cup {Submission}]
    /\ UNCHANGED <<ledger, pollers, paying, queue, safe, history>>

\* Whatever became of it, the amount and the nonce are used up.
Uses == [run EXCEPT !.pc = "propose", !.todo = Others, !.remaining = @ - batch[Oldest].owed,
                    !.nonce = @ + 1]

Proposed ==
    /\ At("sent") /\ Submission \in queue
    /\ batch' = [batch EXCEPT ![Oldest].status = "proposed", ![Oldest].hash = Submission]
    /\ pollers' = pollers \cup {Submission}
    /\ run' = Uses
    /\ UNCHANGED <<month, paying, service, safe, history>>

Attempted ==
    /\ At("sent")
    /\ run' = Uses
    /\ UNCHANGED <<ledger, pollers, paying, service, safe, history>>

\* A read or a write that throws ends the proposals of the chain, as the last
\* batch does: also the write of a proposal that the service has accepted.
EndsRun ==
    /\ run.pc \in {"balance", "reserve", "propose", "sent"}
    /\ At("sent") => Submission \in queue
    /\ run' = NoRun
    /\ UNCHANGED <<ledger, pollers, paying, service, safe, history>>

-----------------------------------------------------------------------------
(* The background pollers *)

PollerRecords(tx) ==
    /\ tx \in pollers
    /\ \E e \in mined :
         /\ e.tx = tx
         /\ SetStatus(tx.month, Result(e))
         /\ paying' = paying \cup (IF e.ok THEN {tx.month} ELSE {})
    /\ pollers' = pollers \ {tx}
    /\ UNCHANGED <<month, run, service, safe, history>>

PollerPays(m) ==
    /\ m \in paying
    /\ MarkPaid(m)
    /\ paying' = paying \ {m}
    /\ UNCHANGED <<month, run, pollers, service, safe, history>>

PollerEntriesFail(m) ==
    /\ m \in paying /\ faults < MaxFaults
    /\ faults' = faults + 1
    /\ paying' = paying \ {m}
    /\ UNCHANGED <<ledger, run, pollers, service, safe, slipped>>

\* The service could not be asked, or it was not executed for seven days.
PollerGivesUp(tx) ==
    /\ tx \in pollers
    /\ pollers' = pollers \ {tx}
    /\ UNCHANGED <<ledger, run, paying, service, safe, history>>

Stop ==
    /\ faults < MaxFaults
    /\ faults' = faults + 1
    /\ run' = NoRun /\ pollers' = {} /\ paying' = {}
    /\ UNCHANGED <<ledger, service, safe, slipped>>

-----------------------------------------------------------------------------
(* The service, the Safe and the calendar *)

Arrives(tx) ==
    /\ tx \in wire
    /\ wire' = wire \ {tx} /\ queue' = queue \cup {tx}
    /\ UNCHANGED <<ledger, process, safe, history>>

Lost(tx) ==
    /\ tx \in wire
    /\ wire' = wire \ {tx}
    /\ UNCHANGED <<ledger, process, queue, safe, history>>

Execute(tx) ==
    /\ tx \in queue /\ tx.nonce = nonce
    /\ \E ok \in {tx.amount <= weth, FALSE} :
         /\ mined' = mined \cup {[tx |-> tx, ok |-> ok]}
         /\ weth' = IF ok THEN weth - tx.amount ELSE weth
    /\ nonce' = nonce + 1
    /\ UNCHANGED <<ledger, process, service, history>>

\* The owners execute another transaction, a rejection for example.
ExecuteOther ==
    /\ nonce < MaxNonce
    /\ nonce' = nonce + 1
    /\ UNCHANGED <<ledger, process, service, mined, weth, history>>

\* Fees are swept to the Safe.
Deposit ==
    /\ weth + Total({e.tx : e \in {x \in mined : x.ok}}) < MaxFunds
    /\ weth' = weth + 1
    /\ UNCHANGED <<ledger, process, service, mined, nonce, history>>

NewMonth ==
    /\ month < MaxMonth
    /\ month' = month + 1
    /\ UNCHANGED <<batch, process, service, safe, history>>

-----------------------------------------------------------------------------
Reconcile == \E m \in Month : LeavesOpen(m) \/ Records(m)
Pipeline ==
    \/ Night \/ Reconcile \/ MarksPaid \/ EntriesFail \/ MonthlySection \/ AccrueMonth \/ SelectPayable
    \/ ReadBalance \/ ReadReserve \/ Blocked \/ Prepare \/ PresubmitFails \/ OnBeforeSubmit
    \/ Send \/ Proposed \/ Attempted \/ EndsRun
Pollers ==
    \/ \E tx \in pollers : PollerRecords(tx) \/ PollerGivesUp(tx)
    \/ \E m \in paying : PollerPays(m) \/ PollerEntriesFail(m)
OwnFeeNext ==
    \/ Pipeline \/ Pollers \/ Stop
    \/ \E tx \in wire : Arrives(tx) \/ Lost(tx)
    \/ \E tx \in queue : Execute(tx)
    \/ ExecuteOther \/ Deposit \/ NewMonth

OwnFeeSpec == OwnFeeInit /\ [][OwnFeeNext]_ownFeeVars

\* The scheduler runs a night whenever one is due, and each step of it ends;
\* the service answers now and then; a poller that saw its execution writes it.
OwnFeeFairness ==
    /\ WF_ownFeeVars(Pipeline)
    /\ \A m \in Month : WF_ownFeeVars(PollerPays(m)) /\ SF_ownFeeVars(Records(m))
OwnFeeFairSpec == OwnFeeSpec /\ OwnFeeFairness

-----------------------------------------------------------------------------
(* Properties *)

OwnFeeTypeOK ==
    /\ month \in Month
    /\ batch \in [Month -> [status : PROPOSED_STATUSES \cup {"none", "no_recipients", "computed"},
                            owed : 0..MaxOwed, hash : Proposal \cup {NoTx}, paid : BOOLEAN]]
    /\ run.todo \subseteq Month /\ run.remaining \in 0..MaxFunds
    /\ pollers \subseteq queue /\ paying \subseteq Month
    /\ wire \cup queue \subseteq Proposal /\ {e.tx : e \in mined} \subseteq queue
    /\ weth \in 0..MaxFunds /\ faults \in 0..MaxFaults

(* A month is proposed once, for what its locked row says, though the      *)
(* process faults between the submission and its record and a submission    *)
(* that failed arrives later: no month can be paid twice.                  *)
ProposedOnce ==
    \A tx, u \in wire \cup queue :
        /\ Locked(tx.month) /\ batch[tx.month].owed = tx.amount
        /\ tx.month = u.month => tx = u

(* The ledger claims nothing that did not happen on chain, whichever of    *)
(* the poller and the nightly run recorded it, or both.                    *)
BooksFollowChain ==
    \A m \in Month :
        /\ batch[m].status \in {"executed", "failed"} =>
              \E e \in mined : e.tx = batch[m].hash /\ batch[m].status = Result(e)
        /\ batch[m].paid => batch[m].status = "executed"

(* Proposals of one run never compete for a nonce, also after submissions  *)
(* that failed.                                                            *)
NoncesDistinct == \A tx, u \in run.sent : tx.nonce = u.nonce => tx = u

(* Checked together.                                                       *)
OwnFeeInv == OwnFeeTypeOK /\ ProposedOnce /\ BooksFollowChain /\ NoncesDistinct

Live == {tx \in wire \cup queue : tx.nonce >= nonce}

(* The over-draw guard: the Safe can pay everything that is queued, over   *)
(* all runs, up to what was executed and recorded between the two reads of *)
(* the balance and of the reserve.                                         *)
QueueIsFunded == Total(Live) <= weth + slipped

(* "can never together exceed the balance" (payout.ts:270), without that   *)
(* exception.                                                              *)
NeverOverdrawn == Total(Live) <= weth

\* Between the two writes of the poller or of the nightly run.
EntriesPending(m) == m \in paying \/ (At("pay") /\ run.month = m)

(* What was executed is recorded, though the poller of the proposal is     *)
(* gone and whatever faulted before, and its entries are marked as paid    *)
(* unless there is a fault between the two writes.                         *)
ExecutionsAreRecorded ==
    \A m \in Month :
        /\ batch[m].hash # NoTx /\ Executions(m) # {} ~>
               \/ batch[m].status = "failed" \/ batch[m].paid
               \/ batch[m].status = "executed" /\ (EntriesPending(m) \/ faults > 0)
        /\ \A f \in 0..MaxFaults :
               EntriesPending(m) /\ faults = f ~> batch[m].paid \/ faults > f

(* The same without the exception.                                         *)
ExecutedIsPaid == \A m \in Month : batch[m].status = "executed" ~> batch[m].paid
=============================================================================
