----------------------------- MODULE Submission -----------------------------
(***************************************************************************)
(* The driver's mempools: one execution per settlement (a task) holds its  *)
(* signer's lock, runs one submit loop per mempool, and returns the first  *)
(* success or the last error.  A loop reads its own nonce and gas price,   *)
(* broadcasts, watches new blocks, and gives up by cancelling at its nonce *)
(* in every mempool.  A step of a loop is what it does between two awaits; *)
(* the loops of an execution, the nodes, the chain and the tasks that hold *)
(* or want the same signer interleave.                                     *)
(*                                                                         *)
(* Every mempool is a node with a pool of its own; a transaction is its    *)
(* hash.  One unit of price is one GAS_PRICE_BUMP_PCT.  A request that has *)
(* left may reach its node after the loop that sent it was dropped.        *)
(* Nonces are read at the latest block, the default.  The signer's account *)
(* is used by nobody else.                                                 *)
(***************************************************************************)
EXTENDS Integers, Sequences, FiniteSets, FiniteSetsExt

CONSTANTS
    Task, NoTask,          \* settlements to execute
    Mempool, Signer,
    signer,                \* SubmissionMode: who signs and pays for a task
    MinesReverts,          \* mempools without revert protection
    MayRevert,             \* settlements with may_revert()
    Volatile,              \* bound: settlements other transactions may make revert
    GasPrice,              \* market estimates and solver overrides
    gas_price_cap,
    Setups,                \* configured mempools, tasks and their submission_deadline
    MaxBlock               \* bound: blocks told apart

ASSUME SubmissionAssumption ==
    /\ NoTask \notin Task /\ signer \in [Task -> Signer]
    /\ MinesReverts \subseteq Mempool /\ MayRevert \subseteq Task /\ Volatile \subseteq Task
    /\ GasPrice \subseteq Nat \ {0} /\ gas_price_cap \in Nat
    /\ MaxBlock \in Nat
    /\ Setups \subseteq [mempools : (SUBSET Mempool) \ {{}}, tasks : SUBSET Task,
                         deadline : [Task -> 0..MaxBlock], faults : Nat]

Tx == [task : Task, kind : {"settle", "cancel"}, nonce : Nat, price : Nat \ {0}]
MempoolRequest == [to : Mempool, by : Mempool, tx : Tx]

VARIABLES
    setup,     \* of this driver: mempools, tasks, deadlines; bound: its faults
    block,     \* the current block the driver knows
    mined,     \* Signer -> sequence of its transactions on chain, [tx, ok]
    valid,     \* Task -> the settlement does not revert now
    pool,      \* Mempool -> transactions pending at its node
    wire,      \* broadcasts on their way to a node
    last,      \* last_submissions: Mempool -> Signer -> [nonce, price]; price 0: none
    holder,    \* SubmissionLocks: Signer -> Task or NoTask
    state,     \* Task -> what became of its execute call
    loop,      \* Task -> Mempool -> its submit call: where it waits, nonce, tx price, unseen block
    faults     \* bound: requests that failed, aborts and restarts so far

chain == <<block, mined, valid>>
network == <<pool, wire, last>>
driver == <<holder, state, loop>>
vars == <<setup, chain, network, driver, faults>>

NotStarted == [pc |-> "start", nonce |-> 0, price |-> 0, fresh |-> FALSE]
NeverSubmitted == [nonce |-> 0, price |-> 0]

Mempools == setup.mempools
deadline == setup.deadline

Init ==
    /\ setup \in Setups
    /\ block = 0 /\ mined = [s \in Signer |-> <<>>] /\ valid = [t \in Task |-> TRUE]
    /\ pool = [m \in Mempool |-> {}] /\ wire = {}
    /\ last = [m \in Mempool |-> [s \in Signer |-> NeverSubmitted]]
    /\ holder = [s \in Signer |-> NoTask] /\ state = [t \in Task |-> IF t \in setup.tasks THEN "waiting" ELSE "idle"]
    /\ loop = [t \in Task |-> [m \in Mempool |-> NotStarted]] /\ faults = 0

-----------------------------------------------------------------------------
(* What the code reads *)

SettlementTx(t, m) ==
    [task |-> t, kind |-> "settle", nonce |-> loop[t][m].nonce, price |-> loop[t][m].price]

Cancellation(t, m, price) == [SettlementTx(t, m) EXCEPT !.kind = "cancel", !.price = price]

\* Variation: any receipt is a success.
StatusOfReceipt(tx) ==
    IF \E i \in DOMAIN mined[signer[tx.task]] : mined[signer[tx.task]][i].tx = tx
    THEN "Executed" ELSE "Pending"

status(tx) ==
    IF \E i \in DOMAIN mined[signer[tx.task]] : mined[signer[tx.task]][i] = [tx |-> tx, ok |-> TRUE]
    THEN "Executed"
    ELSE IF \E i \in DOMAIN mined[signer[tx.task]] : mined[signer[tx.task]][i].tx = tx
    THEN "Reverted" ELSE "Pending"

\* The latest transaction count of a signer.
Count(s) == Len(mined[s])

PendingAt(m, s, nonce) == {tx \in pool[m] : signer[tx.task] = s /\ tx.nonce = nonce}

\* 0 for None.  The inspection of the node's pool may not be supported.
minimum_replacement_gas_price(m, s, nonce) ==
    IF last[m][s].price > 0
    THEN {IF last[m][s].nonce = nonce THEN last[m][s].price + 1 ELSE 0}
    ELSE {0} \cup {tx.price + 1 : tx \in PendingAt(m, s, nonce)}

revert_protection == Mempools \ MinesReverts # {}

\* Variation: the count is taken for the last nonce used.
NonceReached(t, m) == Count(signer[t]) >= loop[t][m].nonce

nonce_already_mined(t, m) == Count(signer[t]) > loop[t][m].nonce

-----------------------------------------------------------------------------
(* The execution *)

Running(t, m) == state[t] = "running" /\ loop[t][m].pc # "err"
At(t, m, pc) == state[t] = "running" /\ loop[t][m].pc = pc

GoTo(t, m, pc) == loop' = [loop EXCEPT ![t][m].pc = pc]

\* Variation: the lock outlives a failed execution.
ReturnsHolding(t, result) ==
    /\ state' = [state EXCEPT ![t] = result]
    /\ IF result = "failed" THEN UNCHANGED holder ELSE holder' = [holder EXCEPT ![signer[t]] = NoTask]
    /\ loop' = [loop EXCEPT ![t] = [m \in Mempool |-> NotStarted]]

\* execute returns: its remaining futures and its lock are dropped.
Returns(t, result) ==
    /\ state' = [state EXCEPT ![t] = result]
    /\ holder' = [holder EXCEPT ![signer[t]] = NoTask]
    /\ loop' = [loop EXCEPT ![t] = [m \in Mempool |-> NotStarted]]

\* Variation: the lock is looked up by lane.
AcquireOwnLane(t) ==
    /\ state[t] = "waiting" /\ block < deadline[t]
    /\ holder' = [holder EXCEPT ![signer[t]] = t]
    /\ state' = [state EXCEPT ![t] = "running"]
    /\ UNCHANGED <<setup, chain, network, loop, faults>>

Acquire(t) ==
    /\ state[t] = "waiting" /\ holder[signer[t]] = NoTask /\ block < deadline[t]
    /\ holder' = [holder EXCEPT ![signer[t]] = t]
    /\ state' = [state EXCEPT ![t] = "running"]
    /\ UNCHANGED <<setup, chain, network, loop, faults>>

AcquireTooLate(t) ==
    /\ state[t] = "waiting" /\ holder[signer[t]] = NoTask /\ block >= deadline[t]
    /\ state' = [state EXCEPT ![t] = "failed"]
    /\ UNCHANGED <<setup, chain, network, holder, loop, faults>>

\* A loop's error: the others go on, the last error is execute's.
LoopFails(t, m) ==
    IF \A n \in Mempools \ {m} : loop[t][n].pc = "err"
    THEN Returns(t, "failed")
    ELSE GoTo(t, m, "err") /\ UNCHANGED <<state, holder>>

\* The first success drops the other loops where they are.
LoopSucceeds(t) == Returns(t, "ok")

-----------------------------------------------------------------------------
(* submit *)

Risky(t, m) == t \in MayRevert /\ revert_protection /\ m \in MinesReverts

Disabled(t, m) ==
    /\ At(t, m, "start")
    /\ \/ Risky(t, m)
       \/ m \in MinesReverts /\ ~valid[t]
    /\ LoopFails(t, m)
    /\ UNCHANGED <<setup, chain, network, faults>>

\* The stream is at the current block; a simulation that cannot be made does not stop the loop.
Simulate(t, m) ==
    /\ At(t, m, "start") /\ ~Risky(t, m)
    /\ GoTo(t, m, "simulated")
    /\ UNCHANGED <<setup, chain, network, holder, state, faults>>

get_nonce(t, m) ==
    /\ At(t, m, "simulated")
    /\ loop' = [loop EXCEPT ![t][m].pc = "nonce", ![t][m].nonce = Count(signer[t])]
    /\ UNCHANGED <<setup, chain, network, holder, state, faults>>

FinalGasPrice(t, m) ==
    {Max({p, r}) : p \in GasPrice,
                   r \in minimum_replacement_gas_price(m, signer[t], loop[t][m].nonce)}

Broadcast(t, m) ==
    /\ At(t, m, "nonce")
    /\ \E price \in FinalGasPrice(t, m) :
         /\ price <= gas_price_cap
         /\ loop' = [loop EXCEPT ![t][m].pc = "sending", ![t][m].price = price]
         /\ wire' = wire \cup {[to |-> m, by |-> m, tx |-> SettlementTx(t, m)']}
    /\ UNCHANGED <<setup, chain, pool, last, holder, state, faults>>

CapExceeded(t, m) ==
    /\ At(t, m, "nonce")
    /\ \E price \in FinalGasPrice(t, m) : price > gas_price_cap
    /\ LoopFails(t, m)
    /\ UNCHANGED <<setup, chain, network, faults>>

\* The nonce or the gas price cannot be read.
ReadFails(t, m) ==
    /\ At(t, m, "simulated") \/ At(t, m, "nonce")
    /\ LoopFails(t, m)
    /\ UNCHANGED <<setup, chain, network, faults>>

-----------------------------------------------------------------------------
(* The watch loop of submit *)

\* An unread status is Pending.
Watch(t, m) ==
    /\ At(t, m, "watching") /\ loop[t][m].fresh
    /\ loop' = [loop EXCEPT ![t][m].fresh = FALSE,
                            ![t][m].pc = IF block >= deadline[t] THEN "giveup" ELSE "pending"]
    /\ UNCHANGED <<setup, chain, network, holder, state, faults>>

Confirmed(t, m) ==
    /\ \/ At(t, m, "watching") /\ loop[t][m].fresh
       \/ At(t, m, "last")
    /\ status(SettlementTx(t, m)) = "Executed"
    /\ LoopSucceeds(t)
    /\ UNCHANGED <<setup, chain, network, faults>>

\* The last attempt after a revert finds the same receipt.
Reverted(t, m) ==
    /\ At(t, m, "watching") /\ loop[t][m].fresh
    /\ status(SettlementTx(t, m)) = "Reverted"
    /\ LoopFails(t, m)
    /\ UNCHANGED <<setup, chain, network, faults>>

\* Any other failure to simulate is only logged.
Resimulate(t, m) ==
    /\ At(t, m, "pending")
    /\ \/ GoTo(t, m, "watching")
       \/ ~valid[t] /\ GoTo(t, m, "giveup")
    /\ UNCHANGED <<setup, chain, network, holder, state, faults>>

CancelIsFutile(t, m) ==
    /\ At(t, m, "giveup") /\ nonce_already_mined(t, m)
    /\ GoTo(t, m, "last")
    /\ UNCHANGED <<setup, chain, network, holder, state, faults>>

CancelPrice(t, m, to) ==
    {IF r = 0 THEN loop[t][m].price + 1 ELSE r :
        r \in minimum_replacement_gas_price(to, signer[t], loop[t][m].nonce)}

\* To all mempools at once; an unread nonce counts as not mined.
cancel_all(t, m) ==
    /\ At(t, m, "giveup")
    /\ \E price \in [Mempools -> UNION {CancelPrice(t, m, to) : to \in Mempools}] :
         /\ \A to \in Mempools : price[to] \in CancelPrice(t, m, to)
         /\ wire' = wire \cup {[to |-> to, by |-> m, tx |-> Cancellation(t, m, price[to])] :
                                 to \in Mempools}
    /\ GoTo(t, m, "cancelling")
    /\ UNCHANGED <<setup, chain, pool, last, holder, state, faults>>

Sent(t, m) == {r \in wire : r.tx.task = t /\ r.by = m}

CancelAnswered(t, m) ==
    /\ At(t, m, "cancelling") /\ Sent(t, m) = {}
    /\ GoTo(t, m, "last")
    /\ UNCHANGED <<setup, chain, network, holder, state, faults>>

LastAttempt(t, m) ==
    /\ At(t, m, "last")
    /\ LoopFails(t, m)
    /\ UNCHANGED <<setup, chain, network, faults>>

-----------------------------------------------------------------------------
(* A broadcast at its node *)

Accepts(m, tx) ==
    /\ tx.nonce >= Count(signer[tx.task])
    /\ \A q \in PendingAt(m, signer[tx.task], tx.nonce) : tx.price > q.price

Enters(m, tx) ==
    pool' = [pool EXCEPT ![m] = (@ \ PendingAt(m, signer[tx.task], tx.nonce)) \cup {tx}]

\* mempool.submit records what it knows was accepted, cancellations too.
Recorded(r) ==
    last' = [last EXCEPT ![r.to][signer[r.tx.task]] =
                [nonce |-> r.tx.nonce, price |-> r.tx.price]]

Accepted(r) ==
    /\ Running(r.tx.task, r.by) /\ Accepts(r.to, r.tx)
    /\ wire' = wire \ {r} /\ Enters(r.to, r.tx) /\ Recorded(r)
    /\ IF r.tx.kind = "settle" THEN GoTo(r.tx.task, r.by, "watching") ELSE UNCHANGED loop
    /\ UNCHANGED <<setup, chain, holder, state, faults>>

\* A refused or failed broadcast of the settlement ends the loop without a last attempt.
Fails(r) ==
    IF r.tx.kind = "settle" THEN LoopFails(r.tx.task, r.by)
                            ELSE UNCHANGED <<state, holder, loop>>

Refused(r) ==
    /\ Running(r.tx.task, r.by) /\ ~Accepts(r.to, r.tx)
    /\ wire' = wire \ {r} /\ Fails(r)
    /\ UNCHANGED <<setup, chain, pool, last, faults>>

\* The request or its answer is lost.
Lost(r) ==
    /\ Running(r.tx.task, r.by) /\ faults < setup.faults
    /\ wire' = wire \ {r} /\ Fails(r) /\ faults' = faults + 1
    /\ UNCHANGED pool \/ (Accepts(r.to, r.tx) /\ Enters(r.to, r.tx))
    /\ UNCHANGED <<setup, chain, last>>

\* Nobody waits for the answer any more.
Orphan(r) ==
    /\ ~Running(r.tx.task, r.by)
    /\ wire' = wire \ {r}
    /\ UNCHANGED pool \/ (Accepts(r.to, r.tx) /\ Enters(r.to, r.tx))
    /\ UNCHANGED <<setup, chain, last, holder, state, loop, faults>>

-----------------------------------------------------------------------------
(* The task and the driver stop *)

\* The caller disconnected: the task is dropped at whatever it awaits.
Abort(t) ==
    /\ state[t] \in {"waiting", "running"} /\ faults < setup.faults
    /\ IF state[t] = "running" THEN Returns(t, "aborted")
       ELSE state' = [state EXCEPT ![t] = "aborted"] /\ UNCHANGED <<holder, loop>>
    /\ faults' = faults + 1
    /\ UNCHANGED <<setup, chain, network>>

Restart ==
    /\ faults < setup.faults /\ faults' = faults + 1
    /\ state' = [t \in Task |-> IF state[t] \in {"waiting", "running"} THEN "aborted" ELSE state[t]]
    /\ holder' = [s \in Signer |-> NoTask]
    /\ last' = [m \in Mempool |-> [s \in Signer |-> NeverSubmitted]]
    /\ loop' = [t \in Task |-> [m \in Mempool |-> NotStarted]]
    /\ UNCHANGED <<setup, chain, pool, wire>>

-----------------------------------------------------------------------------
(* The chain *)

\* A mempool with revert protection never has a reverting settlement included.
Mine(m, tx) ==
    LET s == signer[tx.task]
        ok == tx.kind = "settle" => valid[tx.task] IN
    /\ tx \in pool[m] /\ tx.nonce = Count(s) /\ (ok \/ m \in MinesReverts)
    /\ mined' = [mined EXCEPT ![s] = Append(@, [tx |-> tx, ok |-> ok])]
    /\ valid' = IF tx.kind = "settle" THEN [valid EXCEPT ![tx.task] = FALSE] ELSE valid
    /\ pool' = [n \in Mempool |-> {q \in pool[n] : signer[q.task] = s => q.nonce > tx.nonce}]
    /\ UNCHANGED <<setup, block, wire, last, holder, state, loop, faults>>

settled(t) == \E i \in DOMAIN mined[signer[t]] : LET e == mined[signer[t]][i] IN
                 e.ok /\ e.tx.task = t /\ e.tx.kind = "settle"

\* Other transactions move the market; a filled order stays filled.
MarketMoves(t) ==
    /\ t \in Volatile /\ ~settled(t)
    /\ valid' = [valid EXCEPT ![t] = ~@]
    /\ UNCHANGED <<setup, block, mined, network, holder, state, loop, faults>>

\* Blocks past every deadline are not told apart.
NewBlock ==
    /\ block' = IF block < MaxBlock THEN block + 1 ELSE block
    /\ loop' = [t \in Task |-> [m \in Mempool |->
                   IF state[t] = "running" /\ loop[t][m].pc \notin {"start", "err"}
                   THEN [loop[t][m] EXCEPT !.fresh = TRUE] ELSE loop[t][m]]]
    /\ UNCHANGED <<setup, mined, valid, network, holder, state, faults>>

-----------------------------------------------------------------------------
Submit(t, m) ==
    \/ Disabled(t, m) \/ Simulate(t, m) \/ get_nonce(t, m) \/ Broadcast(t, m)
    \/ CapExceeded(t, m) \/ ReadFails(t, m)
    \/ Watch(t, m) \/ Confirmed(t, m) \/ Reverted(t, m) \/ Resimulate(t, m)
    \/ CancelIsFutile(t, m) \/ cancel_all(t, m) \/ CancelAnswered(t, m) \/ LastAttempt(t, m)

Arrives(r) == Accepted(r) \/ Refused(r) \/ Lost(r) \/ Orphan(r)

Next ==
    \/ \E t \in Task : \/ Acquire(t) \/ AcquireTooLate(t)
                       \/ Abort(t) \/ MarketMoves(t)
                       \/ \E m \in Mempools : Submit(t, m)
    \/ \E r \in wire : Arrives(r)
    \/ \E m \in Mempool : \E tx \in pool[m] : Mine(m, tx)
    \/ Restart \/ NewBlock

Spec == Init /\ [][Next]_vars

\* The runtime polls what is ready, requests and blocks arrive.
Fairness ==
    /\ WF_vars(NewBlock)
    /\ \A t \in Task : /\ WF_vars(AcquireTooLate(t)) /\ SF_vars(Acquire(t))
                       /\ \A m \in Mempool : WF_vars(Submit(t, m))
    /\ \A t \in Task, to, by \in Mempool :
          WF_vars(\E r \in wire : /\ r.tx.task = t /\ r.to = to /\ r.by = by
                                  /\ Accepted(r) \/ Refused(r))

FairSpec == Spec /\ Fairness

-----------------------------------------------------------------------------
(* Safety *)

TypeOK ==
    /\ block \in 0..MaxBlock /\ faults \in 0..setup.faults /\ setup \in Setups
    /\ mined \in [Signer -> Seq([tx : Tx, ok : BOOLEAN])] /\ valid \in [Task -> BOOLEAN]
    /\ pool \in [Mempool -> SUBSET Tx] /\ wire \in SUBSET MempoolRequest
    /\ last \in [Mempool -> [Signer -> [nonce : Nat, price : Nat]]]
    /\ holder \in [Signer -> Task \cup {NoTask}]
    /\ state \in [Task -> {"idle", "waiting", "running", "ok", "failed", "aborted"}]
    /\ loop \in [Task -> [Mempool ->
          [pc : {"start", "simulated", "nonce", "sending", "watching", "pending", "giveup",
                 "cancelling", "last", "err"},
           nonce : Nat, price : Nat, fresh : BOOLEAN]]]

(* execute's Ok is the settlement's success on chain: whichever mempool's  *)
(* loop returned, its transaction was executed and did not revert.         *)
OkIsExecuted == \A t \in Task : state[t] = "ok" => settled(t)

(* The two, checked together: a loop never loses its place, nor does what  *)
(* it tells execute.                                                       *)
Inv == TypeOK /\ OkIsExecuted

(* When execute returns an error, no mempool is left with the settlement:  *)
(* every loop that broadcast it saw its nonce consumed or had its place    *)
(* taken by a cancellation, whatever the others did meanwhile.  Lost       *)
(* requests, aborted tasks and restarts excepted.                          *)
FailedLeavesNothing ==
    \A t \in Task : state[t] = "failed" /\ faults = 0 =>
        \A m \in Mempool, tx \in UNION {pool[n] : n \in Mempool} :
            tx \in pool[m] => tx.task # t \/ tx.kind # "settle"

(* The signer's lock: while an execution runs, its pending settlement      *)
(* leaves a mempool only when its nonce is consumed, by a transaction of   *)
(* its own, or by a request that an execution since dropped had sent.      *)
NotDisplaced ==
    [][\A m \in Mempool : \A tx \in pool[m] \ pool'[m] :
         state[tx.task] = "running" /\ tx.kind = "settle" =>
            \/ Count(signer[tx.task])' > tx.nonce
            \/ \E q \in pool'[m] \ pool[m] :
                  \/ q.task = tx.task
                  \/ state[q.task] \notin {"waiting", "running"}]_vars

(* The documentation of cancel_all: cancel and settlement share the nonce, *)
(* so only one of them can land.  Once a cancellation of an execution is   *)
(* on chain, its settlement is not executed after it.                      *)
CancelOrSettle ==
    \A s \in Signer : \A i, j \in DOMAIN mined[s] :
        ~ /\ i < j /\ mined[s][i].tx.task = mined[s][j].tx.task
          /\ mined[s][i].tx.kind = "cancel"
          /\ mined[s][j].tx.kind = "settle" /\ mined[s][j].ok

-----------------------------------------------------------------------------
(* Liveness *)

(* Every execution returns and hands on its signer: no loop waits for      *)
(* anything but a block, an answer or a lock that comes.                   *)
ExecutionsEnd ==
    \A t \in Task : state[t] = "waiting" ~> state[t] \in {"ok", "failed", "aborted"}
=============================================================================
