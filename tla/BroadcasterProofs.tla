-------------------------- MODULE BroadcasterProofs -------------------------
(***************************************************************************)
(* What the broadcaster keeps for any requests, limits and clock.          *)
(*                                                                         *)
(* The three journals are kept together: a row of the request journal is   *)
(* what the chain may hold under its nonce, the transport's journal holds  *)
(* the one transaction that can still be mined, and each process, wherever *)
(* it waits, knows of its row only what no other process takes back.       *)
(***************************************************************************)
EXTENDS Broadcaster, Sums, SequenceTheorems, FiniteSetTheorems, TLAPS

(* A row is written once; what was signed for it is reserved in it, and it *)
(* ends only after its nonce was consumed for good.                        *)
RowsInv ==
    \A k \in Request :
        /\ rows[k].raw = NoTx => rows[k] = NoRow
        /\ rows[k].raw # NoTx =>
              /\ rows[k].raw.key = k /\ ~rows[k].raw.cancels
              /\ rows[k].raw.max <= rows[k].max_cost
        /\ rows[k].cancel_raw # NoTx =>
              /\ rows[k].cancel_raw.key = k /\ rows[k].cancel_raw.cancels
              /\ rows[k].cancel_raw.nonce = rows[k].raw.nonce
              /\ rows[k].cancel_raw.max <= rows[k].max_cost
        /\ rows[k].assured # "no" \/ rows[k].acknowledged => rows[k].confirmed

(* The chain holds disclosed transactions in the order of their nonces.    *)
MinedInv ==
    \A n \in DOMAIN mined :
        /\ mined[n].tx \in disclosed /\ mined[n].tx.nonce = n
        /\ mined[n].cost <= mined[n].tx.max

(* The transport's journal names a row and its nonce.                      *)
TransportInv ==
    transport # NoPending => /\ transport.key \in Rows
                             /\ transport.nonce = rows[transport.key].raw.nonce

JournalInv ==
    /\ RowsInv /\ OneNoncePending /\ SettlementIsReal
    /\ MinedInv /\ TransportInv /\ JournaledBeforeDisclosure

(* A rejected request has no row.                                          *)
AnswerInv == \A k \in Request : answer[k] = "rejected" => rows[k].raw = NoTx

(* The handler's request has no row before the journal is written; from    *)
(* the reading of the state on, every row's nonce is below its own; the    *)
(* transport's journal holds its transaction before it is sent.            *)
TaskInv ==
    /\ task.phase = "idle" => task = Free
    /\ task.phase # "idle" => up /\ task.key \in Request /\ answer[task.key] = "none"
    /\ task.phase \in {"admitted", "validating", "rechecked", "signed"} => rows[task.key].raw = NoTx
    /\ task.phase \in {"validating", "rechecked", "signed"} =>
          /\ task.budget \in Cost /\ task.nonce \in Nat \ {0}
          /\ \A k \in Rows : rows[k].raw.nonce < task.nonce
    /\ task.phase \in {"journaled", "staged", "sent"} => task.key \in Rows
    /\ task.phase \in {"staged", "sent"} => transport # NoPending /\ transport.key = task.key

(* The reconciler's row stays, and stays confirmed.                        *)
RecInv ==
    /\ rec.phase = "idle" => rec = Idle
    /\ rec.phase # "idle" => up /\ rec.key \in Rows
    /\ rec.phase \in {"settling", "assuring"} => rows[rec.key].confirmed

(* A command runs with the service stopped, for a cancelled row.           *)
CliInv ==
    /\ cli.phase = "idle" => cli = NoCommand
    /\ cli.phase # "idle" => /\ ~up /\ cli.key \in Rows /\ rows[cli.key].cancel_raw # NoTx

IInv == TypeOK /\ JournalInv /\ AnswerInv /\ TaskInv /\ RecInv /\ CliInv

(* What the wallet may still pay for a request within the day: what was    *)
(* reserved, until its nonce is consumed for good; then what it cost.      *)
Owes(k) == IF rows[k].raw.nonce > deep THEN rows[k].max_cost ELSE mined[rows[k].raw.nonce].cost
Owing ==
    {k \in Rows : rows[k].raw.nonce > deep \/ mined[rows[k].raw.nonce].at >= now - Day}
Owed == SumFunctionOnSet([k \in Rows |-> Owes(k)], Owing)

(* What is spent for good.                                                 *)
DeepSpent == SumFunctionOnSet(Paid, 1..deep)

(* What is owed is within the budget: the journal's exposure is never      *)
(* less, as it counts a cost by its receipt or later.  What is reserved    *)
(* for the one request whose nonce is not consumed for good leaves the     *)
(* reserve; from the second reading of the state to the journal the wallet *)
(* is at rest.                                                             *)
Reserved == IsFiniteSet(Rows) /\ Owed <= dailyBudget
RowLimits ==
    /\ Reserved /\ DayWithinBudget
    /\ \A k \in Rows : rows[k].confirmed => rows[k].mined_at >= mined[rows[k].raw.nonce].at
    /\ DeepSpent > 0 => Funds - DeepSpent >= reserve
    /\ \A k \in Rows :
          rows[k].raw.nonce > deep => Funds - DeepSpent - rows[k].max_cost >= reserve
AtRest ==
    task.phase \in {"rechecked", "signed"} =>
        deep = Len(mined) /\ task.nonce = deep + 1 /\ Balance >= task.budget + reserve
LimitsInv == RowLimits /\ AtRest

-----------------------------------------------------------------------------
(* Rows                                                                    *)

(* A step that writes to the row of one request, and what it leaves true   *)
(* of it: the chain and the transport's journal do not move with it.       *)
Writes(k) ==
    /\ rows' \in [Request -> Row]
    /\ \A l \in Request \ {k} : rows'[l] = rows[l]

Advances(k) ==
    /\ Writes(k)
    /\ rows[k].raw # NoTx /\ rows'[k].raw = rows[k].raw
    /\ rows'[k].max_cost >= rows[k].max_cost
    /\ rows[k].confirmed => rows'[k].confirmed
    /\ Unsettled(rows'[k]) => Unsettled(rows[k])
    /\ rows[k].cancel_raw # NoTx => rows'[k].cancel_raw # NoTx
    /\ rows'[k].cancel_raw # NoTx =>
          /\ rows'[k].cancel_raw.key = k /\ rows'[k].cancel_raw.cancels
          /\ rows'[k].cancel_raw.nonce = rows'[k].raw.nonce
          /\ rows'[k].cancel_raw.max <= rows'[k].max_cost
    /\ rows'[k].assured # "no" \/ rows'[k].acknowledged => rows'[k].confirmed
    /\ rows'[k].confirmed => /\ rows'[k].raw.nonce <= deep
                             /\ rows'[k].actual_cost >= mined[rows'[k].raw.nonce].cost
    /\ rows'[k].assured = "fee-received" =>
          mined[rows'[k].raw.nonce].tx = rows'[k].raw /\ mined[rows'[k].raw.nonce].ok
    /\ rows'[k].assured = "cancelled" => mined[rows'[k].raw.nonce].tx.cancels
    /\ rows'[k].acknowledged =>
          mined[rows'[k].raw.nonce].tx = rows'[k].raw /\ ~mined[rows'[k].raw.nonce].ok

(* A reply is recorded.                                                    *)
LEMMA RespondsAdvances ==
    ASSUME TypeOK, JournalInv, NEW k \in Request, rows[k].raw # NoTx, NEW response \in {"hash", "unknown"},
           rows' = [rows EXCEPT ![k].response = response]
    PROVE  Advances(k)
<1>1. rows \in [Request -> Row] /\ rows[k] \in Row
    BY DEF TypeOK
<1>2. Writes(k)
    BY <1>1 DEF Row, Writes
<1>3. /\ rows'[k].raw = rows[k].raw /\ rows'[k].cancel_raw = rows[k].cancel_raw
      /\ rows'[k].max_cost = rows[k].max_cost /\ rows'[k].actual_cost = rows[k].actual_cost
      /\ rows'[k].confirmed = rows[k].confirmed /\ rows'[k].assured = rows[k].assured
      /\ rows'[k].acknowledged = rows[k].acknowledged
    BY <1>1 DEF Row
<1>4. rows[k].max_cost \in Nat
    BY <1>1 DEF Row
<1> QED BY <1>2, <1>3, <1>4 DEF Advances, JournalInv, RowsInv, SettlementIsReal, Rows, Unsettled

(* The chain's indices and entries.                                        *)
Entry == [tx : Tx, cost : Cost, at : 0..now, ok : BOOLEAN]

LEMMA ChainFacts ==
    ASSUME TypeOK
    PROVE  /\ mined \in Seq(Entry) /\ Len(mined) \in Nat /\ DOMAIN mined = 1..Len(mined)
           /\ \A i \in DOMAIN mined :
                 /\ mined[i] \in Entry /\ mined[i].tx \in Tx
                 /\ mined[i].cost \in Nat /\ mined[i].tx.max \in Nat
           /\ deep \in Nat /\ deep <= Len(mined) /\ Len(mined) <= deep + 1
           /\ \A tx \in Tx : tx.key \in Request /\ tx.nonce \in Nat \ {0} /\ tx.max \in Nat /\ tx # NoTx
           /\ \A tx \in disclosed : tx \in Tx
<1>1. mined \in Seq(Entry)
    BY DEF TypeOK, Entry
<1>2. /\ DOMAIN mined = 1..Len(mined) /\ Len(mined) \in Nat
      /\ \A i \in DOMAIN mined : mined[i] \in Entry
    BY <1>1, LenProperties
<1>3. deep \in Nat /\ deep <= Len(mined) /\ Len(mined) <= deep + 1
    BY <1>2 DEF TypeOK
<1>4. Cost \subseteq Nat
    BY LimitAssumption DEF Cost
<1>5. \A tx \in Tx : tx.key \in Request /\ tx.nonce \in Nat \ {0} /\ tx.max \in Nat /\ tx # NoTx
    BY <1>4, NothingAssumption DEF Tx
<1>6. \A i \in DOMAIN mined : mined[i].tx \in Tx /\ mined[i].cost \in Nat
    BY <1>2, <1>4 DEF Entry
<1> QED BY <1>1, <1>2, <1>3, <1>5, <1>6 DEF TypeOK

(* The cost of a consumed nonce is recorded.  With no receipt it is the    *)
(* largest signed for the nonce, whichever of the two it was.              *)
LEMMA CostIsReserved ==
    ASSUME TypeOK, JournalInv, NEW k \in Rows, rows[k].raw.nonce <= deep
    PROVE  /\ rows[k].raw.nonce \in DOMAIN mined
           /\ mined[rows[k].raw.nonce].cost <= rows[k].max_cost
<1> DEFINE n == rows[k].raw.nonce
<1>1. n \in Nat \ {0} /\ rows[k].max_cost \in Nat
    <2>1. rows[k] \in Row /\ rows[k].raw \in Tx
        BY DEF TypeOK, Rows, Row
    <2> QED BY <2>1 DEF Row, Tx
<1>2. /\ DOMAIN mined = 1..Len(mined) /\ Len(mined) \in Nat /\ deep <= Len(mined) /\ deep \in Nat
      /\ \A i \in DOMAIN mined : mined[i].cost \in Nat /\ mined[i].tx \in Tx /\ mined[i].tx.max \in Nat
    BY ChainFacts
<1>3. n \in DOMAIN mined
    BY <1>1, <1>2
<1> HIDE DEF n
<1>4. mined[n].tx \in disclosed /\ mined[n].tx.nonce = n /\ mined[n].cost <= mined[n].tx.max
    BY <1>3 DEF JournalInv, MinedInv
<1> DEFINE l == mined[n].tx.key
<1>5. /\ l \in Request /\ rows[l].raw # NoTx /\ rows[l].raw.nonce = n
      /\ mined[n].tx.max <= rows[l].max_cost
    <2>1. l \in Request
        BY <1>2, <1>3 DEF Tx
    <2>2. mined[n].tx \notin {NoTx}
        BY <1>2, <1>3, NothingAssumption
    <2> QED BY <1>4, <2>1, <2>2 DEF JournalInv, JournaledBeforeDisclosure
<1>6. l = k
    BY <1>5 DEF n, JournalInv, OneNoncePending, Rows
<1> QED BY <1>1, <1>2, <1>3, <1>4, <1>5, <1>6 DEF n

LEMMA ConfirmsAdvances ==
    ASSUME TypeOK, JournalInv, NEW k \in Rows, rows[k].raw.nonce <= deep, NEW at \in Nat,
           NEW cost \in Nat, cost >= mined[rows[k].raw.nonce].cost,
           rows' = [rows EXCEPT ![k] = Confirmed(@, cost, at)]
    PROVE  Advances(k) /\ rows'[k].confirmed
<1>1. rows \in [Request -> Row] /\ rows[k] \in Row /\ k \in Request /\ rows[k].raw # NoTx
    BY DEF TypeOK, Rows
<1> DEFINE row == Confirmed(rows[k], cost, at)
<1>2. /\ row \in Row
      /\ row.raw = rows[k].raw /\ row.cancel_raw = rows[k].cancel_raw
      /\ row.max_cost = rows[k].max_cost /\ row.actual_cost = cost /\ row.confirmed
      /\ row.assured = rows[k].assured /\ row.acknowledged = rows[k].acknowledged
    BY <1>1 DEF Row, Confirmed
<1> HIDE DEF row
<1>3. rows' = [rows EXCEPT ![k] = row]
    BY DEF row
<1>4. Writes(k) /\ rows'[k] = row
    BY <1>1, <1>2, <1>3 DEF Writes
<1>5. rows[k].max_cost \in Nat
    BY <1>1 DEF Row
<1> QED BY <1>1, <1>2, <1>4, <1>5 DEF Advances, JournalInv, RowsInv, SettlementIsReal, Rows, Unsettled

(* A confirmed request ends as the chain says.                             *)
LEMMA EndsAdvances ==
    ASSUME TypeOK, JournalInv, NEW k \in Rows, rows[k].confirmed,
           \/ /\ rows' = [rows EXCEPT ![k].assured = "cancelled"]
              /\ mined[rows[k].raw.nonce].tx.cancels
           \/ /\ rows' = [rows EXCEPT ![k].assured = "fee-received"]
              /\ FeeDelivered(k)
           \/ /\ rows' = [rows EXCEPT ![k].acknowledged = TRUE]
              /\ mined[rows[k].raw.nonce].tx = rows[k].raw /\ ~mined[rows[k].raw.nonce].ok
    PROVE  Advances(k)
<1>1. rows \in [Request -> Row] /\ rows[k] \in Row /\ k \in Request /\ rows[k].raw # NoTx
    BY DEF TypeOK, Rows
<1>2. rows[k].max_cost \in Nat
    BY <1>1 DEF Row
<1>3. ASSUME NEW assured \in {"fee-received", "cancelled"},
             rows' = [rows EXCEPT ![k].assured = assured]
      PROVE  /\ Writes(k)
             /\ rows'[k].raw = rows[k].raw /\ rows'[k].cancel_raw = rows[k].cancel_raw
             /\ rows'[k].max_cost = rows[k].max_cost /\ rows'[k].actual_cost = rows[k].actual_cost
             /\ rows'[k].confirmed = rows[k].confirmed /\ rows'[k].assured = assured
             /\ rows'[k].acknowledged = rows[k].acknowledged
    BY <1>1, <1>3 DEF Row, Writes
<1>4. ASSUME rows' = [rows EXCEPT ![k].acknowledged = TRUE]
      PROVE  /\ Writes(k)
             /\ rows'[k].raw = rows[k].raw /\ rows'[k].cancel_raw = rows[k].cancel_raw
             /\ rows'[k].max_cost = rows[k].max_cost /\ rows'[k].actual_cost = rows[k].actual_cost
             /\ rows'[k].confirmed = rows[k].confirmed /\ rows'[k].assured = rows[k].assured
             /\ rows'[k].acknowledged = TRUE
    BY <1>1, <1>4 DEF Row, Writes
<1>5. CASE /\ rows' = [rows EXCEPT ![k].assured = "cancelled"]
           /\ mined[rows[k].raw.nonce].tx.cancels
    BY <1>1, <1>2, <1>3, <1>5
       DEF Advances, JournalInv, RowsInv, SettlementIsReal, Rows, Unsettled
<1>6. CASE rows' = [rows EXCEPT ![k].assured = "fee-received"] /\ FeeDelivered(k)
    BY <1>1, <1>2, <1>3, <1>6
       DEF Advances, JournalInv, RowsInv, SettlementIsReal, Rows, Unsettled, FeeDelivered
<1>7. CASE /\ rows' = [rows EXCEPT ![k].acknowledged = TRUE]
           /\ mined[rows[k].raw.nonce].tx = rows[k].raw /\ ~mined[rows[k].raw.nonce].ok
    BY <1>1, <1>2, <1>4, <1>7
       DEF Advances, JournalInv, RowsInv, SettlementIsReal, Rows, Unsettled
<1> QED BY <1>5, <1>6, <1>7

(* A cancellation is recorded, and its cost reserved.                      *)
LEMMA CancelsAdvances ==
    ASSUME TypeOK, JournalInv, NEW k \in Rows, ~rows[k].confirmed, NEW cost \in Cost,
           rows' = [rows EXCEPT ![k] =
                      Cancelled(@, [key |-> k, nonce |-> rows[k].raw.nonce, cancels |-> TRUE,
                                    max |-> cost])]
    PROVE  Advances(k) /\ rows'[k].cancel_raw # NoTx
<1>1. /\ rows \in [Request -> Row] /\ rows[k] \in Row /\ k \in Request /\ rows[k].raw # NoTx
      /\ cost \in Nat /\ rows[k].raw \in Tx /\ rows[k].max_cost \in Nat
    <2>1. rows \in [Request -> Row] /\ k \in Request /\ rows[k].raw # NoTx
        BY DEF TypeOK, Rows
    <2>2. cost \in Nat
        BY LimitAssumption DEF Cost
    <2> QED BY <2>1, <2>2 DEF Row
<1> DEFINE tx == [key |-> k, nonce |-> rows[k].raw.nonce, cancels |-> TRUE, max |-> cost]
<1>2. /\ tx \in Tx /\ tx # NoTx
      /\ tx.key = k /\ tx.cancels /\ tx.nonce = rows[k].raw.nonce /\ tx.max = cost
    <2>1. tx \in Tx
        BY <1>1 DEF Tx
    <2> QED BY <2>1, NothingAssumption
<1> HIDE DEF tx
<1> DEFINE row == Cancelled(rows[k], tx)
<1>3. /\ row \in Row
      /\ row.raw = rows[k].raw /\ row.cancel_raw = tx
      /\ row.max_cost >= rows[k].max_cost /\ row.max_cost >= cost
      /\ row.actual_cost = rows[k].actual_cost /\ row.confirmed = rows[k].confirmed
      /\ row.assured = rows[k].assured /\ row.acknowledged = rows[k].acknowledged
    <2> DEFINE most == IF tx.max > rows[k].max_cost THEN tx.max ELSE rows[k].max_cost
    <2>1. most \in Nat /\ most >= rows[k].max_cost /\ most >= cost
        BY <1>1, <1>2
    <2>2. row = [rows[k] EXCEPT !.cancel_raw = tx, !.max_cost = most]
        BY DEF Cancelled
    <2> HIDE DEF row, most
    <2> QED BY <1>1, <1>2, <2>1, <2>2 DEF Row
<1> HIDE DEF row
<1>4. rows' = [rows EXCEPT ![k] = row]
    BY DEF row, tx
<1>5. Writes(k) /\ rows'[k] = row
    BY <1>1, <1>3, <1>4 DEF Writes
<1> QED BY <1>1, <1>2, <1>3, <1>5
        DEF Advances, JournalInv, RowsInv, SettlementIsReal, Rows, Unsettled

-----------------------------------------------------------------------------
(* The journals and the chain, by what a step moves                        *)

(* What the processes know of rows they hold.                              *)
RowsGrow ==
    \A k \in Request :
        /\ rows[k].raw # NoTx => rows'[k].raw = rows[k].raw
        /\ rows[k].confirmed => rows'[k].confirmed
        /\ rows[k].cancel_raw # NoTx => rows'[k].cancel_raw # NoTx
RawsKept == \A k \in Request : rows'[k].raw = rows[k].raw

(* A row is written to.                                                    *)
LEMMA AdvancesKeepsJournal ==
    ASSUME TypeOK, JournalInv, NEW k \in Request, Advances(k), UNCHANGED <<chain, transport>>
    PROVE  JournalInv' /\ RowsGrow /\ RawsKept
<1>1. /\ rows' \in [Request -> Row] /\ rows \in [Request -> Row]
      /\ \A l \in Request \ {k} : rows'[l] = rows[l]
      /\ rows[k].raw # NoTx /\ rows'[k].raw = rows[k].raw
      /\ mined' = mined /\ deep' = deep /\ disclosed' = disclosed /\ transport' = transport
    BY DEF Advances, Writes, TypeOK, chain
<1>2. RawsKept /\ RowsGrow
    BY <1>1 DEF RawsKept, RowsGrow, Advances
<1>3. Rows' = Rows
    BY <1>2 DEF Rows, RawsKept
<1>4. RowsInv'
    <2>1. rows[k].raw.max <= rows[k].max_cost /\ rows[k].raw.key = k /\ ~rows[k].raw.cancels
        BY <1>1 DEF JournalInv, RowsInv
    <2>2. rows[k].raw.max \in Nat /\ rows[k].max_cost \in Nat /\ rows'[k].max_cost \in Nat
        <3>1. Cost \subseteq Nat
            BY LimitAssumption DEF Cost
        <3> QED BY <1>1, <3>1 DEF Row, Tx
    <2> QED BY <1>1, <2>1, <2>2 DEF JournalInv, RowsInv, Advances
<1>5. OneNoncePending'
    <2>1. Unsettled(rows'[k]) => Unsettled(rows[k])
        BY DEF Advances
    <2> QED BY <1>1, <1>2, <1>3, <2>1 DEF JournalInv, OneNoncePending, RawsKept, Rows
<1>6. SettlementIsReal'
    BY <1>1, <1>3 DEF JournalInv, SettlementIsReal, Advances, Rows
<1>7. MinedInv' /\ TransportInv'
    BY <1>1, <1>2, <1>3 DEF JournalInv, MinedInv, TransportInv, RawsKept, Rows
<1>8. JournaledBeforeDisclosure'
    <2> SUFFICES ASSUME NEW tx \in disclosed
                 PROVE  /\ IF tx.cancels THEN rows'[tx.key].raw # NoTx /\ rows'[tx.key].raw.nonce = tx.nonce
                                         ELSE rows'[tx.key].raw = tx
                        /\ tx.max <= rows'[tx.key].max_cost
                        /\ tx.nonce > deep => transport # NoPending /\ transport.key = tx.key
        BY <1>1 DEF JournaledBeforeDisclosure
    <2>1. /\ IF tx.cancels THEN rows[tx.key].raw # NoTx /\ rows[tx.key].raw.nonce = tx.nonce
                           ELSE rows[tx.key].raw = tx
          /\ tx.max <= rows[tx.key].max_cost
          /\ tx.nonce > deep => transport # NoPending /\ transport.key = tx.key
        BY DEF JournalInv, JournaledBeforeDisclosure
    <2>2. tx \in Tx /\ tx.key \in Request /\ tx.max \in Nat
        <3>1. tx \in Tx /\ Cost \subseteq Nat
            BY LimitAssumption DEF TypeOK, Cost
        <3> QED BY <3>1 DEF Tx
    <2>3. tx.max <= rows'[tx.key].max_cost
        <3>1. CASE tx.key = k
            <4>1. rows'[k].max_cost \in Nat /\ rows[k].max_cost \in Nat
                BY <1>1 DEF Row
            <4> QED BY <2>1, <2>2, <3>1, <4>1 DEF Advances
        <3>2. CASE tx.key # k
            BY <1>1, <2>1, <2>2, <3>2
        <3> QED BY <3>1, <3>2
    <2> QED BY <1>2, <2>1, <2>2, <2>3 DEF RawsKept
<1> QED BY <1>2, <1>4, <1>5, <1>6, <1>7, <1>8 DEF JournalInv

(* A row is added, above the nonces of all others, when none is pending.   *)
LEMMA SignedKeepsJournal ==
    ASSUME TypeOK, JournalInv, NEW k \in Request, rows[k].raw = NoTx, ~hasPending,
           NEW nonce \in Nat \ {0}, NEW cost \in Cost,
           \A l \in Rows : rows[l].raw.nonce < nonce,
           rows' = [rows EXCEPT ![k] = Signed(k, nonce, cost)],
           UNCHANGED <<chain, transport>>
    PROVE  /\ rows' \in [Request -> Row] /\ JournalInv' /\ RowsGrow
           /\ \A l \in Request \ {k} : rows'[l] = rows[l]
           /\ k \in Rows'
<1> DEFINE row == Signed(k, nonce, cost)
           tx == [key |-> k, nonce |-> nonce, cancels |-> FALSE, max |-> cost]
<1>1. tx \in Tx /\ tx # NoTx
    <2>1. tx \in Tx
        BY DEF Tx
    <2> QED BY <2>1, NothingAssumption
<1>2. tx.key = k /\ tx.nonce = nonce /\ ~tx.cancels /\ tx.max = cost
    OBVIOUS
<1>3. cost \in Nat
    BY LimitAssumption DEF Cost
<1> HIDE DEF tx
<1>4. /\ row \in Row
      /\ row.raw = tx /\ row.cancel_raw = NoTx /\ row.max_cost = cost
      /\ ~row.confirmed /\ row.assured = "no" /\ ~row.acknowledged
    <2>1. row = [NoRow EXCEPT !.raw = tx, !.max_cost = cost]
        BY DEF Signed, tx
    <2> HIDE DEF row
    <2> QED BY <1>1, <1>3, <2>1 DEF NoRow, Row
<1> HIDE DEF row
<1>5. /\ rows \in [Request -> Row] /\ rows' \in [Request -> Row]
      /\ rows'[k] = row /\ \A l \in Request \ {k} : rows'[l] = rows[l]
      /\ mined' = mined /\ deep' = deep /\ disclosed' = disclosed /\ transport' = transport
    <2>1. rows' = [rows EXCEPT ![k] = row]
        BY DEF row
    <2> QED BY <1>4, <2>1 DEF TypeOK, chain
<1>6. Rows' = Rows \cup {k} /\ k \notin Rows
    BY <1>1, <1>4, <1>5 DEF Rows
<1>7. RowsGrow
    <2>1. rows[k] = NoRow
        BY DEF JournalInv, RowsInv
    <2> QED BY <1>5, <2>1 DEF RowsGrow, NoRow
<1>8. RowsInv'
    BY <1>1, <1>2, <1>3, <1>4, <1>5 DEF JournalInv, RowsInv
<1>9. OneNoncePending'
    <2>1. \A l \in Rows : ~Unsettled(rows[l])
        BY DEF hasPending, pending, Unsettled
    <2>2. \A l \in Rows : rows[l].raw.nonce \in Nat
        BY <1>5 DEF Rows, Row, Tx
    <2>3. \A l \in Rows : rows'[l] = rows[l] /\ l \in Request
        BY <1>5, <1>6 DEF Rows
    <2> QED BY <1>2, <1>4, <1>5, <1>6, <2>1, <2>2, <2>3 DEF JournalInv, OneNoncePending, Unsettled
<1>10. SettlementIsReal'
    BY <1>4, <1>5, <1>6 DEF JournalInv, SettlementIsReal, Rows
<1>11. MinedInv' /\ TransportInv'
    BY <1>5, <1>6 DEF JournalInv, MinedInv, TransportInv, Rows
<1>12. JournaledBeforeDisclosure'
    <2>1. \A u \in disclosed : u \in Tx /\ u.key \in Request /\ u # NoTx
        <3>1. \A u \in disclosed : u \in Tx
            BY DEF TypeOK
        <3> QED BY <3>1, NothingAssumption DEF Tx
    <2>2. \A u \in disclosed : u.key # k
        BY <2>1 DEF JournalInv, JournaledBeforeDisclosure
    <2> QED BY <1>5, <2>1, <2>2 DEF JournalInv, JournaledBeforeDisclosure
<1> QED BY <1>5, <1>6, <1>7, <1>8, <1>9, <1>10, <1>11, <1>12 DEF JournalInv

(* The transport's journal changes its transaction only when the nonce of  *)
(* the old one is consumed for good: no disclosed one is left out.         *)
LEMMA StagedKeepsJournal ==
    ASSUME TypeOK, JournalInv, NEW k \in Rows, MayStage(rows[k].raw),
           transport' = Staged(rows[k].raw), UNCHANGED <<chain, rows>>
    PROVE  /\ JournalInv' /\ transport' \in Pending
           /\ transport' # NoPending /\ transport'.key = k
<1> DEFINE tx == rows[k].raw
<1>1. /\ tx \in Tx /\ tx.key = k /\ k \in Request
      /\ mined' = mined /\ deep' = deep /\ disclosed' = disclosed /\ rows' = rows
    BY DEF TypeOK, Rows, Row, JournalInv, RowsInv, chain
<1>2. /\ tx.nonce \in Nat \ {0} /\ deep \in Nat
      /\ \A u \in disclosed : u \in Tx /\ u.key \in Request /\ u.nonce \in Nat /\ u # NoTx
    BY <1>1, ChainFacts
<1>3. /\ transport' \in Pending /\ transport' # NoPending
      /\ transport'.key = k /\ transport'.nonce = tx.nonce
    <2>1. CASE TransportHolds
        <3>1. transport' = transport /\ transport.key = k
            BY <2>1, <1>1 DEF MayStage, Staged
        <3>2. transport # NoPending /\ transport \in Pending
            BY <2>1 DEF TransportHolds, TypeOK
        <3>3. transport.nonce = tx.nonce
            BY <3>1, <3>2 DEF JournalInv, TransportInv
        <3> QED BY <3>1, <3>2, <3>3
    <2>2. CASE ~TransportHolds
        <3>1. transport' = [key |-> tx.key, nonce |-> tx.nonce, cancel_raw |-> NoTx]
            BY <2>2 DEF Staged
        <3>2. transport' \in Pending
            BY <1>1, <1>2, <3>1 DEF Pending
        <3> QED BY <1>1, <3>1, <3>2, NothingAssumption
    <2> QED BY <2>1, <2>2
<1>4. Rows' = Rows
    BY <1>1 DEF Rows
<1>5. TransportInv'
    BY <1>1, <1>3, <1>4 DEF TransportInv
<1>6. \A u \in disclosed : u.nonce > deep => u.key = k
    <2> SUFFICES ASSUME NEW u \in disclosed, u.nonce > deep PROVE u.key = k
        OBVIOUS
    <2>1. transport # NoPending /\ transport.key = u.key
        BY DEF JournalInv, JournaledBeforeDisclosure
    <2>2. rows[u.key].raw.nonce = u.nonce
        BY <1>2 DEF JournalInv, JournaledBeforeDisclosure
    <2>3. TransportHolds
        BY <2>1, <2>2, <1>2 DEF JournalInv, TransportInv, TransportHolds
    <2> QED BY <2>1, <2>3, <1>1 DEF MayStage
<1>7. JournaledBeforeDisclosure'
    BY <1>1, <1>3, <1>6 DEF JournalInv, JournaledBeforeDisclosure
<1>8. RowsInv' /\ OneNoncePending' /\ SettlementIsReal' /\ MinedInv'
    BY <1>1, <1>4 DEF JournalInv, RowsInv, OneNoncePending, SettlementIsReal, MinedInv
<1> QED BY <1>3, <1>5, <1>7, <1>8 DEF JournalInv

(* What is disclosed is journaled, in both journals.                       *)
LEMMA DisclosureKeepsJournal ==
    ASSUME TypeOK, JournalInv, NEW k \in Rows, NEW tx \in Tx,
           tx = rows[k].raw \/ tx = rows[k].cancel_raw,
           transport # NoPending /\ transport.key = k,
           transport' = transport \/ transport' = [transport EXCEPT !.cancel_raw = tx],
           disclosed' = disclosed \cup {tx}, UNCHANGED <<mined, deep, rows>>
    PROVE  JournalInv' /\ disclosed' \subseteq Tx /\ transport' \in Pending
<1>1. disclosed' \subseteq Tx /\ tx # NoTx
    BY ChainFacts
<1>2. transport' \in Pending /\ transport'.key = k /\ transport'.nonce = transport.nonce
    <2>1. transport \in Pending
        BY DEF TypeOK
    <2> QED BY <2>1 DEF Pending
<1>3. Rows' = Rows
    BY DEF Rows
<1>4. TransportInv'
    BY <1>2, <1>3 DEF JournalInv, TransportInv
<1>5. MinedInv' /\ RowsInv' /\ OneNoncePending' /\ SettlementIsReal'
    BY <1>3 DEF JournalInv, MinedInv, RowsInv, OneNoncePending, SettlementIsReal
<1>6. /\ tx.key = k
      /\ IF tx.cancels THEN rows[k].raw # NoTx /\ rows[k].raw.nonce = tx.nonce
                       ELSE rows[k].raw = tx
      /\ tx.max <= rows[k].max_cost
    BY <1>1 DEF JournalInv, RowsInv, Rows
<1>7. transport' # NoPending
    BY <1>2, NothingAssumption
<1>8. JournaledBeforeDisclosure'
    <2>1. \A u \in disclosed : u.nonce > deep => transport'.key = u.key
        BY <1>2 DEF JournalInv, JournaledBeforeDisclosure
    <2> QED BY <1>2, <1>6, <1>7, <2>1 DEF JournalInv, JournaledBeforeDisclosure
<1> QED BY <1>1, <1>2, <1>4, <1>5, <1>8 DEF JournalInv

(* The chain moves: what was consumed for good stays, block for block.     *)
ChainGrows ==
    /\ mined' \in Seq(Entry) /\ deep' \in {Len(mined'), Len(mined') - 1} /\ deep' >= deep
    /\ \A n \in 1..deep : n \in DOMAIN mined' /\ mined'[n] = mined[n]
    /\ \A n \in DOMAIN mined' :
          \/ n \in DOMAIN mined /\ mined'[n] = mined[n]
          \/ /\ mined'[n].tx \in disclosed /\ mined'[n].tx.nonce = n
             /\ mined'[n].cost <= mined'[n].tx.max

LEMMA IncludeGrows ==
    ASSUME TypeOK, NEW tx, NEW cost \in Cost, NEW ok \in BOOLEAN, Include(tx, cost, ok)
    PROVE  ChainGrows
<1> DEFINE e == [tx |-> tx, cost |-> cost, at |-> now, ok |-> ok]
<1>1. /\ tx \in disclosed /\ tx.nonce = Len(mined) + 1 /\ cost <= tx.max
      /\ mined' = Append(mined, e) /\ deep' = Len(mined)
    BY DEF Include, Nonce
<1>2. e \in Entry /\ e.tx = tx /\ e.cost = cost
    <2>1. now \in Nat
        BY LimitAssumption DEF TypeOK
    <2> QED BY <1>1, <2>1, ChainFacts DEF Entry
<1> HIDE DEF e
<1>3. /\ mined' \in Seq(Entry) /\ Len(mined') = Len(mined) + 1
      /\ \A n \in 1..Len(mined) : mined'[n] = mined[n]
      /\ mined'[Len(mined) + 1] = e /\ DOMAIN mined' = 1..(Len(mined) + 1)
    BY <1>1, <1>2, ChainFacts, AppendProperties, LenProperties
<1> QED BY <1>1, <1>2, <1>3, ChainFacts DEF ChainGrows

LEMMA BlockGrows ==
    ASSUME TypeOK, EmptyBlock \/ LastBlockReplaced
    PROVE  ChainGrows
<1>1. CASE EmptyBlock
    BY <1>1, ChainFacts DEF EmptyBlock, ChainGrows
<1>2. CASE LastBlockReplaced
    <2>1. mined' = SubSeq(mined, 1, deep) /\ deep' = deep
        BY <1>2 DEF LastBlockReplaced
    <2>2. \A n \in 1..deep : mined[n] \in Entry
        BY ChainFacts
    <2>3. /\ mined' \in Seq(Entry) /\ Len(mined') = deep /\ DOMAIN mined' = 1..deep
          /\ \A n \in 1..deep : mined'[n] = mined[n]
        <3>1. /\ mined' \in Seq(Entry) /\ Len(mined') = IF 1 <= deep THEN deep - 1 + 1 ELSE 0
              /\ \A n \in 1..deep - 1 + 1 : mined'[n] = mined[1 + n - 1]
            BY <2>1, <2>2, ChainFacts, SubSeqProperties
        <3>2. DOMAIN mined' = 1..Len(mined')
            BY <3>1, LenProperties
        <3> QED BY <3>1, <3>2, ChainFacts
    <2> QED BY <2>1, <2>3, ChainFacts DEF ChainGrows
<1> QED BY <1>1, <1>2

LEMMA ChainKeepsJournal ==
    ASSUME TypeOK, JournalInv, ChainGrows, UNCHANGED <<disclosed, rows, transport>>
    PROVE  JournalInv'
<1>1. Rows' = Rows
    BY DEF Rows
<1>2. RowsInv' /\ OneNoncePending' /\ TransportInv'
    BY <1>1 DEF JournalInv, RowsInv, OneNoncePending, TransportInv
<1>3. MinedInv'
    BY DEF ChainGrows, JournalInv, MinedInv
<1>4. JournaledBeforeDisclosure'
    <2>1. deep' \in Int
        <3>1. Len(mined') \in Nat
            BY LenProperties DEF ChainGrows
        <3> QED BY <3>1 DEF ChainGrows
    <2>2. \A u \in disclosed : u.nonce \in Nat
        BY ChainFacts
    <2>3. \A u \in disclosed : u.nonce > deep' => u.nonce > deep
        BY <2>1, <2>2, ChainFacts DEF ChainGrows
    <2> QED BY <2>3 DEF JournalInv, JournaledBeforeDisclosure
<1>5. SettlementIsReal'
    <2> SUFFICES ASSUME NEW k \in Rows
                 PROVE  LET row == rows[k]
                            n == row.raw.nonce
                        IN /\ row.confirmed => n <= deep' /\ row.actual_cost >= mined'[n].cost
                           /\ row.assured = "fee-received" => mined'[n].tx = row.raw /\ mined'[n].ok
                           /\ row.assured = "cancelled" => mined'[n].tx.cancels
                           /\ row.acknowledged => mined'[n].tx = row.raw /\ ~mined'[n].ok
        BY <1>1 DEF SettlementIsReal
    <2>1. CASE rows[k].confirmed
        <3>1. rows[k].raw.nonce \in 1..deep
            <4>1. rows[k].raw \in Tx
                BY DEF TypeOK, Rows, Row
            <4> QED BY <2>1, <4>1, ChainFacts DEF JournalInv, SettlementIsReal
        <3>2. mined'[rows[k].raw.nonce] = mined[rows[k].raw.nonce]
            BY <3>1 DEF ChainGrows
        <3>3. rows[k].raw.nonce <= deep'
            <4>1. Len(mined') \in Nat
                BY LenProperties DEF ChainGrows
            <4> QED BY <3>1, <4>1, ChainFacts DEF ChainGrows
        <3> QED BY <2>1, <3>2, <3>3 DEF JournalInv, SettlementIsReal
    <2>2. CASE ~rows[k].confirmed
        <3>1. rows[k].assured = "no" /\ ~rows[k].acknowledged
            BY <2>2 DEF JournalInv, RowsInv, Rows
        <3> QED BY <2>2, <3>1
    <2> QED BY <2>1, <2>2
<1> QED BY <1>2, <1>3, <1>4, <1>5 DEF JournalInv

-----------------------------------------------------------------------------
(* The processes, by what the others do to them                            *)

(* The handler while others work: its request's row and reply, the         *)
(* transport's journal and the set of rows stay.                           *)
LEMMA TaskUndisturbed ==
    ASSUME TaskInv, task' = task, RawsKept,
           task.phase # "idle" => up' /\ answer'[task.key] = answer[task.key] /\ transport' = transport
    PROVE  TaskInv'
<1>1. Rows' = Rows /\ \A k \in Rows : rows'[k].raw = rows[k].raw
    BY DEF RawsKept, Rows
<1>2. task.phase # "idle" => rows'[task.key].raw = rows[task.key].raw
    BY DEF RawsKept, TaskInv
<1>3. CASE task.phase = "idle"
    BY <1>3 DEF TaskInv
<1>4. CASE task.phase # "idle"
    BY <1>1, <1>2, <1>4 DEF TaskInv
<1> QED BY <1>3, <1>4

LEMMA RecUndisturbed ==
    ASSUME RecInv, rec' = rec, RowsGrow, rec.phase # "idle" => up'
    PROVE  RecInv'
BY DEF RecInv, RowsGrow, Rows

LEMMA CliUndisturbed ==
    ASSUME CliInv, TypeOK, cli' = cli, RowsGrow, cli.phase # "idle" => ~up'
    PROVE  CliInv'
<1>1. ASSUME cli.phase # "idle" PROVE cli.key \in Rows' /\ rows'[cli.key].cancel_raw # NoTx
    BY <1>1 DEF CliInv, RowsGrow, Rows
<1> QED BY <1>1 DEF CliInv

LEMMA AnswersKept ==
    ASSUME AnswerInv, RawsKept,
           \A k \in Request : answer'[k] = "rejected" => answer[k] = "rejected" \/ rows[k].raw = NoTx
    PROVE  AnswerInv'
BY DEF AnswerInv, RawsKept

(* Without a write to the journal nothing is forgotten.                    *)
LEMMA RowsUnchanged == UNCHANGED rows => RowsGrow /\ RawsKept
BY DEF RowsGrow, RawsKept

LEMMA JournalUnchanged ==
    ASSUME JournalInv, UNCHANGED <<chain, journals>>
    PROVE  JournalInv'
<1>1. rows' = rows /\ transport' = transport /\ mined' = mined /\ deep' = deep /\ disclosed' = disclosed
    BY DEF chain, journals
<1>2. Rows' = Rows
    BY <1>1 DEF Rows
<1>3. RowsInv' /\ OneNoncePending' /\ SettlementIsReal'
    BY <1>1, <1>2 DEF JournalInv, RowsInv, OneNoncePending, SettlementIsReal
<1>4. MinedInv' /\ TransportInv' /\ JournaledBeforeDisclosure'
    BY <1>1, <1>2 DEF JournalInv, MinedInv, TransportInv, JournaledBeforeDisclosure
<1> QED BY <1>3, <1>4 DEF JournalInv

-----------------------------------------------------------------------------
(* The handler's steps                                                     *)

TaskTypes ==
    [phase : {"idle", "admitted", "validating", "rechecked", "signed", "journaled", "staged", "sent"},
     key : Request \cup {NoTx}, nonce : Nat, budget : 0..maxTransactionCost]

(* Replies that need no work.                                              *)
LEMMA ReplyStep ==
    ASSUME IInv, NEW k \in Request, Replay(k) \/ Refuse(k)
    PROVE  IInv'
<1>1. TypeOK /\ JournalInv /\ AnswerInv /\ TaskInv /\ RecInv /\ CliInv
    BY DEF IInv
<1>2. /\ task.key # k /\ UNCHANGED <<now, chain, transport, service, task, rec, cli>>
      /\ mined' = mined /\ deep' = deep /\ disclosed' = disclosed /\ up' = up /\ stops' = stops
    BY DEF Replay, Refuse, chain, service, journals
<1>3. PICK reply \in {"hash", "unknown", "rejected"} :
         /\ answer' = [answer EXCEPT ![k] = reply]
         /\ reply = "rejected" => rows[k].raw = NoTx
    <2>1. rows[k].response \in {"none", "hash", "unknown"} /\ (rows[k].raw = NoTx => rows[k].response = "none")
        <3>1. rows[k] \in Row
            BY <1>1 DEF TypeOK
        <3> QED BY <1>1, <3>1 DEF Row, JournalInv, RowsInv, NoRow
    <2> QED BY <2>1 DEF Replay, Refuse
<1>4. JournalInv' /\ RowsGrow /\ RawsKept /\ rows' \in [Request -> Row]
    <2>1. CASE UNCHANGED rows
        BY <1>1, <1>2, <2>1, JournalUnchanged, RowsUnchanged DEF TypeOK, journals
    <2>2. CASE rows[k].raw # NoTx /\ rows' = [rows EXCEPT ![k].response = "unknown"]
        BY <1>1, <1>2, <2>2, RespondsAdvances, AdvancesKeepsJournal DEF Advances, Writes
    <2> QED BY <2>1, <2>2 DEF Replay, Refuse, journals
<1>5. /\ answer' \in [Request -> {"none", "hash", "unknown", "rejected"}]
      /\ \A l \in Request : answer'[l] = "rejected" => answer[l] = "rejected" \/ rows[l].raw = NoTx
      /\ \A l \in Request \ {k} : answer'[l] = answer[l]
    BY <1>1, <1>3 DEF TypeOK
<1>6. TypeOK'
    BY <1>1, <1>2, <1>4, <1>5 DEF TypeOK, service, chain
<1>7. TaskInv'
    <2>1. task.phase # "idle" => up' /\ answer'[task.key] = answer[task.key]
        BY <1>1, <1>2, <1>5 DEF TaskInv
    <2>2. task' = task /\ transport' = transport
        BY <1>2
    <2> QED BY <1>1, <1>4, <2>1, <2>2, TaskUndisturbed
<1>8. RecInv' /\ CliInv' /\ AnswerInv'
    BY <1>1, <1>2, <1>4, <1>5, RecUndisturbed, CliUndisturbed, AnswersKept DEF RecInv, CliInv
<1> QED BY <1>4, <1>6, <1>7, <1>8 DEF IInv

(* The reconciler and the commands do not move with the handler.           *)
LEMMA HandlerStep ==
    ASSUME IInv, UNCHANGED <<now, mined, deep, service, rec, cli>>,
           task' \in TaskTypes, TaskInv', JournalInv', AnswerInv', RowsGrow,
           rows' \in [Request -> Row], transport' \in Pending \cup {NoPending}, disclosed' \subseteq Tx,
           answer' \in [Request -> {"none", "hash", "unknown", "rejected"}]
    PROVE  IInv'
<1>1. TypeOK /\ RecInv /\ CliInv
    BY DEF IInv
<1>2. now' = now /\ mined' = mined /\ deep' = deep /\ up' = up /\ stops' = stops /\ rec' = rec /\ cli' = cli
    BY DEF service
<1>3. TypeOK'
    BY <1>1, <1>2 DEF TypeOK, TaskTypes
<1>4. RecInv' /\ CliInv'
    BY <1>1, <1>2, RecUndisturbed, CliUndisturbed DEF RecInv, CliInv
<1> QED BY <1>3, <1>4 DEF IInv

(* Up to the signature only the handler's own state moves.                 *)
LEMMA PreparationStep ==
    ASSUME IInv,
           \/ \E k \in Request : Admit(k)
           \/ \E cost \in Cost : ReadState(cost)
           \/ RecheckState \/ SignRequest
    PROVE  IInv'
<1>1. TypeOK /\ JournalInv /\ AnswerInv /\ TaskInv
    BY DEF IInv
<1>2. task \in TaskTypes
    BY <1>1 DEF TypeOK, TaskTypes
<1>3. /\ UNCHANGED <<now, mined, deep, disclosed, rows, transport, service, rec, cli>>
      /\ UNCHANGED <<chain, journals>> /\ up' = up
    BY DEF Admit, ReadState, RecheckState, SignRequest, chain, journals, service
<1>4. JournalInv' /\ RowsGrow /\ RawsKept /\ Rows' = Rows
    BY <1>1, <1>3, JournalUnchanged, RowsUnchanged DEF Rows
<1>5. ASSUME NEW k \in Request, Admit(k) PROVE IInv'
    <2>1. /\ up /\ rows[k].raw = NoTx
          /\ task' = [Free EXCEPT !.phase = "admitted", !.key = k]
          /\ answer' = [answer EXCEPT ![k] = "none"]
        BY <1>5 DEF Admit
    <2>2. /\ task' \in TaskTypes /\ task'.phase = "admitted" /\ task'.key = k
        <3>1. task' = [phase |-> "admitted", key |-> k, nonce |-> 0, budget |-> 0]
            BY <2>1 DEF Free
        <3>2. 0 \in 0..maxTransactionCost
            BY LimitAssumption
        <3> QED BY <3>1, <3>2 DEF TaskTypes
    <2>3. /\ answer' \in [Request -> {"none", "hash", "unknown", "rejected"}]
          /\ answer'[k] = "none" /\ \A l \in Request \ {k} : answer'[l] = answer[l]
        BY <1>1, <2>1 DEF TypeOK
    <2>4. TaskInv'
        BY <1>3, <2>1, <2>2, <2>3 DEF TaskInv
    <2>5. AnswerInv'
        BY <1>1, <1>4, <2>3, AnswersKept
    <2> QED BY <1>1, <1>3, <1>4, <2>2, <2>3, <2>4, <2>5, HandlerStep DEF TypeOK
<1>6. ASSUME NEW cost \in Cost, ReadState(cost) PROVE IInv'
    <2>1. /\ task.phase = "admitted" /\ Nonce = ConfirmedNonce /\ ~nonceBlocked(Nonce)
          /\ task' = [task EXCEPT !.phase = "validating", !.nonce = Nonce, !.budget = cost]
          /\ answer' = answer
        BY <1>6 DEF ReadState
    <2>2. Nonce \in Nat \ {0} /\ Nonce = deep + 1
        BY <1>1, <2>1, ChainFacts DEF Nonce, ConfirmedNonce
    <2>3. cost \in 0..maxTransactionCost
        BY LimitAssumption DEF Cost
    <2>4. /\ task' \in TaskTypes /\ task'.phase = "validating" /\ task'.key = task.key
          /\ task'.nonce = Nonce /\ task'.budget = cost
        BY <1>2, <2>1, <2>2, <2>3 DEF TaskTypes
    <2>5. \A k \in Rows : rows[k].raw.nonce < Nonce
        <3> SUFFICES ASSUME NEW k \in Rows PROVE rows[k].raw.nonce < Nonce
            OBVIOUS
        <3>1. rows[k].raw.nonce \in Nat
            BY <1>1, ChainFacts DEF TypeOK, Rows, Row
        <3>2. CASE rows[k].confirmed
            BY <1>1, <2>2, <3>1, <3>2, ChainFacts DEF JournalInv, SettlementIsReal
        <3>3. CASE ~rows[k].confirmed
            BY <2>1, <2>2, <3>1, <3>3 DEF nonceBlocked, Unconfirmed
        <3> QED BY <3>2, <3>3
    <2>6. TaskInv'
        BY <1>1, <1>3, <1>4, <2>1, <2>2, <2>4, <2>5 DEF TaskInv
    <2>7. AnswerInv'
        BY <1>1, <1>4, <2>1, AnswersKept
    <2> QED BY <1>1, <1>3, <1>4, <2>1, <2>4, <2>6, <2>7, HandlerStep DEF TypeOK
<1>7. ASSUME RecheckState \/ SignRequest PROVE IInv'
    <2>1. PICK phase \in {"rechecked", "signed"} :
             /\ task.phase \in {"validating", "rechecked"}
             /\ task' = [task EXCEPT !.phase = phase] /\ answer' = answer
        BY <1>7 DEF RecheckState, SignRequest
    <2>2. /\ task' \in TaskTypes /\ task'.phase = phase /\ task'.key = task.key
          /\ task'.nonce = task.nonce /\ task'.budget = task.budget
        BY <1>2, <2>1 DEF TaskTypes
    <2>3. TaskInv'
        BY <1>1, <1>3, <1>4, <2>1, <2>2 DEF TaskInv
    <2>4. AnswerInv'
        BY <1>1, <1>4, <2>1, AnswersKept
    <2> QED BY <1>1, <1>3, <1>4, <2>1, <2>2, <2>3, <2>4, HandlerStep DEF TypeOK
<1> QED BY <1>5, <1>6, <1>7

LEMMA JournalRequestStep == ASSUME IInv, JournalRequest PROVE IInv'
<1>1. TypeOK /\ JournalInv /\ AnswerInv /\ TaskInv /\ task \in TaskTypes
    BY DEF IInv, TypeOK, TaskTypes
<1> DEFINE k == task.key
<1>2. /\ task.phase = "signed" /\ rows[k].raw = NoTx /\ ~hasPending
      /\ rows' = [rows EXCEPT ![k] = Signed(k, task.nonce, task.budget)]
      /\ task' = [task EXCEPT !.phase = "journaled"]
      /\ UNCHANGED <<now, mined, deep, service, rec, cli>> /\ UNCHANGED <<chain, transport>>
      /\ answer' = answer /\ up' = up /\ disclosed' = disclosed
    BY DEF JournalRequest, chain, service
<1>3. /\ k \in Request /\ task.nonce \in Nat \ {0} /\ task.budget \in Cost
      /\ \A l \in Rows : rows[l].raw.nonce < task.nonce
      /\ up /\ answer[k] = "none"
    BY <1>1, <1>2 DEF TaskInv
<1>4. /\ rows' \in [Request -> Row] /\ JournalInv' /\ RowsGrow
      /\ \A l \in Request \ {k} : rows'[l] = rows[l]
      /\ k \in Rows'
    BY <1>1, <1>2, <1>3, SignedKeepsJournal
<1>5. task' \in TaskTypes /\ task'.phase = "journaled" /\ task'.key = k
    BY <1>1, <1>2 DEF TaskTypes
<1>6. TaskInv'
    BY <1>2, <1>3, <1>4, <1>5 DEF TaskInv
<1>7. AnswerInv'
    BY <1>1, <1>2, <1>3, <1>4 DEF AnswerInv
<1> QED BY <1>1, <1>2, <1>4, <1>5, <1>6, <1>7, HandlerStep DEF TypeOK

LEMMA StageRequestStep == ASSUME IInv, StageRequest PROVE IInv'
<1>1. TypeOK /\ JournalInv /\ AnswerInv /\ TaskInv /\ task \in TaskTypes
    BY DEF IInv, TypeOK, TaskTypes
<1> DEFINE k == task.key
<1>2. /\ task.phase = "journaled"
      /\ MayStage(rows[k].raw) /\ transport' = Staged(rows[k].raw)
      /\ task' = [task EXCEPT !.phase = "staged"]
      /\ UNCHANGED <<now, mined, deep, service, rec, cli>> /\ UNCHANGED <<chain, rows>>
      /\ answer' = answer /\ up' = up /\ disclosed' = disclosed /\ rows' = rows
    BY DEF StageRequest, chain, service
<1>3. k \in Rows /\ k \in Request /\ up /\ answer[k] = "none"
    BY <1>1, <1>2 DEF TaskInv
<1>4. /\ JournalInv' /\ transport' \in Pending
      /\ transport' # NoPending /\ transport'.key = k
    BY <1>1, <1>2, <1>3, StagedKeepsJournal
<1>5. task' \in TaskTypes /\ task'.phase = "staged" /\ task'.key = k
    BY <1>1, <1>2 DEF TaskTypes
<1>6. Rows' = Rows /\ RowsGrow /\ RawsKept
    BY <1>2, RowsUnchanged DEF Rows
<1>7. TaskInv'
    BY <1>2, <1>3, <1>4, <1>5, <1>6 DEF TaskInv
<1>8. AnswerInv'
    BY <1>1, <1>2, <1>6, AnswersKept
<1> QED BY <1>1, <1>2, <1>4, <1>5, <1>6, <1>7, <1>8, HandlerStep DEF TypeOK

LEMMA DiscloseStep == ASSUME IInv, Disclose PROVE IInv'
<1>1. TypeOK /\ JournalInv /\ AnswerInv /\ TaskInv /\ task \in TaskTypes
    BY DEF IInv, TypeOK, TaskTypes
<1> DEFINE k == task.key
<1>2. /\ task.phase = "staged" /\ disclosed' = disclosed \cup {rows[k].raw}
      /\ task' = [task EXCEPT !.phase = "sent"]
      /\ UNCHANGED <<now, mined, deep, service, rec, cli>> /\ UNCHANGED <<mined, deep, rows>>
      /\ answer' = answer /\ up' = up /\ rows' = rows /\ transport' = transport
    BY DEF Disclose, journals, service
<1>3. /\ k \in Rows /\ k \in Request /\ up /\ answer[k] = "none"
      /\ transport # NoPending /\ transport.key = k
    BY <1>1, <1>2 DEF TaskInv
<1>4. rows[k].raw \in Tx
    BY <1>1, <1>3 DEF TypeOK, Rows, Row
<1>5. JournalInv' /\ disclosed' \subseteq Tx /\ transport' \in Pending
    BY <1>1, <1>2, <1>3, <1>4, DisclosureKeepsJournal
<1>6. task' \in TaskTypes /\ task'.phase = "sent" /\ task'.key = k
    BY <1>1, <1>2 DEF TaskTypes
<1>7. Rows' = Rows /\ RowsGrow /\ RawsKept
    BY <1>2, RowsUnchanged DEF Rows
<1>8. TaskInv'
    BY <1>2, <1>3, <1>6, <1>7 DEF TaskInv
<1>9. AnswerInv'
    BY <1>1, <1>2, <1>7, AnswersKept
<1> QED BY <1>1, <1>2, <1>5, <1>6, <1>7, <1>8, <1>9, HandlerStep DEF TypeOK

LEMMA AnswerStep == ASSUME IInv, Acknowledged \/ HandleFails PROVE IInv'
<1>1. TypeOK /\ JournalInv /\ AnswerInv /\ TaskInv
    BY DEF IInv
<1> DEFINE k == task.key
<1>2. /\ task' = Free /\ task # Free
      /\ UNCHANGED <<now, mined, deep, service, rec, cli>> /\ UNCHANGED <<chain, transport>>
      /\ disclosed' = disclosed
    BY DEF Acknowledged, HandleFails, chain, service, Free
<1>3. k \in Request
    BY <1>1, <1>2 DEF TaskInv
<1>4. PICK reply \in {"hash", "unknown", "rejected"} :
         /\ answer' = [answer EXCEPT ![k] = reply]
         /\ reply = "rejected" => rows[k].raw = NoTx
         /\ IF reply # "rejected" THEN rows[k].raw # NoTx /\ rows' = [rows EXCEPT ![k].response = reply]
                                  ELSE rows' = rows
    <2>1. CASE Acknowledged
        BY <1>1, <2>1 DEF Acknowledged, TaskInv, Rows
    <2>2. CASE HandleFails
        BY <2>2 DEF HandleFails, FailureAnswer
    <2> QED BY <2>1, <2>2
<1>5. JournalInv' /\ RowsGrow /\ RawsKept /\ rows' \in [Request -> Row]
    <2>1. CASE reply = "rejected"
        BY <1>1, <1>2, <1>4, <2>1, JournalUnchanged, RowsUnchanged DEF TypeOK, journals
    <2>2. CASE reply # "rejected"
        BY <1>1, <1>2, <1>3, <1>4, <2>2, RespondsAdvances, AdvancesKeepsJournal DEF Advances, Writes
    <2> QED BY <2>1, <2>2
<1>6. /\ answer' \in [Request -> {"none", "hash", "unknown", "rejected"}]
      /\ \A l \in Request : answer'[l] = "rejected" => answer[l] = "rejected" \/ rows[l].raw = NoTx
    BY <1>1, <1>4 DEF TypeOK
<1>7. AnswerInv'
    BY <1>1, <1>5, <1>6, AnswersKept
<1>8. task' \in TaskTypes /\ TaskInv'
    BY <1>2, LimitAssumption DEF Free, TaskTypes, TaskInv
<1> QED BY <1>1, <1>2, <1>5, <1>6, <1>7, <1>8, HandlerStep DEF TypeOK

-----------------------------------------------------------------------------
(* The reconciler's steps and the commands that write rows                 *)

RecTypes == [phase : {"idle", "reading", "settling", "assuring"}, key : Request \cup {NoTx},
             upto : 0..deep, wasConfirmed : BOOLEAN]
CliTypes == [phase : {"idle", "staging", "sending"}, key : Request \cup {NoTx}]

(* At most a row advances.                                                 *)
LEMMA RowsMove ==
    ASSUME TypeOK, JournalInv, (\E k \in Request : Advances(k)) \/ UNCHANGED rows,
           UNCHANGED <<chain, transport>>
    PROVE  JournalInv' /\ RowsGrow /\ RawsKept /\ Rows' = Rows /\ rows' \in [Request -> Row]
<1>1. JournalInv' /\ RowsGrow /\ RawsKept /\ rows' \in [Request -> Row]
    <2>1. CASE \E k \in Request : Advances(k)
        BY <2>1, AdvancesKeepsJournal DEF Advances, Writes
    <2>2. CASE UNCHANGED rows
        BY <2>2, JournalUnchanged, RowsUnchanged DEF TypeOK, journals
    <2> QED BY <2>1, <2>2
<1> QED BY <1>1 DEF RawsKept, Rows

LEMMA RowStep ==
    ASSUME IInv, (\E k \in Request : Advances(k)) \/ UNCHANGED rows,
           UNCHANGED <<now, chain, transport, service, task, answer>>,
           rec' \in RecTypes, cli' \in CliTypes, RecInv', CliInv'
    PROVE  IInv'
<1>1. TypeOK /\ JournalInv /\ AnswerInv /\ TaskInv
    BY DEF IInv
<1>2. /\ now' = now /\ mined' = mined /\ deep' = deep /\ disclosed' = disclosed
      /\ up' = up /\ stops' = stops /\ transport' = transport /\ task' = task /\ answer' = answer
    BY DEF chain, service
<1>3. JournalInv' /\ RowsGrow /\ RawsKept /\ rows' \in [Request -> Row]
    BY <1>1, RowsMove
<1>4. TypeOK'
    BY <1>1, <1>2, <1>3 DEF TypeOK, RecTypes, CliTypes
<1>5. TaskInv'
    BY <1>1, <1>2, <1>3, TaskUndisturbed DEF TaskInv
<1>6. AnswerInv'
    BY <1>1, <1>2, <1>3, AnswersKept
<1> QED BY <1>3, <1>4, <1>5, <1>6 DEF IInv

(* The reconciler goes on with its confirmed row, or ends.                 *)
LEMMA ReconcilerStep ==
    ASSUME IInv, (\E k \in Request : Advances(k)) \/ UNCHANGED rows,
           UNCHANGED <<now, chain, transport, service, task, cli, answer>>,
           \/ rec' = Idle
           \/ /\ rec # Idle /\ rows'[rec.key].confirmed
              /\ \E phase \in {"settling", "assuring"} : rec' = [rec EXCEPT !.phase = phase]
    PROVE  IInv'
<1>1. TypeOK /\ JournalInv /\ RecInv /\ CliInv /\ rec \in RecTypes /\ cli \in CliTypes
    BY DEF IInv, TypeOK, RecTypes, CliTypes
<1>2. UNCHANGED <<chain, transport>> /\ up' = up /\ cli' = cli
    BY DEF chain, service
<1>3. RowsGrow /\ Rows' = Rows
    BY <1>1, RowsMove
<1>4. CliInv'
    BY <1>1, <1>2, <1>3, CliUndisturbed DEF CliInv
<1>5. rec' \in RecTypes /\ RecInv'
    <2>1. CASE rec' = Idle
        <3>1. 0 \in 0..deep
            BY <1>1, ChainFacts
        <3>2. Idle \in RecTypes /\ Idle.phase = "idle"
            BY <3>1 DEF Idle, RecTypes
        <3> QED BY <2>1, <3>2 DEF RecInv
    <2>2. CASE /\ rec # Idle /\ rows'[rec.key].confirmed
               /\ \E phase \in {"settling", "assuring"} : rec' = [rec EXCEPT !.phase = phase]
        <3>1. PICK phase \in {"settling", "assuring"} : rec' = [rec EXCEPT !.phase = phase]
            BY <2>2
        <3>2. rec' \in RecTypes /\ rec'.phase = phase /\ rec'.key = rec.key
            BY <1>1, <3>1 DEF RecTypes
        <3> QED BY <1>1, <1>2, <1>3, <2>2, <3>2 DEF RecInv
    <2> QED BY <2>1, <2>2
<1>6. cli' \in CliTypes
    BY <1>1, <1>2
<1> QED BY <1>4, <1>5, <1>6, RowStep

LEMMA ReconcileBegins == ASSUME IInv, NEW k \in Request, ReconcileStart(k) PROVE IInv'
<1>1. TypeOK /\ RecInv /\ CliInv /\ cli \in CliTypes
    BY DEF IInv, TypeOK, CliTypes
<1>2. /\ up /\ k \in Rows
      /\ rec' = [phase |-> "reading", key |-> k, upto |-> deep, wasConfirmed |-> rows[k].confirmed]
      /\ UNCHANGED <<now, chain, transport, service, task, cli, answer>> /\ UNCHANGED rows
      /\ up' = up
    BY DEF ReconcileStart, Settled, pending, journals, service
<1>3. deep \in 0..deep /\ rows[k].confirmed \in BOOLEAN
    <2>1. rows[k].confirmed \in BOOLEAN
        BY <1>1 DEF TypeOK, Row
    <2> QED BY <1>1, <2>1, ChainFacts
<1>4. rec' \in RecTypes /\ rec'.phase = "reading" /\ rec'.key = k
    BY <1>2, <1>3 DEF RecTypes
<1>5. RecInv'
    BY <1>2, <1>4 DEF RecInv, Rows
<1>6. CliInv' /\ cli' \in CliTypes
    BY <1>1, <1>2 DEF CliInv, Rows
<1> QED BY <1>2, <1>4, <1>5, <1>6, RowStep

LEMMA ReconcileStep ==
    ASSUME IInv,
           \/ ReconcileNothing \/ ReconcileReceipt \/ ReconcileUnknown \/ ReconcileCancelled
           \/ ReconcileAnswers \/ ReconcileAssured \/ ReconcileFails
    PROVE  IInv'
<1> DEFINE k == rec.key
           n == rows[k].raw.nonce
<1>1. TypeOK /\ JournalInv /\ RecInv
    BY DEF IInv
<1>2. UNCHANGED <<now, chain, transport, service, task, cli, answer>>
    BY DEF ReconcileNothing, ReconcileReceipt, ReconcileUnknown, ReconcileCancelled,
           ReconcileAnswers, ReconcileAssured, ReconcileFails, journals
<1>3. ASSUME rec.phase # "idle"
      PROVE  /\ rec # Idle /\ k \in Rows /\ k \in Request /\ rows[k].raw # NoTx
             /\ n \in Nat /\ rows[k].max_cost \in Nat /\ rec.upto \in 0..deep /\ now \in Nat
    <2>1. rec # Idle /\ k \in Rows /\ k \in Request /\ rows[k].raw # NoTx
        BY <1>1, <1>3 DEF RecInv, Rows, Idle
    <2>2. rows[k] \in Row /\ rows[k].raw \in Tx
        BY <1>1, <2>1 DEF TypeOK, Row
    <2>3. n \in Nat
        BY <1>1, <2>2, ChainFacts
    <2>4. rows[k].max_cost \in Nat
        BY <2>2 DEF Row
    <2>5. rec.upto \in 0..deep /\ now \in Nat
        BY <1>1, LimitAssumption DEF TypeOK
    <2> QED BY <2>1, <2>3, <2>4, <2>5
<1>4. CASE ReconcileNothing \/ ReconcileFails
    BY <1>2, <1>4, ReconcilerStep DEF ReconcileNothing, ReconcileFails, journals
<1>5. CASE ReconcileReceipt
    <2>1. /\ rec.phase = "reading" /\ n <= rec.upto
          /\ rows' = [rows EXCEPT ![k] = Confirmed(@, mined[n].cost, mined[n].at)]
          /\ rec' = [rec EXCEPT !.phase = "settling"]
        BY <1>5 DEF ReconcileReceipt
    <2>2. n <= deep
        BY <1>1, <1>3, <2>1, ChainFacts
    <2>3. mined[n].cost \in Nat /\ mined[n].at \in Nat /\ mined[n].cost >= mined[n].cost
        <3>1. n \in DOMAIN mined
            BY <1>1, <1>3, <2>1, <2>2, CostIsReserved
        <3>2. mined[n] \in Entry /\ mined[n].cost \in Nat
            BY <1>1, <3>1, ChainFacts
        <3> QED BY <1>3, <2>1, <3>2 DEF Entry
    <2>4. Advances(k) /\ rows'[k].confirmed
        BY <1>1, <1>3, <2>1, <2>2, <2>3, ConfirmsAdvances
    <2> QED BY <1>2, <1>3, <2>1, <2>4, ReconcilerStep
<1>6. CASE ReconcileUnknown
    <2>1. /\ rec.phase = "reading" /\ n <= rec.upto
          /\ \E timestamp \in mined[n].at..now :
                rows' = [rows EXCEPT ![k] = Confirmed(@, @.max_cost, timestamp)]
          /\ rec' = [rec EXCEPT !.phase = "assuring"] \/ rec' = Idle
        BY <1>6 DEF ReconcileUnknown
    <2>2. n <= deep
        BY <1>1, <1>3, <2>1, ChainFacts
    <2>3. rows[k].max_cost >= mined[n].cost /\ mined[n].at \in Nat
        <3>1. n \in DOMAIN mined /\ mined[n].cost <= rows[k].max_cost
            BY <1>1, <1>3, <2>1, <2>2, CostIsReserved
        <3>2. mined[n] \in Entry /\ mined[n].cost \in Nat
            BY <1>1, <3>1, ChainFacts
        <3> QED BY <1>3, <3>1, <3>2 DEF Entry
    <2>4. PICK timestamp \in mined[n].at..now :
              rows' = [rows EXCEPT ![k] = Confirmed(@, rows[k].max_cost, timestamp)]
        BY <2>1
    <2>5. timestamp \in Nat
        BY <1>3, <2>3, <2>4
    <2>6. Advances(k) /\ rows'[k].confirmed
        BY <1>1, <1>3, <2>1, <2>2, <2>3, <2>4, <2>5, ConfirmsAdvances
    <2> QED BY <1>2, <1>3, <2>1, <2>6, ReconcilerStep
<1>7. CASE ReconcileCancelled
    <2>1. /\ rec.phase = "settling" /\ rec' = Idle
          /\ rows' = [rows EXCEPT ![k].assured = "cancelled"] /\ mined[n].tx.cancels
        BY <1>7 DEF ReconcileCancelled
    <2>2. Advances(k)
        BY <1>1, <1>3, <2>1, EndsAdvances DEF RecInv
    <2> QED BY <1>2, <1>3, <2>1, <2>2, ReconcilerStep
<1>8. CASE ReconcileAnswers
    <2>1. /\ rec.phase = "settling"
          /\ rows' = [rows EXCEPT ![k].response = "hash"]
          /\ rec' = [rec EXCEPT !.phase = "assuring"] \/ rec' = Idle
        BY <1>8 DEF ReconcileAnswers
    <2>2. Advances(k) /\ rows'[k].confirmed
        BY <1>1, <1>3, <2>1, RespondsAdvances DEF RecInv, Advances
    <2> QED BY <1>2, <1>3, <2>1, <2>2, ReconcilerStep
<1>9. CASE ReconcileAssured
    <2>1. /\ rec.phase = "assuring" /\ FeeDelivered(k) /\ rec' = Idle
          /\ rows' = [rows EXCEPT ![k].assured = "fee-received"]
        BY <1>9 DEF ReconcileAssured
    <2>2. Advances(k)
        BY <1>1, <1>3, <2>1, EndsAdvances DEF RecInv
    <2> QED BY <1>2, <1>3, <2>1, <2>2, ReconcilerStep
<1> QED BY <1>4, <1>5, <1>6, <1>7, <1>8, <1>9


(* A command begins for a row of the journal, or ends.                     *)
LEMMA CommandStep ==
    ASSUME IInv, NEW k \in Request, NEW cost \in Cost,
           CancelCommand(k, cost) \/ RetryCommand(k) \/ acknowledgeLoss(k) \/ CommandStops
    PROVE  IInv'
<1>1. TypeOK /\ JournalInv /\ RecInv /\ CliInv /\ rec \in RecTypes /\ cli \in CliTypes
    BY DEF IInv, TypeOK, RecTypes, CliTypes
<1>2. /\ UNCHANGED <<now, chain, transport, service, task, answer>>
      /\ rec' = rec /\ up' = up
    BY DEF CancelCommand, RetryCommand, acknowledgeLoss, CommandStops, journals, service
<1>3. /\ (\E l \in Request : Advances(l)) \/ UNCHANGED rows
      /\ \/ cli' = NoCommand \/ cli' = cli
         \/ /\ ~up /\ k \in Rows /\ rows'[k].cancel_raw # NoTx
            /\ cli' = [phase |-> "staging", key |-> k]
    <2>1. CASE CancelCommand(k, cost)
        <3>1. /\ ~up /\ k \in Rows /\ ~rows[k].confirmed /\ cli' = [phase |-> "staging", key |-> k]
              /\ rows' = [rows EXCEPT ![k] =
                            Cancelled(@, [key |-> k, nonce |-> rows[k].raw.nonce, cancels |-> TRUE,
                                          max |-> cost])]
            BY <2>1 DEF CancelCommand, Locked, Recoverable, Unconfirmed
        <3>2. Advances(k) /\ rows'[k].cancel_raw # NoTx
            BY <1>1, <3>1, CancelsAdvances
        <3> QED BY <3>1, <3>2
    <2>2. CASE RetryCommand(k)
        BY <2>2 DEF RetryCommand, Locked, Recoverable, Unconfirmed, journals
    <2>3. CASE acknowledgeLoss(k)
        <3>1. /\ k \in Rows /\ rows[k].confirmed /\ cli' = cli
              /\ rows' = [rows EXCEPT ![k].acknowledged = TRUE]
              /\ mined[rows[k].raw.nonce].tx = rows[k].raw /\ ~mined[rows[k].raw.nonce].ok
            BY <2>3 DEF acknowledgeLoss
        <3>2. Advances(k)
            BY <1>1, <3>1, EndsAdvances
        <3> QED BY <3>1, <3>2
    <2>4. CASE CommandStops
        BY <2>4 DEF CommandStops, journals
    <2> QED BY <2>1, <2>2, <2>3, <2>4
<1>4. RowsGrow /\ Rows' = Rows
    BY <1>1, <1>2, <1>3, RowsMove
<1>5. RecInv' /\ rec' \in RecTypes
    BY <1>1, <1>2, <1>4, RecUndisturbed DEF RecInv
<1>6. cli' \in CliTypes /\ CliInv'
    <2>1. CASE cli' = NoCommand
        BY <2>1 DEF NoCommand, CliTypes, CliInv
    <2>2. CASE cli' = cli
        BY <1>1, <1>2, <1>4, <2>2, CliUndisturbed DEF CliInv
    <2>3. CASE /\ ~up /\ k \in Rows /\ rows'[k].cancel_raw # NoTx
               /\ cli' = [phase |-> "staging", key |-> k]
        BY <1>2, <1>4, <2>3 DEF CliTypes, CliInv
    <2> QED BY <1>3, <2>1, <2>2, <2>3
<1> QED BY <1>2, <1>3, <1>5, <1>6, RowStep

(* With the service stopped only the command and the transport move.       *)
LEMMA SendingStep ==
    ASSUME IInv, ~up, UNCHANGED <<now, mined, deep, rows, service, task, rec, answer>>,
           JournalInv', transport' \in Pending \cup {NoPending}, disclosed' \subseteq Tx,
           cli' = NoCommand \/ (cli.phase # "idle" /\ cli' = [cli EXCEPT !.phase = "sending"])
    PROVE  IInv'
<1>1. TypeOK /\ AnswerInv /\ TaskInv /\ RecInv /\ CliInv /\ cli \in CliTypes
    BY DEF IInv, TypeOK, CliTypes
<1>2. /\ now' = now /\ mined' = mined /\ deep' = deep /\ rows' = rows /\ up' = up /\ stops' = stops
      /\ task' = task /\ rec' = rec /\ answer' = answer
    BY DEF service
<1>3. Rows' = Rows /\ RowsGrow /\ RawsKept
    BY <1>2, RowsUnchanged DEF Rows
<1>4. cli' \in CliTypes /\ CliInv'
    <2>1. CASE cli' = NoCommand
        BY <2>1 DEF NoCommand, CliTypes, CliInv
    <2>2. CASE cli.phase # "idle" /\ cli' = [cli EXCEPT !.phase = "sending"]
        <3>1. cli' \in CliTypes /\ cli'.phase = "sending" /\ cli'.key = cli.key
            BY <1>1, <2>2 DEF CliTypes
        <3> QED BY <1>1, <1>2, <1>3, <2>2, <3>1 DEF CliInv
    <2> QED BY <2>1, <2>2
<1>5. TypeOK'
    BY <1>1, <1>2, <1>4 DEF TypeOK, CliTypes
<1>6. TaskInv'
    BY <1>1, <1>2, <1>3, TaskUndisturbed DEF TaskInv
<1>7. RecInv' /\ AnswerInv'
    BY <1>1, <1>2, <1>3, RecUndisturbed, AnswersKept DEF RecInv
<1> QED BY <1>4, <1>5, <1>6, <1>7 DEF IInv

LEMMA StageCommandStep == ASSUME IInv, StageCommand PROVE IInv'
<1>1. TypeOK /\ JournalInv /\ CliInv
    BY DEF IInv
<1>2. /\ cli.phase = "staging" /\ cli' = [cli EXCEPT !.phase = "sending"]
      /\ UNCHANGED <<now, mined, deep, rows, service, task, rec, answer>> /\ UNCHANGED <<chain, rows>>
      /\ disclosed' = disclosed
      /\ \/ UNCHANGED transport
         \/ MayStage(rows[cli.key].raw) /\ transport' = Staged(rows[cli.key].raw)
    BY DEF StageCommand, chain
<1>3. ~up /\ cli.key \in Rows
    BY <1>1, <1>2 DEF CliInv
<1>4. JournalInv' /\ transport' \in Pending \cup {NoPending}
    <2>1. CASE UNCHANGED transport
        BY <1>1, <1>2, <2>1, JournalUnchanged DEF TypeOK, journals
    <2>2. CASE MayStage(rows[cli.key].raw) /\ transport' = Staged(rows[cli.key].raw)
        BY <1>1, <1>2, <1>3, <2>2, StagedKeepsJournal
    <2> QED BY <1>2, <2>1, <2>2
<1> QED BY <1>1, <1>2, <1>3, <1>4, SendingStep DEF TypeOK

LEMMA CancelPendingStep == ASSUME IInv, CancelPending PROVE IInv'
<1>1. TypeOK /\ JournalInv /\ CliInv
    BY DEF IInv
<1> DEFINE k == cli.key
           tx == rows[k].cancel_raw
<1>2. /\ cli.phase = "sending" /\ cli' = NoCommand
      /\ UNCHANGED <<now, mined, deep, rows, service, task, rec, answer>>
      /\ transport # NoPending /\ transport.nonce = tx.nonce
      /\ transport' = [transport EXCEPT !.cancel_raw = tx] /\ disclosed' = disclosed \cup {tx}
    BY DEF CancelPending, TransportHolds
<1>3. ~up /\ k \in Rows /\ k \in Request /\ tx # NoTx
    BY <1>1, <1>2 DEF CliInv, Rows
<1>4. tx \in Tx /\ tx.nonce = rows[k].raw.nonce
    <2>1. rows[k] \in Row
        BY <1>1, <1>3 DEF TypeOK
    <2> QED BY <1>1, <1>3, <2>1 DEF Row, JournalInv, RowsInv
<1>5. transport.key = k
    BY <1>1, <1>2, <1>3, <1>4 DEF JournalInv, TransportInv, OneNoncePending
<1>6. JournalInv' /\ disclosed' \subseteq Tx /\ transport' \in Pending
    BY <1>1, <1>2, <1>3, <1>4, <1>5, DisclosureKeepsJournal
<1> QED BY <1>2, <1>3, <1>6, SendingStep

-----------------------------------------------------------------------------
(* Stops, restarts, and the chain                                          *)

LEMMA StopStep == ASSUME IInv, Stop \/ Start PROVE IInv'
<1>1. TypeOK /\ JournalInv /\ AnswerInv /\ TaskInv /\ RecInv /\ CliInv
    BY DEF IInv
<1>2. /\ UNCHANGED <<chain, journals>> /\ mined' = mined /\ deep' = deep /\ disclosed' = disclosed
      /\ rows' = rows /\ transport' = transport /\ now' = now /\ cli' = cli /\ answer' = answer
    BY DEF Stop, Start, chain, journals
<1>3. JournalInv' /\ RowsGrow /\ RawsKept /\ Rows' = Rows
    BY <1>1, <1>2, JournalUnchanged, RowsUnchanged DEF Rows
<1>4. AnswerInv'
    BY <1>1, <1>2, <1>3, AnswersKept
<1>5. CASE Stop
    <2>1. /\ <<now, stops + 1>> \in Horizon /\ ~up' /\ up' \in BOOLEAN /\ stops' = stops + 1
          /\ task' = Free /\ rec' = Idle
        BY <1>5 DEF Stop
    <2>2. Free \in TaskTypes /\ Idle \in RecTypes
        <3>1. 0 \in 0..deep /\ 0 \in 0..maxTransactionCost
            BY <1>1, ChainFacts, LimitAssumption
        <3> QED BY <3>1 DEF Free, TaskTypes, Idle, RecTypes
    <2>3. TypeOK'
        BY <1>1, <1>2, <2>1, <2>2 DEF TypeOK, TaskTypes, RecTypes
    <2>4. TaskInv' /\ RecInv'
        BY <2>1 DEF TaskInv, RecInv, Free, Idle
    <2>5. CliInv'
        BY <1>1, <1>2, <1>3, <2>1, CliUndisturbed
    <2> QED BY <1>3, <1>4, <2>3, <2>4, <2>5 DEF IInv
<1>6. CASE Start
    <2>1. /\ ~up /\ cli = NoCommand /\ up' /\ up' \in BOOLEAN /\ stops' = stops
          /\ task' = task /\ rec' = rec
        BY <1>6 DEF Start, Locked
    <2>2. TypeOK'
        BY <1>1, <1>2, <2>1 DEF TypeOK
    <2>3. TaskInv' /\ RecInv'
        BY <1>1, <1>2, <1>3, <2>1, TaskUndisturbed, RecUndisturbed
    <2>4. CliInv'
        BY <1>2, <2>1 DEF CliInv, NoCommand
    <2> QED BY <1>3, <1>4, <2>2, <2>3, <2>4 DEF IInv
<1> QED BY <1>5, <1>6

LEMMA ChainStep == ASSUME IInv, Chain PROVE IInv'
<1>1. TypeOK /\ JournalInv /\ AnswerInv /\ TaskInv /\ RecInv /\ CliInv
    BY DEF IInv
<1>2. /\ rows' = rows /\ transport' = transport /\ disclosed' = disclosed /\ up' = up /\ stops' = stops
      /\ task' = task /\ rec' = rec /\ cli' = cli /\ answer' = answer
    BY DEF Chain, Include, EmptyBlock, LastBlockReplaced, Tick, chain, journals, service
<1>3. Rows' = Rows /\ RowsGrow /\ RawsKept
    BY <1>2, RowsUnchanged DEF Rows
<1>4. TaskInv' /\ RecInv' /\ CliInv' /\ AnswerInv'
    <2>1. TaskInv'
        BY <1>1, <1>2, <1>3, TaskUndisturbed DEF TaskInv
    <2>2. RecInv' /\ CliInv' /\ AnswerInv'
        BY <1>1, <1>2, <1>3, RecUndisturbed, CliUndisturbed, AnswersKept DEF RecInv, CliInv
    <2> QED BY <2>1, <2>2
<1>5. CASE Tick
    <2>1. <<now + 1, stops>> \in Horizon /\ now' = now + 1 /\ UNCHANGED <<chain, journals>>
          /\ mined' = mined /\ deep' = deep
        BY <1>5 DEF Tick, chain, journals
    <2>2. mined \in Seq([tx : Tx, cost : Cost, at : 0..now', ok : BOOLEAN])
        <3>1. now \in Nat
            BY <1>1, LimitAssumption DEF TypeOK
        <3>2. Entry \subseteq [tx : Tx, cost : Cost, at : 0..now', ok : BOOLEAN]
            BY <2>1, <3>1 DEF Entry
        <3> QED BY <1>1, <3>2, ChainFacts, SeqMonotonic
    <2>3. TypeOK'
        BY <1>1, <1>2, <2>1, <2>2 DEF TypeOK
    <2>4. JournalInv'
        BY <1>1, <2>1, JournalUnchanged
    <2> QED BY <1>4, <2>3, <2>4 DEF IInv
<1>6. CASE \/ \E tx \in disclosed, cost \in Cost, ok \in BOOLEAN : Include(tx, cost, ok)
           \/ EmptyBlock \/ LastBlockReplaced
    <2>1. ChainGrows
        BY <1>1, <1>6, IncludeGrows, BlockGrows
    <2>2. now' = now
        BY <1>6 DEF Include, EmptyBlock, LastBlockReplaced
    <2>3. JournalInv'
        BY <1>1, <1>2, <2>1, ChainKeepsJournal
    <2>4. /\ mined' \in Seq([tx : Tx, cost : Cost, at : 0..now', ok : BOOLEAN])
          /\ deep' \in {Len(mined'), Len(mined') - 1} /\ deep' >= deep /\ deep' \in Nat
        <3>1. Len(mined') \in Nat
            BY <2>1, LenProperties DEF ChainGrows
        <3>2. deep \in Nat
            BY <1>1, ChainFacts
        <3> QED BY <2>1, <2>2, <3>1, <3>2 DEF ChainGrows, Entry
    <2>5. 0..deep \subseteq 0..deep'
        BY <1>1, <2>4, ChainFacts
    <2>6. rec \in RecTypes'
        BY <1>1, <2>5 DEF TypeOK, RecTypes
    <2>7. TypeOK'
        BY <1>1, <1>2, <2>2, <2>4, <2>6 DEF TypeOK, RecTypes
    <2> QED BY <1>4, <2>3, <2>7 DEF IInv
<1> QED BY <1>5, <1>6 DEF Chain

-----------------------------------------------------------------------------
LEMMA InitIInv == Init => IInv
<1> SUFFICES ASSUME Init PROVE IInv
    OBVIOUS
<1>1. /\ now = 0 /\ mined = <<>> /\ deep = 0 /\ disclosed = {} /\ transport = NoPending
      /\ rows = [k \in Request |-> NoRow] /\ up = TRUE /\ stops = 0
      /\ task = Free /\ rec = Idle /\ cli = NoCommand /\ answer = [k \in Request |-> "none"]
    BY DEF Init
<1>2. NoRow \in Row /\ NoRow.raw = NoTx /\ NoRow.cancel_raw = NoTx
    BY DEF NoRow, Row
<1>3. Rows = {} /\ \A k \in Request : rows[k] = NoRow
    BY <1>1, <1>2 DEF Rows
<1>4. DOMAIN mined = {} /\ Len(mined) = 0
    BY <1>1
<1>5. TypeOK
    <2>1. 0 \in 0..deep /\ 0 \in 0..maxTransactionCost
        BY <1>1, LimitAssumption
    <2>2. Free \in TaskTypes /\ Idle \in RecTypes /\ NoCommand \in CliTypes
        BY <2>1 DEF Free, TaskTypes, Idle, RecTypes, NoCommand, CliTypes
    <2>3. mined \in Seq([tx : Tx, cost : Cost, at : 0..now, ok : BOOLEAN])
        BY <1>1
    <2> QED BY <1>1, <1>2, <1>4, <2>2, <2>3, LimitAssumption DEF TypeOK, TaskTypes, RecTypes, CliTypes
<1>6. JournalInv
    BY <1>1, <1>2, <1>3, <1>4
       DEF JournalInv, RowsInv, OneNoncePending, SettlementIsReal, MinedInv, TransportInv,
           JournaledBeforeDisclosure, NoRow
<1>7. AnswerInv /\ TaskInv /\ RecInv /\ CliInv
    BY <1>1 DEF AnswerInv, TaskInv, RecInv, CliInv, Free, Idle, NoCommand
<1> QED BY <1>5, <1>6, <1>7 DEF IInv

LEMMA NextIInv == IInv /\ [Next]_vars => IInv'
<1> SUFFICES ASSUME IInv, [Next]_vars PROVE IInv'
    OBVIOUS
<1>1. CASE Handle
    BY <1>1, ReplyStep, PreparationStep, JournalRequestStep, StageRequestStep, DiscloseStep, AnswerStep
       DEF Handle
<1>2. CASE Reconcile
    BY <1>2, ReconcileBegins, ReconcileStep DEF Reconcile
<1>3. CASE Command
    <2>1. 1 \in Cost
        BY LimitAssumption DEF Cost
    <2>2. CASE CommandStops
        <3>1. cli # NoCommand
            BY <2>2 DEF CommandStops
        <3>2. cli.key \in Request
            BY <3>1 DEF IInv, CliInv, Rows
        <3> QED BY <2>1, <2>2, <3>2, CommandStep
    <2> QED BY <1>3, <2>1, <2>2, CommandStep, StageCommandStep, CancelPendingStep DEF Command
<1>4. CASE Stop \/ Start
    BY <1>4, StopStep
<1>5. CASE Chain
    BY <1>5, ChainStep
<1>6. CASE UNCHANGED vars
    <2>1. /\ UNCHANGED <<now, chain, transport, service, task, rec, cli, answer>> /\ UNCHANGED rows
          /\ rec' = rec /\ cli' = cli
        BY <1>6 DEF vars, journals
    <2>2. rec \in RecTypes /\ cli \in CliTypes /\ RecInv /\ CliInv
        BY DEF IInv, TypeOK, RecTypes, CliTypes
    <2>3. RecInv' /\ CliInv'
        BY <2>1, <2>2 DEF RecInv, CliInv, Rows, service
    <2> QED BY <2>1, <2>2, <2>3, RowStep
<1> QED BY <1>1, <1>2, <1>3, <1>4, <1>5, <1>6 DEF Next

LEMMA IInvariant == Spec => []IInv
BY InitIInv, NextIInv, PTL DEF Spec

(* At most one request is signed and unsettled, and no two rows ever have  *)
(* one nonce, wherever the service stops and whatever the chain replaces.  *)
THEOREM OneNonce == Spec => []OneNoncePending
<1>1. IInv => OneNoncePending
    BY DEF IInv, JournalInv
<1> QED BY <1>1, IInvariant, PTL

(* What ends a request in the journal happened on the chain for good.      *)
THEOREM SettledOnChain == Spec => []SettlementIsReal
<1>1. IInv => SettlementIsReal
    BY DEF IInv, JournalInv
<1> QED BY <1>1, IInvariant, PTL

(* Whatever the endpoint may have, both journals and the client know of.   *)
THEOREM DisclosedIsJournaled == Spec => []DisclosureIsKnown
<1>1. IInv => DisclosureIsKnown
    <2> SUFFICES ASSUME IInv PROVE DisclosureIsKnown
        OBVIOUS
    <2>1. TypeOK /\ JournaledBeforeDisclosure
        BY DEF IInv, JournalInv
    <2>2. RejectedIsUndisclosed
        <3> SUFFICES ASSUME NEW k \in Request, answer[k] = "rejected", NEW tx \in disclosed PROVE tx.key # k
            BY DEF RejectedIsUndisclosed
        <3>1. rows[k].raw = NoTx
            BY DEF IInv, AnswerInv
        <3>2. tx # NoTx
            BY <2>1, ChainFacts
        <3> QED BY <2>1, <3>1, <3>2 DEF JournaledBeforeDisclosure
    <2> QED BY <2>1, <2>2 DEF DisclosureIsKnown
<1> QED BY <1>1, IInvariant, PTL

-----------------------------------------------------------------------------
(* Books: what the wallet paid, against the journal                        *)

ChainTypes ==
    /\ now \in Nat /\ Len(mined) \in Nat /\ DOMAIN mined = 1..Len(mined)
    /\ deep \in Nat /\ deep <= Len(mined) /\ Len(mined) <= deep + 1
    /\ \A i \in DOMAIN mined : mined[i].cost \in Nat /\ mined[i].at \in 0..now

(* Every transaction on the chain has a row, which reserved its cost.      *)
PaidRows ==
    \A i \in DOMAIN mined :
        /\ mined[i].tx.key \in Rows /\ rows[mined[i].tx.key].raw.nonce = i
        /\ mined[i].cost <= rows[mined[i].tx.key].max_cost

(* A row owes no more than it reserved, nor than it records.               *)
OwesLess ==
    \A k \in Rows :
        /\ rows[k].raw.nonce \in Nat \ {0} /\ rows[k].max_cost \in Nat /\ rows[k].mined_at \in Nat
        /\ rows[k].raw.nonce <= deep => rows[k].raw.nonce \in DOMAIN mined
        /\ rows[k].confirmed => rows[k].raw.nonce <= deep
        /\ Owes(k) \in Nat /\ Owes(k) <= rows[k].max_cost
        /\ Recorded(rows[k]) \in Nat /\ Owes(k) <= Recorded(rows[k])

(* At most one row's nonce may still be consumed.                          *)
OnePending ==
    \A k, l \in Rows : rows[k].raw.nonce > deep /\ rows[l].raw.nonce > deep => k = l

BooksInv == ChainTypes /\ PaidRows /\ OwesLess /\ OnePending

LEMMA Books == IInv => BooksInv
<1> SUFFICES ASSUME IInv PROVE BooksInv
    OBVIOUS
<1>1. TypeOK /\ JournalInv
    BY DEF IInv
<1>2. \A k \in Rows : /\ k \in Request /\ rows[k] \in Row /\ rows[k].raw \in Tx
                      /\ rows[k].raw.nonce \in Nat \ {0} /\ rows[k].max_cost \in Nat
                      /\ rows[k].actual_cost \in Nat /\ rows[k].mined_at \in Nat
                      /\ rows[k].confirmed \in BOOLEAN
    <2> SUFFICES ASSUME NEW k \in Rows PROVE rows[k] \in Row /\ rows[k].raw \in Tx
        BY ChainFacts, <1>1 DEF Rows, Row, Tx
    <2> QED BY <1>1 DEF TypeOK, Rows, Row
<1>3. ChainTypes
    <2>1. now \in Nat
        BY <1>1, LimitAssumption DEF TypeOK
    <2>2. \A i \in DOMAIN mined : mined[i].at \in 0..now
        BY <1>1, ChainFacts DEF Entry
    <2> QED BY <1>1, <2>1, <2>2, ChainFacts DEF ChainTypes
<1>4. PaidRows
    <2> SUFFICES ASSUME NEW i \in DOMAIN mined
                 PROVE  /\ mined[i].tx.key \in Rows /\ rows[mined[i].tx.key].raw.nonce = i
                        /\ mined[i].cost <= rows[mined[i].tx.key].max_cost
        BY DEF PaidRows
    <2> DEFINE tx == mined[i].tx
    <2>1. /\ tx \in disclosed /\ tx.nonce = i /\ mined[i].cost <= tx.max
          /\ mined[i].cost \in Nat /\ tx \in Tx /\ tx.max \in Nat /\ tx.key \in Request /\ tx # NoTx
        BY <1>1, ChainFacts DEF JournalInv, MinedInv
    <2> HIDE DEF tx
    <2>2. /\ rows[tx.key].raw # NoTx /\ rows[tx.key].raw.nonce = i
          /\ tx.max <= rows[tx.key].max_cost
        BY <1>1, <2>1 DEF JournalInv, JournaledBeforeDisclosure
    <2>3. tx.key \in Rows /\ rows[tx.key].max_cost \in Nat
        BY <1>2, <2>1, <2>2 DEF Rows
    <2> QED BY <2>1, <2>2, <2>3 DEF tx
<1>5. \A k \in Rows : rows[k].confirmed => /\ rows[k].raw.nonce <= deep
                                           /\ rows[k].actual_cost >= mined[rows[k].raw.nonce].cost
    BY <1>1 DEF JournalInv, SettlementIsReal
<1>6. OwesLess
    <2> SUFFICES ASSUME NEW k \in Rows
                 PROVE  /\ rows[k].raw.nonce <= deep => rows[k].raw.nonce \in DOMAIN mined
                        /\ Owes(k) \in Nat /\ Owes(k) <= rows[k].max_cost
                        /\ Recorded(rows[k]) \in Nat /\ Owes(k) <= Recorded(rows[k])
        BY <1>2, <1>5 DEF OwesLess
    <2>1. rows[k].raw.nonce \in Nat /\ deep \in Nat
        BY <1>2, <1>3 DEF ChainTypes
    <2>2. CASE rows[k].raw.nonce > deep
        BY <1>2, <1>5, <2>1, <2>2 DEF Owes, Recorded
    <2>3. CASE rows[k].raw.nonce <= deep
        <3>1. /\ rows[k].raw.nonce \in DOMAIN mined
              /\ mined[rows[k].raw.nonce].cost <= rows[k].max_cost
              /\ mined[rows[k].raw.nonce].cost \in Nat
            BY <1>1, <1>3, <2>3, CostIsReserved DEF ChainTypes
        <3> QED BY <1>2, <1>5, <2>1, <2>3, <3>1 DEF Owes, Recorded
    <2> QED BY <2>1, <2>2, <2>3
<1>7. OnePending
    <2> SUFFICES ASSUME NEW k \in Rows, NEW l \in Rows, rows[k].raw.nonce > deep, rows[l].raw.nonce > deep
                 PROVE  k = l
        BY DEF OnePending
    <2>1. ~rows[k].confirmed /\ ~rows[l].confirmed
        BY <1>2, <1>3, <1>5 DEF ChainTypes
    <2>2. Unsettled(rows[k]) /\ Unsettled(rows[l])
        BY <1>1, <2>1 DEF JournalInv, RowsInv, Unsettled, Rows
    <2> QED BY <1>1, <2>2 DEF JournalInv, OneNoncePending
<1> QED BY <1>3, <1>4, <1>6, <1>7 DEF BooksInv

(* Sums of what was paid.                                                  *)
LEMMA PaidSums ==
    ASSUME ChainTypes, NEW S \in SUBSET (DOMAIN mined)
    PROVE  /\ IsFiniteSet(S) /\ \A i \in S : Paid[i] = mined[i].cost /\ Paid[i] \in Nat
           /\ SumFunctionOnSet(Paid, S) \in Nat
<1>1. IsFiniteSet(1..Len(mined))
    BY FS_Interval DEF ChainTypes
<1>2. IsFiniteSet(S)
    BY <1>1, FS_Subset DEF ChainTypes
<1>3. \A i \in S : Paid[i] = mined[i].cost /\ Paid[i] \in Nat
    BY DEF Paid, ChainTypes
<1> QED BY <1>2, <1>3, SumIsNat

(* What was paid within the day is owed by the rows it was paid for.       *)
DayCovered ==
    SumFunctionOnSet(Paid, {i \in DOMAIN mined : mined[i].at >= now - Day}) <= dailyBudget

LEMMA OwedSum ==
    ASSUME OwesLess, IsFiniteSet(Rows)
    PROVE  /\ IsFiniteSet(Owing) /\ Owing \in SUBSET Rows /\ Owed \in Nat
           /\ \A k \in Owing : [j \in Rows |-> Owes(j)][k] = Owes(k) /\ Owes(k) \in Nat
<1>1. Owing \in SUBSET Rows
    BY DEF Owing
<1>2. IsFiniteSet(Owing)
    BY <1>1, FS_Subset
<1>3. \A k \in Owing : [j \in Rows |-> Owes(j)][k] = Owes(k) /\ Owes(k) \in Nat
    BY <1>1 DEF OwesLess
<1> HIDE DEF Owes
<1>4. Owed \in Nat
    BY <1>2, <1>3, SumIsNat DEF Owed
<1> QED BY <1>1, <1>2, <1>3, <1>4

LEMMA DayIsCovered == BooksInv /\ Reserved => DayCovered
<1> SUFFICES ASSUME BooksInv, Reserved PROVE DayCovered
    OBVIOUS
<1> USE DEF BooksInv
<1> DEFINE S == {i \in DOMAIN mined : mined[i].at >= now - Day}
           h == [i \in S |-> mined[i].tx.key]
           owes == [k \in Rows |-> Owes(k)]
<1>1. IsFiniteSet(S) /\ \A i \in S : Paid[i] = mined[i].cost /\ Paid[i] \in Nat
    BY PaidSums
<1>2. /\ IsFiniteSet(Owing) /\ Owed \in Nat
      /\ \A k \in Owing : owes[k] = Owes(k) /\ owes[k] \in Nat
    BY OwedSum DEF Reserved
<1>3. \A i \in S : /\ h[i] \in Owing /\ rows[h[i]].raw.nonce = i /\ Paid[i] <= owes[h[i]]
    <2> SUFFICES ASSUME NEW i \in S
                 PROVE  h[i] \in Owing /\ rows[h[i]].raw.nonce = i /\ Paid[i] <= owes[h[i]]
        OBVIOUS
    <2>1. /\ h[i] \in Rows /\ rows[h[i]].raw.nonce = i /\ mined[i].cost <= rows[h[i]].max_cost
          /\ mined[i].cost \in Nat
        BY DEF PaidRows, ChainTypes
    <2>2. mined[i].at >= now - Day /\ i \in Nat /\ deep \in Nat
        BY DEF ChainTypes
    <2> HIDE DEF h, S
    <2>3. h[i] \in Owing
        BY <2>1, <2>2 DEF Owing
    <2>4. mined[i].cost <= Owes(h[i])
        BY <2>1 DEF Owes
    <2> QED BY <1>1, <1>2, <2>1, <2>3, <2>4
<1>4. h \in [S -> Owing]
    BY <1>3
<1> HIDE DEF S, h, owes
<1>5. SumFunctionOnSet(Paid, S) <= SumFunctionOnSet(owes, Owing)
    BY <1>1, <1>2, <1>3, <1>4, SumGrows
<1>6. SumFunctionOnSet(Paid, S) \in Nat
    BY <1>1, SumIsNat
<1>7. SumFunctionOnSet(owes, Owing) = Owed
    BY DEF Owed, owes
<1> QED BY <1>2, <1>5, <1>6, <1>7, LimitAssumption DEF Reserved, DayCovered, S

-----------------------------------------------------------------------------
(* The journal's exposure                                                  *)

Window == {k \in Rows : ~rows[k].confirmed \/ rows[k].mined_at >= now - Day}
Record == [k \in Request |-> Recorded(rows[k])]

(* What is owed is exposed, row by row.                                    *)
LEMMA ExposureCovers ==
    ASSUME BooksInv, RowLimits, NEW D, NEW f, \A k \in Owing \ D : f[k] = Owes(k)
    PROVE  /\ exposure = SumFunctionOnSet(Record, Window) /\ exposure \in Nat
           /\ IsFiniteSet(Window) /\ Owing \subseteq Window
           /\ \A k \in Rows : Record[k] = Recorded(rows[k]) /\ Record[k] \in Nat
           /\ SumFunctionOnSet(Record, Window \ D) \in Nat
           /\ SumFunctionOnSet(f, Owing \ D) \in Nat
           /\ SumFunctionOnSet(f, Owing \ D) <= SumFunctionOnSet(Record, Window \ D)
<1> USE DEF BooksInv, RowLimits, Reserved
<1>1. Window \in SUBSET Rows /\ Window \ D \in SUBSET Rows /\ Owing \ D \in SUBSET Rows
    BY DEF Window, Owing
<1>2. IsFiniteSet(Window) /\ IsFiniteSet(Window \ D) /\ IsFiniteSet(Owing \ D)
    BY <1>1, FS_Subset
<1>3. \A k \in Rows : Record[k] = Recorded(rows[k]) /\ Record[k] \in Nat
    BY DEF Record, Rows, OwesLess
<1>4. exposure = SumFunctionOnSet(Record, Window)
    BY DEF exposure, Record, Window
<1>5. Owing \subseteq Window
    <2> SUFFICES ASSUME NEW k \in Owing PROVE k \in Window
        OBVIOUS
    <2>1. k \in Rows /\ rows[k].raw.nonce \in Nat /\ deep \in Nat /\ rows[k].mined_at \in Nat
        BY DEF Owing, OwesLess, ChainTypes
    <2>2. CASE ~rows[k].confirmed
        BY <2>1, <2>2 DEF Window
    <2>3. CASE rows[k].confirmed
        <3>1. rows[k].raw.nonce <= deep /\ rows[k].raw.nonce \in DOMAIN mined
            BY <2>1, <2>3 DEF OwesLess
        <3>2. mined[rows[k].raw.nonce].at >= now - Day
            BY <2>1, <3>1 DEF Owing
        <3>3. rows[k].mined_at >= mined[rows[k].raw.nonce].at /\ mined[rows[k].raw.nonce].at \in Nat
            BY <2>1, <2>3, <3>1 DEF ChainTypes
        <3>4. now - Day \in Int
            BY LimitAssumption DEF ChainTypes
        <3> QED BY <2>1, <3>2, <3>3, <3>4 DEF Window
    <2> QED BY <2>2, <2>3
<1>6. \A k \in Owing \ D : f[k] \in Nat /\ f[k] <= Record[k]
    BY <1>1, <1>3 DEF OwesLess
<1> HIDE DEF Record, Window, RowLimits, Reserved, BooksInv
<1>7. SumFunctionOnSet(f, Owing \ D) <= SumFunctionOnSet(Record, Window \ D)
    BY <1>1, <1>2, <1>3, <1>5, <1>6, SumIsLess
<1>8. exposure \in Nat /\ SumFunctionOnSet(Record, Window \ D) \in Nat
    BY <1>1, <1>2, <1>3, <1>4, SumIsNat
<1>9. SumFunctionOnSet(f, Owing \ D) \in Nat
    BY <1>2, <1>6, SumIsNat
<1> QED BY <1>2, <1>3, <1>4, <1>5, <1>7, <1>8, <1>9

(* No new debt.                                                            *)
LEMMA OwedFalls ==
    ASSUME BooksInv, Reserved, Rows' = Rows, Owing' \subseteq Owing,
           \A k \in Owing' : Owes(k)' \in Nat /\ Owes(k)' <= Owes(k)
    PROVE  Reserved'
<1> DEFINE g == [k \in Rows |-> Owes(k)]
           f == [k \in Rows' |-> Owes(k)']
<1>1. /\ IsFiniteSet(Owing) /\ Owing \in SUBSET Rows /\ Owed \in Nat
      /\ \A k \in Owing : g[k] = Owes(k) /\ g[k] \in Nat
    BY OwedSum DEF BooksInv, Reserved
<1>2. \A k \in Owing' : f[k] \in Nat /\ f[k] <= g[k]
    BY <1>1
<1>3. Owed = SumFunctionOnSet(g, Owing)
    BY DEF Owed
<1>4. Owed' = SumFunctionOnSet(f, Owing')
    BY DEF Owed
<1>5. IsFiniteSet(Owing')
    BY <1>1, FS_Subset
<1> HIDE DEF f, g
<1>6. SumFunctionOnSet(f, Owing') <= SumFunctionOnSet(g, Owing)
    BY <1>1, <1>2, SumIsLess
<1>7. SumFunctionOnSet(f, Owing') \in Nat
    BY <1>2, <1>5, SumIsNat
<1> QED BY <1>1, <1>3, <1>4, <1>6, <1>7, LimitAssumption DEF Reserved

-----------------------------------------------------------------------------
(* Limits, step by step                                                    *)

LEMMA SameChain ==
    ASSUME UNCHANGED <<mined, deep>>
    PROVE  /\ DayWithinBudget => DayWithinBudget'
           /\ DeepSpent' = DeepSpent /\ Balance' = Balance
<1>1. Paid' = Paid
    BY DEF Paid
<1> QED BY <1>1 DEF DayWithinBudget, DeepSpent, Spent, Balance

(* The wallet at rest has spent for good all that it spent.                *)
LEMMA BalanceAtRest ==
    ASSUME ChainTypes, deep = Len(mined)
    PROVE  Balance = Funds - DeepSpent
BY DEF ChainTypes, Balance, Spent, DeepSpent

(* A step that signs nothing, and confirms with the time of the receipt or *)
(* a later one.                                                            *)
LEMMA QuietStep ==
    ASSUME BooksInv, BooksInv', RowLimits, UNCHANGED <<mined, deep>>, now' \in {now, now + 1},
           Rows' = Rows,
           \A k \in Rows :
               /\ rows'[k].raw = rows[k].raw /\ rows'[k].max_cost = rows[k].max_cost
               /\ rows'[k].confirmed =>
                     \/ rows[k].confirmed /\ rows'[k].mined_at = rows[k].mined_at
                     \/ rows'[k].mined_at >= mined[rows[k].raw.nonce].at
    PROVE  RowLimits'
<1>1. Reserved'
    <2>1. Owing' \subseteq Owing
        <3> SUFFICES ASSUME NEW k \in Rows,
                            rows[k].raw.nonce > deep \/ mined[rows[k].raw.nonce].at >= now' - Day
                     PROVE  rows[k].raw.nonce > deep \/ mined[rows[k].raw.nonce].at >= now - Day
            BY DEF Owing
        <3>1. now \in Nat /\ Day \in Nat /\ deep \in Nat /\ rows[k].raw.nonce \in Nat
            BY LimitAssumption DEF BooksInv, ChainTypes, OwesLess
        <3>2. rows[k].raw.nonce <= deep => mined[rows[k].raw.nonce].at \in Nat
            BY DEF BooksInv, ChainTypes, OwesLess
        <3> QED BY <3>1, <3>2
    <2>2. \A k \in Owing' : k \in Rows /\ Owes(k)' = Owes(k)
        BY DEF Owing, Owes
    <2>3. \A k \in Owing' : Owes(k)' \in Nat /\ Owes(k)' <= Owes(k)
        BY <2>2 DEF BooksInv, OwesLess
    <2> QED BY <2>1, <2>3, OwedFalls DEF RowLimits
<1>2. DayWithinBudget' /\ DeepSpent' = DeepSpent
    BY SameChain DEF RowLimits
<1> HIDE DEF DayWithinBudget, DeepSpent
<1> QED BY <1>1, <1>2 DEF RowLimits

(* A row that is written with its nonce next and a cost that was checked   *)
(* against the day's budget and the balance.                               *)
LEMMA ReservingStep ==
    ASSUME BooksInv, BooksInv', RowLimits, UNCHANGED <<now, mined, deep>>, NEW x,
           Rows' = Rows \cup {x}, \A k \in Rows \ {x} : rows'[k] = rows[k],
           rows'[x].raw.nonce > deep,
           x \in Rows => rows[x].raw.nonce > deep,
           exposure + rows'[x].max_cost - (IF x \in Rows THEN rows[x].max_cost ELSE 0) <= dailyBudget,
           Funds - DeepSpent - rows'[x].max_cost >= reserve
    PROVE  RowLimits'
<1> DEFINE f == [k \in Rows' |-> Owes(k)']
<1>1. Owing' = (Owing \ {x}) \cup {x} /\ Owing' \ {x} = Owing \ {x}
    BY DEF Owing
<1>2. \A k \in Owing \ {x} : f[k] = Owes(k)
    <2> SUFFICES ASSUME NEW k \in Owing \ {x} PROVE f[k] = Owes(k)
        OBVIOUS
    <2>1. k \in Rows /\ k \in Rows' /\ rows'[k] = rows[k]
        BY DEF Owing
    <2>2. Owes(k)' = Owes(k)
        BY <2>1 DEF Owes
    <2> QED BY <2>1, <2>2
<1>3. f[x] = rows'[x].max_cost /\ f[x] \in Nat
    BY DEF Owes, BooksInv, OwesLess
<1>4. IsFiniteSet(Rows')
    BY FS_AddElement DEF RowLimits, Reserved
<1>5. IsFiniteSet(Owing') /\ \A k \in Owing' : f[k] \in Nat
    <2>1. Owing' \in SUBSET Rows'
        BY DEF Owing
    <2>2. IsFiniteSet(Owing')
        BY <2>1, <1>4, FS_Subset
    <2>3. \A k \in Rows' : Owes(k)' \in Nat
        BY DEF BooksInv, OwesLess
    <2> QED BY <2>1, <2>2, <2>3
<1>6. Owed' = SumFunctionOnSet(f, Owing')
    BY DEF Owed
<1> HIDE DEF f
<1>7. SumFunctionOnSet(f, Owing') = f[x] + SumFunctionOnSet(f, Owing \ {x})
    BY <1>1, <1>5, SumSplits
<1>8. /\ exposure = SumFunctionOnSet(Record, Window) /\ exposure \in Nat
      /\ IsFiniteSet(Window) /\ Owing \subseteq Window
      /\ \A k \in Rows : Record[k] = Recorded(rows[k]) /\ Record[k] \in Nat
      /\ SumFunctionOnSet(Record, Window \ {x}) \in Nat
      /\ SumFunctionOnSet(f, Owing \ {x}) \in Nat
      /\ SumFunctionOnSet(f, Owing \ {x}) <= SumFunctionOnSet(Record, Window \ {x})
    BY <1>2, ExposureCovers
<1>9. Owed' <= dailyBudget
    <2>1. CASE x \in Rows
        <3>1. x \in Window /\ Record[x] = rows[x].max_cost /\ rows[x].max_cost \in Nat
            <4>1. x \in Owing /\ ~rows[x].confirmed /\ rows[x].max_cost \in Nat
                BY <2>1 DEF Owing, BooksInv, OwesLess, ChainTypes
            <4> QED BY <2>1, <4>1, <1>8 DEF Recorded
        <3>2. \A k \in Window : Record[k] \in Nat
            BY <1>8 DEF Window
        <3>3. SumFunctionOnSet(Record, Window) = Record[x] + SumFunctionOnSet(Record, Window \ {x})
            BY <1>8, <3>1, <3>2, SumSplits
        <3> QED BY <2>1, <3>1, <3>3, <1>3, <1>6, <1>7, <1>8, LimitAssumption
    <2>2. CASE x \notin Rows
        <3>1. Window \ {x} = Window
            BY <2>2 DEF Window
        <3>2. SumFunctionOnSet(f, Owing \ {x}) <= exposure
            BY <3>1, <1>8
        <3>3. exposure + rows'[x].max_cost - 0 <= dailyBudget
            BY <2>2
        <3> QED BY <3>2, <3>3, <1>3, <1>6, <1>7, <1>8, LimitAssumption
    <2> QED BY <2>1, <2>2
<1>10. DayWithinBudget' /\ DeepSpent' = DeepSpent
    BY SameChain DEF RowLimits
<1>11. \A k \in Rows' : rows'[k].confirmed => rows'[k].mined_at >= mined[rows'[k].raw.nonce].at
    <2>1. ~rows'[x].confirmed
        BY DEF BooksInv, OwesLess, ChainTypes
    <2> QED BY <2>1 DEF RowLimits
<1> HIDE DEF DayWithinBudget, DeepSpent
<1>12. \A k \in Rows' : rows'[k].raw.nonce > deep => Funds - DeepSpent - rows'[k].max_cost >= reserve
    BY DEF RowLimits
<1>13. DeepSpent > 0 => Funds - DeepSpent >= reserve
    BY DEF RowLimits
<1>14. Reserved'
    BY <1>4, <1>9 DEF Reserved
<1> QED BY <1>10, <1>11, <1>12, <1>13, <1>14 DEF RowLimits

(* The chain is one block longer than what no longer changes, or it is not. *)
LEMMA LastBlock ==
    ASSUME ChainTypes, deep # Len(mined)
    PROVE  Len(mined) = deep + 1 /\ Len(mined) \in 1..Len(mined)
<1>1. \A d, l \in Nat : d <= l /\ l <= d + 1 /\ d # l => l = d + 1 /\ l \in 1..l
    OBVIOUS
<1> QED BY <1>1 DEF ChainTypes

(* Blocks that stay, stay paid for.                                        *)
LEMMA PrefixKept ==
    ASSUME ChainTypes, ChainTypes', DayWithinBudget, NEW m \in Nat,
           1..m \subseteq DOMAIN mined, 1..m \subseteq DOMAIN mined',
           \A i \in 1..m : mined'[i] = mined[i]
    PROVE  /\ \A S \in SUBSET (1..m) : SumFunctionOnSet(Paid, S)' = SumFunctionOnSet(Paid, S)
           /\ \A n \in 1..m :
                 SumFunctionOnSet(Paid', {i \in 1..n : mined'[i].at >= mined'[n].at - Day}) <= dailyBudget
<1>1. /\ IsFiniteSet(1..m) /\ 1..m \subseteq DOMAIN mined
      /\ \A i \in 1..m : Paid[i] = mined[i].cost /\ Paid[i] \in Nat /\ Paid'[i] = Paid[i]
    <2>1. IsFiniteSet(1..m)
        BY FS_Interval
    <2>2. \A i \in 1..m : Paid[i] = mined[i].cost /\ Paid[i] \in Nat /\ Paid'[i] = Paid[i]
        BY DEF ChainTypes, Paid
    <2> QED BY <2>1, <2>2
<1>2. \A S \in SUBSET (1..m) : SumFunctionOnSet(Paid', S) = SumFunctionOnSet(Paid, S)
    <2> SUFFICES ASSUME NEW S \in SUBSET (1..m)
                 PROVE  SumFunctionOnSet(Paid', S) = SumFunctionOnSet(Paid, S)
        OBVIOUS
    <2>1. IsFiniteSet(S) /\ \A i \in S : Paid[i] \in Nat /\ Paid'[i] \in Nat /\ Paid'[i] = Paid[i]
        BY <1>1, FS_Subset
    <2>2. \A i \in S : Paid[i] <= Paid'[i] /\ Paid'[i] <= Paid[i]
        BY <2>1
    <2>3. SumFunctionOnSet(Paid', S) \in Nat /\ SumFunctionOnSet(Paid, S) \in Nat
        BY <2>1, SumIsNat
    <2>4. SumFunctionOnSet(Paid', S) <= SumFunctionOnSet(Paid, S)
        BY <2>1, <2>2, SumIsLess
    <2>5. SumFunctionOnSet(Paid, S) <= SumFunctionOnSet(Paid', S)
        BY <2>1, <2>2, SumIsLess
    <2> QED BY <2>3, <2>4, <2>5
<1>3. ASSUME NEW n \in 1..m
      PROVE  SumFunctionOnSet(Paid', {i \in 1..n : mined'[i].at >= mined'[n].at - Day}) <= dailyBudget
    <2> DEFINE S == {i \in 1..n : mined[i].at >= mined[n].at - Day}
    <2>1. {i \in 1..n : mined'[i].at >= mined'[n].at - Day} = S /\ S \in SUBSET (1..m)
        OBVIOUS
    <2>2. SumFunctionOnSet(Paid, S) <= dailyBudget
        BY <1>1 DEF DayWithinBudget
    <2> HIDE DEF S
    <2> QED BY <1>2, <2>1, <2>2
<1> QED BY <1>2, <1>3

(* When the chain moves, a row that was reserved is at most paid for.      *)
LEMMA ChainOwes ==
    ASSUME BooksInv, BooksInv', RowLimits, UNCHANGED <<now, rows>>, deep' >= deep,
           \A i \in 1..deep : mined'[i] = mined[i]
    PROVE  /\ Reserved' /\ Rows' = Rows
           /\ \A k \in Rows' : rows'[k].confirmed => rows'[k].mined_at >= mined'[rows'[k].raw.nonce].at
<1>1. Rows' = Rows
    BY DEF Rows
<1>2. deep \in Nat /\ deep' \in Nat
    BY DEF BooksInv, ChainTypes
<1>3. \A k \in Rows : /\ rows[k].raw.nonce \in Nat \ {0}
                      /\ rows[k].raw.nonce <= deep => mined'[rows[k].raw.nonce] = mined[rows[k].raw.nonce]
    BY <1>2 DEF BooksInv, OwesLess
<1>4. Owing' \subseteq Owing
    BY <1>1, <1>2, <1>3 DEF Owing
<1>5. \A k \in Owing' : Owes(k)' \in Nat /\ Owes(k)' <= Owes(k)
    <2> SUFFICES ASSUME NEW k \in Rows PROVE Owes(k)' \in Nat /\ Owes(k)' <= Owes(k)
        BY <1>1, <1>4 DEF Owing
    <2>1. Owes(k)' \in Nat /\ Owes(k)' <= rows[k].max_cost /\ Owes(k) \in Nat
        BY <1>1 DEF BooksInv, OwesLess
    <2>2. CASE rows[k].raw.nonce > deep
        BY <2>1, <2>2 DEF Owes
    <2>3. CASE rows[k].raw.nonce <= deep
        <3>1. Owes(k)' = Owes(k)
            BY <1>2, <1>3, <2>3 DEF Owes
        <3> QED BY <2>1, <3>1
    <2> QED BY <1>2, <1>3, <2>2, <2>3
<1>6. Reserved'
    BY <1>1, <1>4, <1>5, OwedFalls DEF RowLimits
<1>7. \A k \in Rows' : rows'[k].confirmed => rows'[k].mined_at >= mined'[rows'[k].raw.nonce].at
    BY <1>1, <1>3 DEF RowLimits, BooksInv, OwesLess
<1> QED BY <1>1, <1>6, <1>7

(* A transaction is included over the last block only when that one is     *)
(* below it for good: two would need two pending rows.                     *)
LEMMA IncludedAlone ==
    ASSUME IInv, BooksInv, NEW tx, NEW cost \in Cost, NEW ok \in BOOLEAN, Include(tx, cost, ok)
    PROVE  /\ deep = Len(mined) /\ deep' = deep
           /\ tx.key \in Rows /\ rows[tx.key].raw.nonce = deep + 1
<1>1. tx \in disclosed /\ tx.nonce = Len(mined) + 1 /\ deep' = Len(mined)
    BY DEF Include, Nonce
<1>2. tx \in Tx /\ tx.key \in Request /\ tx # NoTx
    BY <1>1, ChainFacts DEF IInv
<1>3. tx.key \in Rows /\ rows[tx.key].raw.nonce = Len(mined) + 1
    BY <1>1, <1>2 DEF IInv, JournalInv, JournaledBeforeDisclosure, Rows
<1>4. ASSUME deep # Len(mined) PROVE FALSE
    <2>1. Len(mined) = deep + 1 /\ Len(mined) \in DOMAIN mined
        <3>1. DOMAIN mined = 1..Len(mined)
            BY DEF BooksInv, ChainTypes
        <3> QED BY <1>4, <3>1, LastBlock DEF BooksInv
    <2> DEFINE k == mined[Len(mined)].tx.key
    <2>2. k \in Rows /\ rows[k].raw.nonce = Len(mined)
        BY <2>1 DEF BooksInv, PaidRows
    <2> HIDE DEF k
    <2>3. k = tx.key
        BY <1>3, <2>1, <2>2 DEF BooksInv, OnePending, ChainTypes
    <2> QED BY <1>3, <2>2, <2>3 DEF BooksInv, ChainTypes
<1> QED BY <1>1, <1>3, <1>4

LEMMA IncludeLimits ==
    ASSUME IInv, BooksInv, BooksInv', RowLimits,
           NEW tx, NEW cost \in Cost, NEW ok \in BOOLEAN, Include(tx, cost, ok)
    PROVE  RowLimits'
<1> DEFINE e == [tx |-> tx, cost |-> cost, at |-> now, ok |-> ok]
           n == Len(mined) + 1
<1>1. deep = Len(mined) /\ deep' = deep /\ n \in Nat /\ n = deep + 1
    <2>1. deep = Len(mined) /\ deep' = deep
        BY IncludedAlone
    <2> QED BY <2>1 DEF BooksInv, ChainTypes
<1>2. mined' = Append(mined, e) /\ e.at = now /\ UNCHANGED <<now, rows>>
    BY DEF Include, journals
<1>3. mined \in Seq(Entry) /\ e \in Entry
    <2>1. now \in Nat /\ tx \in Tx
        BY ChainFacts DEF BooksInv, ChainTypes, IInv, Include
    <2> QED BY <2>1, ChainFacts DEF Entry, IInv
<1> HIDE DEF e
<1>4. /\ Len(mined') = n /\ DOMAIN mined' = 1..n /\ mined'[n].at = now
      /\ \A i \in 1..deep : mined'[i] = mined[i]
    BY <1>1, <1>2, <1>3, AppendProperties, LenProperties
<1>5. /\ Reserved' /\ Rows' = Rows
      /\ \A k \in Rows' : rows'[k].confirmed => rows'[k].mined_at >= mined'[rows'[k].raw.nonce].at
    BY <1>1, <1>2, <1>4, ChainOwes DEF BooksInv, ChainTypes
<1>6. DayCovered'
    BY <1>5, DayIsCovered, PTL
<1>7. /\ \A S \in SUBSET (1..deep) : SumFunctionOnSet(Paid, S)' = SumFunctionOnSet(Paid, S)
      /\ \A i \in 1..deep :
            SumFunctionOnSet(Paid', {j \in 1..i : mined'[j].at >= mined'[i].at - Day}) <= dailyBudget
    BY <1>1, <1>4, PrefixKept DEF BooksInv, RowLimits
<1>8. DayWithinBudget'
    <2>1. {i \in DOMAIN mined' : mined'[i].at >= now' - Day}
          = {i \in 1..n : mined'[i].at >= mined'[n].at - Day}
        BY <1>2, <1>4
    <2>2. SumFunctionOnSet(Paid', {i \in 1..n : mined'[i].at >= mined'[n].at - Day}) <= dailyBudget
        BY <1>6, <2>1 DEF DayCovered
    <2>3. \A i \in DOMAIN mined' : i \in 1..deep \/ i = n
        BY <1>1, <1>4
    <2> QED BY <1>7, <2>2, <2>3 DEF DayWithinBudget
<1>9. DeepSpent' = DeepSpent
    BY <1>1, <1>7 DEF DeepSpent
<1> HIDE DEF DeepSpent
<1> QED BY <1>1, <1>2, <1>5, <1>8, <1>9 DEF RowLimits

LEMMA BlockReplacedLimits ==
    ASSUME IInv, BooksInv, BooksInv', RowLimits, LastBlockReplaced
    PROVE  RowLimits'
<1>1. UNCHANGED <<now, rows, deep>>
    BY DEF LastBlockReplaced, journals
<1>2. /\ deep \in Nat /\ deep <= Len(mined) /\ Len(mined') = deep /\ DOMAIN mined' = 1..deep
      /\ \A i \in 1..deep : mined'[i] = mined[i]
    <2>1. mined' = SubSeq(mined, 1, deep) /\ mined \in Seq(Entry) /\ \A i \in 1..deep : mined[i] \in Entry
        BY ChainFacts DEF LastBlockReplaced, IInv
    <2>2. deep \in Nat /\ deep <= Len(mined) /\ Len(mined) \in Nat
        BY DEF BooksInv, ChainTypes
    <2>3. /\ mined' \in Seq(Entry) /\ Len(mined') = IF 1 <= deep THEN deep - 1 + 1 ELSE 0
          /\ \A i \in 1..deep - 1 + 1 : mined'[i] = mined[1 + i - 1]
        BY <2>1, <2>2, SubSeqProperties
    <2>4. DOMAIN mined' = 1..Len(mined')
        BY <2>3, LenProperties
    <2> QED BY <2>2, <2>3, <2>4
<1>3. /\ Reserved' /\ Rows' = Rows
      /\ \A k \in Rows' : rows'[k].confirmed => rows'[k].mined_at >= mined'[rows'[k].raw.nonce].at
    BY <1>1, <1>2, ChainOwes
<1>4. /\ \A S \in SUBSET (1..deep) : SumFunctionOnSet(Paid, S)' = SumFunctionOnSet(Paid, S)
      /\ \A i \in 1..deep :
            SumFunctionOnSet(Paid', {j \in 1..i : mined'[j].at >= mined'[i].at - Day}) <= dailyBudget
    BY <1>2, PrefixKept DEF BooksInv, RowLimits
<1>5. DayWithinBudget'
    BY <1>2, <1>4 DEF DayWithinBudget
<1>6. DeepSpent' = DeepSpent
    BY <1>1, <1>4 DEF DeepSpent
<1> HIDE DEF DeepSpent
<1> QED BY <1>1, <1>3, <1>5, <1>6 DEF RowLimits

(* The pending row's nonce is consumed for good, at the cost it reserved   *)
(* or less.                                                                *)
LEMMA EmptyBlockLimits ==
    ASSUME IInv, BooksInv, BooksInv', RowLimits, EmptyBlock
    PROVE  RowLimits'
<1> DEFINE n == deep + 1
           k == mined[n].tx.key
<1>1. /\ UNCHANGED <<now, rows, mined>> /\ deep \in Nat /\ n \in Nat
      /\ deep' = n /\ Len(mined) = n /\ n \in DOMAIN mined /\ DOMAIN mined = 1..n
    <2>1. deep < Len(mined) /\ deep' = Len(mined) /\ UNCHANGED <<now, rows, mined>>
        BY DEF EmptyBlock, journals
    <2>2. DOMAIN mined = 1..Len(mined) /\ deep \in Nat
        BY DEF BooksInv, ChainTypes
    <2>3. Len(mined) = n /\ Len(mined) \in 1..Len(mined)
        BY <2>1, LastBlock DEF BooksInv
    <2> QED BY <2>1, <2>2, <2>3
<1>2. /\ Reserved' /\ Rows' = Rows
      /\ \A l \in Rows' : rows'[l].confirmed => rows'[l].mined_at >= mined'[rows'[l].raw.nonce].at
    BY <1>1, ChainOwes
<1>3. /\ k \in Rows /\ rows[k].raw.nonce = n /\ mined[n].cost <= rows[k].max_cost
      /\ mined[n].cost \in Nat /\ rows[k].max_cost \in Nat
    BY <1>1 DEF BooksInv, PaidRows, OwesLess, ChainTypes
<1>4. DeepSpent \in Nat /\ DeepSpent' = mined[n].cost + DeepSpent
    <2>1. Paid' = Paid /\ 1..deep' = DOMAIN mined /\ (1..deep') \ {n} = 1..deep
        BY <1>1 DEF Paid
    <2>2. /\ IsFiniteSet(DOMAIN mined) /\ \A i \in DOMAIN mined : Paid[i] = mined[i].cost /\ Paid[i] \in Nat
        BY PaidSums DEF BooksInv
    <2>3. SumFunctionOnSet(Paid, DOMAIN mined) = Paid[n] + SumFunctionOnSet(Paid, (DOMAIN mined) \ {n})
        BY <1>1, <2>2, SumSplits
    <2>4. SumFunctionOnSet(Paid, 1..deep) \in Nat
        <3>1. 1..deep \in SUBSET (DOMAIN mined)
            BY <1>1
        <3> QED BY <3>1, PaidSums DEF BooksInv
    <2> QED BY <1>1, <2>1, <2>2, <2>3, <2>4 DEF DeepSpent
<1>5. Funds - DeepSpent - rows[k].max_cost >= reserve
    BY <1>1, <1>3 DEF RowLimits
<1> HIDE DEF DeepSpent
<1>6. Funds - DeepSpent' >= reserve
    BY <1>3, <1>4, <1>5, LimitAssumption
<1>7. \A l \in Rows : ~(rows[l].raw.nonce > n)
    <2> SUFFICES ASSUME NEW l \in Rows, rows[l].raw.nonce > n PROVE FALSE
        OBVIOUS
    <2>1. rows[l].raw.nonce > deep /\ rows[k].raw.nonce > deep
        BY <1>1, <1>3 DEF BooksInv, OwesLess
    <2> HIDE DEF k
    <2>2. l = k
        BY <1>3, <2>1 DEF BooksInv, OnePending
    <2> QED BY <1>1, <1>3, <2>2
<1>8. DayWithinBudget'
    <2>1. Paid' = Paid
        BY <1>1 DEF Paid
    <2> QED BY <1>1, <2>1 DEF RowLimits, DayWithinBudget
<1> QED BY <1>1, <1>2, <1>6, <1>7, <1>8 DEF RowLimits

(* A row's reply, its end, or its confirmation is written; or nothing is.  *)
QuietRows ==
    \/ UNCHANGED rows
    \/ \E k \in Rows :
          \/ \E response \in {"hash", "unknown"} : rows' = [rows EXCEPT ![k].response = response]
          \/ \E assured \in {"fee-received", "cancelled"} : rows' = [rows EXCEPT ![k].assured = assured]
          \/ rows' = [rows EXCEPT ![k].acknowledged = TRUE]
          \/ \E cost \in Nat, at \in Nat :
                at >= mined[rows[k].raw.nonce].at /\ rows' = [rows EXCEPT ![k] = Confirmed(rows[k], cost, at)]

LEMMA QuietRowsKeep ==
    ASSUME TypeOK, QuietRows
    PROVE  /\ Rows' = Rows
           /\ \A k \in Rows :
                 /\ rows'[k].raw = rows[k].raw /\ rows'[k].max_cost = rows[k].max_cost
                 /\ rows'[k].confirmed =>
                       \/ rows[k].confirmed /\ rows'[k].mined_at = rows[k].mined_at
                       \/ rows'[k].mined_at >= mined[rows[k].raw.nonce].at
<1>1. CASE UNCHANGED rows
    BY <1>1 DEF Rows
<1>2. CASE ~ UNCHANGED rows
    <2>1. PICK k \in Rows :
             \/ \E response \in {"hash", "unknown"} : rows' = [rows EXCEPT ![k].response = response]
             \/ \E assured \in {"fee-received", "cancelled"} : rows' = [rows EXCEPT ![k].assured = assured]
             \/ rows' = [rows EXCEPT ![k].acknowledged = TRUE]
             \/ \E cost \in Nat, at \in Nat :
                   /\ at >= mined[rows[k].raw.nonce].at
                   /\ rows' = [rows EXCEPT ![k] = Confirmed(rows[k], cost, at)]
        BY <1>2 DEF QuietRows
    <2>2. rows \in [Request -> Row] /\ rows[k] \in Row /\ k \in Request
        BY DEF TypeOK, Rows
    <2>3. \A l \in Request \ {k} : rows'[l] = rows[l]
        BY <2>1, <2>2
    <2>4. /\ rows'[k].raw = rows[k].raw /\ rows'[k].max_cost = rows[k].max_cost
          /\ \/ rows'[k].confirmed = rows[k].confirmed /\ rows'[k].mined_at = rows[k].mined_at
             \/ rows'[k].mined_at >= mined[rows[k].raw.nonce].at
        <3>1. ASSUME NEW cost \in Nat, NEW at \in Nat
              PROVE  LET row == Confirmed(rows[k], cost, at)
                     IN row.raw = rows[k].raw /\ row.max_cost = rows[k].max_cost /\ row.mined_at = at
            BY <2>2 DEF Confirmed, Row
        <3>2. CASE \E cost \in Nat, at \in Nat :
                      /\ at >= mined[rows[k].raw.nonce].at
                      /\ rows' = [rows EXCEPT ![k] = Confirmed(rows[k], cost, at)]
            BY <2>2, <3>1, <3>2
        <3>3. CASE ~ \E cost \in Nat, at \in Nat :
                      /\ at >= mined[rows[k].raw.nonce].at
                      /\ rows' = [rows EXCEPT ![k] = Confirmed(rows[k], cost, at)]
            BY <2>1, <2>2, <3>3 DEF Row
        <3> QED BY <3>2, <3>3
    <2>5. Rows' = Rows
        BY <2>3, <2>4 DEF Rows
    <2> QED BY <2>3, <2>4, <2>5 DEF Rows
<1> QED BY <1>1, <1>2

(* From the second reading to the journal, a step of another process       *)
(* leaves the wallet at rest.                                              *)
LEMMA RestKept ==
    ASSUME AtRest, UNCHANGED <<mined, deep>>,
           task' = task \/ task'.phase \notin {"rechecked", "signed"}
    PROVE  AtRest'
<1>1. Balance' = Balance
    BY SameChain
<1> QED BY <1>1 DEF AtRest

LEMMA QuietLimits ==
    ASSUME IInv, BooksInv, BooksInv', LimitsInv, UNCHANGED <<mined, deep>>, now' \in {now, now + 1},
           QuietRows, task' = task \/ task'.phase \notin {"rechecked", "signed"}
    PROVE  LimitsInv'
<1>1. RowLimits'
    BY QuietRowsKeep, QuietStep DEF IInv, LimitsInv
<1> QED BY <1>1, RestKept DEF LimitsInv

LEMMA HandleLimits ==
    ASSUME IInv, BooksInv, BooksInv', LimitsInv, Handle
    PROVE  LimitsInv'
<1>1. TypeOK /\ TaskInv /\ task \in TaskTypes
    BY DEF IInv, TypeOK, TaskTypes
<1>2. /\ mined' = mined /\ deep' = deep /\ now' = now
    BY DEF Handle, Replay, Refuse, Admit, ReadState, RecheckState, SignRequest, JournalRequest,
           StageRequest, Disclose, Acknowledged, HandleFails, chain
<1>3. CASE (\E k \in Request : Replay(k) \/ Refuse(k)) \/ StageRequest \/ Disclose
    <2>1. QuietRows
        BY <1>3 DEF Replay, Refuse, StageRequest, Disclose, journals, QuietRows, Rows
    <2>2. task' = task \/ task'.phase \notin {"rechecked", "signed"}
        BY <1>1, <1>3 DEF Replay, Refuse, StageRequest, Disclose, TaskTypes
    <2> QED BY <1>2, <2>1, <2>2, QuietLimits
<1>4. CASE Acknowledged \/ HandleFails
    <2>1. task' = Free /\ Free.phase = "idle"
        BY <1>4 DEF Acknowledged, HandleFails, Free
    <2>2. QuietRows
        <3>1. CASE Acknowledged
            BY <1>1, <3>1 DEF Acknowledged, QuietRows, TaskInv
        <3>2. CASE HandleFails
            <4>1. task.key \in Request
                BY <1>1, <3>2 DEF HandleFails, TaskInv
            <4> QED BY <3>2, <4>1 DEF HandleFails, FailureAnswer, QuietRows, Rows
        <3> QED BY <1>4, <3>1, <3>2
    <2> QED BY <1>2, <2>1, <2>2, QuietLimits
<1>5. CASE (\E k \in Request : Admit(k)) \/ (\E cost \in Cost : ReadState(cost))
    <2>1. UNCHANGED rows
        BY <1>5 DEF Admit, ReadState, journals
    <2>2. task'.phase \in {"admitted", "validating"}
        BY <1>1, <1>5 DEF Admit, ReadState, Free, TaskTypes
    <2> QED BY <1>2, <2>1, <2>2, QuietLimits DEF QuietRows
<1>6. CASE RecheckState \/ SignRequest
    <2>1. UNCHANGED rows
        BY <1>6 DEF RecheckState, SignRequest, journals
    <2>2. RowLimits'
        BY <1>1, <1>2, <2>1, QuietRowsKeep, QuietStep DEF LimitsInv, QuietRows
    <2>3. Balance' = Balance
        BY <1>2, SameChain
    <2>4. task'.nonce = task.nonce /\ task'.budget = task.budget
        BY <1>1, <1>6 DEF RecheckState, SignRequest, TaskTypes
    <2>5. deep = Len(mined) /\ task.nonce = deep + 1 /\ Balance >= task.budget + reserve
        <3>1. CASE RecheckState
            <4>1. \A d, l \in Nat : l + 1 = d + 1 => d = l
                OBVIOUS
            <4> QED BY <3>1, <4>1 DEF RecheckState, Nonce, ConfirmedNonce, BooksInv, ChainTypes
        <3>2. CASE SignRequest
            BY <3>2 DEF SignRequest, LimitsInv, AtRest
        <3> QED BY <1>6, <3>1, <3>2
    <2>6. AtRest'
        BY <1>2, <2>3, <2>4, <2>5 DEF AtRest
    <2> QED BY <2>2, <2>6 DEF LimitsInv
<1>7. CASE JournalRequest
    <2> DEFINE x == task.key
               row == Signed(x, task.nonce, task.budget)
    <2>1. /\ task.phase = "signed" /\ rows[x].raw = NoTx /\ x \in Request
          /\ exposure + task.budget <= dailyBudget
          /\ rows' = [rows EXCEPT ![x] = row] /\ task' = [task EXCEPT !.phase = "journaled"]
          /\ task.budget \in Cost /\ task.nonce \in Nat \ {0}
        BY <1>1, <1>7 DEF JournalRequest, TaskInv
    <2>2. /\ row.raw = [key |-> x, nonce |-> task.nonce, cancels |-> FALSE, max |-> task.budget]
          /\ row.max_cost = task.budget
        BY DEF Signed, NoRow
    <2>3. row.raw \in Tx /\ row.raw # NoTx /\ row.raw.nonce = task.nonce
        <3> HIDE DEF row
        <3>1. row.raw \in Tx /\ row.raw.nonce = task.nonce
            BY <2>1, <2>2 DEF Tx
        <3> QED BY <3>1, NothingAssumption
    <2>4. deep = Len(mined) /\ task.nonce = deep + 1 /\ Balance >= task.budget + reserve
        BY <2>1 DEF LimitsInv, AtRest
    <2>5. Balance = Funds - DeepSpent
        BY <2>4, BalanceAtRest DEF BooksInv
    <2> HIDE DEF row
    <2>6. rows'[x] = row /\ \A l \in Request \ {x} : rows'[l] = rows[l]
        BY <1>1, <2>1 DEF TypeOK
    <2>7. x \notin Rows /\ Rows' = Rows \cup {x} /\ \A k \in Rows \ {x} : rows'[k] = rows[k]
        BY <2>1, <2>3, <2>6 DEF Rows
    <2>8. task.budget \in Nat /\ deep \in Nat /\ DeepSpent \in Nat
        <3>1. 1..deep \in SUBSET (DOMAIN mined)
            BY <2>4 DEF BooksInv, ChainTypes
        <3>2. DeepSpent \in Nat
            BY <3>1, PaidSums DEF BooksInv, DeepSpent
        <3> QED BY <2>1, <3>2, LimitAssumption DEF BooksInv, ChainTypes, Cost
    <2>9. exposure \in Nat
        <3>1. \A k \in Owing \ {} : [l \in Rows |-> Owes(l)][k] = Owes(k)
            BY DEF Owing
        <3> QED BY <3>1, ExposureCovers DEF LimitsInv
    <2> HIDE DEF x, DeepSpent, Balance, exposure
    <2>10. rows'[x].raw.nonce > deep /\ rows'[x].max_cost = task.budget
        BY <2>2, <2>3, <2>4, <2>6, <2>8
    <2>11. Funds - DeepSpent - rows'[x].max_cost >= reserve
        BY <2>4, <2>5, <2>8, <2>10, LimitAssumption
    <2>12. exposure + rows'[x].max_cost - (IF x \in Rows THEN rows[x].max_cost ELSE 0) <= dailyBudget
        BY <2>1, <2>7, <2>8, <2>9, <2>10
    <2>13. RowLimits'
        BY <1>2, <2>7, <2>10, <2>11, <2>12, ReservingStep DEF LimitsInv
    <2>14. task'.phase = "journaled"
        BY <1>1, <2>1 DEF TaskTypes
    <2> QED BY <1>2, <2>13, <2>14, RestKept DEF LimitsInv
<1> QED BY <1>3, <1>4, <1>5, <1>6, <1>7 DEF Handle

LEMMA ReconcileLimits ==
    ASSUME IInv, BooksInv, BooksInv', LimitsInv, Reconcile
    PROVE  LimitsInv'
<1>1. TypeOK /\ RecInv /\ rec \in RecTypes
    BY DEF IInv, TypeOK, RecTypes
<1>2. /\ mined' = mined /\ deep' = deep /\ now' = now /\ task' = task
    BY DEF Reconcile, ReconcileStart, ReconcileNothing, ReconcileReceipt, ReconcileUnknown,
           ReconcileCancelled, ReconcileAnswers, ReconcileAssured, ReconcileFails, chain
<1> DEFINE k == rec.key
           n == rows[k].raw.nonce
<1>3. rec.phase # "idle" => k \in Rows
    BY <1>1 DEF RecInv
<1>4. QuietRows
    <2>1. CASE (\E l \in Request : ReconcileStart(l)) \/ ReconcileNothing \/ ReconcileFails
        BY <2>1 DEF ReconcileStart, ReconcileNothing, ReconcileFails, journals, QuietRows
    <2>2. CASE ReconcileCancelled \/ ReconcileAnswers \/ ReconcileAssured
        BY <1>3, <2>2 DEF ReconcileCancelled, ReconcileAnswers, ReconcileAssured, QuietRows
    <2>3. CASE ReconcileReceipt \/ ReconcileUnknown
        <3>1. k \in Rows /\ n <= rec.upto
            BY <1>3, <2>3 DEF ReconcileReceipt, ReconcileUnknown
        <3>2. /\ n \in DOMAIN mined /\ mined[n].cost \in Nat /\ mined[n].at \in Nat /\ mined[n].at <= now
              /\ rows[k].max_cost \in Nat /\ now \in Nat
            <4>1. rec.upto \in 0..deep /\ n \in Nat /\ deep \in Nat
                BY <1>1, <3>1 DEF RecTypes, BooksInv, OwesLess, ChainTypes
            <4>2. n <= deep
                BY <3>1, <4>1
            <4>3. n \in DOMAIN mined /\ rows[k].max_cost \in Nat
                BY <3>1, <4>2 DEF BooksInv, OwesLess
            <4> HIDE DEF n
            <4>4. mined[n].cost \in Nat /\ mined[n].at \in 0..now /\ now \in Nat
                BY <4>3 DEF BooksInv, ChainTypes
            <4> QED BY <4>3, <4>4
        <3>3. k \in Request /\ rows \in [Request -> Row]
            BY <1>1, <3>1 DEF Rows, TypeOK
        <3>4. \E cost \in Nat, at \in Nat :
                 at >= mined[n].at /\ rows' = [rows EXCEPT ![k] = Confirmed(rows[k], cost, at)]
            <4>1. CASE ReconcileReceipt
                <5>1. rows' = [rows EXCEPT ![k] = Confirmed(rows[k], mined[n].cost, mined[n].at)]
                    BY <3>3, <4>1 DEF ReconcileReceipt
                <5> HIDE DEF n, k
                <5>2. mined[n].at >= mined[n].at
                    BY <3>2
                <5> QED BY <3>2, <5>1, <5>2
            <4>2. CASE ReconcileUnknown
                <5>1. PICK timestamp \in mined[n].at..now :
                          rows' = [rows EXCEPT ![k] = Confirmed(rows[k], rows[k].max_cost, timestamp)]
                    BY <3>3, <4>2 DEF ReconcileUnknown
                <5> HIDE DEF n, k
                <5>2. timestamp \in Nat /\ timestamp >= mined[n].at
                    BY <3>2
                <5> QED BY <3>2, <5>1, <5>2
            <4> QED BY <2>3, <4>1, <4>2
        <3> QED BY <3>1, <3>4 DEF QuietRows
    <2> QED BY <2>1, <2>2, <2>3 DEF Reconcile
<1> QED BY <1>2, <1>4, QuietLimits

LEMMA CancelLimits ==
    ASSUME IInv, BooksInv, BooksInv', LimitsInv, NEW k \in Request, NEW cost \in Cost, CancelCommand(k, cost)
    PROVE  LimitsInv'
<1> DEFINE tx == [key |-> k, nonce |-> rows[k].raw.nonce, cancels |-> TRUE, max |-> cost]
           row == Cancelled(rows[k], tx)
<1>1. /\ UNCHANGED <<now, mined, deep>> /\ task' = task
      /\ rows' = [rows EXCEPT ![k] = row]
      /\ exposure + row.max_cost - rows[k].max_cost <= dailyBudget
      /\ k \in Unconfirmed /\ Len(mined) + 1 = rows[k].raw.nonce /\ deep + 1 = rows[k].raw.nonce
      /\ Balance >= cost + reserve
    BY DEF CancelCommand, Recoverable, WithinLimits, Nonce, ConfirmedNonce, chain
<1>2. /\ rows \in [Request -> Row] /\ rows[k] \in Row /\ k \in Rows /\ cost \in Nat
      /\ rows[k].max_cost \in Nat
    BY <1>1, LimitAssumption DEF IInv, TypeOK, Unconfirmed, Cost, BooksInv, OwesLess
<1>3. row.raw = rows[k].raw /\ row.max_cost \in {cost, rows[k].max_cost}
    BY <1>2 DEF Cancelled, Row
<1> HIDE DEF row
<1>4. deep \in Nat /\ deep = Len(mined) /\ DeepSpent \in Nat /\ Balance = Funds - DeepSpent
    <2>1. deep \in Nat /\ Len(mined) \in Nat /\ DOMAIN mined = 1..Len(mined)
        BY DEF BooksInv, ChainTypes
    <2>2. \A d, l \in Nat : l + 1 = d + 1 => d = l
        OBVIOUS
    <2>3. deep = Len(mined)
        BY <1>1, <2>1, <2>2
    <2>4. 1..deep \in SUBSET (DOMAIN mined)
        BY <2>1, <2>3
    <2>5. DeepSpent \in Nat
        BY <2>4, PaidSums DEF BooksInv, DeepSpent
    <2> QED BY <2>1, <2>3, <2>5, BalanceAtRest DEF BooksInv
<1>5. rows'[k] = row /\ \A l \in Request \ {k} : rows'[l] = rows[l]
    BY <1>1, <1>2
<1>6. Rows' = Rows \cup {k} /\ \A l \in Rows \ {k} : rows'[l] = rows[l]
    BY <1>2, <1>3, <1>5 DEF Rows
<1>7. rows'[k].raw.nonce > deep /\ rows[k].raw.nonce > deep
    BY <1>1, <1>3, <1>4, <1>5
<1>8. Funds - DeepSpent - rows'[k].max_cost >= reserve
    <2>1. Funds - DeepSpent - rows[k].max_cost >= reserve
        BY <1>2, <1>7 DEF LimitsInv, RowLimits
    <2>2. Funds - DeepSpent - cost >= reserve
        <3> HIDE DEF DeepSpent, Balance
        <3> QED BY <1>1, <1>2, <1>4, LimitAssumption
    <2> QED BY <1>3, <1>5, <2>1, <2>2
<1>9. exposure + rows'[k].max_cost - (IF k \in Rows THEN rows[k].max_cost ELSE 0) <= dailyBudget
    BY <1>1, <1>2, <1>5
<1>10. RowLimits'
    BY <1>1, <1>6, <1>7, <1>8, <1>9, ReservingStep DEF LimitsInv
<1> QED BY <1>1, <1>10, RestKept DEF LimitsInv

LEMMA CommandLimits ==
    ASSUME IInv, BooksInv, BooksInv', LimitsInv, Command
    PROVE  LimitsInv'
<1>1. CASE \E k \in Request, cost \in Cost : CancelCommand(k, cost)
    BY <1>1, CancelLimits
<1>2. CASE \/ \E k \in Request : RetryCommand(k) \/ acknowledgeLoss(k)
           \/ StageCommand \/ CancelPending \/ CommandStops
    <2>1. UNCHANGED <<mined, deep>> /\ now' = now /\ task' = task
        BY <1>2 DEF RetryCommand, acknowledgeLoss, StageCommand, CancelPending, CommandStops, chain
    <2>2. QuietRows
        BY <1>2 DEF RetryCommand, acknowledgeLoss, StageCommand, CancelPending, CommandStops, journals,
                    QuietRows
    <2> QED BY <2>1, <2>2, QuietLimits
<1> QED BY <1>1, <1>2 DEF Command

LEMMA ChainLimits ==
    ASSUME IInv, BooksInv, BooksInv', LimitsInv, Chain
    PROVE  LimitsInv'
<1>1. CASE Tick
    <2>1. UNCHANGED <<mined, deep>> /\ now' = now + 1 /\ task' = task /\ UNCHANGED rows
        BY <1>1 DEF Tick, chain, journals
    <2> QED BY <2>1, QuietLimits DEF QuietRows
<1>2. CASE EmptyBlock \/ LastBlockReplaced
    <2>1. RowLimits'
        BY <1>2, EmptyBlockLimits, BlockReplacedLimits DEF LimitsInv
    <2>2. deep < Len(mined) /\ task' = task
        BY <1>2 DEF EmptyBlock, LastBlockReplaced
    <2>3. \A d, l \in Nat : d < l => d # l
        OBVIOUS
    <2>4. task.phase \notin {"rechecked", "signed"}
        BY <2>2, <2>3 DEF LimitsInv, AtRest, BooksInv, ChainTypes
    <2> QED BY <2>1, <2>2, <2>4 DEF LimitsInv, AtRest
<1>3. CASE \E tx \in disclosed, cost \in Cost, ok \in BOOLEAN : Include(tx, cost, ok)
    <2>1. PICK tx \in disclosed, cost \in Cost, ok \in BOOLEAN : Include(tx, cost, ok)
        BY <1>3
    <2>2. RowLimits'
        BY <2>1, IncludeLimits DEF LimitsInv
    <2>3. task' = task /\ tx.key \in Rows /\ rows[tx.key].raw.nonce = deep + 1 /\ deep \in Nat
        BY <2>1, IncludedAlone DEF Include, BooksInv, ChainTypes
    <2>4. task.phase \notin {"rechecked", "signed"}
        <3> SUFFICES ASSUME task.phase \in {"rechecked", "signed"} PROVE FALSE
            OBVIOUS
        <3>1. task.nonce = deep + 1 /\ rows[tx.key].raw.nonce < task.nonce
            BY <2>3 DEF LimitsInv, AtRest, IInv, TaskInv
        <3> QED BY <2>3, <3>1
    <2> QED BY <2>2, <2>3, <2>4 DEF LimitsInv, AtRest
<1> QED BY <1>1, <1>2, <1>3 DEF Chain

LEMMA InitLimits == Init => LimitsInv
<1> SUFFICES ASSUME Init PROVE LimitsInv
    OBVIOUS
<1>1. /\ mined = <<>> /\ deep = 0 /\ \A k \in Request : rows[k] = NoRow
      /\ task = Free /\ Free.phase = "idle" /\ NoRow.raw = NoTx
    BY DEF Init, Free, NoRow
<1>2. Rows = {} /\ DOMAIN mined = {} /\ 1..deep = {}
    BY <1>1 DEF Rows
<1>3. \A f : SumFunctionOnSet(f, {}) = 0
    <2> TAKE f
    <2>1. IsFiniteSet({}) /\ Cardinality({}) = 0 /\ Units(f, {}) = {}
        BY FS_EmptySet DEF Units
    <2> QED BY <2>1, SumCounts
<1>4. Owing = {} /\ IsFiniteSet(Rows)
    BY <1>2, FS_EmptySet DEF Owing
<1>5. Owed = 0 /\ DeepSpent = 0
    BY <1>2, <1>3, <1>4 DEF Owed, DeepSpent
<1>6. RowLimits
    BY <1>2, <1>4, <1>5, LimitAssumption DEF RowLimits, Reserved, DayWithinBudget
<1> QED BY <1>1, <1>6 DEF LimitsInv, AtRest

LEMMA NextLimits == IInv /\ IInv' /\ LimitsInv /\ [Next]_vars => LimitsInv'
<1> SUFFICES ASSUME IInv, IInv', LimitsInv, [Next]_vars PROVE LimitsInv'
    OBVIOUS
<1>1. BooksInv
    BY Books
<1>2. BooksInv'
    BY Books, PTL
<1>3. CASE Stop \/ Start \/ UNCHANGED vars
    <2>1. UNCHANGED <<mined, deep>> /\ now' = now /\ UNCHANGED rows
        BY <1>3 DEF Stop, Start, vars, chain, journals
    <2>2. task' = task \/ task'.phase \notin {"rechecked", "signed"}
        BY <1>3 DEF Stop, Start, vars, Free
    <2> QED BY <1>1, <1>2, <2>1, <2>2, QuietLimits DEF QuietRows
<1> QED BY <1>1, <1>2, <1>3, HandleLimits, ReconcileLimits, CommandLimits, ChainLimits DEF Next

(* What is left of the funds: the wallet has spent for good all, or all    *)
(* but the one transaction its pending row reserved.                       *)
LEMMA ReserveIsKept ==
    ASSUME BooksInv, RowLimits
    PROVE  ReserveKept
<1>1. /\ IsFiniteSet(DOMAIN mined)
      /\ \A i \in DOMAIN mined : Paid[i] = mined[i].cost /\ Paid[i] \in Nat
    BY PaidSums DEF BooksInv
<1>2. 1..deep \in SUBSET (DOMAIN mined)
    BY DEF BooksInv, ChainTypes
<1>3. DeepSpent \in Nat
    BY <1>2, PaidSums DEF BooksInv, DeepSpent
<1>4. CASE deep = Len(mined)
    <2>1. Spent = DeepSpent /\ Balance = Funds - DeepSpent
        BY <1>4 DEF BooksInv, ChainTypes, Balance, Spent, DeepSpent
    <2> QED BY <2>1 DEF ReserveKept, RowLimits
<1>5. CASE deep # Len(mined)
    <2> DEFINE n == deep + 1
               k == mined[n].tx.key
    <2>1. n \in DOMAIN mined /\ (DOMAIN mined) \ {n} = 1..deep /\ deep \in Nat /\ n > deep
        BY <1>5, LastBlock DEF BooksInv, ChainTypes
    <2>2. Spent = mined[n].cost + DeepSpent
        <3> HIDE DEF n
        <3>1. SumFunctionOnSet(Paid, DOMAIN mined) = Paid[n] + SumFunctionOnSet(Paid, (DOMAIN mined) \ {n})
            BY <1>1, <2>1, SumSplits
        <3> QED BY <1>1, <2>1, <3>1 DEF Spent, DeepSpent
    <2>3. /\ mined[n].cost \in Nat /\ mined[n].cost <= rows[k].max_cost /\ rows[k].max_cost \in Nat
          /\ Funds - DeepSpent - rows[k].max_cost >= reserve
        BY <2>1 DEF BooksInv, ChainTypes, PaidRows, OwesLess, RowLimits
    <2> HIDE DEF DeepSpent, Spent, n, k
    <2> QED BY <1>3, <2>2, <2>3, LimitAssumption DEF ReserveKept, Balance
<1> QED BY <1>4, <1>5

(* The gas of any 24 hours stays within the daily budget and the reserve   *)
(* in the wallet, though the journal learns of costs late, a cancellation  *)
(* may cost more than what it replaces and a block may be replaced.        *)
THEOREM LimitsHold == Spec => []LimitsKept
<1>1. Spec => [](IInv /\ LimitsInv)
    BY IInvariant, InitLimits, NextLimits, PTL DEF Spec
<1>2. IInv /\ LimitsInv => LimitsKept
    BY Books, ReserveIsKept DEF LimitsInv, RowLimits, LimitsKept
<1> QED BY <1>1, <1>2, PTL
=============================================================================
