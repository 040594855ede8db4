---------------------------- MODULE PayoutProofs ----------------------------
(***************************************************************************)
(* What is paid out: RewardsDistributor for any wallets, keys, prizes,     *)
(* inventory and funding, OwnFeePayout for any months, amounts and nonces. *)
(*                                                                         *)
(* Solvency of the distributor needs the counters tied to the wallets: the *)
(* prizes assigned and the prizes paid are the sizes of two sets of        *)
(* wallets, one inside the other.  Counted says so, and Money what the     *)
(* tokens then cover.                                                      *)
(*                                                                         *)
(* That a month of own fees is proposed once is kept from its row's lock   *)
(* to the one proposal that may follow it (PlanInv).  That the Safe can    *)
(* pay the queue is an account of the plan: what a run has left to         *)
(* promise, and what is queued already, are within what the Safe held when *)
(* the run read its balance (FundsInv).                                    *)
(***************************************************************************)
EXTENDS RewardsDistributor, OwnFeePayout, Sums, TLAPS

-----------------------------------------------------------------------------
(* The rewards distributor                                                 *)

(* The wallets that hold a prize of this amount, and those of them paid.   *)
Won(amount) == {r \in Account : rewardOf[r] = amount}
Paid(amount) == {r \in claimed : rewardOf[r] = amount}

Counted ==
    /\ IsFiniteSet(Won(Small)) /\ Cardinality(Won(Small)) = oneDollarAssigned
    /\ IsFiniteSet(Won(Large)) /\ Cardinality(Won(Large)) = tenDollarAssigned
    /\ totalAssigned = oneDollarAssigned + tenDollarAssigned
    /\ totalAssignedValue = oneDollarAssigned * Small + tenDollarAssigned * Large
    /\ totalClaimed = Cardinality(Paid(Small)) + Cardinality(Paid(Large))
    /\ totalClaimedValue =
          Cardinality(Paid(Small)) * Small + Cardinality(Paid(Large)) * Large

Money ==
    /\ balance >= totalAssignedValue - totalClaimedValue
    /\ balance + totalClaimedValue = received

Prizes ==
    /\ \A r \in Account : ticketOf[r] # 0 => ticketOf[r] \in assignedTicket
    /\ \A r \in Account : ticketOf[r] = 0 <=> rewardOf[r] = 0
    /\ \A r \in claimed : rewardOf[r] # 0
    /\ OnePrizeEach

Signatures ==
    /\ \A t \in signed : t.statement.signerEpoch <= signerEpoch
    /\ \A t \in signed : t.statement.signerEpoch = signerEpoch => t \in thisTerm

IInv == TypeOK /\ Counted /\ Money /\ Prizes /\ Signatures

-----------------------------------------------------------------------------
(* Adding one to a count adds its value, and a larger count is worth more. *)
LEMMA OneMore ==
    ASSUME NEW n \in Nat, NEW v \in Nat
    PROVE  (n + 1) * v = n * v + v /\ n * v \in Nat
    BY SMT

LEMMA WorthMore ==
    ASSUME NEW n \in Nat, NEW m \in Nat, NEW v \in Nat, n <= m
    PROVE  n * v <= m * v
    BY SMT

(* The wallets paid are among the wallets that won, so they are no more.   *)
LEMMA PaidWithinWon ==
    ASSUME IInv
    PROVE  /\ Paid(Small) \subseteq Won(Small) /\ Paid(Large) \subseteq Won(Large)
           /\ IsFiniteSet(Paid(Small)) /\ IsFiniteSet(Paid(Large))
           /\ Cardinality(Paid(Small)) \in Nat /\ Cardinality(Paid(Large)) \in Nat
           /\ Cardinality(Paid(Small)) <= oneDollarAssigned
           /\ Cardinality(Paid(Large)) <= tenDollarAssigned
<1>1. Paid(Small) \subseteq Won(Small) /\ Paid(Large) \subseteq Won(Large)
    BY DEF IInv, TypeOK, Paid, Won
<1>2. QED
    BY <1>1, FS_Subset, FS_CardinalityType, Zenon DEF IInv, Counted

(* A prize not yet claimed is part of what is assigned and not paid.       *)
LEMMA Outstanding ==
    ASSUME IInv, NEW r \in Account, r \notin claimed
    PROVE  rewardOf[r] <= totalAssignedValue - totalClaimedValue
<1> USE InventoryAssumption
<1> DEFINE pS == Cardinality(Paid(Small))
           pL == Cardinality(Paid(Large))
<1>1. /\ pS \in Nat /\ pL \in Nat /\ pS <= oneDollarAssigned /\ pL <= tenDollarAssigned
      /\ totalAssignedValue = oneDollarAssigned * Small + tenDollarAssigned * Large
      /\ totalClaimedValue = pS * Small + pL * Large
      /\ oneDollarAssigned \in Nat /\ tenDollarAssigned \in Nat
      /\ rewardOf[r] \in {0, Small, Large}
    BY PaidWithinWon DEF IInv, Counted, TypeOK, Amount
<1>2. /\ IsFiniteSet(Won(Small)) /\ Cardinality(Won(Small)) = oneDollarAssigned
      /\ IsFiniteSet(Won(Large)) /\ Cardinality(Won(Large)) = tenDollarAssigned
    BY DEF IInv, Counted
<1>3. CASE rewardOf[r] = 0
    <2> HIDE DEF pS, pL
    <2> QED BY <1>1, <1>3, WorthMore
<1>4. CASE rewardOf[r] = Small
    <2>1. Paid(Small) \in SUBSET Won(Small) /\ r \in Won(Small) \ Paid(Small)
        BY <1>4, PaidWithinWon DEF Won, Paid
    <2>2. pS # oneDollarAssigned
        BY <2>1, <1>2, FS_Subset, Zenon
    <2> HIDE DEF pS, pL
    <2>3. (pS + 1) * Small <= oneDollarAssigned * Small /\ pL * Large <= tenDollarAssigned * Large
        BY <2>2, <1>1, WorthMore
    <2> QED BY <2>3, <1>1, <1>4, OneMore
<1>5. CASE rewardOf[r] = Large
    <2>1. Paid(Large) \in SUBSET Won(Large) /\ r \in Won(Large) \ Paid(Large)
        BY <1>5, PaidWithinWon DEF Won, Paid
    <2>2. pL # tenDollarAssigned
        BY <2>1, <1>2, FS_Subset, Zenon
    <2> HIDE DEF pS, pL
    <2>3. (pL + 1) * Large <= tenDollarAssigned * Large /\ pS * Small <= oneDollarAssigned * Small
        BY <2>2, <1>1, WorthMore
    <2> QED BY <2>3, <1>1, <1>5, OneMore
<1> QED BY <1>1, <1>3, <1>4, <1>5

(* The initial state.                                                      *)
LEMMA InitIInv == Init => IInv
<1> SUFFICES ASSUME Init PROVE IInv
    OBVIOUS
<1> USE InventoryAssumption, BoundAssumption
<1>1. TypeOK
    <2>1. MaxTickets \in Nat
        BY DEF MaxTickets
    <2>2. paused \in BOOLEAN
        BY DEF Init
    <2>3. signed \subseteq [key : Signer, statement : Assignment] /\ thisTerm \subseteq signed
        BY DEF Init
    <2>4. /\ rewardOf \in [Account -> Amount \union {0}]
          /\ ticketOf \in [Account -> Ticket \union {0}]
          /\ wallet \in [Account -> Nat]
        BY DEF Init
    <2> QED BY <2>1, <2>2, <2>3, <2>4 DEF Init, TypeOK
<1>2. Won(Small) = {} /\ Won(Large) = {} /\ Paid(Small) = {} /\ Paid(Large) = {}
    BY DEF Init, Won, Paid
<1>3. Counted
    BY <1>2, FS_EmptySet DEF Init, Counted
<1>4. Money /\ Prizes /\ Signatures
    BY DEF Init, Money, Prizes, OnePrizeEach, Signatures
<1> QED BY <1>1, <1>3, <1>4 DEF IInv

(* An assignment adds its wallet to those that won this amount, and to no  *)
(* other set.                                                              *)
LEMMA AssignCounts ==
    ASSUME IInv, NEW a \in Assignment, assign(a)
    PROVE  Counted'
<1> USE InventoryAssumption
<1> DEFINE r == a.recipient
<1>0. /\ r \in Account /\ a.amount \in {Small, Large} /\ rewardOf[r] = 0 /\ r \notin claimed
      /\ rewardOf' = [rewardOf EXCEPT ![r] = a.amount] /\ claimed' = claimed
      /\ rewardOf \in [Account -> Nat] /\ Small # 0 /\ Large # 0 /\ Small # Large
      /\ Small \in Nat /\ Large \in Nat /\ claimed \subseteq Account
    BY DEF IInv, TypeOK, Prizes, assign, claims, Unassigned, Assignment, Amount
<1>1. ASSUME NEW v \in {Small, Large}
      PROVE  /\ Won(v)' = IF v = a.amount THEN Won(v) \union {r} ELSE Won(v)
             /\ r \notin Won(v)
             /\ Paid(v)' = Paid(v)
    BY <1>0 DEF Won, Paid
<1>2. /\ IsFiniteSet(Won(Small)) /\ Cardinality(Won(Small)) = oneDollarAssigned
      /\ IsFiniteSet(Won(Large)) /\ Cardinality(Won(Large)) = tenDollarAssigned
      /\ oneDollarAssigned \in Nat /\ tenDollarAssigned \in Nat
    BY DEF IInv, Counted, TypeOK
<1>3. /\ IsFiniteSet(Won(Small)') /\ Cardinality(Won(Small)') = oneDollarAssigned'
      /\ IsFiniteSet(Won(Large)') /\ Cardinality(Won(Large)') = tenDollarAssigned'
    <2>1. CASE a.amount = Small
        <3>1. Won(Small)' = Won(Small) \union {r} /\ Won(Large)' = Won(Large) /\ r \notin Won(Small)
            BY <1>0, <1>1, <2>1
        <3>2. oneDollarAssigned' = oneDollarAssigned + 1 /\ tenDollarAssigned' = tenDollarAssigned
            BY <1>2, <2>1 DEF assign
        <3> QED BY <3>1, <3>2, <1>2, FS_AddElement
    <2>2. CASE a.amount = Large
        <3>1. Won(Large)' = Won(Large) \union {r} /\ Won(Small)' = Won(Small) /\ r \notin Won(Large)
            BY <1>0, <1>1, <2>2
        <3>2. oneDollarAssigned' = oneDollarAssigned /\ tenDollarAssigned' = tenDollarAssigned + 1
            BY <1>0, <1>2, <2>2 DEF assign
        <3> QED BY <3>1, <3>2, <1>2, FS_AddElement
    <2> QED BY <1>0, <2>1, <2>2
<1>4. /\ totalAssigned' = oneDollarAssigned' + tenDollarAssigned'
      /\ totalAssignedValue' = oneDollarAssigned' * Small + tenDollarAssigned' * Large
    <2>1. /\ totalAssigned = oneDollarAssigned + tenDollarAssigned
          /\ totalAssignedValue = oneDollarAssigned * Small + tenDollarAssigned * Large
        BY DEF IInv, Counted
    <2>2. /\ totalAssigned' = totalAssigned + 1
          /\ totalAssignedValue' = totalAssignedValue + a.amount
          /\ oneDollarAssigned' = oneDollarAssigned + IF a.amount = Small THEN 1 ELSE 0
          /\ tenDollarAssigned' = tenDollarAssigned + IF a.amount = Small THEN 0 ELSE 1
        BY DEF assign
    <2> QED BY <2>1, <2>2, <1>0, <1>2, OneMore
<1>5. /\ totalClaimed' = Cardinality(Paid(Small)') + Cardinality(Paid(Large)')
      /\ totalClaimedValue' =
            Cardinality(Paid(Small)') * Small + Cardinality(Paid(Large)') * Large
    BY <1>1 DEF IInv, Counted, assign, claims
<1> QED BY <1>3, <1>4, <1>5 DEF Counted

(* A claim adds its wallet to those paid this amount, and to no other set. *)
LEMMA ClaimCounts ==
    ASSUME IInv, NEW r \in Account, claim(r)
    PROVE  Counted'
<1> USE InventoryAssumption
<1>0. /\ rewardOf[r] \in {Small, Large} /\ r \notin claimed
      /\ claimed' = claimed \union {r} /\ rewardOf' = rewardOf
      /\ Small \in Nat /\ Large \in Nat /\ Small # Large
    BY DEF IInv, TypeOK, claim, Unpaid, assignments, Amount
<1>1. ASSUME NEW v \in {Small, Large}
      PROVE  /\ Won(v)' = Won(v)
             /\ Paid(v)' = IF v = rewardOf[r] THEN Paid(v) \union {r} ELSE Paid(v)
             /\ r \notin Paid(v)
    BY <1>0 DEF Won, Paid
<1>2. /\ IsFiniteSet(Paid(Small)) /\ IsFiniteSet(Paid(Large))
      /\ Cardinality(Paid(Small)) \in Nat /\ Cardinality(Paid(Large)) \in Nat
    BY PaidWithinWon
<1>3. /\ totalClaimed' = totalClaimed + 1
      /\ totalClaimedValue' = totalClaimedValue + rewardOf[r]
      /\ totalClaimed = Cardinality(Paid(Small)) + Cardinality(Paid(Large))
      /\ totalClaimedValue = Cardinality(Paid(Small)) * Small + Cardinality(Paid(Large)) * Large
    BY DEF claim, IInv, Counted
<1>4. /\ totalClaimed' = Cardinality(Paid(Small)') + Cardinality(Paid(Large)')
      /\ totalClaimedValue' =
            Cardinality(Paid(Small)') * Small + Cardinality(Paid(Large)') * Large
    <2>1. CASE rewardOf[r] = Small
        <3>1. Cardinality(Paid(Small)') = Cardinality(Paid(Small)) + 1 /\ Paid(Large)' = Paid(Large)
            BY <1>0, <1>1, <1>2, <2>1, FS_AddElement
        <3> QED BY <3>1, <1>0, <1>2, <1>3, <2>1, OneMore
    <2>2. CASE rewardOf[r] = Large
        <3>1. Cardinality(Paid(Large)') = Cardinality(Paid(Large)) + 1 /\ Paid(Small)' = Paid(Small)
            BY <1>0, <1>1, <1>2, <2>2, FS_AddElement
        <3>2. /\ (Cardinality(Paid(Large)) + 1) * Large = Cardinality(Paid(Large)) * Large + Large
              /\ Cardinality(Paid(Large)) * Large \in Nat /\ Cardinality(Paid(Small)) * Small \in Nat
            BY <1>0, <1>2, OneMore
        <3> QED BY <3>1, <3>2, <1>0, <1>2, <1>3, <2>2
    <2> QED BY <1>0, <2>1, <2>2
<1>5. UNCHANGED <<oneDollarAssigned, tenDollarAssigned, totalAssigned, totalAssignedValue>>
    BY DEF claim, assignments
<1> QED BY <1>0, <1>1, <1>4, <1>5 DEF IInv, Counted

(* Every action keeps the types.                                           *)
LEMMA TypeStep == IInv /\ [Next]_vars => TypeOK'
<1> SUFFICES ASSUME IInv, [Next]_vars PROVE TypeOK'
    OBVIOUS
<1> USE InventoryAssumption, BoundAssumption DEF IInv
<1>0. MaxTickets \in Nat /\ Small \in Nat /\ Large \in Nat
    BY DEF MaxTickets
<1>1. ASSUME NEW a \in Assignment, assign(a) PROVE TypeOK'
    <2>1. /\ a.recipient \in Account /\ a.ticketId \in Ticket /\ a.amount \in Amount
        BY DEF Assignment
    <2>2. /\ rewardOf' \in [Account -> Amount \union {0}]
          /\ ticketOf' \in [Account -> Ticket \union {0}]
          /\ assignedTicket' \subseteq Ticket
        BY <1>1, <2>1 DEF assign, TypeOK
    <2>3. /\ totalAssigned' \in 0..MaxTickets /\ totalAssignedValue' \in Nat
          /\ oneDollarAssigned' \in 0..MaxSmall /\ tenDollarAssigned' \in 0..MaxLarge
        BY <1>0, <1>1, <2>1 DEF assign, InStock, TypeOK, Amount
    <2> QED BY <1>1, <2>2, <2>3 DEF assign, TypeOK, claims, office, signatures
<1>2. ASSUME NEW a \in Assignment, Sign(a) PROVE TypeOK'
    <2>1. [key |-> rewardSigner, statement |-> a] \in [key : Signer, statement : Assignment]
        BY DEF TypeOK
    <2>2. signed' \subseteq [key : Signer, statement : Assignment] /\ thisTerm' \subseteq signed'
        BY <1>2, <2>1 DEF Sign, TypeOK
    <2> QED BY <1>2, <2>2 DEF Sign, TypeOK, assignments, claims, office
<1>3. ASSUME NEW r \in Account, claim(r) PROVE TypeOK'
    <2>1. rewardOf[r] \in Nat
        BY <1>0 DEF TypeOK, Amount
    <2>2. /\ totalClaimed' \in Nat /\ totalClaimedValue' \in Nat /\ balance' \in Nat
          /\ wallet' \in [Account -> Nat] /\ claimed' \subseteq Account
        BY <1>3, <2>1 DEF claim, TypeOK
    <2> QED BY <1>3, <2>2 DEF claim, TypeOK, assignments, office, signatures
<1>4. ASSUME NEW p \in BOOLEAN, setPaused(p) PROVE TypeOK'
    BY <1>4 DEF setPaused, TypeOK, assignments, claims, office, signatures
<1>5. ASSUME NEW k \in Signer, setRewardSigner(k) PROVE TypeOK'
    BY <1>5 DEF setRewardSigner, TypeOK, assignments, claims
<1>6. ASSUME NEW amount \in Amount, Fund(amount) PROVE TypeOK'
    <2>1. received' \in Nat /\ balance' \in Nat
        BY <1>0, <1>6 DEF Fund, TypeOK, Amount
    <2> QED BY <1>6, <2>1 DEF Fund, TypeOK, assignments, claims, office, signatures
<1>7. CASE UNCHANGED vars
    BY <1>7 DEF vars, TypeOK, assignments, claims, office, signatures
<1> QED BY <1>1, <1>2, <1>3, <1>4, <1>5, <1>6, <1>7 DEF Next

(* Only an assignment and a claim touch the wallets' books.                *)
LEMMA CountedStep == IInv /\ [Next]_vars => Counted'
<1> SUFFICES ASSUME IInv, [Next]_vars PROVE Counted'
    OBVIOUS
<1>1. CASE UNCHANGED <<assignments, claims>>
    <2>1. Won(Small)' = Won(Small) /\ Won(Large)' = Won(Large)
        BY <1>1 DEF Won, assignments
    <2>2. Paid(Small)' = Paid(Small) /\ Paid(Large)' = Paid(Large)
        BY <1>1 DEF Paid, assignments, claims
    <2> QED BY <1>1, <2>1, <2>2 DEF IInv, Counted, assignments, claims
<1>2. ASSUME NEW a \in Assignment, Sign(a) PROVE UNCHANGED <<assignments, claims>>
    BY <1>2 DEF Sign
<1>3. ASSUME NEW p \in BOOLEAN, setPaused(p) PROVE UNCHANGED <<assignments, claims>>
    BY <1>3 DEF setPaused
<1>4. ASSUME NEW k \in Signer, setRewardSigner(k) PROVE UNCHANGED <<assignments, claims>>
    BY <1>4 DEF setRewardSigner
<1>5. ASSUME NEW amount \in Amount, Fund(amount) PROVE UNCHANGED <<assignments, claims>>
    BY <1>5 DEF Fund
<1>6. CASE UNCHANGED vars
    BY <1>1, <1>6 DEF vars
<1> QED BY <1>1, <1>2, <1>3, <1>4, <1>5, <1>6, AssignCounts, ClaimCounts DEF Next

(* An assignment is covered when it is made, a claim takes what it pays.   *)
LEMMA MoneyStep == IInv /\ [Next]_vars => Money'
<1> SUFFICES ASSUME IInv, [Next]_vars PROVE Money'
    OBVIOUS
<1> USE InventoryAssumption
<1>0. /\ balance \in Nat /\ received \in Nat /\ totalAssignedValue \in Nat
      /\ totalClaimedValue \in Nat /\ Small \in Nat /\ Large \in Nat
      /\ balance >= totalAssignedValue - totalClaimedValue
      /\ balance + totalClaimedValue = received
      /\ \A r \in Account : rewardOf[r] \in Nat
    BY DEF IInv, TypeOK, Money, Amount
<1>1. ASSUME NEW a \in Assignment, assign(a) PROVE Money'
    BY <1>0, <1>1 DEF assign, Funded, Money, claims, Assignment, Amount
<1>2. ASSUME NEW r \in Account, claim(r) PROVE Money'
    BY <1>0, <1>2 DEF claim, Money, assignments
<1>3. ASSUME NEW amount \in Amount, Fund(amount) PROVE Money'
    BY <1>0, <1>3 DEF Fund, Money, assignments, claims, Amount
<1>4. CASE UNCHANGED <<assignments, claims, balance, received>>
    BY <1>0, <1>4 DEF Money, assignments, claims
<1>5. ASSUME NEW a \in Assignment, Sign(a) PROVE Money'
    BY <1>4, <1>5 DEF Sign
<1>6. ASSUME NEW p \in BOOLEAN, setPaused(p) PROVE Money'
    BY <1>4, <1>6 DEF setPaused
<1>7. ASSUME NEW k \in Signer, setRewardSigner(k) PROVE Money'
    BY <1>4, <1>7 DEF setRewardSigner
<1>8. CASE UNCHANGED vars
    BY <1>4, <1>8 DEF vars
<1> QED BY <1>1, <1>2, <1>3, <1>5, <1>6, <1>7, <1>8 DEF Next

(* A ticket is new when it is assigned, and a wallet unpaid when it claims.*)
LEMMA PrizesStep == IInv /\ [Next]_vars => Prizes'
<1> SUFFICES ASSUME IInv, [Next]_vars PROVE Prizes'
    OBVIOUS
<1> USE InventoryAssumption
<1>0. /\ rewardOf \in [Account -> Nat] /\ ticketOf \in [Account -> Nat]
      /\ wallet \in [Account -> Nat] /\ claimed \subseteq Account
    BY DEF IInv, TypeOK, Amount, Ticket
<1>1. ASSUME NEW a \in Assignment, assign(a) PROVE Prizes'
    <2> DEFINE q == a.recipient
    <2>1. /\ q \in Account /\ a.ticketId \in Nat \ {0} /\ a.amount \in Nat \ {0}
          /\ rewardOf[q] = 0 /\ ticketOf[q] = 0 /\ q \notin claimed
          /\ a.ticketId \notin assignedTicket
        BY <1>1 DEF assign, Unassigned, Assignment, Ticket, Amount, IInv, Prizes
    <2>2. /\ rewardOf' = [rewardOf EXCEPT ![q] = a.amount]
          /\ ticketOf' = [ticketOf EXCEPT ![q] = a.ticketId]
          /\ assignedTicket' = assignedTicket \union {a.ticketId}
          /\ claimed' = claimed /\ wallet' = wallet
        BY <1>1 DEF assign, claims
    <2> HIDE DEF q
    <2>3. \A r \in Account : ticketOf'[r] # 0 => ticketOf'[r] \in assignedTicket'
        BY <1>0, <2>1, <2>2 DEF IInv, Prizes
    <2>4. /\ \A r \in Account : ticketOf'[r] = 0 <=> rewardOf'[r] = 0
          /\ \A r \in claimed' : rewardOf'[r] # 0
        BY <1>0, <2>1, <2>2 DEF IInv, Prizes
    <2>5. \A r, p \in Account : ticketOf'[r] # 0 /\ ticketOf'[r] = ticketOf'[p] => r = p
        BY <1>0, <2>1, <2>2 DEF IInv, Prizes, OnePrizeEach
    <2>6. \A r \in Account : wallet'[r] = IF r \in claimed' THEN rewardOf'[r] ELSE 0
        BY <1>0, <2>1, <2>2 DEF IInv, Prizes, OnePrizeEach
    <2> QED BY <2>3, <2>4, <2>5, <2>6 DEF Prizes, OnePrizeEach
<1>2. ASSUME NEW r \in Account, claim(r) PROVE Prizes'
    <2>1. /\ rewardOf[r] # 0 /\ r \notin claimed /\ claimed' = claimed \union {r}
          /\ wallet' = [wallet EXCEPT ![r] = @ + rewardOf[r]]
          /\ rewardOf' = rewardOf /\ ticketOf' = ticketOf /\ assignedTicket' = assignedTicket
        BY <1>2 DEF claim, Unpaid, assignments
    <2>2. wallet[r] + rewardOf[r] = rewardOf[r]
        BY <1>0, <2>1 DEF IInv, Prizes, OnePrizeEach
    <2>3. \A p \in Account : wallet'[p] = IF p \in claimed' THEN rewardOf'[p] ELSE 0
        BY <1>0, <2>1, <2>2 DEF IInv, Prizes, OnePrizeEach
    <2> QED BY <2>1, <2>3 DEF IInv, Prizes, OnePrizeEach
<1>3. CASE UNCHANGED <<assignments, claims>>
    BY <1>3 DEF IInv, Prizes, OnePrizeEach, assignments, claims
<1>4. ASSUME NEW a \in Assignment, Sign(a) PROVE Prizes'
    BY <1>3, <1>4 DEF Sign
<1>5. ASSUME NEW p \in BOOLEAN, setPaused(p) PROVE Prizes'
    BY <1>3, <1>5 DEF setPaused
<1>6. ASSUME NEW k \in Signer, setRewardSigner(k) PROVE Prizes'
    BY <1>3, <1>6 DEF setRewardSigner
<1>7. ASSUME NEW amount \in Amount, Fund(amount) PROVE Prizes'
    BY <1>3, <1>7 DEF Fund
<1>8. CASE UNCHANGED vars
    BY <1>3, <1>8 DEF vars
<1> QED BY <1>1, <1>2, <1>4, <1>5, <1>6, <1>7, <1>8 DEF Next

(* The epoch only grows, and it grows with every appointment.              *)
LEMMA SignaturesStep == IInv /\ [Next]_vars => Signatures'
<1> SUFFICES ASSUME IInv, [Next]_vars PROVE Signatures'
    OBVIOUS
<1> USE BoundAssumption
<1>0. /\ signerEpoch \in Nat
      /\ \A t \in signed : t.statement.signerEpoch \in Nat
      /\ \A t \in signed : t.statement.signerEpoch <= signerEpoch
      /\ \A t \in signed : t.statement.signerEpoch = signerEpoch => t \in thisTerm
    BY DEF IInv, TypeOK, Assignment, Signatures
<1>1. ASSUME NEW a \in Assignment, Sign(a) PROVE Signatures'
    <2> DEFINE t == [key |-> rewardSigner, statement |-> a]
    <2>1. /\ signed' = signed \union {t} /\ thisTerm' = thisTerm \union {t}
          /\ t.statement.signerEpoch = signerEpoch /\ signerEpoch' = signerEpoch
        BY <1>1 DEF Sign, office
    <2> HIDE DEF t
    <2> QED BY <1>0, <2>1 DEF Signatures
<1>2. ASSUME NEW k \in Signer, setRewardSigner(k) PROVE Signatures'
    <2>1. signed' = signed /\ signerEpoch' = signerEpoch + 1
        BY <1>2 DEF setRewardSigner
    <2> QED BY <1>0, <2>1 DEF Signatures
<1>3. CASE UNCHANGED <<office, signatures>>
    BY <1>0, <1>3 DEF Signatures, office, signatures
<1>4. ASSUME NEW a \in Assignment, assign(a) PROVE Signatures'
    BY <1>3, <1>4 DEF assign
<1>5. ASSUME NEW r \in Account, claim(r) PROVE Signatures'
    BY <1>3, <1>5 DEF claim
<1>6. ASSUME NEW p \in BOOLEAN, setPaused(p) PROVE Signatures'
    BY <1>3, <1>6 DEF setPaused
<1>7. ASSUME NEW amount \in Amount, Fund(amount) PROVE Signatures'
    BY <1>3, <1>7 DEF Fund
<1>8. CASE UNCHANGED vars
    BY <1>3, <1>8 DEF vars
<1> QED BY <1>1, <1>2, <1>4, <1>5, <1>6, <1>7, <1>8 DEF Next

LEMMA Inductive == Spec => []IInv
<1>1. IInv /\ [Next]_vars => IInv'
    BY TypeStep, CountedStep, MoneyStep, PrizesStep, SignaturesStep DEF IInv
<1> QED BY InitIInv, <1>1, PTL DEF Spec

-----------------------------------------------------------------------------
(* The contract's variables keep their types: in particular neither        *)
(* inventory is ever overdrawn.                                            *)
THEOREM TypeCorrect == Spec => []TypeOK
<1>1. IInv => TypeOK
    BY DEF IInv
<1> QED BY Inductive, <1>1, PTL

(* However assignments, claims, funding, pauses and replacements of the    *)
(* signer interleave, every prize assigned can be paid, and the lifetime   *)
(* payout is bounded by the inventory.                                     *)
THEOREM PrizesArePayable == Spec => []Solvent
<1>1. IInv => Solvent
    <2> SUFFICES ASSUME IInv PROVE Solvent
        OBVIOUS
    <2> USE InventoryAssumption
    <2>1. /\ balance \in Nat /\ totalAssignedValue \in Nat /\ totalClaimedValue \in Nat
          /\ \A r \in Account : rewardOf[r] \in Nat
        BY DEF IInv, TypeOK, Amount
    <2>2. \A r \in Account \ claimed : balance >= rewardOf[r]
        BY <2>1, Outstanding DEF IInv, Money
    <2>3. totalAssignedValue <= MaxLifetimePayout
        <3>1. /\ oneDollarAssigned \in Nat /\ oneDollarAssigned <= MaxSmall
              /\ tenDollarAssigned \in Nat /\ tenDollarAssigned <= MaxLarge
              /\ totalAssignedValue = oneDollarAssigned * Small + tenDollarAssigned * Large
            BY DEF IInv, TypeOK, Counted
        <3>2. /\ oneDollarAssigned * Small <= MaxSmall * Small
              /\ tenDollarAssigned * Large <= MaxLarge * Large
            BY <3>1, WorthMore
        <3>3. /\ oneDollarAssigned * Small \in Nat /\ MaxSmall * Small \in Nat
              /\ tenDollarAssigned * Large \in Nat /\ MaxLarge * Large \in Nat
            BY <3>1, OneMore
        <3> QED BY <3>1, <3>2, <3>3 DEF MaxLifetimePayout
    <2> QED BY <2>2, <2>3 DEF IInv, Money, Solvent
<1> QED BY Inductive, <1>1, PTL

(* No two wallets share a ticket, and no wallet is paid twice.             *)
THEOREM OnePrizePerWallet == Spec => []OnePrizeEach
<1>1. IInv => OnePrizeEach
    BY DEF IInv, Prizes
<1> QED BY Inductive, <1>1, PTL

(* The counters are the sums over the wallets, so assign and claim never   *)
(* reach a failing assert.                                                 *)
THEOREM AssertsHold == Spec => []BooksBalance
<1>1. IInv => BooksBalance
    <2> SUFFICES ASSUME IInv PROVE BooksBalance
        OBVIOUS
    <2> USE InventoryAssumption
    <2> DEFINE pS == Cardinality(Paid(Small))
               pL == Cardinality(Paid(Large))
    <2>1. /\ pS \in Nat /\ pL \in Nat /\ pS <= oneDollarAssigned /\ pL <= tenDollarAssigned
          /\ oneDollarAssigned \in Nat /\ tenDollarAssigned \in Nat
          /\ totalAssigned = oneDollarAssigned + tenDollarAssigned
          /\ totalAssignedValue = oneDollarAssigned * Small + tenDollarAssigned * Large
          /\ totalClaimed = pS + pL /\ totalClaimedValue = pS * Small + pL * Large
        BY PaidWithinWon DEF IInv, TypeOK, Counted
    <2> HIDE DEF pS, pL
    <2>2. pS * Small <= oneDollarAssigned * Small /\ pL * Large <= tenDollarAssigned * Large
        BY <2>1, WorthMore
    <2> QED BY <2>1, <2>2, OneMore DEF BooksBalance
<1> QED BY Inductive, <1>1, PTL

(* A replaced signer's statements never assign a prize.                    *)
THEOREM OldSignaturesAreVoid == Spec => AssignedInTerm
<1> DEFINE InTerm ==
       \A r \in Account : rewardOf'[r] # rewardOf[r] =>
          \E t \in thisTerm : /\ t.key = rewardSigner
                              /\ t.statement.recipient = r
                              /\ t.statement.ticketId = ticketOf'[r]
                              /\ t.statement.amount = rewardOf'[r]
<1>1. ASSUME IInv, NEW a \in Assignment, assign(a) PROVE InTerm
    <2> DEFINE t == [key |-> rewardSigner, statement |-> a]
    <2>1. t \in thisTerm
        BY <1>1 DEF assign, Authorized, IInv, Signatures
    <2>2. /\ rewardOf' = [rewardOf EXCEPT ![a.recipient] = a.amount]
          /\ ticketOf' = [ticketOf EXCEPT ![a.recipient] = a.ticketId]
          /\ DOMAIN rewardOf = Account /\ DOMAIN ticketOf = Account
        BY <1>1 DEF assign, IInv, TypeOK
    <2>3. ASSUME NEW r \in Account, rewardOf'[r] # rewardOf[r]
          PROVE  r = a.recipient /\ ticketOf'[r] = a.ticketId /\ rewardOf'[r] = a.amount
        BY <2>2, <2>3
    <2> QED BY <2>1, <2>3
<1>2. ASSUME IInv, [Next]_vars PROVE InTerm \/ UNCHANGED vars
    <2>1. CASE UNCHANGED rewardOf
        BY <2>1
    <2>2. ASSUME NEW a \in Assignment, Sign(a) PROVE UNCHANGED rewardOf
        BY <2>2 DEF Sign, assignments
    <2>3. ASSUME NEW r \in Account, claim(r) PROVE UNCHANGED rewardOf
        BY <2>3 DEF claim, assignments
    <2>4. ASSUME NEW p \in BOOLEAN, setPaused(p) PROVE UNCHANGED rewardOf
        BY <2>4 DEF setPaused, assignments
    <2>5. ASSUME NEW k \in Signer, setRewardSigner(k) PROVE UNCHANGED rewardOf
        BY <2>5 DEF setRewardSigner, assignments
    <2>6. ASSUME NEW amount \in Amount, Fund(amount) PROVE UNCHANGED rewardOf
        BY <2>6 DEF Fund, assignments
    <2> HIDE DEF InTerm
    <2> QED BY <1>1, <1>2, <2>1, <2>2, <2>3, <2>4, <2>5, <2>6 DEF Next
<1>3. IInv /\ [Next]_vars => [InTerm]_vars
    BY <1>2
<1> QED BY Inductive, <1>3, PTL DEF Spec, AssignedInTerm

-----------------------------------------------------------------------------
(* The payout of own fees                                                  *)

LockedMonths == {m \in Month : Locked(m)}
\* No transaction has a nonce that neither another transaction of the owners
\* nor a locked month made room for.
Used == MaxNonce + Cardinality(LockedMonths)

PayoutPc == {"off", "reconcile", "pay", "accrue", "balance", "reserve", "propose", "submit",
             "send", "sent"}
Row == [status : PROPOSED_STATUSES \cup {"none", "no_recipients", "computed"},
        owed : 0..MaxOwed, hash : Proposal \cup {NoTx}, paid : BOOLEAN]
Execution == [tx : Proposal, ok : BOOLEAN]
Run == [pc : PayoutPc, todo : SUBSET Month, month : Month, known : SUBSET Execution,
        balance : 0..MaxFunds, remaining : 0..MaxFunds, nonce : Int, sent : SUBSET Proposal]

PayoutTypes ==
    /\ month \in Month /\ batch \in [Month -> Row] /\ run \in Run
    /\ pollers \subseteq queue /\ paying \subseteq Month
    /\ wire \subseteq Proposal /\ queue \subseteq Proposal /\ mined \subseteq Execution
    /\ \A e \in mined : e.tx \in queue
    /\ weth \in 0..MaxFunds /\ nonce \in Nat /\ faults \in 0..MaxFaults /\ slipped \in Nat
    /\ IsFiniteSet(wire) /\ IsFiniteSet(queue) /\ IsFiniteSet(mined)

(* The Safe executes a proposal once, at its nonce.                        *)
SafeInv ==
    /\ \A e \in mined : e.tx.nonce < nonce
    /\ \A e, f \in mined : e.tx = f.tx => e = f

NonceInv == nonce <= Used /\ \A tx \in wire \cup queue : tx.nonce < Used

(* What a poller waits to record is about the row's own proposal, and that *)
(* is one for the row's month.                                             *)
RecordInv ==
    /\ \A tx \in pollers : batch[tx.month].hash = tx
    /\ \A m \in paying : batch[m].status = "executed"
    /\ \A m \in Month : batch[m].hash # NoTx => batch[m].hash.month = m

(* What a run plans to propose is still computed, the batch it is at is    *)
(* proposing once it was marked, and the service knows of no other         *)
(* proposal for it.                                                        *)
PlanInv ==
    /\ run.pc \in {"balance", "reserve", "propose", "submit"} => run.todo \subseteq Payable
    /\ run.pc \in {"submit", "send", "sent"} =>
          run.todo # {} /\ batch[Oldest].owed <= run.remaining /\ run.nonce \in Nat
    /\ run.pc \in {"send", "sent"} =>
          /\ Others \subseteq Payable /\ batch[Oldest].status = "proposing" /\ batch[Oldest].owed > 0
          /\ \A tx \in pollers : tx.month # Oldest
    /\ At("send") => \A tx \in wire \cup queue : tx.month # Oldest
    /\ At("sent") => \A tx \in wire \cup queue : tx.month = Oldest => tx = Submission

(* A run that has proposed something goes on with the next nonce.          *)
SentInv ==
    /\ \A tx, u \in run.sent : tx.nonce = u.nonce => tx = u
    /\ run.pc \in {"propose", "submit", "send"} => \A tx \in run.sent : tx.nonce < run.nonce
    /\ At("sent") => \A tx \in run.sent : tx.nonce < run.nonce \/ tx = Submission
    /\ run.pc \in {"propose", "submit"} => run.nonce <= Used /\ run.nonce >= -1
    /\ run.pc \in {"send", "sent"} => run.nonce < Used
    /\ run.pc \in {"off", "reconcile", "pay", "accrue", "balance", "reserve"} => run.sent = {} /\ run.nonce = -1

RunInv == (At("pay") => batch[run.month].status = "executed") /\ PlanInv /\ SentInv

OwnFeeIInv ==
    /\ PayoutTypes /\ ProposedOnce /\ BooksFollowChain
    /\ SafeInv /\ NonceInv /\ RecordInv /\ RunInv

(* What was executed since the run read the balance: the over-draw guard   *)
(* holds because what a run may still promise, with everything that is     *)
(* queued, is within what the Safe held then.                              *)
Since == {e.tx : e \in {x \in mined \ run.known : x.ok}}
FundsInv ==
    /\ QueueIsFunded
    /\ At("reserve") => run.known \subseteq mined /\ run.balance <= weth + Total(Since)
    /\ run.pc \in {"propose", "submit", "send"} => Total(Live) + run.remaining <= weth + slipped
    /\ At("sent") => Total(Live) + run.remaining <= weth + slipped + batch[Oldest].owed

-----------------------------------------------------------------------------
(* Facts about one state                                                   *)

LEMMA Bounds ==
    /\ MaxMonth \in Nat \ {0} /\ MaxOwed \in Nat /\ MaxFunds \in Nat /\ MaxNonce \in Nat
    /\ MaxFaults \in Nat /\ 1 \in Month /\ Month \subseteq Nat /\ IsFiniteSet(Month)
<1>1. MaxMonth \in Nat \ {0} /\ MaxOwed \in Nat /\ MaxFunds \in Nat /\ MaxNonce \in Nat /\ MaxFaults \in Nat
    BY OwnFeeAssumption
<1>2. IsFiniteSet(1..MaxMonth)
    BY <1>1, FS_Interval
<1> QED BY <1>1, <1>2 DEF Month

(* The fields of the run, of a row and of a proposal.                      *)
LEMMA RunFacts ==
    ASSUME PayoutTypes
    PROVE  /\ run.pc \in PayoutPc /\ run.todo \subseteq Month /\ run.month \in Month
           /\ run.known \subseteq Execution /\ run.balance \in 0..MaxFunds
           /\ run.remaining \in 0..MaxFunds /\ run.nonce \in Int /\ run.sent \subseteq Proposal
BY DEF PayoutTypes, Run

LEMMA RowFacts ==
    ASSUME PayoutTypes, NEW m \in Month
    PROVE  /\ batch[m].status \in PROPOSED_STATUSES \cup {"none", "no_recipients", "computed"}
           /\ batch[m].owed \in 0..MaxOwed /\ batch[m].hash \in Proposal \cup {NoTx}
           /\ batch[m].paid \in BOOLEAN
BY DEF PayoutTypes, Row

LEMMA ProposalFacts ==
    ASSUME NEW tx \in Proposal
    PROVE  tx.month \in Month /\ tx.amount \in 1..MaxOwed /\ tx.nonce \in Nat
<1>1. tx.nonce \in 0..(MaxNonce + MaxMonth)
    BY DEF Proposal
<1> QED BY <1>1 DEF Proposal

(* The batch a run is at is the first of those it has left.                *)
LEMMA OldestFacts ==
    ASSUME PayoutTypes, run.todo # {}
    PROVE  Oldest \in run.todo /\ Oldest \in Month /\ Others \subseteq run.todo /\ Oldest \notin Others
<1>1. run.todo \subseteq Nat
    BY RunFacts, Bounds
<1>2. Min(run.todo) \in run.todo
    BY <1>1, MinIsIn
<1> QED BY <1>2, RunFacts DEF Oldest, Others

(* No nonce is beyond what the months left to propose may still use.       *)
LEMMA UsedFacts ==
    PayoutTypes => /\ Used \in Nat /\ Used <= MaxNonce + MaxMonth
                   /\ \A m \in Month : ~ Locked(m) => Used < MaxNonce + MaxMonth
<1> SUFFICES ASSUME PayoutTypes
             PROVE  /\ Used \in Nat /\ Used <= MaxNonce + MaxMonth
                    /\ \A m \in Month : ~ Locked(m) => Used < MaxNonce + MaxMonth
    OBVIOUS
<1>1. IsFiniteSet(Month) /\ Cardinality(Month) = MaxMonth
    BY Bounds, FS_Interval DEF Month
<1>2. LockedMonths \in SUBSET Month
    BY DEF LockedMonths
<1>3. Cardinality(LockedMonths) \in Nat /\ Cardinality(LockedMonths) <= MaxMonth
    BY <1>1, <1>2, FS_Subset, FS_CardinalityType
<1>4. ASSUME NEW m \in Month, ~ Locked(m) PROVE Cardinality(LockedMonths) < MaxMonth
    <2>2. LockedMonths # Month
        BY <1>4 DEF LockedMonths
    <2>1. Cardinality(LockedMonths) # Cardinality(Month)
        BY <1>1, <1>2, <2>2, FS_Subset
    <2> QED BY <1>1, <1>3, <2>1, Bounds
<1> QED BY <1>3, <1>4, Bounds DEF Used

-----------------------------------------------------------------------------
(* What most steps keep                                                    *)

(* A locked row stays locked, with what it owes.                           *)
RowsAdvance == \A m \in Month : Locked(m) => Locked(m)' /\ batch'[m].owed = batch[m].owed

LEMMA OnceKept ==
    ASSUME PayoutTypes, ProposedOnce, RowsAdvance, wire' \cup queue' \subseteq wire \cup queue
    PROVE  ProposedOnce'
<1>1. \A tx \in wire \cup queue : tx.month \in Month
    BY ProposalFacts DEF PayoutTypes
<1> QED BY <1>1 DEF ProposedOnce, RowsAdvance

LEMMA BooksKept ==
    ASSUME BooksFollowChain, UNCHANGED batch, mined \subseteq mined'
    PROVE  BooksFollowChain'
BY DEF BooksFollowChain, Result

LEMMA UsedGrows ==
    ASSUME PayoutTypes, PayoutTypes', RowsAdvance
    PROVE  Used <= Used' /\ Used \in Nat /\ Used' \in Nat
<1>1. LockedMonths \subseteq LockedMonths' /\ LockedMonths' \in SUBSET Month
    BY DEF LockedMonths, RowsAdvance
<1>2. IsFiniteSet(LockedMonths')
    BY <1>1, Bounds, FS_Subset
<1>3. Cardinality(LockedMonths) <= Cardinality(LockedMonths')
    BY <1>1, <1>2, FS_Subset
<1>4. Cardinality(LockedMonths) \in Nat /\ Cardinality(LockedMonths') \in Nat
    <2>1. IsFiniteSet(LockedMonths)
        BY <1>1, <1>2, FS_Subset
    <2> QED BY <1>2, <2>1, FS_CardinalityType
<1> QED BY <1>3, <1>4, Bounds DEF Used

LEMMA NonceKept ==
    ASSUME PayoutTypes, PayoutTypes', RowsAdvance, NonceInv,
           nonce' = nonce, wire' \cup queue' \subseteq wire \cup queue
    PROVE  NonceInv'
<1>1. \A tx \in wire \cup queue : tx.nonce \in Nat
    BY ProposalFacts DEF PayoutTypes
<1>2. nonce \in Nat
    BY DEF PayoutTypes
<1> QED BY <1>1, <1>2, UsedGrows DEF NonceInv

LEMMA NoRunFits == ASSUME run' = NoRun PROVE RunInv' /\ run' \in Run
BY Bounds DEF NoRun, RunInv, PlanInv, SentInv, At, Run, PayoutPc

(* A step of the others leaves the run's plan alone.                       *)
LEMMA RunKept ==
    ASSUME PayoutTypes, PayoutTypes', RowsAdvance, RunInv,
           run' = run, pollers' \subseteq pollers, wire' \cup queue' \subseteq wire \cup queue,
           At("pay") => batch'[run.month].status = batch[run.month].status,
           \A m \in Payable : batch'[m] = batch[m],
           run.pc \in {"send", "sent"} => batch'[Oldest] = batch[Oldest]
    PROVE  RunInv'
<1>1. Payable \subseteq Payable'
    BY DEF Payable
<1>2. Used <= Used' /\ Used \in Nat /\ Used' \in Nat /\ run.nonce \in Int
    BY UsedGrows, RunFacts
<1>3. Oldest' = Oldest /\ Others' = Others
    BY DEF Oldest, Others
<1>4. ASSUME run.pc \in {"submit", "send", "sent"} PROVE batch'[Oldest] = batch[Oldest]
    <2>1. Oldest \in run.todo
        BY <1>4, OldestFacts DEF RunInv, PlanInv
    <2> QED BY <1>4, <2>1 DEF RunInv, PlanInv
<1>5. PlanInv'
    BY <1>1, <1>2, <1>3, <1>4 DEF RunInv, PlanInv, At, Submission
<1>6. SentInv'
    <2>1. At("sent") => Submission' = Submission
        BY <1>3, <1>4 DEF Submission, At
    <2>2. run.pc \in {"propose", "submit"} => run.nonce <= Used'
        BY <1>2 DEF RunInv, SentInv
    <2>3. run.pc \in {"send", "sent"} => run.nonce < Used'
        BY <1>2 DEF RunInv, SentInv
    <2> QED BY <2>1, <2>2, <2>3 DEF RunInv, SentInv, At
<1> QED BY <1>5, <1>6 DEF RunInv, At

-----------------------------------------------------------------------------
(* The run alone moves                                                     *)

LEMMA RunStep ==
    ASSUME OwnFeeIInv, UNCHANGED <<ledger, pollers, paying, service, safe>>,
           run' \in Run, faults' \in 0..MaxFaults, slipped' \in Nat, RunInv'
    PROVE  OwnFeeIInv'
<1>1. PayoutTypes'
    BY DEF OwnFeeIInv, PayoutTypes, ledger, service, safe
<1>2. RowsAdvance
    BY DEF RowsAdvance, Locked, ledger
<1>3. ProposedOnce' /\ BooksFollowChain' /\ NonceInv'
    BY <1>1, <1>2, OnceKept, BooksKept, NonceKept DEF OwnFeeIInv, ledger, service, safe
<1>4. SafeInv' /\ RecordInv'
    BY DEF OwnFeeIInv, SafeInv, RecordInv, ledger, service, safe
<1> QED BY <1>1, <1>3, <1>4 DEF OwnFeeIInv

LEMMA GoesFacts ==
    ASSUME PayoutTypes, NEW pc \in PayoutPc, NEW todo \in SUBSET Month, Goes(pc, todo)
    PROVE  /\ run' \in Run /\ run'.pc = pc /\ run'.todo = todo /\ run'.month = run.month
           /\ run'.known = run.known /\ run'.balance = run.balance /\ run'.remaining = run.remaining
           /\ run'.nonce = run.nonce /\ run'.sent = run.sent
BY DEF Goes, PayoutTypes, Run

(* A run that plans nothing has nothing to keep but that.                  *)
LEMMA QuietRun ==
    ASSUME run'.pc \in {"off", "reconcile", "accrue"}, run'.sent = {}, run'.nonce = -1
    PROVE  RunInv'
BY DEF RunInv, PlanInv, SentInv, At

LEMMA NightStep == ASSUME OwnFeeIInv, Night PROVE OwnFeeIInv'
<1>1. run' = [pc |-> "reconcile", todo |-> Open, month |-> 1, known |-> {}, balance |-> 0,
              remaining |-> 0, nonce |-> -1, sent |-> {}]
    BY DEF Night, NoRun
<1>2. RunInv'
    BY <1>1, QuietRun
<1>3. run' \in Run
    <2>1. Open \in SUBSET Month
        BY DEF Open, Queued
    <2> HIDE DEF Open
    <2> QED BY <1>1, <2>1, Bounds DEF Run, PayoutPc
<1> QED BY <1>2, <1>3, RunStep DEF Night, history, OwnFeeIInv, PayoutTypes

LEMMA ReconcileStep ==
    ASSUME OwnFeeIInv, EntriesFail \/ MonthlySection \/ SelectPayable \/ \E m \in Month : LeavesOpen(m)
    PROVE  OwnFeeIInv'
<1>1. faults' \in 0..MaxFaults /\ slipped' \in Nat
    <2>1. faults \in 0..MaxFaults /\ slipped \in Nat /\ MaxFaults \in Nat
        BY Bounds DEF OwnFeeIInv, PayoutTypes
    <2>2. faults < MaxFaults => faults + 1 \in 0..MaxFaults
        BY <2>1
    <2> QED BY <2>1, <2>2 DEF EntriesFail, MonthlySection, SelectPayable, LeavesOpen, history
<1>2. run.todo \subseteq Month /\ PayoutTypes
    BY RunFacts DEF OwnFeeIInv
<1>3. UNCHANGED <<ledger, pollers, paying, service, safe>>
    BY DEF EntriesFail, MonthlySection, SelectPayable, LeavesOpen
<1>4. run.pc \in {"reconcile", "pay", "accrue"} => run.sent = {} /\ run.nonce = -1
    BY DEF OwnFeeIInv, RunInv, SentInv
<1>5. CASE run' = NoRun
    BY <1>1, <1>3, <1>5, NoRunFits, RunStep
<1>6. ASSUME EntriesFail \/ \E m \in Month : LeavesOpen(m) PROVE RunInv' /\ run' \in Run
    <2>1. PICK todo \in SUBSET Month : Goes("reconcile", todo) /\ run.pc \in {"reconcile", "pay"}
        BY <1>2, <1>6 DEF EntriesFail, LeavesOpen, At
    <2> QED BY <1>2, <1>4, <2>1, GoesFacts, QuietRun DEF PayoutPc
<1>7. ASSUME MonthlySection, run' # NoRun PROVE RunInv' /\ run' \in Run
    <2>1. Goes("accrue", settledMonthsToAccrue) /\ run.pc = "reconcile"
        BY <1>7 DEF MonthlySection, At
    <2>2. settledMonthsToAccrue \in SUBSET Month
        <3>1. month \in 1..MaxMonth /\ MaxMonth \in Nat
            BY <1>2, Bounds DEF PayoutTypes, Month
        <3>2. \A m \in 1..month : m \in 1..MaxMonth
            BY <3>1
        <3> QED BY <3>2 DEF settledMonthsToAccrue, Month
    <2> HIDE DEF settledMonthsToAccrue
    <2> QED BY <1>2, <1>4, <2>1, <2>2, GoesFacts, QuietRun DEF PayoutPc
<1>8. ASSUME SelectPayable, run' # NoRun PROVE RunInv' /\ run' \in Run
    <2>1. Goes("balance", Payable) /\ run.pc = "accrue" /\ Payable' = Payable
        BY <1>8 DEF SelectPayable, At, Payable, ledger
    <2>2. Payable \in SUBSET Month
        BY DEF Payable
    <2> HIDE DEF Payable
    <2>3. run' \in Run /\ run'.pc = "balance" /\ run'.todo = Payable /\ run'.sent = {} /\ run'.nonce = -1
        BY <1>2, <1>4, <2>1, <2>2, GoesFacts DEF PayoutPc
    <2> QED BY <2>1, <2>3 DEF RunInv, PlanInv, SentInv, At
<1> QED BY <1>1, <1>3, <1>5, <1>6, <1>7, <1>8, RunStep

(* The months that a plan leaves are still computed.                       *)
LEMMA PlanFacts ==
    ASSUME OwnFeeIInv
    PROVE  /\ run.pc \in {"balance", "reserve", "propose", "submit"} => run.todo \subseteq Payable
           /\ run.pc \in {"propose", "submit", "send", "sent"} /\ run.todo # {} => Others \subseteq Payable
<1>1. run.pc \in {"balance", "reserve", "propose", "submit"} => run.todo \subseteq Payable
    BY DEF OwnFeeIInv, RunInv, PlanInv
<1>2. run.pc \in {"send", "sent"} => Others \subseteq Payable
    BY DEF OwnFeeIInv, RunInv, PlanInv
<1>3. Others \subseteq run.todo
    BY DEF Others
<1> QED BY <1>1, <1>2, <1>3

LEMMA SentOnce == OwnFeeIInv => \A tx, u \in run.sent : tx.nonce = u.nonce => tx = u
BY DEF OwnFeeIInv, RunInv, SentInv

LEMMA ReadBalanceStep == ASSUME OwnFeeIInv, ReadBalance PROVE OwnFeeIInv'
<1>1. PayoutTypes
    BY DEF OwnFeeIInv
<1>2. /\ run'.pc = "reserve" /\ run'.todo = run.todo /\ run'.sent = run.sent /\ run'.nonce = run.nonce
      /\ run' \in Run
    <2>1. run' = [run EXCEPT !.pc = "reserve", !.balance = weth, !.known = mined]
        BY DEF ReadBalance
    <2>2. weth \in 0..MaxFunds /\ mined \in SUBSET Execution /\ run \in Run
        BY <1>1 DEF PayoutTypes
    <2> QED BY <2>1, <2>2 DEF Run, PayoutPc
<1>3. Payable' = Payable
    BY DEF ReadBalance, Payable, ledger
<1>4. RunInv'
    BY <1>2, <1>3 DEF OwnFeeIInv, RunInv, PlanInv, SentInv, At, ReadBalance
<1> QED BY <1>1, <1>2, <1>4, RunStep DEF ReadBalance, history, PayoutTypes

(* Everything that is added up is a natural number.                        *)
LEMMA TotalIsNat ==
    ASSUME NEW txs, IsFiniteSet(txs), txs \subseteq Proposal
    PROVE  Total(txs) \in Nat
<1> DEFINE f == [tx \in txs |-> tx.amount]
<1>1. \A tx \in txs : f[tx] \in Nat
    <2>1. \A tx \in txs : f[tx] = tx.amount /\ tx.amount \in 1..MaxOwed
        BY ProposalFacts
    <2> QED BY <2>1, Bounds
<1> HIDE DEF f
<1>2. SumFunctionOnSet(f, txs) \in Nat
    BY <1>1, SumIsNat
<1> QED BY <1>2 DEF Total, f

LEMMA SumOwedIsNat == ASSUME PayoutTypes, NEW S \in SUBSET Month PROVE Sum(S) \in Nat
<1> DEFINE f == [m \in S |-> batch[m].owed]
<1>1. \A m \in S : f[m] \in Nat
    <2>1. \A m \in S : f[m] = batch[m].owed /\ batch[m].owed \in 0..MaxOwed
        BY RowFacts
    <2> QED BY <2>1, Bounds
<1>2. IsFiniteSet(S)
    BY Bounds, FS_Subset
<1> HIDE DEF f
<1>3. SumFunctionOnSet(f, S) \in Nat
    BY <1>1, <1>2, SumIsNat
<1> QED BY <1>3 DEF Sum, f

(* What was executed since the balance was read.                           *)
LEMMA BookedFacts ==
    ASSUME PayoutTypes, NEW E, E \subseteq mined
    PROVE  /\ {e.tx : e \in E} \subseteq queue /\ {e.tx : e \in E} \subseteq Proposal
           /\ IsFiniteSet({e.tx : e \in E}) /\ Total({e.tx : e \in E}) \in Nat
<1>1. {e.tx : e \in E} \subseteq queue
    BY DEF PayoutTypes
<1>2. IsFiniteSet({e.tx : e \in E}) /\ {e.tx : e \in E} \subseteq Proposal
    BY <1>1, FS_Subset DEF PayoutTypes
<1> QED BY <1>1, <1>2, TotalIsNat

LEMMA ReadReserveStep == ASSUME OwnFeeIInv, ReadReserve PROVE OwnFeeIInv'
<1>1. PayoutTypes /\ run.pc = "reserve"
    BY DEF OwnFeeIInv, ReadReserve, At
<1> DEFINE left == IF run.balance > reservedForQueued THEN run.balance - reservedForQueued ELSE 0
<1>2. left \in 0..MaxFunds
    <2>1. Queued \in SUBSET Month
        BY DEF Queued
    <2>2. reservedForQueued \in Nat
        BY <1>1, <2>1, SumOwedIsNat DEF reservedForQueued
    <2> QED BY <1>1, <2>2, RunFacts, Bounds
<1> HIDE DEF left
<1>3. run' = [run EXCEPT !.pc = "propose", !.balance = 0, !.known = {}, !.remaining = left]
    BY DEF ReadReserve, left
<1>4. /\ run'.pc = "propose" /\ run'.todo = run.todo /\ run'.sent = run.sent /\ run'.nonce = run.nonce
      /\ run' \in Run
    <2>1. run \in Run /\ 0 \in 0..MaxFunds
        BY <1>1, Bounds DEF PayoutTypes
    <2> QED BY <1>2, <1>3, <2>1 DEF Run, PayoutPc
<1>5. slipped' \in Nat
    <2> DEFINE E == {x \in mined \ run.known : x.ok /\ x.tx.month \notin Queued}
    <2>1. E \subseteq mined
        OBVIOUS
    <2>2. slipped' = slipped + Total({e.tx : e \in E}) /\ slipped \in Nat
        BY <1>1 DEF ReadReserve, PayoutTypes
    <2> HIDE DEF E
    <2>3. Total({e.tx : e \in E}) \in Nat
        BY <1>1, <2>1, BookedFacts
    <2> QED BY <2>2, <2>3
<1>6. Payable' = Payable /\ Used' \in Nat
    <2>1. LockedMonths' = LockedMonths /\ Payable' = Payable
        BY DEF ReadReserve, Payable, ledger, LockedMonths, Locked
    <2> QED BY <1>1, <2>1, UsedFacts DEF Used
<1>7. RunInv'
    <2>1. run.sent = {} /\ run.nonce = -1 /\ run.todo \subseteq Payable
        BY <1>1 DEF OwnFeeIInv, RunInv, PlanInv, SentInv
    <2> QED BY <1>4, <1>6, <2>1 DEF RunInv, PlanInv, SentInv, At
<1>8. faults' \in 0..MaxFaults
    BY <1>1 DEF ReadReserve, PayoutTypes
<1> QED BY <1>4, <1>5, <1>7, <1>8, RunStep DEF ReadReserve

-----------------------------------------------------------------------------
(* The run proposes                                                        *)

(* A batch is passed over.                                                 *)
LEMMA PassedOver == ASSUME OwnFeeIInv, Blocked \/ PresubmitFails PROVE OwnFeeIInv'
<1>1. PayoutTypes /\ run.pc \in {"propose", "submit"} /\ run.todo # {}
    BY DEF OwnFeeIInv, Blocked, PresubmitFails, At, RunInv, PlanInv
<1>2. Goes("propose", Others) /\ Others \in SUBSET Month /\ Others \subseteq Payable
    BY <1>1, RunFacts, OldestFacts, PlanFacts DEF Blocked, PresubmitFails
<1>3. UNCHANGED <<ledger, pollers, paying, service, safe, faults, slipped>>
    BY DEF Blocked, PresubmitFails, history
<1>4. /\ run'.pc = "propose" /\ run'.todo = Others /\ run'.sent = run.sent /\ run'.nonce = run.nonce
      /\ run' \in Run
    <2> HIDE DEF Others
    <2> QED BY <1>1, <1>2, GoesFacts DEF PayoutPc
<1>5. Payable' = Payable /\ Used' = Used
    BY <1>3 DEF Payable, ledger, Used, LockedMonths, Locked
<1>6. RunInv'
    <2>1. \A tx \in run.sent : tx.nonce < run.nonce
        BY <1>1 DEF OwnFeeIInv, RunInv, SentInv
    <2>2. run.nonce <= Used /\ run.nonce >= -1
        BY <1>1 DEF OwnFeeIInv, RunInv, SentInv
    <2> QED BY <1>2, <1>4, <1>5, <2>1, <2>2, SentOnce DEF RunInv, PlanInv, SentInv, At
<1> QED BY <1>1, <1>3, <1>4, <1>6, RunStep DEF PayoutTypes

(* The nonce that the service suggests is one that may be used.            *)
LEMMA NextNonceFacts ==
    ASSUME PayoutTypes, NonceInv
    PROVE  NextNonce \in Nat /\ NextNonce <= Used
<1> DEFINE S == {nonce} \cup {tx.nonce + 1 : tx \in queue}
<1>1. Used \in Nat /\ S # {}
    BY UsedFacts
<1>2. S \subseteq 0..Used
    <2>1. \A tx \in queue : tx.nonce \in Nat /\ tx.nonce < Used
        BY ProposalFacts DEF PayoutTypes, NonceInv
    <2>2. nonce \in Nat /\ nonce <= Used
        BY DEF PayoutTypes, NonceInv
    <2> QED BY <1>1, <2>1, <2>2
<1>3. NextNonce = Max(S)
    BY DEF NextNonce
<1> HIDE DEF S
<1>4. Max(S) \in S
    BY <1>1, <1>2, MaxIsIn
<1>5. NextNonce \in 0..Used
    BY <1>2, <1>3, <1>4, Zenon
<1> QED BY <1>1, <1>5

LEMMA PrepareStep == ASSUME OwnFeeIInv, Prepare PROVE OwnFeeIInv'
<1>1. PayoutTypes /\ run.pc = "propose" /\ run.todo # {} /\ batch[Oldest].owed <= run.remaining
    BY DEF OwnFeeIInv, Prepare, At
<1> DEFINE n == IF run.nonce = -1 THEN NextNonce ELSE run.nonce
<1>2. n \in Nat /\ n <= Used /\ \A tx \in run.sent : tx.nonce < n
    <2>1. run.nonce \in Int /\ run.nonce <= Used /\ run.nonce >= -1
        BY <1>1, RunFacts DEF OwnFeeIInv, RunInv, SentInv
    <2>2. \A tx \in run.sent : tx.nonce < run.nonce /\ tx.nonce \in Nat
        BY <1>1, RunFacts, ProposalFacts DEF OwnFeeIInv, RunInv, SentInv
    <2> QED BY <1>1, <2>1, <2>2, NextNonceFacts DEF OwnFeeIInv
<1>3. run' = [run EXCEPT !.pc = "submit", !.nonce = n]
    BY DEF Prepare
<1> HIDE DEF n
<1>4. /\ run'.pc = "submit" /\ run'.todo = run.todo /\ run'.sent = run.sent /\ run'.nonce = n
      /\ run'.remaining = run.remaining /\ run' \in Run
    <2>1. run \in Run /\ n \in Int
        BY <1>1, <1>2 DEF PayoutTypes
    <2> QED BY <1>3, <2>1 DEF Run, PayoutPc
<1>5. UNCHANGED <<ledger, pollers, paying, service, safe, faults, slipped>>
    BY DEF Prepare, history
<1>6. Payable' = Payable /\ Used' = Used /\ Oldest' = Oldest /\ batch' = batch
    BY <1>4, <1>5 DEF Payable, ledger, Used, LockedMonths, Locked, Oldest
<1>7. RunInv'
    <2>1. run.todo \subseteq Payable
        BY <1>1, PlanFacts
    <2>2. n >= -1
        BY <1>2
    <2> QED BY <1>1, <1>2, <1>4, <1>6, <2>1, <2>2, SentOnce DEF RunInv, PlanInv, SentInv, At
<1> QED BY <1>1, <1>4, <1>5, <1>7, RunStep DEF PayoutTypes

(* What a run has left, its nonce and its plan, after a proposal.          *)
LEMMA UsesFacts ==
    ASSUME OwnFeeIInv, At("sent")
    PROVE  /\ Uses \in Run /\ Uses.pc = "propose" /\ Uses.todo = Others /\ Uses.nonce = run.nonce + 1
           /\ Uses.sent = run.sent /\ Uses.remaining = run.remaining - batch[Oldest].owed
           /\ Others \subseteq Payable /\ run.nonce + 1 <= Used
           /\ \A tx \in run.sent : tx.nonce < run.nonce + 1
<1>1. PayoutTypes /\ run.pc = "sent" /\ run.todo # {} /\ run.nonce \in Nat
    BY DEF OwnFeeIInv, At, RunInv, PlanInv
<1>2. Oldest \in Month /\ Others \in SUBSET Month
    BY <1>1, OldestFacts, RunFacts
<1> DEFINE left == run.remaining - batch[Oldest].owed
<1>3. left \in 0..MaxFunds
    <2>1. batch[Oldest].owed <= run.remaining /\ batch[Oldest].owed \in 0..MaxOwed
        BY <1>1, <1>2, RowFacts DEF OwnFeeIInv, RunInv, PlanInv
    <2> QED BY <1>1, <2>1, RunFacts, Bounds
<1>4. Uses = [run EXCEPT !.pc = "propose", !.todo = Others, !.remaining = left, !.nonce = run.nonce + 1]
    BY <1>1, RunFacts DEF Uses, PayoutTypes, Run
<1> HIDE DEF left, Others
<1>5. /\ Uses \in Run /\ Uses.pc = "propose" /\ Uses.todo = Others /\ Uses.nonce = run.nonce + 1
      /\ Uses.sent = run.sent /\ Uses.remaining = left
    <2>1. run \in Run /\ run.nonce + 1 \in Int
        BY <1>1 DEF PayoutTypes
    <2> HIDE DEF Uses
    <2> QED BY <1>2, <1>3, <1>4, <2>1 DEF Run, PayoutPc
<1>6. run.nonce + 1 <= Used
    BY <1>1, UsedFacts DEF OwnFeeIInv, RunInv, SentInv
<1>7. \A tx \in run.sent : tx.nonce < run.nonce + 1
    <2> SUFFICES ASSUME NEW tx \in run.sent PROVE tx.nonce < run.nonce + 1
        OBVIOUS
    <2>1. tx.nonce < run.nonce \/ tx = Submission
        BY <1>1 DEF OwnFeeIInv, RunInv, SentInv, At
    <2>2. Submission.nonce = run.nonce /\ tx.nonce \in Nat
        BY <1>1, RunFacts, ProposalFacts DEF Submission
    <2> QED BY <1>1, <2>1, <2>2
<1>8. Others \subseteq Payable
    BY <1>1, PlanFacts
<1> QED BY <1>5, <1>6, <1>7, <1>8 DEF left

LEMMA AttemptedStep == ASSUME OwnFeeIInv, Attempted PROVE OwnFeeIInv'
<1>1. PayoutTypes /\ run' = Uses /\ At("sent")
    BY DEF OwnFeeIInv, Attempted
<1>2. UNCHANGED <<ledger, pollers, paying, service, safe, faults, slipped>>
    BY DEF Attempted, history
<1>3. Payable' = Payable /\ Used' = Used
    BY <1>2 DEF Payable, ledger, Used, LockedMonths, Locked
<1>4. RunInv'
    <2>1. run.nonce \in Nat
        BY <1>1 DEF OwnFeeIInv, RunInv, PlanInv, At
    <2>2. run.nonce + 1 >= -1
        BY <2>1
    <2> HIDE DEF Uses, Others
    <2> QED BY <1>1, <1>3, <2>2, UsesFacts, SentOnce DEF RunInv, PlanInv, SentInv, At
<1> QED BY <1>1, <1>2, <1>4, UsesFacts, RunStep DEF PayoutTypes

LEMMA EndsRunStep == ASSUME OwnFeeIInv, EndsRun PROVE OwnFeeIInv'
BY NoRunFits, RunStep DEF EndsRun, OwnFeeIInv, PayoutTypes, history

-----------------------------------------------------------------------------
(* The ledger is written                                                   *)

(* The record of an execution fits the row, whoever writes it.             *)
LEMMA RecordedRow ==
    ASSUME OwnFeeIInv, NEW m \in Month, NEW e \in mined, e.tx = batch[m].hash,
           SetStatus(m, Result(e)), mined' = mined
    PROVE  /\ batch' \in [Month -> Row] /\ RowsAdvance /\ BooksFollowChain'
           /\ \A k \in Month : /\ batch'[k].hash = batch[k].hash
                               /\ batch[k].status = "executed" => batch'[k].status = "executed"
                               /\ k # m => batch'[k] = batch[k]
           /\ e.ok => batch'[m].status = "executed"
<1>1. PayoutTypes
    BY DEF OwnFeeIInv
<1>2. Result(e) \in {"executed", "failed"} /\ (e.ok <=> Result(e) = "executed")
    BY DEF Result
<1> DEFINE row == [batch[m] EXCEPT !.status = Result(e)]
<1>3. /\ row \in Row /\ row.status = Result(e) /\ row.hash = batch[m].hash
      /\ row.owed = batch[m].owed /\ row.paid = batch[m].paid
    <2>1. batch[m] \in Row
        BY <1>1 DEF PayoutTypes
    <2> QED BY <1>2, <2>1 DEF Row, PROPOSED_STATUSES
<1>4. batch' = [batch EXCEPT ![m] = row]
    BY DEF SetStatus
<1> HIDE DEF row
<1>5. batch' \in [Month -> Row] /\ batch'[m] = row /\ \A k \in Month : k # m => batch'[k] = batch[k]
    BY <1>1, <1>3, <1>4 DEF PayoutTypes
<1>6. batch[m].status = "executed" => Result(e) = "executed"
    <2> SUFFICES ASSUME batch[m].status = "executed" PROVE Result(e) = "executed"
        OBVIOUS
    <2>1. PICK f \in mined : f.tx = batch[m].hash /\ batch[m].status = Result(f)
        BY DEF OwnFeeIInv, BooksFollowChain
    <2>2. f = e
        BY <2>1 DEF OwnFeeIInv, SafeInv
    <2> QED BY <2>1, <2>2
<1>7. RowsAdvance
    BY <1>2, <1>3, <1>5 DEF RowsAdvance, Locked, PROPOSED_STATUSES
<1>8. BooksFollowChain'
    <2> SUFFICES ASSUME NEW k \in Month
                 PROVE  /\ batch'[k].status \in {"executed", "failed"} =>
                              \E x \in mined : x.tx = batch'[k].hash /\ batch'[k].status = Result(x)
                        /\ batch'[k].paid => batch'[k].status = "executed"
        BY DEF BooksFollowChain, Result
    <2>1. CASE k = m
        <3>1. batch[m].paid => batch[m].status = "executed"
            BY DEF OwnFeeIInv, BooksFollowChain
        <3> QED BY <1>3, <1>5, <1>6, <2>1, <3>1
    <2>2. CASE k # m
        BY <1>5, <2>2 DEF OwnFeeIInv, BooksFollowChain
    <2> QED BY <2>1, <2>2
<1>9. \A k \in Month : /\ batch'[k].hash = batch[k].hash
                       /\ batch[k].status = "executed" => batch'[k].status = "executed"
    BY <1>3, <1>5, <1>6
<1>10. e.ok => batch'[m].status = "executed"
    BY <1>2, <1>3, <1>5
<1> QED BY <1>5, <1>7, <1>8, <1>9, <1>10

(* The entries of an executed batch are marked.                            *)
LEMMA PaidRow ==
    ASSUME OwnFeeIInv, NEW m \in Month, batch[m].status = "executed", MarkPaid(m), mined' = mined
    PROVE  /\ batch' \in [Month -> Row] /\ RowsAdvance /\ BooksFollowChain'
           /\ \A k \in Month : /\ batch'[k].hash = batch[k].hash /\ batch'[k].status = batch[k].status
                               /\ k # m => batch'[k] = batch[k]
<1>1. PayoutTypes
    BY DEF OwnFeeIInv
<1> DEFINE row == [batch[m] EXCEPT !.paid = TRUE]
<1>2. /\ row \in Row /\ row.status = "executed" /\ row.hash = batch[m].hash /\ row.owed = batch[m].owed
    <2>1. batch[m] \in Row
        BY <1>1 DEF PayoutTypes
    <2> QED BY <2>1 DEF Row
<1>3. batch' = [batch EXCEPT ![m] = row]
    BY DEF MarkPaid
<1> HIDE DEF row
<1>4. batch' \in [Month -> Row] /\ batch'[m] = row /\ \A k \in Month : k # m => batch'[k] = batch[k]
    BY <1>1, <1>2, <1>3 DEF PayoutTypes
<1>5. RowsAdvance
    BY <1>2, <1>4 DEF RowsAdvance, Locked
<1>6. \A k \in Month : batch'[k].hash = batch[k].hash /\ batch'[k].status = batch[k].status
    BY <1>2, <1>4
<1>7. BooksFollowChain'
    <2> SUFFICES ASSUME NEW k \in Month
                 PROVE  /\ batch'[k].status \in {"executed", "failed"} =>
                              \E x \in mined : x.tx = batch'[k].hash /\ batch'[k].status = Result(x)
                        /\ batch'[k].paid => batch'[k].status = "executed"
        BY DEF BooksFollowChain, Result
    <2>1. batch'[k].status \in {"executed", "failed"} =>
              \E x \in mined : x.tx = batch'[k].hash /\ batch'[k].status = Result(x)
        BY <1>6 DEF OwnFeeIInv, BooksFollowChain
    <2>2. batch'[k].paid => batch'[k].status = "executed"
        BY <1>2, <1>4 DEF OwnFeeIInv, BooksFollowChain
    <2> QED BY <2>1, <2>2
<1> QED BY <1>4, <1>5, <1>6, <1>7

(* A step that writes the ledger, with what is still to show of it.        *)
LEMMA LedgerStep ==
    ASSUME OwnFeeIInv, UNCHANGED <<month, service, safe, history>>,
           batch' \in [Month -> Row], run' \in Run, pollers' \subseteq queue, paying' \subseteq Month,
           RowsAdvance, BooksFollowChain', RecordInv', RunInv'
    PROVE  OwnFeeIInv'
<1>1. PayoutTypes'
    BY DEF OwnFeeIInv, PayoutTypes, service, safe, history
<1>2. ProposedOnce' /\ NonceInv'
    BY <1>1, OnceKept, NonceKept DEF OwnFeeIInv, service, safe
<1>3. SafeInv'
    BY DEF OwnFeeIInv, SafeInv, safe
<1> QED BY <1>1, <1>2, <1>3 DEF OwnFeeIInv

LEMMA RecordsStep == ASSUME OwnFeeIInv, NEW m \in Month, Records(m) PROVE OwnFeeIInv'
<1>1. PICK e \in mined : /\ e.tx = batch[m].hash /\ SetStatus(m, Result(e))
                         /\ run' = [run EXCEPT !.pc = IF e.ok THEN "pay" ELSE @, !.todo = @ \ {m}, !.month = m]
    BY DEF Records
<1>2. PayoutTypes /\ run.pc = "reconcile" /\ mined' = mined
    BY DEF OwnFeeIInv, Records, At, safe
<1>3. /\ run' \in Run /\ run'.pc = IF e.ok THEN "pay" ELSE "reconcile"
      /\ run'.month = m /\ run'.sent = run.sent /\ run'.nonce = run.nonce
    <2> DEFINE pc == IF e.ok THEN "pay" ELSE "reconcile"
               todo == run.todo \ {m}
    <2>1. run' = [run EXCEPT !.pc = pc, !.todo = todo, !.month = m]
        BY <1>1, <1>2, RunFacts DEF PayoutTypes, Run
    <2>2. pc \in PayoutPc /\ todo \in SUBSET Month /\ run \in Run
        BY <1>2, RunFacts DEF PayoutPc, PayoutTypes
    <2> HIDE DEF pc, todo
    <2>3. run' \in Run /\ run'.pc = pc /\ run'.month = m /\ run'.sent = run.sent /\ run'.nonce = run.nonce
        BY <2>1, <2>2 DEF Run
    <2> QED BY <2>3 DEF pc
<1>4. RunInv'
    <2>1. run.sent = {} /\ run.nonce = -1
        BY <1>2 DEF OwnFeeIInv, RunInv, SentInv
    <2>2. e.ok => batch'[m].status = "executed"
        BY <1>1, <1>2, RecordedRow
    <2> QED BY <1>3, <2>1, <2>2 DEF RunInv, PlanInv, SentInv, At
<1>5. RecordInv'
    <2>1. pollers' = pollers /\ paying' = paying /\ \A tx \in pollers : tx.month \in Month
        BY <1>2, ProposalFacts DEF Records, PayoutTypes
    <2>2. paying \subseteq Month
        BY <1>2 DEF PayoutTypes
    <2> QED BY <1>1, <1>2, <2>1, <2>2, RecordedRow DEF OwnFeeIInv, RecordInv
<1> QED BY <1>1, <1>2, <1>3, <1>4, <1>5, RecordedRow, LedgerStep DEF Records, PayoutTypes

LEMMA MarksPaidStep == ASSUME OwnFeeIInv, MarksPaid PROVE OwnFeeIInv'
<1>1. PayoutTypes /\ run.pc = "pay" /\ mined' = mined /\ run.month \in Month
    BY RunFacts DEF OwnFeeIInv, MarksPaid, At, safe
<1>2. batch[run.month].status = "executed" /\ run.sent = {} /\ run.nonce = -1
    BY <1>1 DEF OwnFeeIInv, RunInv, SentInv, At
<1>3. run' \in Run /\ run'.pc = "reconcile" /\ run'.sent = run.sent /\ run'.nonce = run.nonce
    BY <1>1, RunFacts, GoesFacts DEF MarksPaid, PayoutPc
<1>4. RunInv'
    BY <1>2, <1>3, QuietRun
<1>5. RecordInv'
    <2>1. pollers' = pollers /\ paying' = paying /\ \A tx \in pollers : tx.month \in Month
        BY <1>1, ProposalFacts DEF MarksPaid, PayoutTypes
    <2>2. paying \subseteq Month
        BY <1>1 DEF PayoutTypes
    <2> QED BY <1>1, <1>2, <2>1, <2>2, PaidRow DEF OwnFeeIInv, RecordInv, MarksPaid
<1> QED BY <1>1, <1>2, <1>3, <1>4, <1>5, PaidRow, LedgerStep DEF MarksPaid, PayoutTypes

(* A poller writes, while a run is anywhere.                               *)
LEMMA PollerRecordsStep == ASSUME OwnFeeIInv, NEW tx \in pollers, PollerRecords(tx) PROVE OwnFeeIInv'
<1> DEFINE m == tx.month
<1>1. /\ PayoutTypes /\ mined' = mined /\ tx \in queue /\ m \in Month /\ run' = run
      /\ pollers' \subseteq pollers /\ tx = batch[m].hash /\ Locked(m)
    BY ProposalFacts DEF OwnFeeIInv, PollerRecords, safe, PayoutTypes, RecordInv, ProposedOnce
<1>2. PICK e \in mined : /\ e.tx = tx /\ SetStatus(m, Result(e))
                         /\ paying' = paying \cup (IF e.ok THEN {m} ELSE {})
    BY DEF PollerRecords
<1>3. UNCHANGED <<month, service, safe, history>>
    BY DEF PollerRecords
<1> HIDE DEF m
<1>4. /\ batch' \in [Month -> Row] /\ RowsAdvance /\ BooksFollowChain'
      /\ \A k \in Month : /\ batch'[k].hash = batch[k].hash
                          /\ batch[k].status = "executed" => batch'[k].status = "executed"
                          /\ k # m => batch'[k] = batch[k]
      /\ e.ok => batch'[m].status = "executed"
    BY <1>1, <1>2, RecordedRow
<1>5. paying \subseteq Month /\ paying' \subseteq Month /\ \A u \in pollers : u.month \in Month
    BY <1>1, <1>2, ProposalFacts DEF PayoutTypes
<1>6. RecordInv'
    BY <1>1, <1>2, <1>4, <1>5 DEF OwnFeeIInv, RecordInv
<1>7. PayoutTypes'
    BY <1>1, <1>3, <1>4, <1>5 DEF PayoutTypes, service, safe, history
<1>8. RunInv'
    <2>1. \A k \in Payable : k \in Month /\ k # m
        BY <1>1 DEF Payable, Locked, PROPOSED_STATUSES
    <2>2. run.pc \in {"send", "sent"} => Oldest # m /\ Oldest \in Month
        BY <1>1, OldestFacts DEF OwnFeeIInv, RunInv, PlanInv, m
    <2>3. At("pay") => batch'[run.month].status = batch[run.month].status
        BY <1>1, <1>4, RunFacts DEF OwnFeeIInv, RunInv
    <2> QED BY <1>1, <1>3, <1>4, <1>7, <2>1, <2>2, <2>3, RunKept DEF OwnFeeIInv, service
<1> QED BY <1>1, <1>3, <1>4, <1>5, <1>6, <1>8, LedgerStep DEF PayoutTypes

LEMMA PollerPaysStep == ASSUME OwnFeeIInv, NEW m \in paying, PollerPays(m) PROVE OwnFeeIInv'
<1>1. /\ PayoutTypes /\ mined' = mined /\ m \in Month /\ run' = run /\ pollers' = pollers
      /\ batch[m].status = "executed" /\ paying' \subseteq paying
    BY DEF OwnFeeIInv, PollerPays, safe, PayoutTypes, RecordInv
<1>2. UNCHANGED <<month, service, safe, history>>
    BY DEF PollerPays
<1>3. /\ batch' \in [Month -> Row] /\ RowsAdvance /\ BooksFollowChain'
      /\ \A k \in Month : /\ batch'[k].hash = batch[k].hash /\ batch'[k].status = batch[k].status
                          /\ k # m => batch'[k] = batch[k]
    BY <1>1, PaidRow DEF PollerPays
<1>4. paying \subseteq Month /\ \A u \in pollers : u.month \in Month
    BY <1>1, ProposalFacts DEF PayoutTypes
<1>5. RecordInv'
    BY <1>1, <1>3, <1>4 DEF OwnFeeIInv, RecordInv
<1>6. PayoutTypes'
    BY <1>1, <1>2, <1>3 DEF PayoutTypes, service, safe, history
<1>7. RunInv'
    <2>1. \A k \in Payable : k \in Month /\ k # m
        BY <1>1 DEF Payable
    <2>2. run.pc \in {"send", "sent"} => Oldest # m /\ Oldest \in Month
        BY <1>1, OldestFacts DEF OwnFeeIInv, RunInv, PlanInv
    <2>3. At("pay") => batch'[run.month].status = batch[run.month].status
        BY <1>1, <1>3, RunFacts
    <2> QED BY <1>1, <1>2, <1>3, <1>6, <2>1, <2>2, <2>3, RunKept DEF OwnFeeIInv, service
<1> QED BY <1>1, <1>2, <1>3, <1>5, <1>7, LedgerStep DEF PayoutTypes

(* The accrual rewrites a row only before it is locked, so before anything *)
(* was proposed or booked for it.                                          *)
LEMMA AccrueStep == ASSUME OwnFeeIInv, AccrueMonth PROVE OwnFeeIInv'
<1> DEFINE m == Min(run.todo)
<1>1. PayoutTypes /\ run.pc = "accrue" /\ run.todo # {} /\ mined' = mined /\ wire' = wire /\ queue' = queue
    BY DEF OwnFeeIInv, AccrueMonth, At, safe, service
<1>2. m \in run.todo /\ m \in Month
    <2>1. run.todo \subseteq Nat /\ run.todo \subseteq Month
        BY <1>1, RunFacts, Bounds
    <2> QED BY <1>1, <2>1, MinIsIn
<1>3. run' \in Run /\ run'.pc = "accrue" /\ run'.sent = run.sent /\ run'.nonce = run.nonce
    <2>1. Goes("accrue", run.todo \ {m}) /\ run.todo \ {m} \in SUBSET Month
        BY <1>1, RunFacts DEF AccrueMonth
    <2> HIDE DEF m
    <2> QED BY <1>1, <2>1, GoesFacts DEF PayoutPc
<1>4. RunInv'
    <2>1. run.sent = {} /\ run.nonce = -1
        BY <1>1 DEF OwnFeeIInv, RunInv, SentInv
    <2> QED BY <1>3, <2>1, QuietRun
<1>5. \/ batch' = batch
      \/ ~ Locked(m) /\ \E row \in Row : /\ batch' = [batch EXCEPT ![m] = row]
                                         /\ row.status \in {"computed", "no_recipients"}
                                         /\ row.hash = batch[m].hash /\ row.paid = batch[m].paid
    <2> HIDE DEF m
    <2> SUFFICES ASSUME batch' # batch
                 PROVE  ~ Locked(m) /\ \E row \in Row : /\ batch' = [batch EXCEPT ![m] = row]
                                         /\ row.status \in {"computed", "no_recipients"}
                                         /\ row.hash = batch[m].hash /\ row.paid = batch[m].paid
        OBVIOUS
    <2>1. PICK owed \in 0..MaxOwed :
              batch' = [batch EXCEPT ![m].owed = owed,
                          ![m].status = IF owed > 0 THEN "computed" ELSE "no_recipients"]
        BY DEF AccrueMonth, m
    <2> DEFINE row == [batch[m] EXCEPT !.owed = owed,
                          !.status = IF owed > 0 THEN "computed" ELSE "no_recipients"]
    <2>2. batch[m] \in Row
        BY <1>1, <1>2 DEF PayoutTypes
    <2>3. /\ row \in Row /\ row.status \in {"computed", "no_recipients"}
          /\ row.hash = batch[m].hash /\ row.paid = batch[m].paid
        BY <2>2 DEF Row
    <2>4. batch' = [batch EXCEPT ![m] = row]
        BY <1>1, <1>2, <2>1 DEF PayoutTypes
    <2>5. ~ Locked(m)
        BY DEF AccrueMonth, m
    <2> HIDE DEF row
    <2> QED BY <2>3, <2>4, <2>5
<1> HIDE DEF m
<1>6. CASE batch' = batch
    <2>1. RowsAdvance /\ BooksFollowChain' /\ RecordInv'
        BY <1>1, <1>6, BooksKept DEF RowsAdvance, Locked, OwnFeeIInv, RecordInv, AccrueMonth
    <2> QED BY <1>1, <1>3, <1>4, <1>6, <2>1, LedgerStep DEF AccrueMonth, PayoutTypes
<1>7. CASE batch' # batch
    <2>1. PICK row \in Row : /\ batch' = [batch EXCEPT ![m] = row] /\ row.hash = batch[m].hash
                             /\ row.status \in {"computed", "no_recipients"} /\ row.paid = batch[m].paid
        BY <1>5, <1>7
    <2>2. ~ Locked(m)
        BY <1>5, <1>7
    <2>3. /\ batch' \in [Month -> Row] /\ batch'[m] = row
          /\ \A k \in Month : k # m => batch'[k] = batch[k]
        BY <1>1, <1>2, <2>1 DEF PayoutTypes
    <2>4. RowsAdvance
        BY <2>2, <2>3 DEF RowsAdvance, Locked
    <2>5. batch[m].status # "executed" /\ ~ batch[m].paid
        BY <1>2, <2>2 DEF OwnFeeIInv, BooksFollowChain, Locked, PROPOSED_STATUSES
    <2>6. BooksFollowChain'
        <3> SUFFICES ASSUME NEW k \in Month
                     PROVE  /\ batch'[k].status \in {"executed", "failed"} =>
                                  \E x \in mined : x.tx = batch'[k].hash /\ batch'[k].status = Result(x)
                            /\ batch'[k].paid => batch'[k].status = "executed"
            BY <1>1 DEF BooksFollowChain, Result
        <3>1. CASE k = m
            BY <2>1, <2>3, <2>5, <3>1
        <3>2. CASE k # m
            BY <2>3, <3>2 DEF OwnFeeIInv, BooksFollowChain
        <3> QED BY <3>1, <3>2
    <2>7. RecordInv'
        <3>1. pollers' = pollers /\ paying' = paying /\ \A tx \in pollers : tx.month \in Month
            BY <1>1, ProposalFacts DEF AccrueMonth, PayoutTypes
        <3>2. \A k \in paying : k \in Month /\ k # m
            BY <1>1, <2>5 DEF OwnFeeIInv, RecordInv, PayoutTypes
        <3>3. \A k \in Month : batch'[k].hash = batch[k].hash
            BY <2>1, <2>3
        <3> QED BY <2>3, <3>1, <3>2, <3>3 DEF OwnFeeIInv, RecordInv
    <2> QED BY <1>1, <1>3, <1>4, <2>3, <2>4, <2>6, <2>7, LedgerStep DEF AccrueMonth, PayoutTypes
<1> QED BY <1>6, <1>7

(* The row is locked before the service is called.                         *)
LEMMA OnBeforeSubmitStep == ASSUME OwnFeeIInv, OnBeforeSubmit PROVE OwnFeeIInv'
<1> DEFINE m == Oldest
           row == [batch[m] EXCEPT !.status = "proposing"]
<1>1. PayoutTypes /\ run.pc = "submit" /\ run.todo # {} /\ mined' = mined /\ wire' = wire /\ queue' = queue
    BY DEF OwnFeeIInv, OnBeforeSubmit, At, safe, service, RunInv, PlanInv
<1>2. m \in run.todo /\ m \in Month /\ Others \subseteq run.todo /\ m \notin Others
    BY <1>1, OldestFacts
<1>3. batch[m].status = "computed" /\ batch[m].owed > 0 /\ ~ batch[m].paid
    <2>1. m \in Payable
        BY <1>1, <1>2, PlanFacts
    <2> QED BY <1>2, <2>1 DEF Payable, OwnFeeIInv, BooksFollowChain
<1>4. \A tx \in wire \cup queue : tx.month # m
    BY <1>3 DEF OwnFeeIInv, ProposedOnce, Locked, PROPOSED_STATUSES
<1>5. /\ row \in Row /\ row.status = "proposing" /\ row.hash = batch[m].hash
      /\ row.owed = batch[m].owed /\ row.paid = batch[m].paid
    <2>1. batch[m] \in Row
        BY <1>1, <1>2 DEF PayoutTypes
    <2> QED BY <2>1 DEF Row, PROPOSED_STATUSES
<1>6. batch' = [batch EXCEPT ![m] = row]
    BY DEF OnBeforeSubmit, Mark, SetStatus
<1>7. Goes("send", run.todo) /\ run.todo \in SUBSET Month
    BY <1>1, RunFacts DEF OnBeforeSubmit
<1>8. Oldest' = m /\ Others' = Others
    <2>1. run'.todo = run.todo
        BY <1>1, <1>7, GoesFacts DEF PayoutPc
    <2> QED BY <2>1 DEF Oldest, Others
<1> HIDE DEF m, row
<1>9. /\ batch' \in [Month -> Row] /\ batch'[m] = row
      /\ \A k \in Month : k # m => batch'[k] = batch[k]
    BY <1>1, <1>2, <1>5, <1>6 DEF PayoutTypes
<1>10. /\ run' \in Run /\ run'.pc = "send" /\ run'.todo = run.todo /\ run'.sent = run.sent
       /\ run'.nonce = run.nonce /\ run'.remaining = run.remaining
    BY <1>1, <1>7, GoesFacts DEF PayoutPc
<1>11. RowsAdvance
    BY <1>5, <1>9 DEF RowsAdvance, Locked, PROPOSED_STATUSES
<1>12. BooksFollowChain'
    <2> SUFFICES ASSUME NEW k \in Month
                 PROVE  /\ batch'[k].status \in {"executed", "failed"} =>
                              \E x \in mined : x.tx = batch'[k].hash /\ batch'[k].status = Result(x)
                        /\ batch'[k].paid => batch'[k].status = "executed"
        BY <1>1 DEF BooksFollowChain, Result
    <2>1. CASE k = m
        BY <1>3, <1>5, <1>9, <2>1
    <2>2. CASE k # m
        BY <1>9, <2>2 DEF OwnFeeIInv, BooksFollowChain
    <2> QED BY <2>1, <2>2
<1>13. RecordInv'
    <2>1. pollers' = pollers /\ paying' = paying /\ \A tx \in pollers : tx.month \in Month
        BY <1>1, ProposalFacts DEF OnBeforeSubmit, PayoutTypes
    <2>2. \A k \in paying : k \in Month /\ k # m
        BY <1>1, <1>3 DEF OwnFeeIInv, RecordInv, PayoutTypes
    <2> QED BY <1>5, <1>9, <2>1, <2>2 DEF OwnFeeIInv, RecordInv
<1>14. PayoutTypes'
    BY <1>1, <1>9, <1>10 DEF PayoutTypes, OnBeforeSubmit, service, safe, history
<1>15. Used' \in Nat /\ run'.nonce < Used'
    <2>1. m \in LockedMonths' /\ m \notin LockedMonths /\ LockedMonths \subseteq LockedMonths'
        BY <1>2, <1>3, <1>5, <1>9, <1>11 DEF LockedMonths, Locked, PROPOSED_STATUSES, RowsAdvance
    <2>2. LockedMonths' \in SUBSET Month /\ LockedMonths \in SUBSET LockedMonths'
        BY <2>1 DEF LockedMonths
    <2>3. IsFiniteSet(LockedMonths')
        BY <2>2, Bounds, FS_Subset
    <2>4. Cardinality(LockedMonths) # Cardinality(LockedMonths')
        BY <2>1, <2>2, <2>3, FS_Subset
    <2>5. Used \in Nat /\ Used' \in Nat /\ Used <= Used'
        BY <1>1, <1>11, <1>14, UsedGrows
    <2>6. Used # Used'
        <3>1. Cardinality(LockedMonths) \in Nat /\ Cardinality(LockedMonths') \in Nat
            BY <2>2, <2>3, FS_Subset, FS_CardinalityType
        <3> QED BY <2>4, <3>1, Bounds DEF Used
    <2>7. run.nonce <= Used /\ run.nonce \in Int
        BY <1>1, RunFacts DEF OwnFeeIInv, RunInv, SentInv
    <2> QED BY <1>10, <2>5, <2>6, <2>7
<1>16. RunInv'
    <2>1. Others \subseteq Payable'
        <3>1. \A k \in Others : k \in Payable /\ k \in Month /\ k # m
            BY <1>1, <1>2, PlanFacts DEF Payable
        <3> QED BY <1>9, <3>1 DEF Payable
    <2>2. /\ batch[m].owed <= run.remaining /\ run.nonce \in Nat
          /\ \A tx \in run.sent : tx.nonce < run.nonce
        BY <1>1 DEF OwnFeeIInv, RunInv, PlanInv, SentInv, m
    <2>3. \A tx \in pollers' : tx.month # m
        BY <1>1, <1>4 DEF OnBeforeSubmit, PayoutTypes
    <2>4. PlanInv'
        BY <1>1, <1>3, <1>4, <1>5, <1>8, <1>9, <1>10, <2>1, <2>2, <2>3 DEF PlanInv, At
    <2>5. SentInv'
        BY <1>10, <1>15, <2>2, SentOnce DEF SentInv, At
    <2> QED BY <1>10, <2>4, <2>5 DEF RunInv, At
<1> QED BY <1>1, <1>9, <1>10, <1>11, <1>12, <1>13, <1>16, LedgerStep DEF OnBeforeSubmit, PayoutTypes

(* The submission is the only proposal for the month.                      *)
LEMMA SubmissionFacts ==
    ASSUME OwnFeeIInv, run.pc \in {"send", "sent"}
    PROVE  /\ Submission \in Proposal /\ Submission.month = Oldest /\ Oldest \in Month
           /\ Submission.amount = batch[Oldest].owed /\ Submission.nonce = run.nonce
           /\ run.nonce \in Nat /\ run.nonce < Used /\ Used \in Nat /\ Locked(Oldest)
           /\ batch[Oldest].status = "proposing" /\ batch[Oldest].owed <= run.remaining
           /\ run.todo # {}
<1>1. /\ PayoutTypes /\ run.todo # {} /\ run.nonce \in Nat /\ run.nonce < Used
      /\ batch[Oldest].status = "proposing" /\ batch[Oldest].owed > 0
      /\ batch[Oldest].owed <= run.remaining
    BY DEF OwnFeeIInv, RunInv, PlanInv, SentInv
<1>2. Oldest \in Month /\ batch[Oldest].owed \in 0..MaxOwed
    BY <1>1, OldestFacts, RowFacts
<1>3. batch[Oldest].owed \in 1..MaxOwed
    BY <1>1, <1>2, Bounds
<1>4. run.nonce \in 0..(MaxNonce + MaxMonth)
    <2>1. Used \in Nat /\ Used <= MaxNonce + MaxMonth
        BY <1>1, UsedFacts
    <2> QED BY <1>1, <2>1, Bounds
<1>5. Submission \in Proposal
    BY <1>2, <1>3, <1>4 DEF Submission, Proposal
<1> QED BY <1>1, <1>2, <1>5, UsedFacts DEF Submission, Locked, PROPOSED_STATUSES

LEMMA ProposedStep == ASSUME OwnFeeIInv, Proposed PROVE OwnFeeIInv'
<1> DEFINE m == Oldest
           row == [batch[m] EXCEPT !.status = "proposed", !.hash = Submission]
<1>1. PayoutTypes /\ At("sent") /\ run.pc = "sent" /\ mined' = mined /\ wire' = wire /\ queue' = queue
    BY DEF OwnFeeIInv, Proposed, At, safe, service
<1>2. /\ m \in Month /\ batch[m].status = "proposing" /\ Submission \in Proposal /\ Submission.month = m
      /\ run.todo # {} /\ Submission \in queue
    BY <1>1, SubmissionFacts DEF Proposed
<1>3. ~ batch[m].paid /\ m \notin Others
    BY <1>1, <1>2, OldestFacts DEF OwnFeeIInv, BooksFollowChain
<1>4. /\ row \in Row /\ row.status = "proposed" /\ row.hash = Submission
      /\ row.owed = batch[m].owed /\ row.paid = batch[m].paid
    <2>1. batch[m] \in Row
        BY <1>1, <1>2 DEF PayoutTypes
    <2> HIDE DEF m
    <2> QED BY <1>2, <2>1 DEF Row, PROPOSED_STATUSES
<1>5. batch' = [batch EXCEPT ![m] = row]
    <2>1. batch' = [batch EXCEPT ![m].status = "proposed", ![m].hash = Submission]
        BY DEF Proposed
    <2>2. batch \in [Month -> Row] /\ batch[m] \in Row
        BY <1>1, <1>2 DEF PayoutTypes
    <2> HIDE DEF m
    <2> QED BY <1>2, <2>1, <2>2 DEF Row
<1>6. run' = Uses /\ paying' = paying /\ pollers' = pollers \cup {Submission}
    BY DEF Proposed
<1>7. \A tx \in pollers : tx.month # m /\ tx.month \in Month
    BY <1>1, ProposalFacts DEF OwnFeeIInv, RunInv, PlanInv, PayoutTypes
<1> DEFINE s == Submission
<1>8. s \in queue /\ s.month = m /\ row.hash = s /\ pollers' = pollers \cup {s}
    BY <1>2, <1>4, <1>6
<1> HIDE DEF m, row, s
<1>9. /\ batch' \in [Month -> Row] /\ batch'[m] = row
      /\ \A k \in Month : k # m => batch'[k] = batch[k]
    BY <1>1, <1>2, <1>4, <1>5 DEF PayoutTypes
<1>10. RowsAdvance
    BY <1>4, <1>9 DEF RowsAdvance, Locked, PROPOSED_STATUSES
<1>11. BooksFollowChain'
    <2> SUFFICES ASSUME NEW k \in Month
                 PROVE  /\ batch'[k].status \in {"executed", "failed"} =>
                              \E x \in mined : x.tx = batch'[k].hash /\ batch'[k].status = Result(x)
                        /\ batch'[k].paid => batch'[k].status = "executed"
        BY <1>1 DEF BooksFollowChain, Result
    <2>1. CASE k = m
        BY <1>3, <1>4, <1>9, <2>1
    <2>2. CASE k # m
        BY <1>9, <2>2 DEF OwnFeeIInv, BooksFollowChain
    <2> QED BY <2>1, <2>2
<1>12. RecordInv'
    <2>1. \A k \in paying : k \in Month /\ k # m
        BY <1>1, <1>2 DEF OwnFeeIInv, RecordInv, PayoutTypes
    <2> QED BY <1>6, <1>7, <1>8, <1>9, <2>1 DEF OwnFeeIInv, RecordInv
<1>13. /\ run' \in Run /\ run'.pc = "propose" /\ run'.todo = Others /\ run'.nonce = run.nonce + 1
       /\ run'.sent = run.sent /\ Others \subseteq Payable /\ run.nonce + 1 <= Used
       /\ \A tx \in run.sent : tx.nonce < run.nonce + 1
    <2> HIDE DEF Uses, Others
    <2> QED BY <1>1, <1>6, UsesFacts
<1>14. PayoutTypes'
    BY <1>1, <1>6, <1>8, <1>9, <1>13 DEF PayoutTypes, Proposed, service, safe, history
<1>15. RunInv'
    <2>1. Others \subseteq Payable'
        <3>1. \A k \in Others : k \in Payable /\ k \in Month /\ k # m
            BY <1>3, <1>13 DEF Payable, m
        <3> QED BY <1>9, <3>1 DEF Payable
    <2>2. run.nonce \in Nat /\ Used \in Nat /\ Used' \in Nat /\ Used <= Used'
        BY <1>1, <1>10, <1>14, UsedGrows, SubmissionFacts
    <2>3. run.nonce + 1 <= Used' /\ run.nonce + 1 >= -1
        BY <1>13, <2>2
    <2> QED BY <1>13, <2>1, <2>3, SentOnce DEF RunInv, PlanInv, SentInv, At
<1>16. pollers' \subseteq queue
    BY <1>1, <1>8 DEF PayoutTypes
<1> QED BY <1>1, <1>6, <1>9, <1>10, <1>11, <1>12, <1>13, <1>15, <1>16, LedgerStep DEF Proposed, PayoutTypes

LEMMA SendStep == ASSUME OwnFeeIInv, Send PROVE OwnFeeIInv'
<1> DEFINE s == Submission
<1>1. PayoutTypes /\ run.pc = "send" /\ mined' = mined /\ batch' = batch /\ queue' = queue
    BY DEF OwnFeeIInv, Send, At, safe, ledger
<1>2. /\ s \in Proposal /\ s.month = Oldest /\ Oldest \in Month
      /\ s.amount = batch[Oldest].owed /\ s.nonce = run.nonce
      /\ run.nonce \in Nat /\ run.nonce < Used /\ Used \in Nat /\ Locked(Oldest) /\ run.todo # {}
    BY <1>1, SubmissionFacts
<1>3. /\ wire' = wire \cup {s} /\ run' = [run EXCEPT !.pc = "sent", !.sent = run.sent \cup {s}]
    BY <1>1, RunFacts DEF Send, PayoutTypes, Run
<1>4. /\ run' \in Run /\ run'.pc = "sent" /\ run'.todo = run.todo /\ run'.sent = run.sent \cup {s}
      /\ run'.nonce = run.nonce /\ run'.remaining = run.remaining
    <2> HIDE DEF s
    <2>1. run \in Run /\ run.sent \cup {s} \in SUBSET Proposal
        BY <1>1, <1>2, RunFacts DEF PayoutTypes
    <2> QED BY <1>3, <2>1 DEF Run, PayoutPc
<1>5. Oldest' = Oldest /\ Others' = Others /\ Submission' = s /\ Payable' = Payable /\ Used' = Used
    BY <1>1, <1>4 DEF Oldest, Others, Submission, Payable, Used, LockedMonths, Locked
<1> HIDE DEF s
<1>6. \A tx \in wire \cup queue : tx.month # Oldest
    BY <1>1 DEF OwnFeeIInv, RunInv, PlanInv, At
<1>7. PayoutTypes'
    <2>1. IsFiniteSet(wire')
        BY <1>1, <1>3, FS_AddElement DEF PayoutTypes
    <2> QED BY <1>1, <1>2, <1>3, <1>4, <2>1 DEF PayoutTypes, Send, safe, history, ledger
<1>8. ProposedOnce'
    <2>1. ProposedOnce
        BY DEF OwnFeeIInv
    <2> QED BY <1>1, <1>2, <1>3, <1>6, <2>1 DEF ProposedOnce, Locked
<1>9. BooksFollowChain' /\ SafeInv' /\ RecordInv'
    BY <1>1, BooksKept DEF OwnFeeIInv, SafeInv, RecordInv, Send, safe
<1>10. NonceInv'
    BY <1>1, <1>2, <1>3, <1>5 DEF OwnFeeIInv, NonceInv, Send, safe
<1>11. RunInv'
    <2>1. \A tx \in run.sent : tx.nonce < run.nonce
        BY <1>1 DEF OwnFeeIInv, RunInv, SentInv
    <2>2. /\ Others \subseteq Payable /\ batch[Oldest].status = "proposing" /\ batch[Oldest].owed > 0
          /\ batch[Oldest].owed <= run.remaining /\ \A tx \in pollers : tx.month # Oldest
        BY <1>1 DEF OwnFeeIInv, RunInv, PlanInv
    <2>3. pollers' = pollers
        BY DEF Send
    <2> QED BY <1>1, <1>2, <1>3, <1>4, <1>5, <1>6, <2>1, <2>2, <2>3, SentOnce DEF RunInv, PlanInv, SentInv, At
<1> QED BY <1>7, <1>8, <1>9, <1>10, <1>11 DEF OwnFeeIInv

-----------------------------------------------------------------------------
(* The pollers end, the process stops, the service and the Safe act        *)

(* A step that leaves the ledger and the run, and adds no proposal.        *)
LEMMA OutsideStep ==
    ASSUME OwnFeeIInv, batch' = batch, run' = run, pollers' \subseteq pollers, paying' \subseteq paying,
           wire' \cup queue' \subseteq wire \cup queue, mined \subseteq mined',
           PayoutTypes', SafeInv', NonceInv'
    PROVE  OwnFeeIInv'
<1>1. PayoutTypes /\ RowsAdvance
    BY DEF OwnFeeIInv, RowsAdvance, Locked
<1>2. ProposedOnce' /\ BooksFollowChain'
    BY <1>1, OnceKept, BooksKept DEF OwnFeeIInv
<1>3. RecordInv'
    BY DEF OwnFeeIInv, RecordInv
<1>4. RunInv'
    <2>1. \A m \in Payable : batch'[m] = batch[m]
        OBVIOUS
    <2> QED BY <1>1, <2>1, RunKept DEF OwnFeeIInv
<1> QED BY <1>2, <1>3, <1>4 DEF OwnFeeIInv

LEMMA PollerEndsStep ==
    ASSUME OwnFeeIInv, \/ \E tx \in pollers : PollerGivesUp(tx)
                       \/ \E m \in paying : PollerEntriesFail(m)
    PROVE  OwnFeeIInv'
<1>1. /\ pollers' \subseteq pollers /\ paying' \subseteq paying /\ run' = run
      /\ UNCHANGED <<ledger, service, safe, slipped>>
    BY DEF PollerGivesUp, PollerEntriesFail, history
<1>2. faults' \in 0..MaxFaults
    <2>1. faults \in 0..MaxFaults /\ MaxFaults \in Nat
        BY Bounds DEF OwnFeeIInv, PayoutTypes
    <2>2. faults < MaxFaults => faults + 1 \in 0..MaxFaults
        BY <2>1
    <2> QED BY <2>1, <2>2 DEF PollerGivesUp, PollerEntriesFail, history
<1>3. PayoutTypes'
    BY <1>1, <1>2 DEF OwnFeeIInv, PayoutTypes, ledger, service, safe
<1>4. SafeInv' /\ NonceInv'
    BY <1>1 DEF OwnFeeIInv, SafeInv, NonceInv, ledger, service, safe, Used, LockedMonths, Locked
<1> QED BY <1>1, <1>3, <1>4, OutsideStep DEF ledger, service, safe

LEMMA StopStep == ASSUME OwnFeeIInv, Stop PROVE OwnFeeIInv'
<1>1. /\ pollers' = {} /\ paying' = {} /\ run' = NoRun /\ faults' \in 0..MaxFaults
      /\ UNCHANGED <<ledger, service, safe, slipped>>
    <2>1. faults \in 0..MaxFaults /\ MaxFaults \in Nat
        BY Bounds DEF OwnFeeIInv, PayoutTypes
    <2> QED BY <2>1 DEF Stop
<1>2. PayoutTypes'
    BY <1>1, NoRunFits DEF OwnFeeIInv, PayoutTypes, ledger, service, safe
<1>3. PayoutTypes /\ RowsAdvance
    BY <1>1 DEF OwnFeeIInv, RowsAdvance, Locked, ledger
<1>4. ProposedOnce' /\ BooksFollowChain' /\ NonceInv'
    BY <1>1, <1>2, <1>3, OnceKept, BooksKept, NonceKept DEF OwnFeeIInv, ledger, service, safe
<1>5. SafeInv' /\ RecordInv'
    BY <1>1 DEF OwnFeeIInv, SafeInv, RecordInv, safe, ledger
<1> QED BY <1>1, <1>2, <1>4, <1>5, NoRunFits DEF OwnFeeIInv

LEMMA ServiceStep ==
    ASSUME OwnFeeIInv, NEW tx \in wire, Arrives(tx) \/ Lost(tx)
    PROVE  OwnFeeIInv'
<1>1. /\ wire' \subseteq wire /\ queue \subseteq queue' /\ queue' \subseteq queue \cup {tx}
      /\ UNCHANGED <<ledger, process, safe, history>> /\ wire' = wire \ {tx}
    BY DEF Arrives, Lost
<1>2. IsFiniteSet(wire') /\ IsFiniteSet(queue')
    <2>1. IsFiniteSet(wire) /\ IsFiniteSet(queue)
        BY DEF OwnFeeIInv, PayoutTypes
    <2>2. IsFiniteSet(wire \ {tx}) /\ IsFiniteSet(queue \cup {tx})
        BY <2>1, FS_AddElement, FS_RemoveElement
    <2> QED BY <2>1, <2>2 DEF Arrives, Lost
<1>3. PayoutTypes'
    BY <1>1, <1>2 DEF OwnFeeIInv, PayoutTypes, ledger, process, safe, history
<1>4. wire' \cup queue' \subseteq wire \cup queue
    BY <1>1
<1>5. SafeInv' /\ NonceInv'
    BY <1>1, <1>4 DEF OwnFeeIInv, SafeInv, NonceInv, ledger, safe, Used, LockedMonths, Locked
<1> QED BY <1>1, <1>3, <1>4, <1>5, OutsideStep DEF ledger, process, safe

(* An execution is new, because the Safe's nonce has reached the proposal. *)
LEMMA ExecuteStep == ASSUME OwnFeeIInv, NEW tx \in queue, Execute(tx) PROVE OwnFeeIInv'
<1>1. PICK ok \in BOOLEAN :
          /\ ok => tx.amount <= weth
          /\ mined' = mined \cup {[tx |-> tx, ok |-> ok]}
          /\ weth' = IF ok THEN weth - tx.amount ELSE weth
    <2>1. PICK ok \in {tx.amount <= weth, FALSE} :
              /\ mined' = mined \cup {[tx |-> tx, ok |-> ok]}
              /\ weth' = IF ok THEN weth - tx.amount ELSE weth
        BY DEF Execute
    <2>2. CASE tx.amount <= weth
        <3>1. (tx.amount <= weth) = TRUE
            BY <2>2, Zenon
        <3> QED BY <2>1, <2>2, <3>1
    <2>3. CASE ~ (tx.amount <= weth)
        <3>1. (tx.amount <= weth) = FALSE
            BY <2>3
        <3> QED BY <2>1, <3>1
    <2> QED BY <2>2, <2>3
<1> DEFINE e == [tx |-> tx, ok |-> ok]
<1>2. /\ PayoutTypes /\ tx.nonce = nonce /\ nonce' = nonce + 1 /\ tx \in Proposal /\ nonce \in Nat
      /\ UNCHANGED <<ledger, process, service, history>> /\ tx.amount \in 1..MaxOwed
    BY ProposalFacts DEF OwnFeeIInv, Execute, PayoutTypes
<1>3. e \in Execution /\ e.tx = tx /\ mined' = mined \cup {e}
    BY <1>1, <1>2 DEF Execution
<1> HIDE DEF e
<1>4. weth' \in 0..MaxFunds
    <2>1. weth \in 0..MaxFunds
        BY <1>2 DEF PayoutTypes
    <2> QED BY <1>1, <1>2, <2>1, Bounds
<1>5. IsFiniteSet(mined')
    BY <1>2, <1>3, FS_AddElement DEF PayoutTypes
<1>6. PayoutTypes'
    BY <1>2, <1>3, <1>4, <1>5 DEF PayoutTypes, ledger, process, service, history
<1>7. \A f \in mined : f.tx.nonce < nonce /\ f.tx.nonce \in Nat
    BY <1>2, ProposalFacts DEF OwnFeeIInv, SafeInv, PayoutTypes
<1>8. SafeInv'
    <2>1. \A f \in mined' : f.tx.nonce < nonce'
        BY <1>2, <1>3, <1>7
    <2>2. \A f \in mined : f.tx # tx
        BY <1>2, <1>7
    <2> QED BY <1>3, <2>1, <2>2 DEF OwnFeeIInv, SafeInv
<1>9. NonceInv'
    <2>1. tx.nonce < Used /\ Used \in Nat /\ Used' = Used
        BY <1>2, UsedFacts DEF OwnFeeIInv, NonceInv, Used, LockedMonths, Locked, ledger
    <2> QED BY <1>2, <2>1 DEF OwnFeeIInv, NonceInv, service
<1> QED BY <1>2, <1>3, <1>6, <1>8, <1>9, OutsideStep DEF ledger, process, service

LEMMA ChainOrCalendarStep ==
    ASSUME OwnFeeIInv, ExecuteOther \/ Deposit \/ NewMonth
    PROVE  OwnFeeIInv'
<1>1. /\ PayoutTypes /\ UNCHANGED <<batch, process, service, mined, history>>
      /\ nonce \in Nat /\ (nonce' = nonce \/ (nonce < MaxNonce /\ nonce' = nonce + 1))
    <2>1. PayoutTypes /\ nonce \in Nat
        BY DEF OwnFeeIInv, PayoutTypes
    <2>2. UNCHANGED <<batch, process, service, mined, history>>
        BY DEF ExecuteOther, Deposit, NewMonth, ledger, safe
    <2>3. nonce' = nonce \/ (nonce < MaxNonce /\ nonce' = nonce + 1)
        <3>1. CASE ExecuteOther
            BY <3>1 DEF ExecuteOther
        <3>2. CASE Deposit
            BY <3>2 DEF Deposit
        <3>3. CASE NewMonth
            BY <3>3 DEF NewMonth, safe
        <3> QED BY <3>1, <3>2, <3>3
    <2> QED BY <2>1, <2>2, <2>3
<1>2. weth' \in 0..MaxFunds
    <2>1. weth \in 0..MaxFunds
        BY <1>1 DEF PayoutTypes
    <2>2. CASE Deposit
        <3> DEFINE E == {x \in mined : x.ok}
                   total == Total({e.tx : e \in E})
        <3>1. E \subseteq mined
            OBVIOUS
        <3>2. weth + total < MaxFunds /\ weth' = weth + 1
            BY <2>2 DEF Deposit
        <3> HIDE DEF E
        <3>3. total \in Nat
            BY <1>1, <3>1, BookedFacts
        <3> HIDE DEF total
        <3> QED BY <2>1, <3>2, <3>3, Bounds
    <2> QED BY <2>1, <2>2 DEF ExecuteOther, NewMonth, safe
<1>3. month' \in Month
    <2>1. month \in 1..MaxMonth /\ MaxMonth \in Nat
        BY <1>1, Bounds DEF PayoutTypes, Month
    <2> QED BY <2>1 DEF ExecuteOther, Deposit, NewMonth, ledger, Month
<1>4. nonce' \in Nat
    BY <1>1
<1>5. PayoutTypes'
    BY <1>1, <1>2, <1>3, <1>4 DEF PayoutTypes, process, service, history
<1>6. SafeInv'
    <2>1. \A f \in mined : f.tx.nonce < nonce /\ f.tx.nonce \in Nat
        BY <1>1, ProposalFacts DEF OwnFeeIInv, SafeInv, PayoutTypes
    <2>2. \A f \in mined : f.tx.nonce < nonce'
        BY <1>1, <2>1
    <2> QED BY <1>1, <2>2 DEF OwnFeeIInv, SafeInv
<1>7. NonceInv'
    <2>1. Used' = Used /\ Used \in Nat /\ nonce <= Used
        BY <1>1, UsedFacts DEF OwnFeeIInv, NonceInv, Used, LockedMonths, Locked
    <2>2. nonce < MaxNonce => nonce + 1 <= Used
        <3>1. IsFiniteSet(LockedMonths)
            BY Bounds, FS_Subset DEF LockedMonths
        <3>2. Cardinality(LockedMonths) \in Nat
            BY <3>1, FS_CardinalityType
        <3> QED BY <1>1, <3>2, Bounds DEF Used
    <2> QED BY <1>1, <2>1, <2>2 DEF OwnFeeIInv, NonceInv, service
<1> QED BY <1>1, <1>5, <1>6, <1>7, OutsideStep DEF process, service

-----------------------------------------------------------------------------
LEMMA InitOwnFee == OwnFeeInit => OwnFeeIInv
<1> SUFFICES ASSUME OwnFeeInit PROVE OwnFeeIInv
    OBVIOUS
<1>1. /\ month = 1 /\ batch = [m \in Month |-> NoRow] /\ run = NoRun /\ pollers = {} /\ paying = {}
      /\ wire = {} /\ queue = {} /\ mined = {} /\ weth \in 0..MaxFunds /\ nonce = 0
      /\ faults = 0 /\ slipped = 0
    BY DEF OwnFeeInit
<1>2. batch \in [Month -> Row]
    <2>1. NoRow \in Row
        BY Bounds DEF NoRow, Row
    <2> QED BY <1>1, <2>1
<1>3. PayoutTypes
    <2>1. run \in Run
        BY <1>1, Bounds DEF NoRun, Run, PayoutPc
    <2>2. 0 \in 0..MaxFaults /\ IsFiniteSet({})
        BY Bounds, FS_EmptySet
    <2> QED BY <1>1, <1>2, <2>1, <2>2, Bounds DEF PayoutTypes
<1>4. ProposedOnce /\ SafeInv /\ RecordInv
    BY <1>1 DEF ProposedOnce, SafeInv, RecordInv, NoRow
<1>5. BooksFollowChain
    BY <1>1 DEF BooksFollowChain, NoRow
<1>6. NonceInv
    BY <1>1, <1>3, UsedFacts DEF NonceInv
<1>7. RunInv
    BY <1>1 DEF RunInv, PlanInv, SentInv, At, NoRun
<1> QED BY <1>3, <1>4, <1>5, <1>6, <1>7 DEF OwnFeeIInv

LEMMA NextOwnFee == OwnFeeIInv /\ [OwnFeeNext]_ownFeeVars => OwnFeeIInv'
<1> SUFFICES ASSUME OwnFeeIInv, [OwnFeeNext]_ownFeeVars PROVE OwnFeeIInv'
    OBVIOUS
<1>1. CASE Pipeline
    BY <1>1, NightStep, ReconcileStep, RecordsStep, MarksPaidStep, AccrueStep, ReadBalanceStep,
       ReadReserveStep, PassedOver, PrepareStep, OnBeforeSubmitStep, SendStep, ProposedStep,
       AttemptedStep, EndsRunStep DEF Pipeline, Reconcile
<1>2. CASE Pollers
    BY <1>2, PollerRecordsStep, PollerPaysStep, PollerEndsStep DEF Pollers
<1>3. CASE UNCHANGED ownFeeVars
    <2>1. /\ UNCHANGED <<ledger, pollers, paying, service, safe, faults, slipped>> /\ run' = run
        BY <1>3 DEF ownFeeVars, process, history
    <2>2. PayoutTypes' /\ SafeInv' /\ NonceInv'
        BY <2>1 DEF OwnFeeIInv, PayoutTypes, SafeInv, NonceInv, ledger, service, safe, Used, LockedMonths, Locked
    <2> QED BY <2>1, <2>2, OutsideStep DEF ledger, service, safe
<1> QED BY <1>1, <1>2, <1>3, StopStep, ServiceStep, ExecuteStep, ChainOrCalendarStep DEF OwnFeeNext

LEMMA OwnFeeInvariant == OwnFeeSpec => []OwnFeeIInv
BY InitOwnFee, NextOwnFee, PTL DEF OwnFeeSpec

(* Each month of an integrator's own fees is proposed once and paid at     *)
(* most once, the ledger claims only what the chain executed, and the      *)
(* proposals of a run never share a nonce: for any months, amounts, faults *)
(* and transactions of the Safe's owners, wherever the process stops and   *)
(* however late a submission arrives (payout.ts:413, propose.ts:103).      *)
THEOREM PayoutIsSafe == OwnFeeSpec => []OwnFeeInv
<1>1. OwnFeeIInv => OwnFeeInv
    <2> SUFFICES ASSUME OwnFeeIInv PROVE OwnFeeInv
        OBVIOUS
    <2>1. PayoutTypes /\ ProposedOnce /\ BooksFollowChain
        BY DEF OwnFeeIInv
    <2>2. OwnFeeTypeOK
        BY <2>1, RunFacts DEF PayoutTypes, OwnFeeTypeOK, Row
    <2>3. NoncesDistinct
        BY DEF OwnFeeIInv, RunInv, SentInv, NoncesDistinct
    <2> QED BY <2>1, <2>2, <2>3 DEF OwnFeeInv
<1> QED BY <1>1, OwnFeeInvariant, PTL

-----------------------------------------------------------------------------
(* The queue is funded                                                     *)

(* Fewer proposals ask for no more, and one more asks for its amount.      *)
LEMMA TotalGrows ==
    ASSUME NEW T, IsFiniteSet(T), T \subseteq Proposal, NEW S \in SUBSET T
    PROVE  Total(S) <= Total(T) /\ Total(S) \in Nat /\ Total(T) \in Nat
<1> DEFINE f == [tx \in S |-> tx.amount]
           g == [tx \in T |-> tx.amount]
<1>1. \A tx \in T : g[tx] \in Nat
    <2>1. \A tx \in T : g[tx] = tx.amount /\ tx.amount \in 1..MaxOwed
        BY ProposalFacts
    <2> QED BY <2>1, Bounds
<1>2. \A tx \in S : f[tx] \in Nat /\ f[tx] <= g[tx]
    <2>1. \A tx \in S : f[tx] = g[tx] /\ g[tx] \in Nat
        BY <1>1
    <2> QED BY <2>1
<1> HIDE DEF f, g
<1>3. SumFunctionOnSet(f, S) <= SumFunctionOnSet(g, T)
    BY <1>1, <1>2, SumIsLess
<1>4. IsFiniteSet(S) /\ S \subseteq Proposal
    BY FS_Subset
<1> QED BY <1>3, <1>4, TotalIsNat DEF Total, f, g

LEMMA TotalAdds ==
    ASSUME NEW S, NEW T, IsFiniteSet(S), IsFiniteSet(T), S \subseteq Proposal, T \subseteq Proposal,
           S \cap T = {}
    PROVE  Total(S \cup T) = Total(S) + Total(T)
<1> DEFINE f == [tx \in S \cup T |-> tx.amount]
           g == [tx \in S |-> tx.amount]
           h == [tx \in T |-> tx.amount]
<1>1. \A tx \in S \cup T : f[tx] \in Nat
    <2>1. \A tx \in S \cup T : f[tx] = tx.amount /\ tx.amount \in 1..MaxOwed
        BY ProposalFacts
    <2>2. \A k \in 1..MaxOwed : k \in Nat
        BY Bounds
    <2> HIDE DEF f
    <2> QED BY <2>1, <2>2
<1>2. \A tx \in S : f[tx] \in Nat /\ f[tx] = g[tx]
    BY <1>1
<1>3. \A tx \in T : f[tx] \in Nat /\ f[tx] = h[tx]
    BY <1>1
<1> HIDE DEF f, g, h
<1>4. SumFunctionOnSet(f, S \cup T) = SumFunctionOnSet(f, S) + SumFunctionOnSet(f, T)
    BY <1>1, SumAdds
<1>5. /\ SumFunctionOnSet(f, S) = SumFunctionOnSet(g, S)
      /\ SumFunctionOnSet(f, T) = SumFunctionOnSet(h, T)
    BY <1>2, <1>3, SumSame
<1> QED BY <1>4, <1>5 DEF Total, f, g, h

LEMMA TotalOfOne == ASSUME NEW tx \in Proposal PROVE Total({tx}) = tx.amount /\ Total({}) = 0
<1> DEFINE f == [u \in {tx} |-> u.amount]
<1>1. f[tx] = tx.amount /\ tx.amount \in Nat
    BY ProposalFacts, Bounds
<1> HIDE DEF f
<1>2. SumFunctionOnSet(f, {tx}) = f[tx] + SumFunctionOnSet(f, {tx} \ {tx})
    <2>1. IsFiniteSet({tx}) /\ tx \in {tx} /\ \A u \in {tx} : f[u] \in Nat
        BY <1>1, FS_Singleton
    <2> QED BY <2>1, SumSplits
<1>3. {tx} \ {tx} = {}
    OBVIOUS
<1>4. SumFunctionOnSet(f, {}) = 0 /\ \A g : SumFunctionOnSet(g, {}) = 0
    BY SumOfNone
<1>5. SumFunctionOnSet(f, {tx}) = tx.amount
    BY <1>1, <1>2, <1>3, <1>4
<1>6. Total({}) = 0
    BY <1>4 DEF Total
<1> QED BY <1>5, <1>6 DEF Total, f

(* What waits to be executed, and what was since a run read the balance.   *)
LEMMA LiveFacts ==
    ASSUME PayoutTypes
    PROVE  /\ IsFiniteSet(Live) /\ Live \subseteq Proposal /\ Total(Live) \in Nat
           /\ IsFiniteSet(Since) /\ Since \subseteq queue /\ Since \subseteq Proposal /\ Total(Since) \in Nat
           /\ weth \in Nat /\ slipped \in Nat /\ run.remaining \in Nat
<1>1. IsFiniteSet(wire \cup queue) /\ wire \cup queue \subseteq Proposal
    BY FS_Union DEF PayoutTypes
<1>2. Live \in SUBSET (wire \cup queue)
    BY DEF Live
<1>3. IsFiniteSet(Live) /\ Live \subseteq Proposal
    BY <1>1, <1>2, FS_Subset
<1> DEFINE E == {x \in mined \ run.known : x.ok}
<1>4. E \subseteq mined /\ Since = {e.tx : e \in E}
    BY DEF Since
<1> HIDE DEF E
<1>5. Since \subseteq queue /\ Since \subseteq Proposal /\ IsFiniteSet(Since) /\ Total(Since) \in Nat
    BY <1>4, BookedFacts
<1>6. weth \in Nat /\ slipped \in Nat /\ run.remaining \in Nat
    BY RunFacts, Bounds DEF PayoutTypes
<1> QED BY <1>3, <1>5, <1>6, TotalIsNat

(* A proposal that can still be executed is reserved for.                  *)
LEMMA LiveIsQueued ==
    ASSUME OwnFeeIInv, NEW tx \in Live
    PROVE  tx.month \in Queued /\ batch[tx.month].owed = tx.amount
<1>1. /\ PayoutTypes /\ tx \in wire \cup queue /\ tx.nonce >= nonce /\ tx \in Proposal
      /\ tx.month \in Month /\ Locked(tx.month) /\ batch[tx.month].owed = tx.amount
    BY ProposalFacts DEF Live, OwnFeeIInv, PayoutTypes, ProposedOnce
<1>2. ASSUME batch[tx.month].status \in {"executed", "failed"} PROVE FALSE
    <2>1. PICK e \in mined : e.tx = batch[tx.month].hash
        BY <1>1, <1>2 DEF OwnFeeIInv, BooksFollowChain
    <2>2. e.tx \in queue /\ e.tx \in Proposal /\ e.tx.nonce < nonce
        BY <1>1 DEF PayoutTypes, OwnFeeIInv, SafeInv
    <2>3. e.tx.month = tx.month
        BY <1>1, <2>1, <2>2, NoTxAssumption DEF OwnFeeIInv, RecordInv
    <2>4. e.tx = tx
        BY <1>1, <2>2, <2>3 DEF OwnFeeIInv, ProposedOnce
    <2> QED BY <1>1, <2>2, <2>4, ProposalFacts DEF PayoutTypes
<1> QED BY <1>1, <1>2 DEF Queued, Locked, PROPOSED_STATUSES

(* The reserve covers what can still be executed, and what was executed    *)
(* for months that are still reserved.                                     *)
LEMMA ReserveCovers ==
    ASSUME OwnFeeIInv
    PROVE  LET booked == {tx \in Since : tx.month \in Queued} IN
           Total(Live) + Total(booked) <= reservedForQueued /\ Total(booked) \in Nat
                                                            /\ reservedForQueued \in Nat
<1> DEFINE booked == {tx \in Since : tx.month \in Queued}
           S == Live \cup booked
<1>1. PayoutTypes
    BY DEF OwnFeeIInv
<1>2. /\ booked \in SUBSET Since /\ IsFiniteSet(booked) /\ booked \subseteq Proposal
      /\ Total(booked) \in Nat
    BY <1>1, LiveFacts, FS_Subset, TotalIsNat
<1>3. Live \cap booked = {}
    <2>1. \A tx \in Since : tx.nonce < nonce /\ tx.nonce \in Nat
        BY <1>1, ProposalFacts DEF Since, OwnFeeIInv, SafeInv, PayoutTypes
    <2>2. \A tx \in Live : tx.nonce >= nonce
        BY DEF Live
    <2>3. nonce \in Nat
        BY <1>1 DEF PayoutTypes
    <2> QED BY <1>2, <2>1, <2>2, <2>3
<1>4. \A tx \in S : tx \in wire \cup queue /\ tx \in Proposal /\ tx.month \in Queued /\ batch[tx.month].owed = tx.amount
    <2>1. \A tx \in Live : tx \in wire \cup queue /\ tx.month \in Queued /\ batch[tx.month].owed = tx.amount
        BY LiveIsQueued DEF Live
    <2>2. \A tx \in booked : tx \in queue /\ tx.month \in Queued
        BY <1>1, LiveFacts
    <2>3. \A tx \in queue : batch[tx.month].owed = tx.amount
        BY DEF OwnFeeIInv, ProposedOnce
    <2> QED BY <1>1, <2>1, <2>2, <2>3 DEF PayoutTypes
<1> HIDE DEF booked
<1>5. IsFiniteSet(S) /\ S \subseteq Proposal /\ Total(S) = Total(Live) + Total(booked)
    BY <1>1, <1>2, <1>3, LiveFacts, TotalAdds, FS_Union
<1> HIDE DEF S
<1> DEFINE f == [tx \in S |-> tx.amount]
           g == [m \in Queued |-> batch[m].owed]
           h == [tx \in S |-> tx.month]
<1>6. IsFiniteSet(Queued) /\ Queued \in SUBSET Month
    BY Bounds, FS_Subset DEF Queued
<1>7. \A m \in Queued : g[m] = batch[m].owed /\ g[m] \in Nat
    BY <1>1, <1>6, RowFacts, Bounds
<1>8. \A tx \in S : f[tx] \in Nat /\ h[tx] \in Queued /\ f[tx] <= g[h[tx]]
    <2> SUFFICES ASSUME NEW tx \in S PROVE f[tx] \in Nat /\ h[tx] \in Queued /\ f[tx] <= g[h[tx]]
        OBVIOUS
    <2>1. f[tx] = tx.amount /\ h[tx] = tx.month /\ tx.month \in Queued
        BY <1>4
    <2>2. g[tx.month] = tx.amount /\ g[tx.month] \in Nat
        BY <1>4, <1>7
    <2> QED BY <2>1, <2>2
<1>9. h \in [S -> Queued] /\ \A tx, u \in S : h[tx] = h[u] => tx = u
    BY <1>4 DEF OwnFeeIInv, ProposedOnce
<1> HIDE DEF f, g, h
<1>10. SumFunctionOnSet(f, S) <= SumFunctionOnSet(g, Queued)
    BY <1>5, <1>6, <1>7, <1>8, <1>9, SumGrows
<1>11. Total(S) <= reservedForQueued
    BY <1>10 DEF Total, reservedForQueued, Sum, f, g
<1>12. reservedForQueued \in Nat
    BY <1>1, <1>6, SumOwedIsNat DEF reservedForQueued
<1> QED BY <1>2, <1>5, <1>11, <1>12 DEF booked

(* Nothing that can be executed is new, and nothing was executed.          *)
LEMMA FundsShrink ==
    ASSUME OwnFeeIInv, PayoutTypes', FundsInv, Live' \subseteq Live, weth <= weth',
           slipped' = slipped, mined' = mined, run' = run,
           At("sent") => batch'[Oldest].owed = batch[Oldest].owed
    PROVE  FundsInv'
<1>1. /\ PayoutTypes /\ Total(Live') <= Total(Live) /\ Total(Live) \in Nat /\ Total(Live') \in Nat
      /\ weth \in Nat /\ weth' \in Nat /\ slipped \in Nat /\ run.remaining \in Nat
    BY LiveFacts, TotalGrows, Bounds DEF OwnFeeIInv, PayoutTypes
<1>2. Total(Live)' = Total(Live') /\ Oldest' = Oldest
    BY DEF Total, Oldest
<1>3. QueueIsFunded'
    BY <1>1, <1>2 DEF FundsInv, QueueIsFunded
<1>4. At("reserve") => run.known \subseteq mined /\ run.balance <= weth' + Total(Since)'
    <2>1. Total(Since)' = Total(Since) /\ Total(Since) \in Nat /\ run.balance \in 0..MaxFunds
        BY <1>1, LiveFacts, RunFacts DEF Total, Since
    <2> QED BY <1>1, <2>1, Bounds DEF FundsInv
<1>5. run.pc \in {"propose", "submit", "send"} => Total(Live') + run.remaining <= weth' + slipped
    BY <1>1 DEF FundsInv
<1>6. At("sent") => Total(Live') + run.remaining <= weth' + slipped + batch[Oldest].owed
    <2> SUFFICES ASSUME At("sent") PROVE Total(Live') + run.remaining <= weth' + slipped + batch[Oldest].owed
        OBVIOUS
    <2>1. Oldest \in Month /\ batch[Oldest].owed \in 0..MaxOwed
        BY <1>1, SubmissionFacts, RowFacts DEF At
    <2>2. batch[Oldest].owed \in Nat
        BY <2>1, Bounds
    <2> QED BY <1>1, <2>2 DEF FundsInv
<1> QED BY <1>2, <1>3, <1>4, <1>5, <1>6 DEF FundsInv, At

(* The Safe executes what could be executed: what it pays, the proposal    *)
(* asks for no more.                                                       *)
LEMMA ExecuteFunds == ASSUME OwnFeeIInv, OwnFeeIInv', FundsInv, NEW tx \in queue, Execute(tx) PROVE FundsInv'
<1>1. PICK ok \in BOOLEAN :
          /\ mined' = mined \cup {[tx |-> tx, ok |-> ok]}
          /\ weth' = IF ok THEN weth - tx.amount ELSE weth
    <2>1. PICK ok \in {tx.amount <= weth, FALSE} :
              /\ mined' = mined \cup {[tx |-> tx, ok |-> ok]}
              /\ weth' = IF ok THEN weth - tx.amount ELSE weth
        BY DEF Execute
    <2>2. CASE tx.amount <= weth
        <3>1. (tx.amount <= weth) = TRUE
            BY <2>2, Zenon
        <3> QED BY <2>1, <2>2, <3>1
    <2>3. CASE ~ (tx.amount <= weth)
        <3>1. (tx.amount <= weth) = FALSE
            BY <2>3
        <3> QED BY <2>1, <3>1
    <2> QED BY <2>2, <2>3
<1> DEFINE e == [tx |-> tx, ok |-> ok]
           paid == IF ok THEN tx.amount ELSE 0
<1>2. e.tx = tx /\ e.ok = ok /\ mined' = mined \cup {e}
    BY <1>1
<1> HIDE DEF e
<1>3. /\ PayoutTypes /\ PayoutTypes' /\ tx \in Proposal /\ tx.nonce = nonce /\ nonce' = nonce + 1
      /\ nonce \in Nat /\ run' = run /\ slipped' = slipped /\ batch' = batch
      /\ wire' = wire /\ queue' = queue
    BY DEF OwnFeeIInv, PayoutTypes, Execute, process, history, ledger, service
<1>4. weth \in Nat /\ weth' \in Nat /\ weth = weth' + paid /\ paid \in Nat /\ paid <= tx.amount
      /\ tx.amount \in Nat
    <2>1. weth \in Nat /\ weth' \in Nat /\ tx.amount \in Nat
        BY <1>3, LiveFacts, ProposalFacts, Bounds DEF PayoutTypes
    <2> QED BY <1>1, <2>1
<1>5. Total(Live') + tx.amount <= Total(Live) /\ Total(Live') \in Nat
    <2> DEFINE rest == Live \ {tx}
    <2>1. tx \in Live /\ Live' \subseteq rest
        <3>1. \A u \in wire \cup queue : u.nonce \in Nat
            BY <1>3, ProposalFacts DEF PayoutTypes
        <3> QED BY <1>3, <3>1 DEF Live
    <2>2. IsFiniteSet(Live) /\ Live \subseteq Proposal
        BY <1>3, LiveFacts
    <2>3. IsFiniteSet(rest) /\ rest \subseteq Proposal /\ Live = {tx} \cup rest /\ {tx} \cap rest = {}
        BY <2>1, <2>2, FS_RemoveElement
    <2> HIDE DEF rest
    <2>4. Total({tx} \cup rest) = Total({tx}) + Total(rest)
        BY <1>3, <2>3, FS_Singleton, TotalAdds
    <2>5. Total(Live') <= Total(rest) /\ Total(rest) \in Nat /\ Total(Live') \in Nat
        BY <2>1, <2>3, TotalGrows
    <2>6. Total(Live) = tx.amount + Total(rest)
        BY <1>3, <2>3, <2>4, TotalOfOne
    <2> QED BY <1>4, <2>5, <2>6
<1>6. Total(Live)' = Total(Live') /\ Oldest' = Oldest
    BY <1>3 DEF Total, Oldest
<1>7. Total(Live) \in Nat /\ slipped \in Nat /\ run.remaining \in Nat
    BY <1>3, LiveFacts
<1>8. At("reserve") => run.known \subseteq mined' /\ run.balance <= weth' + Total(Since)'
    <2> SUFFICES ASSUME At("reserve") PROVE run.known \subseteq mined' /\ run.balance <= weth' + Total(Since)'
        OBVIOUS
    <2>1. run.known \subseteq mined /\ run.balance <= weth + Total(Since)
        BY DEF FundsInv
    <2>2. \A f \in mined : f.tx # tx
        <3>1. \A f \in mined : f.tx.nonce < nonce
            BY DEF OwnFeeIInv, SafeInv
        <3> QED BY <1>3, <3>1
    <2>3. Since' = IF ok THEN Since \cup {tx} ELSE Since
        <3>1. e \notin run.known
            BY <1>2, <2>1, <2>2
        <3>2. {x \in mined' \ run'.known : x.ok}
                 = IF ok THEN {x \in mined \ run.known : x.ok} \cup {e} ELSE {x \in mined \ run.known : x.ok}
            BY <1>2, <1>3, <3>1
        <3> QED BY <1>2, <3>2 DEF Since
    <2>4. tx \notin Since
        BY <2>2 DEF Since
    <2>5. IsFiniteSet(Since) /\ Since \subseteq Proposal /\ Total(Since) \in Nat
        BY <1>3, LiveFacts
    <2>6. Total(Since \cup {tx}) = Total(Since) + tx.amount
        <3>1. Since \cap {tx} = {} /\ IsFiniteSet({tx}) /\ {tx} \subseteq Proposal
            BY <1>3, <2>4, FS_Singleton
        <3> QED BY <1>3, <2>5, <3>1, TotalAdds, TotalOfOne
    <2>7. Total(Since') = Total(Since) + paid
        BY <2>3, <2>5, <2>6
    <2>8. Total(Since)' = Total(Since')
        BY DEF Total
    <2>9. run.balance \in 0..MaxFunds
        BY <1>3, RunFacts
    <2> QED BY <1>2, <1>4, <2>1, <2>5, <2>7, <2>8, <2>9, Bounds
<1>9. QueueIsFunded'
    BY <1>3, <1>4, <1>5, <1>6, <1>7 DEF FundsInv, QueueIsFunded
<1>10. run.pc \in {"propose", "submit", "send"} => Total(Live') + run.remaining <= weth' + slipped
    BY <1>4, <1>5, <1>7 DEF FundsInv
<1>11. At("sent") => Total(Live') + run.remaining <= weth' + slipped + batch[Oldest].owed
    <2> SUFFICES ASSUME At("sent") PROVE Total(Live') + run.remaining <= weth' + slipped + batch[Oldest].owed
        OBVIOUS
    <2>1. Oldest \in Month /\ batch[Oldest].owed \in 0..MaxOwed
        BY <1>3, SubmissionFacts, RowFacts DEF At
    <2>2. batch[Oldest].owed \in Nat
        BY <2>1, Bounds
    <2> QED BY <1>4, <1>5, <1>7, <2>2 DEF FundsInv
<1> QED BY <1>3, <1>6, <1>8, <1>9, <1>10, <1>11 DEF FundsInv, At

(* The pipeline alone moves: what can be executed stays, and the run       *)
(* promises no more than it did.                                           *)
LEMMA FundsPlan ==
    ASSUME OwnFeeIInv, FundsInv, UNCHANGED <<service, safe, slipped>>,
           At("reserve")' => run'.known \subseteq mined /\ run'.balance <= weth + Total(Since)',
           run'.pc \in {"propose", "submit", "send"} => Total(Live) + run'.remaining <= weth + slipped,
           At("sent")' => Total(Live) + run'.remaining <= weth + slipped + batch'[Oldest'].owed
    PROVE  FundsInv'
<1>1. Total(Live)' = Total(Live) /\ weth' = weth /\ slipped' = slipped /\ mined' = mined
    BY DEF Total, Live, service, safe
<1> QED BY <1>1 DEF FundsInv, QueueIsFunded, At

LEMMA ReadReserveFunds == ASSUME OwnFeeIInv, FundsInv, ReadReserve PROVE FundsInv'
<1> DEFINE booked == {tx \in Since : tx.month \in Queued}
           gone == {tx \in Since : tx.month \notin Queued}
           E == {x \in mined \ run.known : x.ok /\ x.tx.month \notin Queued}
<1>1. /\ PayoutTypes /\ run.pc = "reserve" /\ UNCHANGED <<service, safe>>
      /\ run.balance <= weth + Total(Since) /\ Total(Live) <= weth + slipped
    BY DEF OwnFeeIInv, ReadReserve, At, FundsInv, QueueIsFunded
<1>2. gone = {e.tx : e \in E}
    BY DEF Since
<1>3. slipped' = slipped + Total({e.tx : e \in E})
    BY DEF ReadReserve
<1>4. slipped' = slipped + Total(gone)
    BY <1>2, <1>3, Zenon
<1>5. /\ Total(Live) + Total(booked) <= reservedForQueued
      /\ Total(booked) \in Nat /\ reservedForQueued \in Nat
    BY ReserveCovers
<1>6. /\ Since = booked \cup gone /\ booked \cap gone = {}
      /\ booked \in SUBSET Since /\ gone \in SUBSET Since
    OBVIOUS
<1>7. run' = [run EXCEPT !.pc = "propose", !.balance = 0, !.known = {},
                !.remaining = IF run.balance > reservedForQueued
                              THEN run.balance - reservedForQueued ELSE 0]
    BY DEF ReadReserve
<1>8. run'.pc = "propose" /\ run'.remaining = IF run.balance > reservedForQueued
                                               THEN run.balance - reservedForQueued ELSE 0
    BY <1>1, <1>7 DEF PayoutTypes, Run
<1> HIDE DEF booked, gone, E
<1>9. /\ IsFiniteSet(booked) /\ IsFiniteSet(gone) /\ booked \subseteq Proposal /\ gone \subseteq Proposal
      /\ Total(gone) \in Nat
    BY <1>1, <1>6, LiveFacts, FS_Subset, TotalIsNat
<1>10. Total(Since) = Total(booked) + Total(gone)
    BY <1>6, <1>9, TotalAdds
<1>11. /\ Total(Live) \in Nat /\ weth \in Nat /\ slipped \in Nat /\ run.balance \in Nat
    BY <1>1, LiveFacts, RunFacts, Bounds
<1>12. Total(Live) + run'.remaining <= weth + slipped'
    BY <1>1, <1>4, <1>5, <1>8, <1>9, <1>10, <1>11
<1>13. Total(Live)' = Total(Live) /\ weth' = weth
    BY <1>1 DEF Total, Live, service, safe
<1>14. QueueIsFunded'
    BY <1>1, <1>4, <1>9, <1>11, <1>13 DEF QueueIsFunded
<1> QED BY <1>8, <1>12, <1>13, <1>14 DEF FundsInv, At

(* The submission asks for what the run has left for it.                   *)
LEMMA SendFunds == ASSUME OwnFeeIInv, OwnFeeIInv', FundsInv, Send PROVE FundsInv'
<1> DEFINE s == Submission
<1>1. /\ PayoutTypes /\ run.pc = "send" /\ wire' = wire \cup {s} /\ UNCHANGED <<batch, queue, safe, history>>
      /\ Total(Live) + run.remaining <= weth + slipped
    BY DEF OwnFeeIInv, Send, At, FundsInv, ledger
<1>2. /\ s \in Proposal /\ s.amount = batch[Oldest].owed /\ Oldest \in Month
      /\ batch[Oldest].owed <= run.remaining
    BY <1>1, SubmissionFacts
<1>3. run'.pc = "sent" /\ run'.todo = run.todo /\ run'.remaining = run.remaining
    <2>1. run' = [run EXCEPT !.pc = "sent", !.sent = run.sent \cup {s}]
        BY <1>1, RunFacts DEF Send, PayoutTypes, Run
    <2> HIDE DEF s
    <2> QED BY <1>1, <2>1 DEF PayoutTypes, Run
<1>4. Oldest' = Oldest /\ batch'[Oldest'].owed = batch[Oldest].owed
    BY <1>1, <1>3 DEF Oldest
<1>5. /\ IsFiniteSet(Live) /\ Live \subseteq Proposal /\ Total(Live) \in Nat
      /\ weth \in Nat /\ slipped \in Nat /\ run.remaining \in Nat
    BY <1>1, LiveFacts
<1> HIDE DEF s
<1>6. Live' \subseteq Live \cup {s}
    BY <1>1 DEF Live, safe
<1>7. Total(Live') <= Total(Live) + s.amount /\ Total(Live') \in Nat /\ s.amount \in Nat
    <2> DEFINE fresh == {s} \ Live
    <2>1. fresh \in SUBSET {s} /\ Live \cap fresh = {} /\ Live' \subseteq Live \cup fresh
        BY <1>6
    <2>2. IsFiniteSet({s}) /\ {s} \subseteq Proposal
        BY <1>2, FS_Singleton
    <2> HIDE DEF fresh
    <2>3. IsFiniteSet(fresh) /\ fresh \subseteq Proposal /\ IsFiniteSet(Live \cup fresh)
        BY <1>5, <2>1, <2>2, FS_Subset, FS_Union
    <2>4. Total(Live \cup fresh) = Total(Live) + Total(fresh)
        BY <1>5, <2>1, <2>3, TotalAdds
    <2>5. Total(fresh) <= Total({s}) /\ Total(fresh) \in Nat /\ Total({s}) = s.amount
        BY <1>2, <2>1, <2>2, TotalGrows, TotalOfOne
    <2>6. Total(Live') <= Total(Live \cup fresh) /\ Total(Live') \in Nat
        <3>1. Live \cup fresh \subseteq Proposal /\ Live' \in SUBSET (Live \cup fresh)
            BY <1>5, <2>1, <2>3
        <3> QED BY <2>3, <3>1, TotalGrows
    <2>7. s.amount \in Nat
        BY <1>2, ProposalFacts, Bounds
    <2> QED BY <1>5, <2>4, <2>5, <2>6, <2>7
<1>8. Total(Live)' = Total(Live') /\ weth' = weth /\ slipped' = slipped
    BY <1>1 DEF Total, safe, history
<1>9. Total(Live') + run.remaining <= weth + slipped + batch[Oldest].owed
    BY <1>1, <1>2, <1>5, <1>7
<1>10. Total(Live') <= weth + slipped
    BY <1>1, <1>2, <1>5, <1>7
<1> QED BY <1>3, <1>4, <1>8, <1>9, <1>10 DEF FundsInv, QueueIsFunded, At

(* The run goes on with what it has left.                                  *)
LEMMA UsesFunds == ASSUME OwnFeeIInv, FundsInv, Proposed \/ Attempted PROVE FundsInv'
<1>1. /\ At("sent") /\ run.pc = "sent" /\ run' = Uses /\ UNCHANGED <<service, safe, slipped>> /\ PayoutTypes
    BY DEF Proposed, Attempted, At, history, OwnFeeIInv
<1>2. run'.pc = "propose" /\ run'.remaining = run.remaining - batch[Oldest].owed
    BY <1>1, UsesFacts
<1>3. Total(Live) + run.remaining <= weth + slipped + batch[Oldest].owed
    BY <1>1 DEF FundsInv
<1>4. /\ Total(Live) \in Nat /\ weth \in Nat /\ slipped \in Nat /\ run.remaining \in Nat
      /\ batch[Oldest].owed \in 0..MaxOwed
    BY <1>1, LiveFacts, SubmissionFacts, RowFacts
<1>5. Total(Live) + run'.remaining <= weth + slipped
    BY <1>2, <1>3, <1>4, Bounds
<1> QED BY <1>1, <1>2, <1>5, FundsPlan DEF At

(* The steps that only plan.                                               *)
LEMMA PlanFunds ==
    ASSUME OwnFeeIInv, FundsInv, Blocked \/ Prepare \/ PresubmitFails \/ OnBeforeSubmit
    PROVE  FundsInv'
<1>1. /\ run.pc \in {"propose", "submit"} /\ UNCHANGED <<service, safe, slipped>> /\ PayoutTypes
    BY DEF Blocked, Prepare, PresubmitFails, OnBeforeSubmit, At, history, OwnFeeIInv
<1>2. run'.pc \in {"propose", "submit", "send"} /\ run'.remaining = run.remaining
    <2>1. PICK pc \in {"propose", "submit", "send"} :
              \E todo, n : run' = [run EXCEPT !.pc = pc, !.todo = todo, !.nonce = n]
        <3>1. CASE Blocked \/ PresubmitFails
            <4>1. run' = [run EXCEPT !.pc = "propose", !.todo = Others]
                BY <3>1 DEF Blocked, PresubmitFails, Goes
            <4>2. run' = [run EXCEPT !.pc = "propose", !.todo = Others, !.nonce = run.nonce]
                BY <1>1, <4>1 DEF PayoutTypes, Run
            <4> QED BY <4>2
        <3>2. CASE OnBeforeSubmit
            <4>1. run' = [run EXCEPT !.pc = "send", !.todo = run.todo]
                BY <3>2 DEF OnBeforeSubmit, Goes
            <4>2. run' = [run EXCEPT !.pc = "send", !.todo = run.todo, !.nonce = run.nonce]
                BY <1>1, <4>1 DEF PayoutTypes, Run
            <4> QED BY <4>2
        <3>3. CASE Prepare
            <4> DEFINE n == IF run.nonce = -1 THEN NextNonce ELSE run.nonce
            <4>1. run' = [run EXCEPT !.pc = "submit", !.nonce = n]
                BY <3>3 DEF Prepare
            <4> HIDE DEF n
            <4>2. run' = [run EXCEPT !.pc = "submit", !.todo = run.todo, !.nonce = n]
                BY <1>1, <4>1 DEF PayoutTypes, Run
            <4> QED BY <4>2
        <3> QED BY <3>1, <3>2, <3>3
    <2> QED BY <1>1, <2>1 DEF PayoutTypes, Run
<1> QED BY <1>1, <1>2, FundsPlan DEF FundsInv, At

LEMMA ReadBalanceFunds == ASSUME OwnFeeIInv, FundsInv, ReadBalance PROVE FundsInv'
<1>1. PayoutTypes /\ UNCHANGED <<service, safe, slipped>>
    BY DEF ReadBalance, history, OwnFeeIInv
<1>2. run'.pc = "reserve" /\ run'.known = mined /\ run'.balance = weth /\ mined' = mined
    BY <1>1 DEF ReadBalance, PayoutTypes, Run, safe
<1>3. Since' = {}
    BY <1>2 DEF Since
<1>4. Total({}) = 0 /\ Total(Since)' = Total(Since')
    BY SumOfNone DEF Total
<1>5. weth <= weth + Total(Since)'
    BY <1>1, <1>3, <1>4, LiveFacts
<1> QED BY <1>1, <1>2, <1>5, FundsPlan DEF At

(* A run that has not come to its plan, or has ended, promises nothing.    *)
LEMMA IdleFunds ==
    ASSUME OwnFeeIInv, FundsInv, UNCHANGED <<service, safe, slipped>>,
           run'.pc \in {"off", "reconcile", "pay", "accrue", "balance"}
    PROVE  FundsInv'
BY FundsPlan DEF At

LEMMA PipelineFunds == ASSUME OwnFeeIInv, OwnFeeIInv', FundsInv, Pipeline PROVE FundsInv'
<1>1. PayoutTypes /\ run \in Run
    BY DEF OwnFeeIInv, PayoutTypes
<1>2. CASE Night \/ EndsRun
    <2>1. run'.pc \in {"reconcile", "off"}
        <3>1. CASE Night
            <4>1. run' = [pc |-> "reconcile", todo |-> Open, month |-> 1, known |-> {}, balance |-> 0,
                          remaining |-> 0, nonce |-> -1, sent |-> {}]
                BY <3>1 DEF Night, NoRun
            <4> QED BY <4>1
        <3> QED BY <1>2, <3>1 DEF EndsRun, NoRun
    <2> QED BY <1>2, <2>1, IdleFunds DEF Night, EndsRun, history
<1>3. ASSUME NEW m \in Month, LeavesOpen(m) \/ Records(m) PROVE FundsInv'
    <2>1. run'.pc \in {"reconcile", "pay"}
        BY <1>1, <1>3 DEF LeavesOpen, Records, Goes, At, Run
    <2> QED BY <1>3, <2>1, IdleFunds DEF LeavesOpen, Records, history
<1>4. CASE MarksPaid \/ EntriesFail \/ AccrueMonth
    <2>1. run'.pc \in {"reconcile", "accrue"}
        BY <1>1, <1>4 DEF MarksPaid, EntriesFail, AccrueMonth, Goes, Run
    <2> QED BY <1>4, <2>1, IdleFunds DEF MarksPaid, EntriesFail, AccrueMonth, history
<1>5. CASE MonthlySection \/ SelectPayable
    <2>1. run'.pc \in {"off", "accrue", "balance"}
        <3>1. CASE run' = NoRun
            BY <3>1 DEF NoRun
        <3>2. ASSUME NEW pc \in {"accrue", "balance"}, NEW todo, Goes(pc, todo) PROVE run'.pc = pc
            BY <1>1, <3>2 DEF Goes, Run
        <3>3. \/ run' = NoRun \/ Goes("accrue", settledMonthsToAccrue) \/ Goes("balance", Payable)
            BY <1>5 DEF MonthlySection, SelectPayable
        <3> QED BY <3>1, <3>2, <3>3
    <2> QED BY <1>5, <2>1, IdleFunds DEF MonthlySection, SelectPayable, history
<1> QED BY <1>2, <1>3, <1>4, <1>5, ReadBalanceFunds, ReadReserveFunds, PlanFunds, SendFunds, UsesFunds
        DEF Pipeline, Reconcile

LEMMA OutsideFunds ==
    ASSUME OwnFeeIInv, OwnFeeIInv', FundsInv,
           \/ Pollers \/ ExecuteOther \/ Deposit \/ NewMonth \/ UNCHANGED ownFeeVars
           \/ \E tx \in wire : Arrives(tx) \/ Lost(tx)
    PROVE  FundsInv'
<1>1. PayoutTypes /\ PayoutTypes' /\ run' = run /\ slipped' = slipped /\ mined' = mined
    BY DEF OwnFeeIInv, Pollers, PollerRecords, PollerGivesUp, PollerPays, PollerEntriesFail, ExecuteOther,
           Deposit, NewMonth, ownFeeVars, Arrives, Lost, process, history, safe
<1>2. weth <= weth' /\ nonce <= nonce' /\ nonce \in Nat /\ nonce' \in Nat
    <2>1. weth \in Nat /\ nonce \in Nat /\ nonce' \in Nat
        BY <1>1, LiveFacts DEF PayoutTypes
    <2>2. weth' = weth \/ weth' = weth + 1
        BY DEF Pollers, PollerRecords, PollerGivesUp, PollerPays, PollerEntriesFail, ExecuteOther,
               Deposit, NewMonth, ownFeeVars, Arrives, Lost, safe
    <2>3. nonce' = nonce \/ nonce' = nonce + 1
        BY DEF Pollers, PollerRecords, PollerGivesUp, PollerPays, PollerEntriesFail, ExecuteOther,
               Deposit, NewMonth, ownFeeVars, Arrives, Lost, safe
    <2> QED BY <2>1, <2>2, <2>3
<1>3. wire' \cup queue' \subseteq wire \cup queue
    BY DEF Pollers, PollerRecords, PollerGivesUp, PollerPays, PollerEntriesFail, ExecuteOther,
           Deposit, NewMonth, ownFeeVars, Arrives, Lost, service
<1>4. Live' \subseteq Live
    <2>1. \A tx \in wire \cup queue : tx.nonce \in Nat
        BY <1>1, ProposalFacts DEF PayoutTypes
    <2> QED BY <1>2, <1>3, <2>1 DEF Live
<1>5. At("sent") => batch'[Oldest].owed = batch[Oldest].owed
    <2> SUFFICES ASSUME At("sent") PROVE batch'[Oldest].owed = batch[Oldest].owed
        OBVIOUS
    <2>1. Oldest \in Month
        BY SubmissionFacts DEF At
    <2>2. ASSUME NEW m, NEW status, m \in Month, SetStatus(m, status) \/ MarkPaid(m)
          PROVE  batch'[Oldest].owed = batch[Oldest].owed
        BY <1>1, <2>1, <2>2 DEF SetStatus, MarkPaid, PayoutTypes, Row
    <2>3. CASE Pollers
        <3>1. ASSUME NEW tx \in pollers, PollerRecords(tx) PROVE batch'[Oldest].owed = batch[Oldest].owed
            <4>1. tx.month \in Month
                BY <1>1, ProposalFacts DEF PayoutTypes
            <4>2. PICK e \in mined : SetStatus(tx.month, Result(e))
                BY <3>1 DEF PollerRecords
            <4> QED BY <2>2, <4>1, <4>2
        <3>2. ASSUME NEW m \in paying, PollerPays(m) PROVE batch'[Oldest].owed = batch[Oldest].owed
            BY <1>1, <2>2, <3>2 DEF PollerPays, PayoutTypes
        <3> QED BY <2>3, <3>1, <3>2 DEF Pollers, PollerGivesUp, PollerEntriesFail, ledger
    <2>4. CASE ~ Pollers
        BY <2>4 DEF ExecuteOther, Deposit, NewMonth, ownFeeVars, Arrives, Lost, ledger
    <2> QED BY <2>3, <2>4
<1> QED BY <1>1, <1>2, <1>4, <1>5, FundsShrink

LEMMA InitFunds == OwnFeeInit => FundsInv
<1> SUFFICES ASSUME OwnFeeInit PROVE FundsInv
    OBVIOUS
<1>1. Live = {} /\ weth \in Nat /\ slipped = 0 /\ run.pc = "off"
    BY Bounds DEF OwnFeeInit, Live, NoRun
<1>2. Total({}) = 0
    BY SumOfNone DEF Total
<1> QED BY <1>1, <1>2 DEF FundsInv, QueueIsFunded, At

LEMMA NextFunds == OwnFeeIInv /\ OwnFeeIInv' /\ FundsInv /\ [OwnFeeNext]_ownFeeVars => FundsInv'
<1>1. ASSUME OwnFeeIInv, OwnFeeIInv', FundsInv, Stop PROVE FundsInv'
    BY <1>1, IdleFunds DEF Stop, NoRun
<1> QED BY <1>1, PipelineFunds, OutsideFunds, ExecuteFunds DEF OwnFeeNext

(* The over-draw guard: whatever the owners execute and whenever a         *)
(* submission arrives, the Safe can pay everything that is queued, over    *)
(* all runs, up to what was executed and recorded between a run's two      *)
(* reads (payout.ts:307, payout.ts:315).                                   *)
THEOREM PayoutIsFunded == OwnFeeSpec => []QueueIsFunded
<1>1. FundsInv => QueueIsFunded
    BY DEF FundsInv
<1> QED BY <1>1, InitFunds, NextFunds, OwnFeeInvariant, PTL DEF OwnFeeSpec
=============================================================================
