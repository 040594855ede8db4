------------------------- MODULE RewardsDistributor -------------------------
(***************************************************************************)
(* OphisRewardsDistributor: a finite inventory of prizes, each reserved    *)
(* for one wallet by a signed assignment and paid once.  Anyone relays     *)
(* assignments and claims, in any order; the owner pauses and replaces the *)
(* signer; tokens arrive at any time.                                      *)
(*                                                                         *)
(* External: the reward token, a plain ERC-20 that calls nobody back, and  *)
(* the signers, who sign off chain for the epoch they see.  ECDSA is the   *)
(* set of statements that were signed.                                     *)
(***************************************************************************)
EXTENDS Integers, FiniteSets

CONSTANTS
    Account,    \* wallets that may be assigned a prize
    Signer,     \* keys the owner may appoint
    Small,      \* ONE_DOLLAR_REWARD
    Large,      \* TEN_DOLLAR_REWARD
    MaxSmall,   \* MAX_ONE_DOLLAR_REWARDS
    MaxLarge,   \* MAX_TEN_DOLLAR_REWARDS
    MaxEpoch,   \* bound: signer replacements
    MaxFunding, \* bound: tokens that ever arrive
    MaxSigned   \* bound: statements signed

ASSUME InventoryAssumption ==
    /\ Small \in Nat \ {0} /\ Large \in Nat /\ Small < Large
    /\ MaxSmall \in Nat /\ MaxLarge \in Nat
ASSUME BoundAssumption == MaxEpoch \in Nat /\ MaxFunding \in Nat /\ MaxSigned \in Nat

Amount == {Small, Large}
MaxTickets == MaxSmall + MaxLarge
MaxLifetimePayout == MaxSmall * Small + MaxLarge * Large
Ticket == 1..MaxTickets

(* What a signer signs: the Assignment struct.                             *)
Assignment == [recipient : Account, ticketId : Ticket, amount : Amount, signerEpoch : 0..MaxEpoch]

VARIABLES
    rewardSigner, signerEpoch, paused,
    oneDollarAssigned, tenDollarAssigned, totalAssigned,
    totalAssignedValue, totalClaimed, totalClaimedValue,
    rewardOf,        \* Account -> prize, 0 when none
    ticketOf,        \* Account -> ticket, 0 when none
    claimed,         \* the accounts paid
    assignedTicket,  \* the tickets used
    balance,         \* the contract's tokens
    received,        \* history: tokens that ever arrived
    wallet,          \* history: Account -> tokens paid to it
    signed,          \* the assignments signed, with the key that signed
    thisTerm         \* history: those signed since the signer was last appointed

assignments == <<oneDollarAssigned, tenDollarAssigned, totalAssigned,
                 totalAssignedValue, rewardOf, ticketOf, assignedTicket>>
claims == <<totalClaimed, totalClaimedValue, claimed, wallet>>
office == <<rewardSigner, signerEpoch>>
signatures == <<signed, thisTerm>>
vars == <<assignments, claims, office, paused, balance, received, signatures>>

Init ==
    /\ rewardSigner \in Signer
    /\ signerEpoch = 0
    /\ paused = FALSE
    /\ oneDollarAssigned = 0 /\ tenDollarAssigned = 0
    /\ totalAssigned = 0 /\ totalAssignedValue = 0
    /\ totalClaimed = 0 /\ totalClaimedValue = 0
    /\ rewardOf = [r \in Account |-> 0]
    /\ ticketOf = [r \in Account |-> 0]
    /\ claimed = {}
    /\ assignedTicket = {}
    /\ balance = 0
    /\ received = 0
    /\ wallet = [r \in Account |-> 0]
    /\ signed = {}
    /\ thisTerm = {}

-----------------------------------------------------------------------------
(* The inventory left for a prize.                                         *)
InStock(amount) ==
    /\ totalAssigned < MaxTickets
    /\ \/ amount = Small /\ oneDollarAssigned < MaxSmall
       \/ amount = Large /\ tenDollarAssigned < MaxLarge

(* Mutant: only the new prize is compared with the tokens held.            *)
FundedAlone(amount) == balance >= amount

(* The tokens held cover everything assigned and not yet paid.             *)
Funded(amount) == balance >= totalAssignedValue + amount - totalClaimedValue

(* Mutant: the signed epoch is not compared with the current one.          *)
AuthorizedInAnyEpoch(a) ==
    \E e \in 0..MaxEpoch : [key |-> rewardSigner, statement |-> [a EXCEPT !.signerEpoch = e]] \in signed

(* ecrecover gives the signer in office for the current epoch's struct.    *)
Authorized(a) ==
    /\ a.signerEpoch = signerEpoch
    /\ [key |-> rewardSigner, statement |-> a] \in signed

(* Mutant: a wallet's first prize is not looked for.                       *)
TicketUnused(a) == a.ticketId \notin assignedTicket

Unassigned(a) ==
    /\ rewardOf[a.recipient] = 0
    /\ a.ticketId \notin assignedTicket

assign(a) ==
    /\ ~paused
    /\ Unassigned(a)
    /\ InStock(a.amount)
    /\ Funded(a.amount)
    /\ Authorized(a)
    /\ assignedTicket' = assignedTicket \union {a.ticketId}
    /\ rewardOf' = [rewardOf EXCEPT ![a.recipient] = a.amount]
    /\ ticketOf' = [ticketOf EXCEPT ![a.recipient] = a.ticketId]
    /\ totalAssigned' = totalAssigned + 1
    /\ totalAssignedValue' = totalAssignedValue + a.amount
    /\ oneDollarAssigned' = oneDollarAssigned + IF a.amount = Small THEN 1 ELSE 0
    /\ tenDollarAssigned' = tenDollarAssigned + IF a.amount = Small THEN 0 ELSE 1
    /\ UNCHANGED <<claims, office, paused, balance, received, signatures>>

(* Mutant: an earlier payment is not looked for.                           *)
HasPrize(recipient) == rewardOf[recipient] # 0

Unpaid(recipient) == rewardOf[recipient] # 0 /\ recipient \notin claimed

(* A failed transfer reverts the claim.                                    *)
claim(recipient) ==
    LET amount == rewardOf[recipient]
    IN  /\ ~paused
        /\ Unpaid(recipient)
        /\ amount <= balance
        /\ claimed' = claimed \union {recipient}
        /\ totalClaimed' = totalClaimed + 1
        /\ totalClaimedValue' = totalClaimedValue + amount
        /\ balance' = balance - amount
        /\ wallet' = [wallet EXCEPT ![recipient] = @ + amount]
        /\ UNCHANGED <<assignments, office, paused, received, signatures>>

setPaused(nextPaused) ==
    /\ paused' = nextPaused
    /\ UNCHANGED <<assignments, claims, office, balance, received, signatures>>

setRewardSigner(nextRewardSigner) ==
    /\ signerEpoch < MaxEpoch
    /\ rewardSigner' = nextRewardSigner
    /\ signerEpoch' = signerEpoch + 1
    /\ thisTerm' = {}
    /\ UNCHANGED <<assignments, claims, paused, balance, received, signed>>

(* The key in office signs for the epoch it reads from the contract.  The  *)
(* signer's backend takes no care of what it signed before: recipients and *)
(* tickets may repeat.                                                     *)
Sign(a) ==
    /\ a.signerEpoch = signerEpoch
    /\ Cardinality(signed) < MaxSigned
    /\ signed' = signed \union {[key |-> rewardSigner, statement |-> a]}
    /\ thisTerm' = thisTerm \union {[key |-> rewardSigner, statement |-> a]}
    /\ UNCHANGED <<assignments, claims, office, paused, balance, received>>

(* Anyone sends tokens.                                                    *)
Fund(amount) ==
    /\ received + amount <= MaxFunding
    /\ received' = received + amount
    /\ balance' = balance + amount
    /\ UNCHANGED <<assignments, claims, office, paused, signatures>>

Next ==
    \/ \E a \in Assignment : assign(a) \/ Sign(a)
    \/ \E r \in Account : claim(r)
    \/ \E p \in BOOLEAN : setPaused(p)
    \/ \E k \in Signer : setRewardSigner(k)
    \/ \E amount \in Amount : Fund(amount)

Spec == Init /\ [][Next]_vars

-----------------------------------------------------------------------------
(* Safety.                                                                 *)

TypeOK ==
    /\ rewardSigner \in Signer /\ signerEpoch \in 0..MaxEpoch /\ paused \in BOOLEAN
    /\ oneDollarAssigned \in 0..MaxSmall /\ tenDollarAssigned \in 0..MaxLarge
    /\ totalAssigned \in 0..MaxTickets
    /\ totalAssignedValue \in Nat /\ totalClaimed \in Nat /\ totalClaimedValue \in Nat
    /\ rewardOf \in [Account -> Amount \union {0}]
    /\ ticketOf \in [Account -> Ticket \union {0}]
    /\ claimed \subseteq Account
    /\ assignedTicket \subseteq Ticket
    /\ balance \in Nat /\ received \in Nat
    /\ wallet \in [Account -> Nat]
    /\ signed \subseteq [key : Signer, statement : Assignment]
    /\ thisTerm \subseteq signed

(* Every prize assigned and not yet claimed can be paid, all together,     *)
(* whatever was assigned, claimed and received in between; and the prizes  *)
(* never add up to more than the campaign's advertised maximum.            *)
Solvent ==
    /\ balance >= totalAssignedValue - totalClaimedValue
    /\ \A r \in Account \ claimed : balance >= rewardOf[r]
    /\ balance + totalClaimedValue = received
    /\ totalAssignedValue <= MaxLifetimePayout

(* No ticket is drawn by two wallets, and a wallet is paid its one prize   *)
(* once.                                                                   *)
OnePrizeEach ==
    /\ \A r, q \in Account : ticketOf[r] # 0 /\ ticketOf[r] = ticketOf[q] => r = q
    /\ \A r \in Account : wallet[r] = IF r \in claimed THEN rewardOf[r] ELSE 0

(* assign's and claim's assert statements never fail: the counters they    *)
(* compare are the sums over all wallets.                                  *)
BooksBalance ==
    /\ totalAssigned = oneDollarAssigned + tenDollarAssigned
    /\ totalAssignedValue = oneDollarAssigned * Small + tenDollarAssigned * Large
    /\ totalClaimed <= totalAssigned
    /\ totalClaimedValue <= totalAssignedValue

(* A wallet gets a prize only on a statement signed since the key in       *)
(* office was appointed: what was signed before a replacement is void,     *)
(* also when the owner later appoints the same key again.                  *)
AssignedInTerm ==
    [][\A r \in Account : rewardOf'[r] # rewardOf[r] =>
          \E t \in thisTerm : /\ t.key = rewardSigner
                              /\ t.statement.recipient = r
                              /\ t.statement.ticketId = ticketOf'[r]
                              /\ t.statement.amount = rewardOf'[r]]_vars
=============================================================================
