---------------------------- MODULE DriverProofs ----------------------------
(***************************************************************************)
(* What the driver keeps for any requests, accounts, queue and cache sizes *)
(* and number of auctions (SettleQueue), and for any tasks, mempools,      *)
(* signers, prices and deadlines (Submission).                             *)
(*                                                                         *)
(* That a settlement is executed once is no property of requests, which    *)
(* may all want the same one: it rests on the cache.  A settlement is in   *)
(* it at most once (NoDuplicates), none comes back after its auction       *)
(* (FromAuctions), and what was executed has left it (Gone).               *)
(*                                                                         *)
(* That a failed execution leaves no settlement behind is an argument of   *)
(* several loops: each accounts for the one transaction it put into its    *)
(* own mempool (BroadcastInv), while only the holder of the signer's lock  *)
(* may displace it (LockInv) and a nonce that is consumed or taken admits  *)
(* nothing cheaper (ChainInv).                                             *)
(***************************************************************************)
EXTENDS SettleQueue, Submission, SequenceTheorems, FiniteSetTheorems, TLAPS

-----------------------------------------------------------------------------
(* The settle queue                                                        *)

NoDuplicates == \A i, j \in DOMAIN settlements : settlements[i] = settlements[j] => i = j

FromAuctions ==
    /\ \A i \in DOMAIN settlements : settlements[i].auction <= auctions
    /\ \A i \in DOMAIN executions : executions[i].auction <= auctions

Gone == \A i \in DOMAIN executions, j \in DOMAIN settlements : executions[i] # settlements[j]

CacheInv == NoDuplicates /\ FromAuctions /\ Gone /\ SettledOnce

(* Only a request that holds a slot has one.                               *)
SlotsAreHeld ==
    \A r \in Request : request[r].slot # NoSlot => request[r].pc \in {"holding", "executing"}

QueueIInv == QueueInv /\ SlotsAreHeld /\ CacheInv

-----------------------------------------------------------------------------
(* Sequences: their indices and elements, and the functions that are ones. *)

LEMMA SeqFacts ==
    ASSUME NEW S, NEW s \in Seq(S)
    PROVE  /\ Len(s) \in Nat /\ DOMAIN s = 1..Len(s)
           /\ \A i \in DOMAIN s : s[i] \in S
BY LenProperties

LEMMA FunctionIsSeq ==
    ASSUME NEW S, NEW n \in Nat, NEW f \in [1..n -> S]
    PROVE  f \in Seq(S) /\ Len(f) = n
<1>1. f \in Seq(S)
    BY SeqDef
<1>2. Len(f) \in Nat /\ 1..Len(f) = 1..n
    BY <1>1, LenProperties
<1>3. ~(Len(f) < n)
    <2>1. SUFFICES ASSUME Len(f) < n PROVE FALSE
        OBVIOUS
    <2>2. n \in 1..n /\ n \notin 1..Len(f)
        BY <1>2, <2>1
    <2> QED BY <1>2, <2>2
<1>4. ~(n < Len(f))
    <2>1. SUFFICES ASSUME n < Len(f) PROVE FALSE
        OBVIOUS
    <2>2. Len(f) \in 1..Len(f) /\ Len(f) \notin 1..n
        BY <1>2, <2>1
    <2> QED BY <1>2, <2>2
<1> QED BY <1>1, <1>2, <1>3, <1>4

-----------------------------------------------------------------------------
(* The cache                                                               *)

(* Taking the front into the place of the removed settlement keeps the     *)
(* others, each in one place, and the removed one leaves.                  *)
LEMMA SwapRemoveKeepsOthers ==
    ASSUME QueueTypeOK, NoDuplicates, NEW s \in Settlement, Cached(s), NEW new, new = SwapRemoveFront(s)
    PROVE  /\ new \in Seq(Settlement)
           /\ \A i \in DOMAIN new : new[i] # s
           /\ \A i \in DOMAIN new : \E j \in DOMAIN settlements : new[i] = settlements[j]
           /\ \A i, j \in DOMAIN new : new[i] = new[j] => i = j
<1> DEFINE at == CHOOSE j \in DOMAIN settlements : settlements[j] = s
           swapped == [settlements EXCEPT ![at] = settlements[1]]
           n == Len(settlements)
<1>1. /\ settlements \in Seq(Settlement) /\ n \in Nat
      /\ DOMAIN settlements = 1..n
    BY LenProperties DEF QueueTypeOK
<1>2. at \in 1..n /\ settlements[at] = s
    BY <1>1 DEF Cached
<1>3. 1 \in 1..n /\ settlements[1] \in Settlement
    BY <1>1, <1>2, ElementOfSeq
<1> HIDE DEF at
<1>4. /\ swapped \in Seq(Settlement) /\ Len(swapped) = n
      /\ \A j \in 1..n : swapped[j] = IF j = at THEN settlements[1] ELSE settlements[j]
    BY <1>1, <1>2, <1>3, ExceptSeq
<1> HIDE DEF swapped, n
<1>5. swapped # <<>>
    BY <1>3, <1>4, EmptySeq
<1>6. new = Tail(swapped)
    BY DEF SwapRemoveFront, swapped, at
<1>7. /\ new \in Seq(Settlement) /\ Len(new) = n - 1
      /\ \A i \in 1..(n - 1) : new[i] = swapped[i + 1]
    BY <1>4, <1>5, <1>6, HeadTailProperties
<1>8. DOMAIN new = 1..(n - 1)
    BY <1>7, LenProperties
<1>9. ASSUME NEW i \in 1..(n - 1)
      PROVE  /\ i + 1 \in 1..n
             /\ new[i] = settlements[IF i + 1 = at THEN 1 ELSE i + 1]
    BY <1>1, <1>4, <1>7
<1>10. \A i \in 1..(n - 1) : new[i] # s
    <2> SUFFICES ASSUME NEW i \in 1..(n - 1), new[i] = s PROVE FALSE
        OBVIOUS
    <2>1. CASE i + 1 = at
        BY <2>1, <1>1, <1>2, <1>3, <1>9 DEF NoDuplicates
    <2>2. CASE i + 1 # at
        BY <2>2, <1>1, <1>2, <1>9 DEF NoDuplicates
    <2> QED BY <2>1, <2>2
<1>11. \A i, j \in 1..(n - 1) : new[i] = new[j] => i = j
    <2> SUFFICES ASSUME NEW i \in 1..(n - 1), NEW j \in 1..(n - 1), new[i] = new[j] PROVE i = j
        OBVIOUS
    <2> DEFINE from(k) == IF k + 1 = at THEN 1 ELSE k + 1
    <2>1. from(i) \in 1..n /\ from(j) \in 1..n
        BY <1>3, <1>9
    <2>2. from(i) = from(j)
        BY <2>1, <1>1, <1>9 DEF NoDuplicates
    <2> QED BY <2>2, <1>1, <1>2
<1> QED BY <1>1, <1>3, <1>7, <1>8, <1>9, <1>10, <1>11

(* What is kept of a cache is in it once, in an order of the cache.        *)
LEMMA RetainKeepsOthers ==
    ASSUME QueueTypeOK, NoDuplicates, NEW voided, Retains(voided)
    PROVE  /\ settlements' \in Seq(Settlement)
           /\ \A i \in DOMAIN settlements' : \E j \in DOMAIN settlements : settlements'[i] = settlements[j]
           /\ \A i, j \in DOMAIN settlements' : settlements'[i] = settlements'[j] => i = j
<1> DEFINE kept == {i \in DOMAIN settlements : settlements[i] \notin voided}
           m == Cardinality(kept)
<1>1. /\ Len(settlements) \in Nat /\ DOMAIN settlements = 1..Len(settlements)
      /\ \A i \in DOMAIN settlements : settlements[i] \in Settlement
    BY LenProperties, ElementOfSeq DEF QueueTypeOK
<1>2. m \in Nat
    <2>1. IsFiniteSet(1..Len(settlements)) /\ kept \in SUBSET (1..Len(settlements))
        BY <1>1, FS_Interval
    <2>2. IsFiniteSet(kept)
        BY <2>1, FS_Subset, Zenon
    <2> QED BY <2>2, FS_CardinalityType
<1> HIDE DEF m
<1>3. PICK at \in [1..m -> kept] :
         /\ \A i, j \in DOMAIN at : i < j => at[i] < at[j]
         /\ settlements' = [i \in DOMAIN at |-> settlements[at[i]]]
    BY DEF Retains, m
<1>4. DOMAIN settlements' = 1..m /\ DOMAIN at = 1..m /\ \A i \in 1..m : at[i] \in DOMAIN settlements
    BY <1>3
<1>5. settlements' \in Seq(Settlement)
    <2>1. settlements' \in [1..m -> Settlement]
        BY <1>1, <1>3, <1>4
    <2> QED BY <2>1, <1>2, SeqDef
<1>6. ASSUME NEW i \in 1..m, NEW j \in 1..m, settlements'[i] = settlements'[j] PROVE i = j
    <2>1. at[i] = at[j]
        BY <1>3, <1>4, <1>6 DEF NoDuplicates
    <2>2. at[i] \in Nat
        BY <1>1, <1>4
    <2>3. ~(i < j) /\ ~(j < i)
        BY <2>1, <2>2, <1>3, <1>4
    <2> QED BY <2>3, <1>2
<1> QED BY <1>3, <1>4, <1>5, <1>6

(* New settlements come first, in an auction of their own; truncation only  *)
(* drops some.                                                             *)
LEMMA SolveAddsFresh ==
    ASSUME QueueTypeOK, CacheInv, Solve
    PROVE  /\ settlements' \in Seq(Settlement) /\ solving' \subseteq Settlement
           /\ \A i \in DOMAIN settlements' :
                 \/ settlements'[i].auction = auctions + 1
                 \/ \E j \in DOMAIN settlements : settlements'[i] = settlements[j]
           /\ \A i, j \in DOMAIN settlements' : settlements'[i] = settlements'[j] => i = j
<1> USE QueueAssumption
<1> DEFINE new(n) == [i \in 1..n |-> [auction |-> auctions + 1, rank |-> n + 1 - i]]
           limit == max_solutions_to_propose * MAX_CONCURRENT_AUCTIONS
<1>1. PICK n \in 1..max_solutions_to_propose :
         LET all == new(n) \o settlements IN
         /\ settlements' = SubSeq(all, 1, IF Len(all) > limit THEN limit ELSE Len(all))
         /\ solving' = {new(n)[i] : i \in 1..n}
    BY DEF Solve
<1> DEFINE fresh == new(n)
           all == fresh \o settlements
           k == IF Len(all) > limit THEN limit ELSE Len(all)
<1>2. n \in Nat /\ auctions \in Nat /\ limit \in Nat
    BY DEF QueueTypeOK
<1>3. /\ fresh \in Seq(Settlement) /\ Len(fresh) = n
      /\ \A i \in 1..n : fresh[i] = [auction |-> auctions + 1, rank |-> n + 1 - i]
    <2>1. \A i \in 1..n : [auction |-> auctions + 1, rank |-> n + 1 - i] \in Settlement
        BY <1>2 DEF Settlement
    <2>2. fresh \in [1..n -> Settlement]
        BY <2>1
    <2>3. \A i \in 1..n : fresh[i] = [auction |-> auctions + 1, rank |-> n + 1 - i]
        OBVIOUS
    <2> HIDE DEF fresh
    <2> QED BY <1>2, <2>2, <2>3, FunctionIsSeq
<1>4. /\ settlements \in Seq(Settlement) /\ Len(settlements) \in Nat
      /\ DOMAIN settlements = 1..Len(settlements)
    BY LenProperties DEF QueueTypeOK
<1> HIDE DEF new, limit, fresh
<1>5. /\ all \in Seq(Settlement) /\ Len(all) = n + Len(settlements)
      /\ \A i \in 1..(n + Len(settlements)) :
            all[i] = IF i <= n THEN fresh[i] ELSE settlements[i - n]
    <2>1. /\ all \in Seq(Settlement) /\ Len(all) = Len(fresh) + Len(settlements)
          /\ \A i \in 1..Len(fresh) + Len(settlements) :
                all[i] = IF i <= Len(fresh) THEN fresh[i] ELSE settlements[i - Len(fresh)]
        BY <1>3, <1>4, ConcatProperties
    <2> QED BY <2>1, <1>3
<1> HIDE DEF all
<1>6. k \in Nat /\ k <= Len(all)
    BY <1>2, <1>4, <1>5
<1>7. settlements' = SubSeq(all, 1, k) /\ solving' = {fresh[i] : i \in 1..n}
    BY <1>1 DEF all, fresh
<1> HIDE DEF k
<1>8. /\ settlements' \in Seq(Settlement) /\ DOMAIN settlements' = 1..k
      /\ \A i \in 1..k : settlements'[i] = all[i]
    <2>1. \A i \in 1..k : all[i] \in Settlement
        BY <1>2, <1>4, <1>5, <1>6, ElementOfSeq
    <2>2. /\ SubSeq(all, 1, k) \in Seq(Settlement) /\ Len(SubSeq(all, 1, k)) = k
          /\ \A i \in 1..k : SubSeq(all, 1, k)[i] = all[i]
        BY <2>1, <1>6, SubSeqProperties
    <2> QED BY <2>2, <1>7, SeqFacts
<1>9. \A i \in 1..k : i <= n => settlements'[i] = [auction |-> auctions + 1, rank |-> n + 1 - i]
    <2>1. ASSUME NEW i \in 1..k, i <= n PROVE settlements'[i] = fresh[i] /\ i \in 1..n
        BY <2>1, <1>2, <1>4, <1>5, <1>6, <1>8
    <2> QED BY <2>1, <1>3
<1>10. \A i \in 1..k : i > n =>
          /\ i - n \in DOMAIN settlements /\ settlements'[i] = settlements[i - n]
          /\ settlements[i - n].auction <= auctions
    <2>1. ASSUME NEW i \in 1..k, i > n
          PROVE  settlements'[i] = settlements[i - n] /\ i - n \in DOMAIN settlements
        BY <2>1, <1>2, <1>4, <1>5, <1>6, <1>8
    <2> QED BY <2>1 DEF CacheInv, FromAuctions
<1>11. ASSUME NEW i \in 1..k, NEW j \in 1..k, settlements'[i] = settlements'[j] PROVE i = j
    <2>0. i \in Nat /\ j \in Nat
        BY <1>6
    <2>1. CASE i <= n /\ j <= n
        <3>1. settlements'[i] = [auction |-> auctions + 1, rank |-> n + 1 - i]
            BY <2>1, <1>9, Zenon
        <3>2. settlements'[j] = [auction |-> auctions + 1, rank |-> n + 1 - j]
            BY <2>1, <1>9, Zenon
        <3>3. [auction |-> auctions + 1, rank |-> n + 1 - i].rank = [auction |-> auctions + 1, rank |-> n + 1 - j].rank
            BY <3>1, <3>2, <1>11, Zenon
        <3> QED BY <3>3, <1>2, <2>0
    <2>2. CASE i > n /\ j > n
        <3>1. i - n = j - n
            BY <2>2, <1>10, <1>11 DEF CacheInv, NoDuplicates
        <3> QED BY <3>1, <1>2, <2>0
    <2>3. \A h, l \in 1..k : h <= n /\ l > n => settlements'[h] # settlements'[l]
        <3> SUFFICES ASSUME NEW h \in 1..k, NEW l \in 1..k, h <= n, l > n
                     PROVE  settlements'[h] # settlements'[l]
            OBVIOUS
        <3>1. settlements'[h] = [auction |-> auctions + 1, rank |-> n + 1 - h]
            BY <1>9, Zenon
        <3>2. settlements'[l].auction <= auctions
            BY <1>10
        <3> QED BY <3>1, <3>2, <1>2
    <2> QED BY <2>0, <2>1, <2>2, <2>3, <1>2, <1>11
<1>12. solving' \subseteq Settlement
    BY <1>2, <1>3, <1>7, SeqFacts
<1> QED BY <1>2, <1>8, <1>9, <1>10, <1>11, <1>12

(* What takes a settlement out of the cache, and what only reads it.       *)
LEMMA CacheStep == QueueTypeOK /\ CacheInv /\ [QueueNext]_queueVars => CacheInv' /\ settlements' \in Seq(Settlement)
<1> SUFFICES ASSUME QueueTypeOK, CacheInv, [QueueNext]_queueVars
             PROVE  CacheInv' /\ settlements' \in Seq(Settlement)
    OBVIOUS
<1>1. /\ auctions \in Nat /\ settlements \in Seq(Settlement)
      /\ executions \in Seq(Settlement) /\ DOMAIN executions = 1..Len(executions)
      /\ Len(executions) \in Nat
      /\ \A i \in DOMAIN executions : executions[i].auction \in Nat
      /\ \A i \in DOMAIN settlements : settlements[i].auction \in Nat
    <2>1. /\ auctions \in Nat /\ settlements \in Seq(Settlement) /\ executions \in Seq(Settlement)
        BY QueueAssumption DEF QueueTypeOK
    <2>2. /\ DOMAIN executions = 1..Len(executions) /\ Len(executions) \in Nat
          /\ \A i \in DOMAIN executions : executions[i] \in Settlement
        BY <2>1, SeqFacts
    <2>3. \A i \in DOMAIN settlements : settlements[i] \in Settlement
        BY <2>1, SeqFacts
    <2> QED BY <2>1, <2>2, <2>3 DEF Settlement
<1>2. CASE Solve
    <2>1. /\ settlements' \in Seq(Settlement)
          /\ \A i \in DOMAIN settlements' :
                 \/ settlements'[i].auction = auctions + 1
                 \/ \E j \in DOMAIN settlements : settlements'[i] = settlements[j]
          /\ \A i, j \in DOMAIN settlements' : settlements'[i] = settlements'[j] => i = j
        BY <1>2, SolveAddsFresh
    <2>2. auctions' = auctions + 1 /\ executions' = executions
        BY <1>2 DEF Solve
    <2>3. \A i \in DOMAIN settlements' : settlements'[i].auction <= auctions + 1
        BY <1>1, <2>1 DEF CacheInv, FromAuctions
    <2>4. Gone'
        BY <1>1, <2>1, <2>2 DEF CacheInv, FromAuctions, Gone
    <2>5. FromAuctions'
        BY <1>1, <2>2, <2>3 DEF CacheInv, FromAuctions
    <2> QED BY <2>1, <2>2, <2>4, <2>5 DEF CacheInv, NoDuplicates, SettledOnce
<1>3. CASE Proposes
    <2>1. PICK voided : Retains(voided)
        BY <1>3 DEF Proposes
    <2>2. /\ settlements' \in Seq(Settlement)
          /\ \A i \in DOMAIN settlements' : \E j \in DOMAIN settlements : settlements'[i] = settlements[j]
          /\ \A i, j \in DOMAIN settlements' : settlements'[i] = settlements'[j] => i = j
        BY <2>1, RetainKeepsOthers DEF CacheInv
    <2>3. auctions' = auctions /\ executions' = executions
        BY <1>3 DEF Proposes
    <2> QED BY <2>2, <2>3 DEF CacheInv, NoDuplicates, FromAuctions, Gone, SettledOnce
<1>4. ASSUME NEW r \in Request, Take(r) PROVE CacheInv' /\ settlements' \in Seq(Settlement)
    <2> DEFINE s == request[r].wants
    <2>1. s \in Settlement /\ Cached(s) /\ settlements' = SwapRemoveFront(s)
        BY <1>4 DEF Take, QueueTypeOK
    <2>2. /\ settlements' \in Seq(Settlement)
          /\ \A i \in DOMAIN settlements' : settlements'[i] # s
          /\ \A i \in DOMAIN settlements' : \E j \in DOMAIN settlements : settlements'[i] = settlements[j]
          /\ \A i, j \in DOMAIN settlements' : settlements'[i] = settlements'[j] => i = j
        BY <2>1, SwapRemoveKeepsOthers DEF CacheInv
    <2>3. auctions' = auctions /\ executions' = Append(executions, s)
        BY <1>4 DEF Take
    <2> HIDE DEF s
    <2>4. /\ executions' \in Seq(Settlement) /\ DOMAIN executions' = 1..(Len(executions) + 1)
          /\ \A i \in 1..Len(executions) : executions'[i] = executions[i]
          /\ executions'[Len(executions) + 1] = s
        BY <1>1, <2>1, <2>3, AppendProperties, LenProperties
    <2>5. s.auction <= auctions /\ \A i \in DOMAIN executions : executions[i] # s
        BY <2>1 DEF Cached, CacheInv, FromAuctions, Gone
    <2>6. NoDuplicates' /\ Gone'
        BY <1>1, <2>2, <2>4, <2>5 DEF CacheInv, NoDuplicates, Gone
    <2>7. FromAuctions'
        BY <1>1, <2>2, <2>3, <2>4, <2>5 DEF CacheInv, FromAuctions
    <2>8. SettledOnce'
        BY <1>1, <2>4, <2>5 DEF CacheInv, SettledOnce
    <2> QED BY <2>2, <2>6, <2>7, <2>8 DEF CacheInv
<1>5. CASE UNCHANGED <<settlements, auctions, executions>>
    BY <1>1, <1>5 DEF CacheInv, NoDuplicates, FromAuctions, Gone, SettledOnce
<1>6. ASSUME NEW r \in Request,
             \/ Settle(r) \/ TooManyPending(r) \/ AbortRequest(r) \/ Forget(r)
             \/ LooksUp(r) \/ TryDirect(r) \/ AcquireDirect(r) \/ AcquireDelegated(r)
             \/ Raced(r) \/ Executed(r)
      PROVE  UNCHANGED <<settlements, auctions, executions>>
    BY <1>6 DEF Settle, TooManyPending, AbortRequest, Forget, LooksUp, TryDirect, AcquireDirect,
                AcquireDelegated, Raced, Executed, cache
<1>7. ASSUME NEW a \in Account, Released(a) PROVE UNCHANGED <<settlements, auctions, executions>>
    BY <1>7 DEF Released, cache
<1>8. CASE SolvesNothing \/ UNCHANGED queueVars
    BY <1>5, <1>8 DEF SolvesNothing, queueVars, cache
<1> QED BY <1>2, <1>3, <1>4, <1>5, <1>6, <1>7, <1>8 DEF QueueNext, Process

-----------------------------------------------------------------------------
(* Initially no request is active and nothing is cached or executed.       *)
LEMMA InitQueueIInv == QueueInit => QueueIInv
<1> SUFFICES ASSUME QueueInit PROVE QueueIInv
    OBVIOUS
<1> USE QueueAssumption
<1>1. QueueTypeOK
    <2>1. <<>> \in Seq(Settlement)
        BY EmptySeq
    <2> QED BY <2>1 DEF QueueInit, QueueTypeOK, Idle, Settlement, NoSettlement
<1>2. SlotsAreExclusive /\ SlotsAreHeld
    BY DEF QueueInit, Idle, SlotsAreExclusive, SlotsAreHeld
<1>3. AdmittedWithinCapacity
    <2>1. Admitted = {}
        BY DEF QueueInit, Idle, Active, Admitted
    <2>2. Cardinality(Account) \in Nat /\ Cardinality(Admitted) = 0
        BY <2>1, FS_CardinalityType, FS_EmptySet
    <2> QED BY <2>2 DEF AdmittedWithinCapacity, available_permits, admission_capacity
<1>4. CacheInv
    BY DEF QueueInit, CacheInv, NoDuplicates, FromAuctions, Gone, SettledOnce
<1> QED BY <1>1, <1>2, <1>3, <1>4 DEF QueueIInv, QueueInv

-----------------------------------------------------------------------------
(* Requests and slots                                                      *)

Places == {"idle", "admitted", "found", "racing", "holding", "executing"} \cup Answers
Slots == Account \cup {Direct, NoSlot}
RequestTypes == [Request -> [pc : Places, wants : Settlement, slot : Slots]]

(* The four things a request's step may do to the slots.                   *)
KeepsSlot(r) ==
    /\ UNCHANGED slots /\ request'[r].slot = request[r].slot
    /\ request'[r].slot # NoSlot => request'[r].pc \in {"holding", "executing"}
TakesDirect(r) ==
    /\ DirectFree /\ UNCHANGED slots /\ request[r].slot = NoSlot
    /\ request'[r].slot = Direct /\ request'[r].pc = "holding"
TakesAccount(r) ==
    /\ request[r].slot = NoSlot /\ request'[r].pc = "holding"
    /\ \E a \in channel : request'[r].slot = a /\ channel' = channel \ {a}
    /\ UNCHANGED returning
GivesBack(r) ==
    /\ request'[r].slot = NoSlot /\ UNCHANGED channel
    /\ returning' = IF request[r].slot \in Account
                    THEN returning \cup {request[r].slot} ELSE returning

(* A step of a request moves this request alone, to a place and a slot it  *)
(* may be in, and makes it active only when a permit was left.             *)
LEMMA RequestStep ==
    ASSUME QueueTypeOK, SlotsAreHeld, NEW r \in Request,
           Settle(r) \/ TooManyPending(r) \/ AbortRequest(r) \/ Forget(r) \/ Process(r)
    PROVE  /\ request' \in RequestTypes
           /\ \A q \in Request \ {r} : request'[q] = request[q]
           /\ KeepsSlot(r) \/ TakesDirect(r) \/ TakesAccount(r) \/ GivesBack(r)
           /\ request[r].pc \notin {"idle"} \cup Answers \/ available_permits > 0
              \/ request'[r].pc \in {"idle"} \cup Answers
<1>1. /\ request \in RequestTypes /\ channel \subseteq Account /\ proposed \subseteq Settlement
      /\ request[r].slot # NoSlot => request[r].pc \in {"holding", "executing"}
    BY DEF QueueTypeOK, RequestTypes, Places, Slots, SlotsAreHeld
<1>2. ASSUME NEW pc \in Places, Moves(r, pc)
      PROVE  /\ request' \in RequestTypes
             /\ \A q \in Request \ {r} : request'[q] = request[q]
             /\ request'[r].pc = pc /\ request'[r].slot = request[r].slot
    BY <1>1, <1>2 DEF Moves, RequestTypes
<1>3. ASSUME NEW slot \in Slots, Holds(r, slot)
      PROVE  /\ request' \in RequestTypes
             /\ \A q \in Request \ {r} : request'[q] = request[q]
             /\ request'[r].pc = "holding" /\ request'[r].slot = slot
    BY <1>1, <1>3 DEF Holds, RequestTypes, Places
<1>4. ASSUME NEW answer \in Answers, Ends(r, answer)
      PROVE  /\ request' \in RequestTypes
             /\ \A q \in Request \ {r} : request'[q] = request[q]
             /\ request'[r].pc = answer /\ request'[r].slot = NoSlot
    BY <1>1, <1>4 DEF Ends, RequestTypes, Places, Slots
<1>5. CASE Settle(r)
    <2>1. PICK s \in proposed, pc \in {"admitted", "late"} :
             /\ available_permits > 0
             /\ request' = [request EXCEPT ![r].pc = pc, ![r].wants = s]
        BY <1>5 DEF Settle
    <2>2. /\ request' \in RequestTypes
          /\ \A q \in Request \ {r} : request'[q] = request[q]
          /\ request'[r].slot = request[r].slot
        BY <1>1, <2>1 DEF RequestTypes, Places, Answers
    <2>3. request[r].slot = NoSlot /\ UNCHANGED slots
        BY <1>5 DEF Settle, Idle
    <2>4. KeepsSlot(r)
        BY <2>2, <2>3 DEF KeepsSlot
    <2> QED BY <2>1, <2>2, <2>4
<1>6. CASE TooManyPending(r)
    <2>1. Moves(r, "rejected") /\ request[r].slot = NoSlot /\ UNCHANGED slots
        BY <1>6 DEF TooManyPending, Idle
    <2> QED BY <1>2, <2>1 DEF KeepsSlot, Places, Answers
<1>7. CASE LooksUp(r)
    <2>1. PICK pc \in {"found", "unavailable"} : Moves(r, pc)
        BY <1>7 DEF LooksUp
    <2>2. request[r].pc = "admitted" /\ UNCHANGED slots
        BY <1>7 DEF LooksUp
    <2> QED BY <1>1, <1>2, <2>1, <2>2 DEF KeepsSlot, Places, Answers
<1>8. CASE TryDirect(r)
    <2>1. request[r].pc = "found" /\ UNCHANGED slots
        BY <1>8 DEF TryDirect
    <2>2. CASE DirectFree /\ Holds(r, Direct)
        BY <1>1, <1>3, <2>1, <2>2 DEF TakesDirect, Slots, Answers
    <2>3. CASE Moves(r, "racing")
        BY <1>1, <1>2, <2>1, <2>3 DEF KeepsSlot, Places, Answers
    <2> QED BY <1>8, <2>2, <2>3 DEF TryDirect
<1>9. CASE AcquireDirect(r)
    <2>1. request[r].pc = "racing" /\ UNCHANGED slots /\ DirectFree /\ Holds(r, Direct)
        BY <1>9 DEF AcquireDirect
    <2> QED BY <1>1, <1>3, <2>1 DEF TakesDirect, Slots, Answers
<1>10. CASE AcquireDelegated(r)
    <2>1. request[r].pc = "racing" /\ UNCHANGED returning
        BY <1>10 DEF AcquireDelegated
    <2>2. PICK a \in channel : Holds(r, a) /\ channel' = channel \ {a}
        BY <1>10 DEF AcquireDelegated
    <2> QED BY <1>1, <1>3, <2>1, <2>2 DEF TakesAccount, Slots, Answers
<1>11. CASE Take(r)
    <2>1. request[r].pc = "holding" /\ UNCHANGED slots /\ Moves(r, "executing")
        BY <1>11 DEF Take
    <2> QED BY <1>2, <2>1 DEF KeepsSlot, Places, Answers
<1>12. CASE Raced(r) \/ Executed(r) \/ AbortRequest(r)
    <2>1. PICK answer \in Answers : Ends(r, answer)
        BY <1>12 DEF Raced, Executed, AbortRequest, Answers
    <2>2. UNCHANGED channel
        BY <1>12 DEF Raced, Executed, AbortRequest
    <2> QED BY <1>4, <2>1, <2>2 DEF GivesBack, Ends
<1>13. CASE Forget(r)
    <2>1. request[r].pc \in Answers /\ request' = [request EXCEPT ![r] = Idle] /\ UNCHANGED slots
        BY <1>13 DEF Forget
    <2>2. /\ request' \in RequestTypes
          /\ \A q \in Request \ {r} : request'[q] = request[q]
          /\ request'[r] = Idle
        BY <1>1, <2>1 DEF RequestTypes, Places, Slots, Idle, NoSettlement, Settlement
    <2> QED BY <1>1, <2>1, <2>2 DEF KeepsSlot, Idle, Answers
<1> QED BY <1>5, <1>6, <1>7, <1>8, <1>9, <1>10, <1>11, <1>12, <1>13 DEF Process

(* Whichever of the four it does, every slot stays in one place.           *)
LEMMA SlotStep ==
    ASSUME QueueTypeOK, SlotsAreExclusive, SlotsAreHeld, NEW r \in Request,
           Settle(r) \/ TooManyPending(r) \/ AbortRequest(r) \/ Forget(r) \/ Process(r)
    PROVE  /\ channel' \subseteq Account /\ returning' \subseteq Account
           /\ SlotsAreExclusive' /\ SlotsAreHeld'
<1> USE QueueAssumption
<1>1. /\ request' \in RequestTypes
      /\ \A q \in Request \ {r} : request'[q] = request[q]
      /\ KeepsSlot(r) \/ TakesDirect(r) \/ TakesAccount(r) \/ GivesBack(r)
    BY RequestStep
<1>2. /\ channel \subseteq Account /\ returning \subseteq Account
      /\ \A q \in Request : request[q].slot \in Slots
    BY DEF QueueTypeOK, Slots
<1>3. /\ channel \cap returning = {}
      /\ \A a \in channel \cup returning, q \in Request : request[q].slot # a
      /\ \A a \in Account : a \in channel \cup returning \/ \E q \in Request : request[q].slot = a
      /\ \A p, q \in Request : request[p].slot = request[q].slot /\ p # q => request[p].slot = NoSlot
    BY <1>2 DEF SlotsAreExclusive
<1>4. /\ NoSlot \notin Account /\ Direct \notin Account /\ NoSlot # Direct
      /\ \A q \in Request \ {r} : request'[q].slot = request[q].slot
    BY <1>1
<1>5. \A q \in Request \ {r} : request'[q].slot # NoSlot => request'[q].pc \in {"holding", "executing"}
    BY <1>1 DEF SlotsAreHeld
<1>6. CASE KeepsSlot(r)
    <2>1. \A q \in Request : request'[q].slot = request[q].slot
        BY <1>4, <1>6 DEF KeepsSlot
    <2> QED BY <1>2, <1>3, <1>5, <1>6, <2>1 DEF KeepsSlot, slots, SlotsAreExclusive, SlotsAreHeld
<1>7. CASE TakesDirect(r)
    <2> QED BY <1>2, <1>3, <1>4, <1>5, <1>7
            DEF TakesDirect, DirectFree, slots, SlotsAreExclusive, SlotsAreHeld
<1>8. CASE TakesAccount(r)
    <2>1. PICK a \in channel : request'[r].slot = a /\ channel' = channel \ {a}
        BY <1>8 DEF TakesAccount
    <2>2. returning' = returning /\ request[r].slot = NoSlot /\ request'[r].pc = "holding"
        BY <1>8 DEF TakesAccount
    <2>3. SlotsAreExclusive'
        BY <1>2, <1>3, <1>4, <2>1, <2>2 DEF SlotsAreExclusive
    <2> QED BY <1>2, <1>5, <2>1, <2>2, <2>3 DEF SlotsAreHeld
<1>9. CASE GivesBack(r)
    <2>1. /\ request'[r].slot = NoSlot /\ channel' = channel
          /\ returning' = IF request[r].slot \in Account
                          THEN returning \cup {request[r].slot} ELSE returning
        BY <1>9 DEF GivesBack
    <2>2. SlotsAreExclusive'
        BY <1>2, <1>3, <1>4, <2>1 DEF SlotsAreExclusive
    <2> QED BY <1>2, <1>5, <2>1, <2>2 DEF SlotsAreHeld
<1> QED BY <1>1, <1>6, <1>7, <1>8, <1>9

(* A permit is taken only when one is left: the active requests stay       *)
(* within the capacity.                                                    *)
LEMMA CapacityStep ==
    ASSUME QueueTypeOK, SlotsAreHeld, AdmittedWithinCapacity, NEW r \in Request,
           Settle(r) \/ TooManyPending(r) \/ AbortRequest(r) \/ Forget(r) \/ Process(r)
    PROVE  AdmittedWithinCapacity'
<1> USE QueueAssumption
<1>1. /\ Admitted \in SUBSET Request /\ IsFiniteSet(Admitted) /\ Cardinality(Admitted) \in Nat
      /\ Cardinality(Account) \in Nat
    <2>1. Admitted \in SUBSET Request
        BY DEF Admitted
    <2> QED BY <2>1, FS_Subset, FS_CardinalityType, Zenon
<1>2. /\ \A q \in Request \ {r} : Active(q)' <=> Active(q)
      /\ Active(r) \/ available_permits > 0 \/ ~Active(r)'
    BY RequestStep DEF Active
<1>3. available_permits = (1 + Cardinality(Account) + settle_queue_size) - Cardinality(Admitted)
    BY DEF available_permits, admission_capacity
<1>4. available_permits' = (1 + Cardinality(Account) + settle_queue_size) - Cardinality(Admitted')
    BY DEF available_permits, admission_capacity
<1>5. CASE Active(r) \/ ~Active(r)'
    <2>1. Admitted' \in SUBSET Admitted
        BY <1>2, <1>5 DEF Admitted
    <2>2. Cardinality(Admitted') \in Nat /\ Cardinality(Admitted') <= Cardinality(Admitted)
        BY <1>1, <2>1, FS_Subset, FS_CardinalityType, Zenon
    <2> QED BY <1>1, <1>3, <1>4, <2>2 DEF AdmittedWithinCapacity
<1>6. CASE available_permits > 0
    <2>1. Admitted' \in SUBSET (Admitted \cup {r})
        BY <1>2 DEF Admitted
    <2>2. /\ IsFiniteSet(Admitted \cup {r}) /\ Cardinality(Admitted \cup {r}) \in Nat
          /\ Cardinality(Admitted \cup {r}) <= Cardinality(Admitted) + 1
        <3>1. /\ IsFiniteSet(Admitted \cup {r})
              /\ Cardinality(Admitted \cup {r}) = IF r \in Admitted THEN Cardinality(Admitted)
                                                              ELSE Cardinality(Admitted) + 1
            BY <1>1, FS_AddElement
        <3> QED BY <1>1, <3>1
    <2>3. Cardinality(Admitted') \in Nat /\ Cardinality(Admitted') <= Cardinality(Admitted \cup {r})
        BY <2>1, <2>2, FS_Subset, FS_CardinalityType, Zenon
    <2> QED BY <1>1, <1>3, <1>4, <1>6, <2>2, <2>3 DEF AdmittedWithinCapacity
<1> QED BY <1>2, <1>5, <1>6

-----------------------------------------------------------------------------
(* The inductive step                                                      *)

LEMMA TypeStep == QueueIInv /\ [QueueNext]_queueVars => QueueTypeOK'
<1> SUFFICES ASSUME QueueIInv, [QueueNext]_queueVars PROVE QueueTypeOK'
    OBVIOUS
<1>1. QueueTypeOK /\ SlotsAreExclusive /\ SlotsAreHeld /\ CacheInv
    BY DEF QueueIInv, QueueInv
<1>2. settlements' \in Seq(Settlement)
    BY <1>1, CacheStep
<1>3. CASE Solve
    <2>1. solving' \subseteq Settlement
        BY <1>1, <1>3, SolveAddsFresh
    <2>2. auctions' \in 0..MaxAuctions
        BY <1>1, <1>3, QueueAssumption DEF Solve, QueueTypeOK
    <2> QED BY <1>1, <1>2, <1>3, <2>1, <2>2 DEF Solve, QueueTypeOK, slots
<1>4. CASE Proposes
    BY <1>1, <1>2, <1>4 DEF Proposes, QueueTypeOK, slots
<1>5. ASSUME NEW r \in Request,
             Settle(r) \/ TooManyPending(r) \/ AbortRequest(r) \/ Forget(r) \/ Process(r)
      PROVE  QueueTypeOK'
    <2>1. request' \in RequestTypes
        BY <1>1, <1>5, RequestStep
    <2>2. channel' \subseteq Account /\ returning' \subseteq Account
        BY <1>1, <1>5, SlotStep
    <2>3. auctions' = auctions /\ solving' = solving /\ proposed' = proposed
        BY <1>5 DEF Settle, TooManyPending, AbortRequest, Forget, Process, LooksUp, TryDirect,
                    AcquireDirect, AcquireDelegated, Take, Raced, Executed, cache
    <2>4. executions' \in Seq(Settlement)
        <3>1. CASE Take(r)
            <4>1. request[r].wants \in Settlement
                BY <1>1 DEF QueueTypeOK
            <4> QED BY <1>1, <3>1, <4>1, AppendProperties DEF Take, QueueTypeOK
        <3>2. CASE ~Take(r)
            <4>1. executions' = executions
                BY <1>5, <3>2 DEF Settle, TooManyPending, AbortRequest, Forget, Process, LooksUp,
                    TryDirect, AcquireDirect, AcquireDelegated, Raced, Executed
            <4> QED BY <1>1, <4>1 DEF QueueTypeOK
        <3> QED BY <3>1, <3>2
    <2> QED BY <1>1, <1>2, <2>1, <2>2, <2>3, <2>4 DEF QueueTypeOK, RequestTypes, Places, Slots
<1>6. ASSUME NEW a \in Account, Released(a) PROVE QueueTypeOK'
    BY <1>1, <1>6 DEF Released, QueueTypeOK, cache
<1>7. CASE SolvesNothing \/ UNCHANGED queueVars
    BY <1>1, <1>7 DEF SolvesNothing, queueVars, cache, slots, QueueTypeOK
<1> QED BY <1>3, <1>4, <1>5, <1>6, <1>7 DEF QueueNext

(* Requests, the lane and the accounts' return keep the bookkeeping.       *)
LEMMA NextQueueIInv == QueueIInv /\ [QueueNext]_queueVars => QueueIInv'
<1> SUFFICES ASSUME QueueIInv, [QueueNext]_queueVars PROVE QueueIInv'
    OBVIOUS
<1>1. QueueTypeOK /\ SlotsAreExclusive /\ AdmittedWithinCapacity /\ SlotsAreHeld /\ CacheInv
    BY DEF QueueIInv, QueueInv
<1>2. QueueTypeOK' /\ CacheInv'
    BY <1>1, TypeStep, CacheStep
<1>3. ASSUME NEW r \in Request,
             Settle(r) \/ TooManyPending(r) \/ AbortRequest(r) \/ Forget(r) \/ Process(r)
      PROVE  SlotsAreExclusive' /\ SlotsAreHeld' /\ AdmittedWithinCapacity'
    BY <1>1, <1>3, SlotStep, CapacityStep
<1>4. ASSUME NEW a \in Account, Released(a)
      PROVE  SlotsAreExclusive' /\ SlotsAreHeld' /\ AdmittedWithinCapacity'
    <2>1. /\ returning' = returning \ {a} /\ channel' = channel \cup {a} /\ a \in returning
          /\ request' = request
        BY <1>4 DEF Released
    <2>2. SlotsAreExclusive'
        BY <1>1, <2>1 DEF SlotsAreExclusive
    <2> QED BY <1>1, <2>1, <2>2
            DEF SlotsAreHeld, AdmittedWithinCapacity, available_permits, admission_capacity,
                 Admitted, Active
<1>5. ASSUME Solve \/ Proposes \/ SolvesNothing \/ UNCHANGED queueVars
      PROVE  SlotsAreExclusive' /\ SlotsAreHeld' /\ AdmittedWithinCapacity'
    <2>1. request' = request /\ channel' = channel /\ returning' = returning
        BY <1>5 DEF Solve, Proposes, SolvesNothing, queueVars, slots
    <2> QED BY <1>1, <2>1 DEF SlotsAreExclusive, SlotsAreHeld, AdmittedWithinCapacity,
                              available_permits, admission_capacity,
                              Admitted, Active
<1>6. SlotsAreExclusive' /\ SlotsAreHeld' /\ AdmittedWithinCapacity'
    BY <1>3, <1>4, <1>5 DEF QueueNext
<1> QED BY <1>2, <1>6 DEF QueueIInv, QueueInv

-----------------------------------------------------------------------------
(* In every reachable state of a lane, for any number of requests and      *)
(* accounts and any capacity, each submission slot is in one place, no     *)
(* more requests are active than the admission semaphore has permits, and  *)
(* the variables have their types.                                         *)
THEOREM QueueIsKept == QueueSpec => []QueueInv
<1>1. QueueIInv => QueueInv
    BY DEF QueueIInv
<1> QED BY InitQueueIInv, NextQueueIInv, <1>1, PTL DEF QueueSpec

(* However many requests ask for a settlement and however their tasks are  *)
(* scheduled, no settlement is executed twice.                             *)
THEOREM ExecutedOnce == QueueSpec => []SettledOnce
<1>1. QueueIInv => SettledOnce
    BY DEF QueueIInv, CacheInv
<1> QED BY InitQueueIInv, NextQueueIInv, <1>1, PTL DEF QueueSpec

-----------------------------------------------------------------------------
(* Submission                                                              *)

Loop == [pc : {"start", "simulated", "nonce", "sending", "watching", "pending", "giveup",
               "cancelling", "last", "err"},
         nonce : Nat, price : Nat, fresh : BOOLEAN]

(* A running execution holds its signer, no other has begun or goes on.    *)
LockInv ==
    /\ \A t \in Task :
          IF state[t] = "running" THEN holder[signer[t]] = t
                                  ELSE loop[t] = [m \in Mempool |-> NotStarted]
    /\ \A r \in wire : state[r.tx.task] \notin {"idle", "waiting"} /\ r.by \in Mempools

(* A signer's transactions are mined in the order of their nonces, and a   *)
(* pool has one transaction for a nonce that is not consumed.              *)
ChainInv ==
    /\ \A s \in Signer : \A i \in DOMAIN mined[s] : mined[s][i].tx.nonce = i - 1
    /\ \A m \in Mempool : \A tx \in pool[m] :
          /\ tx.nonce >= Count(signer[tx.task])
          /\ \A q \in pool[m] : signer[q.task] = signer[tx.task] /\ q.nonce = tx.nonce => q = tx

(* Without faults, a settlement is in the mempool of the loop that         *)
(* broadcast it, and the loop is at its watch or gives up.  When it waits  *)
(* for its cancellations, the one to its own mempool is on its way with a  *)
(* better price: at the nonce, last_submissions has no lower price.        *)
Cancels(r, m, tx) ==
    /\ r.to = m /\ r.by = m /\ r.tx.task = tx.task /\ r.tx.kind = "cancel"
    /\ r.tx.nonce = tx.nonce /\ r.tx.price > tx.price
PoolInv(m, tx) ==
    LET t == tx.task
    IN /\ state[t] \in {"running", "ok"}
       /\ state[t] = "running" =>
             /\ m \in Mempools /\ tx = SettlementTx(t, m)
             /\ loop[t][m].pc \in {"watching", "pending", "giveup", "cancelling"}
             /\ last[m][signer[t]].nonce = tx.nonce => last[m][signer[t]].price >= tx.price
             /\ loop[t][m].pc = "cancelling" => \E r \in wire : Cancels(r, m, tx)
WireInv(r) ==
    LET t == r.tx.task
    IN /\ state[t] \in {"running", "ok"}
       /\ state[t] = "running" =>
             /\ r.by \in Mempools /\ r.to = r.by /\ r.tx = SettlementTx(t, r.by)
             /\ loop[t][r.by].pc = "sending"
BroadcastInv ==
    faults = 0 =>
        /\ \A m \in Mempool : \A tx \in pool[m] : tx.kind = "settle" => PoolInv(m, tx)
        /\ \A r \in wire : r.tx.kind = "settle" => WireInv(r)

IInv == TypeOK /\ LockInv /\ ChainInv /\ BroadcastInv /\ OkIsExecuted

-----------------------------------------------------------------------------
(* Types                                                                   *)

(* The setup, the chain and what is pending.                               *)
LEMMA Facts ==
    ASSUME TypeOK
    PROVE  /\ Mempools \subseteq Mempool /\ setup.faults \in Nat /\ faults \in Nat
           /\ \A t \in Task : signer[t] \in Signer /\ t # NoTask
           /\ \A s \in Signer : Count(s) \in Nat /\ DOMAIN mined[s] = 1..Count(s)
           /\ \A m \in Mempool : \A tx \in pool[m] :
                 tx \in Tx /\ tx.task \in Task /\ tx.nonce \in Nat /\ tx.price \in Nat \ {0}
           /\ \A r \in wire : /\ r \in MempoolRequest /\ r.to \in Mempool /\ r.by \in Mempool /\ r.tx \in Tx
                              /\ r.tx.task \in Task /\ r.tx.nonce \in Nat /\ r.tx.price \in Nat \ {0}
                              /\ r.tx.kind \in {"settle", "cancel"}
<1>1. setup \in [mempools : (SUBSET Mempool) \ {{}}, tasks : SUBSET Task,
                 deadline : [Task -> 0..MaxBlock], faults : Nat]
    BY SubmissionAssumption DEF TypeOK
<1>2. \A s \in Signer : Count(s) \in Nat /\ DOMAIN mined[s] = 1..Count(s)
    <2> SUFFICES ASSUME NEW s \in Signer PROVE Count(s) \in Nat /\ DOMAIN mined[s] = 1..Count(s)
        OBVIOUS
    <2>1. mined[s] \in Seq([tx : Tx, ok : BOOLEAN])
        BY DEF TypeOK
    <2> QED BY <2>1 DEF Count
<1>3. \A t \in Task : signer[t] \in Signer /\ t # NoTask
    BY SubmissionAssumption
<1>4. \A m \in Mempool : \A tx \in pool[m] : tx \in Tx
    BY DEF TypeOK
<1>5. \A r \in wire : r \in MempoolRequest
    BY DEF TypeOK
<1>6. faults \in Nat
    BY <1>1 DEF TypeOK
<1> QED BY <1>1, <1>2, <1>3, <1>4, <1>5, <1>6 DEF Mempools, Tx, MempoolRequest

(* One loop moves.                                                         *)
LoopIs(t, m, l) ==
    /\ loop' \in [Task -> [Mempool -> Loop]] /\ loop'[t][m] = l
    /\ \A u \in Task \ {t} : loop'[u] = loop[u]
    /\ \A n \in Mempool \ {m} : loop'[t][n] = loop[t][n]

LEMMA LoopTypes ==
    ASSUME TypeOK
    PROVE  /\ loop \in [Task -> [Mempool -> Loop]]
           /\ \A t \in Task, m \in Mempool :
                 /\ loop[t][m] \in Loop /\ loop[t][m].nonce \in Nat /\ loop[t][m].price \in Nat
                 /\ loop[t][m].fresh \in BOOLEAN
<1>1. loop \in [Task -> [Mempool -> Loop]]
    BY DEF TypeOK, Loop
<1> QED BY <1>1 DEF Loop

LEMMA PointIs ==
    ASSUME TypeOK, NEW t \in Task, NEW m \in Mempool, NEW l \in Loop,
           loop' = [loop EXCEPT ![t] = [@ EXCEPT ![m] = l]]
    PROVE  LoopIs(t, m, l)
BY LoopTypes DEF LoopIs

LEMMA GoToIs ==
    ASSUME TypeOK, NEW t \in Task, NEW m \in Mempool,
           NEW pc \in {"start", "simulated", "nonce", "sending", "watching", "pending", "giveup",
                       "cancelling", "last", "err"},
           GoTo(t, m, pc)
    PROVE  \E l \in Loop : /\ LoopIs(t, m, l) /\ l.pc = pc /\ l.nonce = loop[t][m].nonce
                           /\ l.price = loop[t][m].price
<1> DEFINE l == [loop[t][m] EXCEPT !.pc = pc]
<1>1. loop[t][m] \in Loop
    BY LoopTypes
<1>2. l \in Loop /\ l.pc = pc /\ l.nonce = loop[t][m].nonce /\ l.price = loop[t][m].price
    BY <1>1 DEF Loop
<1>3. loop' = [loop EXCEPT ![t] = [@ EXCEPT ![m] = l]]
    BY DEF GoTo
<1> HIDE DEF l
<1>4. LoopIs(t, m, l)
    BY <1>2, <1>3, PointIs
<1> QED BY <1>2, <1>4

LEMMA SettlementFields ==
    ASSUME TypeOK, NEW t \in Task, NEW m \in Mempool
    PROVE  /\ SettlementTx(t, m).task = t /\ SettlementTx(t, m).kind = "settle"
           /\ SettlementTx(t, m).nonce = loop[t][m].nonce /\ SettlementTx(t, m).price = loop[t][m].price
BY DEF SettlementTx

-----------------------------------------------------------------------------
(* The lock                                                                *)

(* A loop moves while its execution runs.                                  *)
LEMMA LockLoop ==
    ASSUME LockInv, NEW t \in Task, NEW m \in Mempool, NEW l, LoopIs(t, m, l), state[t] = "running",
           setup' = setup, state' = state, holder' = holder,
           \A r \in wire' \ wire : r.tx.task = t /\ r.by \in Mempools
    PROVE  LockInv'
<1>1. \A u \in Task : IF state[u] = "running" THEN holder[signer[u]] = u
                                              ELSE loop'[u] = [n \in Mempool |-> NotStarted]
    BY DEF LockInv, LoopIs
<1>2. \A r \in wire' : state[r.tx.task] \notin {"idle", "waiting"} /\ r.by \in Mempools
    BY DEF LockInv
<1> QED BY <1>1, <1>2 DEF LockInv, Mempools

(* An execution returns.                                                   *)
LEMMA ReturnsTypes ==
    ASSUME TypeOK, LockInv, NEW t \in Task, state[t] = "running",
           NEW result \in {"ok", "failed", "aborted"}, Returns(t, result),
           setup' = setup, wire' \subseteq wire
    PROVE  /\ LockInv' /\ holder' \in [Signer -> Task \cup {NoTask}]
           /\ state' \in [Task -> {"idle", "waiting", "running", "ok", "failed", "aborted"}]
           /\ loop' \in [Task -> [Mempool -> Loop]]
           /\ state'[t] = result /\ \A u \in Task \ {t} : state'[u] = state[u] /\ loop'[u] = loop[u]
<1>1. /\ state' = [state EXCEPT ![t] = result]
      /\ holder' = [holder EXCEPT ![signer[t]] = NoTask]
      /\ loop' = [loop EXCEPT ![t] = [m \in Mempool |-> NotStarted]]
    BY DEF Returns
<1>2. /\ holder \in [Signer -> Task \cup {NoTask}] /\ signer[t] \in Signer
      /\ state \in [Task -> {"idle", "waiting", "running", "ok", "failed", "aborted"}]
      /\ loop \in [Task -> [Mempool -> Loop]]
    BY LoopTypes, Facts DEF TypeOK
<1>3. [m \in Mempool |-> NotStarted] \in [Mempool -> Loop]
    BY DEF NotStarted, Loop
<1>4. /\ holder' \in [Signer -> Task \cup {NoTask}]
      /\ state' \in [Task -> {"idle", "waiting", "running", "ok", "failed", "aborted"}]
    BY <1>1, <1>2
<1>5. loop' \in [Task -> [Mempool -> Loop]]
    <2> DEFINE none == [m \in Mempool |-> NotStarted]
    <2> HIDE DEF none
    <2> QED BY <1>1, <1>2, <1>3 DEF none
<1>6. \A u \in Task : IF state'[u] = "running" THEN holder'[signer[u]] = u
                                               ELSE loop'[u] = [m \in Mempool |-> NotStarted]
    <2> SUFFICES ASSUME NEW u \in Task
                 PROVE  IF state'[u] = "running" THEN holder'[signer[u]] = u
                                                 ELSE loop'[u] = [m \in Mempool |-> NotStarted]
        OBVIOUS
    <2>1. CASE u = t
        BY <1>1, <1>2, <2>1
    <2>2. CASE u # t /\ state[u] = "running"
        BY <1>1, <1>2, <2>2 DEF LockInv
    <2>3. CASE u # t /\ state[u] # "running"
        BY <1>1, <1>2, <2>3 DEF LockInv
    <2> QED BY <2>1, <2>2, <2>3
<1>7. \A r \in wire' : state'[r.tx.task] \notin {"idle", "waiting"} /\ r.by \in Mempools
    BY <1>1, <1>2, Facts DEF LockInv
<1> QED BY <1>1, <1>2, <1>4, <1>5, <1>6, <1>7 DEF LockInv, Mempools

-----------------------------------------------------------------------------
(* What is broadcast                                                       *)

(* What a running loop has in its mempool, without faults.                 *)
LEMMA Placed ==
    ASSUME IInv, faults = 0, NEW m \in Mempool, NEW tx \in pool[m], tx.kind = "settle",
           state[tx.task] # "ok"
    PROVE  /\ state[tx.task] = "running" /\ m \in Mempools
           /\ tx = SettlementTx(tx.task, m)
           /\ tx.nonce = loop[tx.task][m].nonce /\ tx.price = loop[tx.task][m].price
           /\ loop[tx.task][m].pc \in {"watching", "pending", "giveup", "cancelling"}
           /\ last[m][signer[tx.task]].nonce = tx.nonce => last[m][signer[tx.task]].price >= tx.price
           /\ loop[tx.task][m].pc = "cancelling" => \E r \in wire : Cancels(r, m, tx)
<1>1. TypeOK /\ PoolInv(m, tx) /\ tx.task \in Task
    BY Facts DEF IInv, BroadcastInv
<1> QED BY <1>1, SettlementFields DEF PoolInv

(* One loop moves, from a place where it has nothing on its way: what it   *)
(* has in its mempool, it still watches or is about to give up.            *)
LEMMA LoopBroadcast ==
    ASSUME IInv, NEW t \in Task, NEW m \in Mempools, NEW l \in Loop, LoopIs(t, m, l),
           state[t] = "running", loop[t][m].pc # "sending",
           UNCHANGED <<setup, pool, wire, last, state, faults>>,
           \A tx \in pool[m] : faults = 0 /\ tx.kind = "settle" /\ tx.task = t =>
              /\ l.pc \in {"watching", "pending", "giveup"}
              /\ l.nonce = loop[t][m].nonce /\ l.price = loop[t][m].price
    PROVE  BroadcastInv'
<1>1. /\ setup' = setup /\ pool' = pool /\ wire' = wire /\ last' = last /\ state' = state
      /\ faults' = faults
    OBVIOUS
<1>2. TypeOK
    BY DEF IInv
<1>3. ASSUME faults = 0, NEW n \in Mempool, NEW tx \in pool[n], tx.kind = "settle" PROVE PoolInv(n, tx)'
    <2>1. PoolInv(n, tx) /\ tx.task \in Task
        BY <1>2, <1>3, Facts DEF IInv, BroadcastInv
    <2>2. CASE state[tx.task] # "running"
        BY <1>1, <2>1, <2>2 DEF PoolInv
    <2>3. CASE state[tx.task] = "running" /\ (tx.task # t \/ n # m)
        <3>1. loop'[tx.task][n] = loop[tx.task][n]
            BY <2>1, <2>3 DEF LoopIs
        <3> QED BY <1>1, <2>1, <2>3, <3>1 DEF PoolInv, SettlementTx, Mempools, Cancels
    <2>4. CASE state[tx.task] = "running" /\ tx.task = t /\ n = m
        <3>1. loop'[t][m] = l /\ l.nonce = loop[t][m].nonce /\ l.price = loop[t][m].price
              /\ l.pc \in {"watching", "pending", "giveup"}
            BY <1>3, <2>4 DEF LoopIs
        <3> QED BY <1>1, <2>1, <2>4, <3>1 DEF PoolInv, SettlementTx, Mempools
    <2> QED BY <2>2, <2>3, <2>4
<1>4. ASSUME faults = 0, NEW r \in wire, r.tx.kind = "settle" PROVE WireInv(r)'
    <2>1. WireInv(r) /\ r.tx.task \in Task /\ r.by \in Mempool
        BY <1>2, <1>4, Facts DEF IInv, BroadcastInv
    <2>2. CASE state[r.tx.task] # "running"
        BY <1>1, <2>1, <2>2 DEF WireInv
    <2>3. CASE state[r.tx.task] = "running"
        <3>1. r.tx.task # t \/ r.by # m
            BY <2>1, <2>3 DEF WireInv
        <3>2. loop'[r.tx.task][r.by] = loop[r.tx.task][r.by]
            BY <2>1, <3>1 DEF LoopIs
        <3> QED BY <1>1, <2>1, <2>3, <3>2 DEF WireInv, SettlementTx, Mempools
    <2> QED BY <2>2, <2>3
<1> QED BY <1>1, <1>3, <1>4 DEF BroadcastInv

(* The rest of the invariant when only a loop moves.                       *)
LEMMA LoopStep ==
    ASSUME IInv, NEW t \in Task, NEW m \in Mempools, NEW l \in Loop, LoopIs(t, m, l),
           state[t] = "running", loop[t][m].pc # "sending",
           UNCHANGED <<setup, chain, network, holder, state, faults>>,
           \A tx \in pool[m] : faults = 0 /\ tx.kind = "settle" /\ tx.task = t =>
              /\ l.pc \in {"watching", "pending", "giveup"}
              /\ l.nonce = loop[t][m].nonce /\ l.price = loop[t][m].price
    PROVE  IInv'
<1>1. /\ setup' = setup /\ pool' = pool /\ wire' = wire /\ last' = last /\ state' = state
      /\ faults' = faults /\ holder' = holder /\ block' = block /\ mined' = mined /\ valid' = valid
    BY DEF chain, network
<1>2. TypeOK /\ LockInv /\ ChainInv /\ OkIsExecuted /\ m \in Mempool
    BY Facts DEF IInv
<1>3. BroadcastInv'
    BY <1>1, LoopBroadcast
<1>4. LockInv'
    BY <1>1, <1>2, LockLoop
<1>5. TypeOK'
    BY <1>1, <1>2 DEF TypeOK, LoopIs, Loop
<1>6. ChainInv' /\ OkIsExecuted'
    BY <1>1, <1>2 DEF ChainInv, Count, OkIsExecuted, settled
<1> QED BY <1>3, <1>4, <1>5, <1>6 DEF IInv

(* A loop fails, what it had broadcast gone from its mempool and the wire. *)
LEMMA FailsStep ==
    ASSUME IInv, NEW t \in Task, NEW m \in Mempools, state[t] = "running", LoopFails(t, m),
           UNCHANGED <<setup, chain, pool, last, faults>>, wire' \subseteq wire,
           \A r \in wire \ wire' : r.tx.task = t /\ r.by = m,
           faults = 0 => /\ \A r \in wire' : ~ (r.tx.kind = "settle" /\ r.tx.task = t /\ r.by = m)
                         /\ \A tx \in pool[m] : ~ (tx.kind = "settle" /\ tx.task = t)
    PROVE  IInv'
<1>1. /\ setup' = setup /\ pool' = pool /\ last' = last /\ faults' = faults
      /\ block' = block /\ mined' = mined /\ valid' = valid
    BY DEF chain
<1>2. TypeOK /\ LockInv /\ ChainInv /\ BroadcastInv /\ OkIsExecuted /\ m \in Mempool
    BY Facts DEF IInv
<1>3. ChainInv'
    BY <1>1, <1>2 DEF ChainInv, Count
<1>4. wire' \in SUBSET MempoolRequest
    BY <1>2 DEF TypeOK
<1>5. CASE \A n \in Mempools \ {m} : loop[t][n].pc = "err"
    <2>1. Returns(t, "failed")
        BY <1>5 DEF LoopFails
    <2>2. /\ LockInv' /\ holder' \in [Signer -> Task \cup {NoTask}]
          /\ state' \in [Task -> {"idle", "waiting", "running", "ok", "failed", "aborted"}]
          /\ loop' \in [Task -> [Mempool -> Loop]]
          /\ state'[t] = "failed" /\ \A u \in Task \ {t} : state'[u] = state[u] /\ loop'[u] = loop[u]
        BY <1>1, <1>2, <2>1, ReturnsTypes
    <2>3. TypeOK'
        BY <1>1, <1>2, <1>4, <2>2 DEF TypeOK, Loop
    <2>4. OkIsExecuted'
        BY <1>1, <1>2, <2>2 DEF OkIsExecuted, settled
    <2>5. ASSUME faults = 0, NEW n \in Mempool, NEW tx \in pool[n], tx.kind = "settle"
          PROVE  PoolInv(n, tx)'
        <3>1. PoolInv(n, tx) /\ tx.task \in Task
            BY <1>2, <2>5, Facts DEF BroadcastInv
        <3>2. tx.task # t
            BY <1>5, <2>5, <3>1 DEF PoolInv
        <3>3. state'[tx.task] = state[tx.task] /\ loop'[tx.task] = loop[tx.task]
            BY <2>2, <3>1, <3>2
        <3>4. \A r \in wire : Cancels(r, n, tx) => r \in wire'
            BY <3>2 DEF Cancels
        <3>5. state[tx.task] = "running" /\ loop[tx.task][n].pc = "cancelling" =>
                  \E r \in wire' : Cancels(r, n, tx)
            BY <3>1, <3>4 DEF PoolInv
        <3> QED BY <1>1, <3>1, <3>3, <3>5 DEF PoolInv, SettlementTx, Mempools, Cancels
    <2>6. ASSUME faults = 0, NEW r \in wire', r.tx.kind = "settle" PROVE WireInv(r)'
        <3>1. WireInv(r) /\ r.tx.task \in Task
            BY <1>2, <2>6, Facts DEF BroadcastInv
        <3>2. r.tx.task # t
            BY <1>5, <2>6, <3>1 DEF WireInv
        <3>3. state'[r.tx.task] = state[r.tx.task] /\ loop'[r.tx.task] = loop[r.tx.task]
            BY <2>2, <3>1, <3>2
        <3> QED BY <1>1, <3>1, <3>3 DEF WireInv, SettlementTx, Mempools
    <2>7. BroadcastInv'
        BY <1>1, <2>5, <2>6 DEF BroadcastInv
    <2> QED BY <1>3, <2>2, <2>3, <2>4, <2>7 DEF IInv
<1>6. CASE ~ \A n \in Mempools \ {m} : loop[t][n].pc = "err"
    <2>1. GoTo(t, m, "err") /\ state' = state /\ holder' = holder
        BY <1>6 DEF LoopFails
    <2>2. PICK l \in Loop : LoopIs(t, m, l) /\ l.pc = "err"
        BY <1>2, <2>1, GoToIs
    <2>3. LockInv'
        BY <1>1, <1>2, <2>1, <2>2, LockLoop
    <2>4. TypeOK'
        BY <1>1, <1>2, <1>4, <2>1, <2>2 DEF TypeOK, Loop, LoopIs
    <2>5. OkIsExecuted'
        BY <1>1, <1>2, <2>1 DEF OkIsExecuted, settled
    <2>6. ASSUME faults = 0, NEW n \in Mempool, NEW tx \in pool[n], tx.kind = "settle"
          PROVE  PoolInv(n, tx)'
        <3>1. PoolInv(n, tx) /\ tx.task \in Task
            BY <1>2, <2>6, Facts DEF BroadcastInv
        <3>2. tx.task # t \/ n # m
            BY <2>6
        <3>3. loop'[tx.task][n] = loop[tx.task][n]
            BY <2>2, <3>1, <3>2 DEF LoopIs
        <3>4. \A r \in wire : Cancels(r, n, tx) => r \in wire'
            BY <3>2 DEF Cancels
        <3>5. state[tx.task] = "running" /\ loop[tx.task][n].pc = "cancelling" =>
                  \E r \in wire' : Cancels(r, n, tx)
            BY <3>1, <3>4 DEF PoolInv
        <3> QED BY <1>1, <2>1, <3>1, <3>3, <3>5 DEF PoolInv, SettlementTx, Mempools, Cancels
    <2>7. ASSUME faults = 0, NEW r \in wire', r.tx.kind = "settle" PROVE WireInv(r)'
        <3>1. WireInv(r) /\ r.tx.task \in Task /\ r.by \in Mempool
            BY <1>2, <2>7, Facts DEF BroadcastInv
        <3>2. r.tx.task # t \/ r.by # m
            BY <2>7
        <3>3. loop'[r.tx.task][r.by] = loop[r.tx.task][r.by]
            BY <2>2, <3>1, <3>2 DEF LoopIs
        <3> QED BY <1>1, <2>1, <3>1, <3>3 DEF WireInv, SettlementTx, Mempools
    <2>8. BroadcastInv'
        BY <1>1, <2>6, <2>7 DEF BroadcastInv
    <2> QED BY <1>3, <2>3, <2>4, <2>5, <2>8 DEF IInv
<1> QED BY <1>5, <1>6

-----------------------------------------------------------------------------
(* submit                                                                  *)

(* Before the loop broadcasts, and while it watches.                       *)
LEMMA WaitsStep ==
    ASSUME IInv, NEW t \in Task, NEW m \in Mempools,
           Simulate(t, m) \/ get_nonce(t, m) \/ Watch(t, m) \/ Resimulate(t, m)
    PROVE  IInv'
<1>1. /\ TypeOK /\ m \in Mempool /\ loop[t][m] \in Loop /\ Count(signer[t]) \in Nat
    BY LoopTypes, Facts DEF IInv
<1>2. CASE Simulate(t, m)
    <2>1. PICK l \in Loop : LoopIs(t, m, l) /\ l.pc = "simulated"
        BY <1>1, <1>2, GoToIs DEF Simulate
    <2>2. state[t] = "running" /\ loop[t][m].pc = "start"
        BY <1>2 DEF Simulate, At
    <2>3. \A tx \in pool[m] : ~ (faults = 0 /\ tx.kind = "settle" /\ tx.task = t)
        BY <1>1, <2>2, Placed
    <2> QED BY <1>2, <2>1, <2>2, <2>3, LoopStep DEF Simulate
<1>3. CASE get_nonce(t, m)
    <2> DEFINE l == [loop[t][m] EXCEPT !.pc = "nonce", !.nonce = Count(signer[t])]
    <2>1. state[t] = "running" /\ loop[t][m].pc = "simulated"
        BY <1>3 DEF get_nonce, At
    <2>2. l \in Loop
        BY <1>1 DEF Loop
    <2>3. loop' = [loop EXCEPT ![t] = [@ EXCEPT ![m] = l]]
        BY <1>1, <1>3, LoopTypes DEF get_nonce
    <2> HIDE DEF l
    <2>4. LoopIs(t, m, l)
        BY <1>1, <2>2, <2>3, PointIs
    <2>5. \A tx \in pool[m] : ~ (faults = 0 /\ tx.kind = "settle" /\ tx.task = t)
        BY <1>1, <2>1, Placed
    <2> QED BY <1>3, <2>1, <2>2, <2>4, <2>5, LoopStep DEF get_nonce
<1>4. CASE Watch(t, m)
    <2> DEFINE pc == IF block >= deadline[t] THEN "giveup" ELSE "pending"
               l == [loop[t][m] EXCEPT !.fresh = FALSE, !.pc = pc]
    <2>1. state[t] = "running" /\ loop[t][m].pc = "watching"
        BY <1>4 DEF Watch, At
    <2>2. pc \in {"giveup", "pending"}
        OBVIOUS
    <2>3. loop' = [loop EXCEPT ![t] = [@ EXCEPT ![m] = l]]
        BY <1>1, <1>4, LoopTypes DEF Watch
    <2> HIDE DEF pc
    <2>4. l \in Loop /\ l.pc = pc /\ l.nonce = loop[t][m].nonce /\ l.price = loop[t][m].price
        BY <1>1, <2>2 DEF Loop
    <2> HIDE DEF l
    <2>5. LoopIs(t, m, l)
        BY <1>1, <2>3, <2>4, PointIs
    <2> QED BY <1>4, <2>1, <2>2, <2>4, <2>5, LoopStep DEF Watch
<1>5. CASE Resimulate(t, m)
    <2>1. PICK pc \in {"watching", "giveup"} : GoTo(t, m, pc)
        BY <1>5 DEF Resimulate
    <2>2. PICK l \in Loop : LoopIs(t, m, l) /\ l.pc = pc /\ l.nonce = loop[t][m].nonce
                            /\ l.price = loop[t][m].price
        BY <1>1, <2>1, GoToIs
    <2>3. state[t] = "running" /\ loop[t][m].pc = "pending"
        BY <1>5 DEF Resimulate, At
    <2> QED BY <1>5, <2>1, <2>2, <2>3, LoopStep DEF Resimulate
<1> QED BY <1>2, <1>3, <1>4, <1>5

(* A loop goes on to its last attempt when its nonce is mined, or when     *)
(* what it sent to its own mempool took the settlement's place.            *)
LEMMA GivesUpStep ==
    ASSUME IInv, NEW t \in Task, NEW m \in Mempools, CancelIsFutile(t, m) \/ CancelAnswered(t, m)
    PROVE  IInv'
<1>1. TypeOK /\ ChainInv /\ m \in Mempool /\ Count(signer[t]) \in Nat
    BY Facts DEF IInv
<1>2. /\ state[t] = "running" /\ loop[t][m].pc \in {"giveup", "cancelling"} /\ GoTo(t, m, "last")
      /\ UNCHANGED <<setup, chain, network, holder, state, faults>>
    BY DEF CancelIsFutile, CancelAnswered, At
<1>3. PICK l \in Loop : LoopIs(t, m, l) /\ l.pc = "last"
    BY <1>1, <1>2, GoToIs
<1>4. ASSUME faults = 0, NEW tx \in pool[m], tx.kind = "settle", tx.task = t PROVE FALSE
    <2>1. /\ tx.nonce = loop[t][m].nonce /\ tx.nonce \in Nat /\ tx.nonce >= Count(signer[t])
          /\ loop[t][m].pc = "cancelling" => \E r \in wire : Cancels(r, m, tx)
        BY <1>1, <1>2, <1>4, Placed, Facts DEF ChainInv
    <2>2. CASE CancelIsFutile(t, m)
        BY <1>1, <2>1, <2>2 DEF CancelIsFutile, nonce_already_mined
    <2>3. CASE CancelAnswered(t, m)
        BY <1>4, <2>1, <2>3 DEF CancelAnswered, At, Sent, Cancels
    <2> QED BY <2>2, <2>3
<1> QED BY <1>2, <1>3, <1>4, LoopStep

(* A loop ends with an error only when it has nothing in its mempool.      *)
LEMMA ErrsStep ==
    ASSUME IInv, NEW t \in Task, NEW m \in Mempools,
           \/ Disabled(t, m) \/ CapExceeded(t, m) \/ ReadFails(t, m) \/ Reverted(t, m)
           \/ LastAttempt(t, m)
    PROVE  IInv'
<1>1. TypeOK /\ ChainInv /\ BroadcastInv /\ m \in Mempool /\ signer[t] \in Signer
    BY Facts DEF IInv
<1>2. /\ state[t] = "running" /\ LoopFails(t, m)
      /\ loop[t][m].pc \in {"start", "simulated", "nonce", "watching", "last"}
      /\ loop[t][m].pc = "watching" => status(SettlementTx(t, m)) = "Reverted"
      /\ UNCHANGED <<setup, chain, pool, wire, last, faults>>
    BY DEF Disabled, CapExceeded, ReadFails, Reverted, LastAttempt, At, network
<1>3. ASSUME faults = 0, NEW r \in wire, r.tx.kind = "settle", r.tx.task = t, r.by = m PROVE FALSE
    BY <1>1, <1>2, <1>3 DEF BroadcastInv, WireInv
<1>4. ASSUME faults = 0, NEW tx \in pool[m], tx.kind = "settle", tx.task = t PROVE FALSE
    <2>1. /\ loop[t][m].pc = "watching" /\ tx = SettlementTx(t, m) /\ tx.nonce >= Count(signer[t])
          /\ tx.nonce \in Nat
        BY <1>1, <1>2, <1>4, Placed, Facts DEF ChainInv
    <2>2. status(tx) = "Reverted"
        BY <1>2, <2>1
    <2>3. PICK i \in DOMAIN mined[signer[t]] : mined[signer[t]][i].tx = tx
        BY <1>4, <2>2 DEF status
    <2>4. tx.nonce = i - 1 /\ i \in 1..Count(signer[t]) /\ Count(signer[t]) \in Nat
        BY <1>1, <2>3, Facts DEF ChainInv
    <2> QED BY <2>1, <2>4
<1> QED BY <1>2, <1>3, <1>4, FailsStep

(* What was executed is settled, so the execution's Ok is the truth.       *)
LEMMA ConfirmedStep ==
    ASSUME IInv, NEW t \in Task, NEW m \in Mempools, Confirmed(t, m)
    PROVE  IInv'
<1>1. TypeOK /\ LockInv /\ ChainInv /\ BroadcastInv /\ OkIsExecuted /\ m \in Mempool
    BY Facts DEF IInv
<1>2. /\ state[t] = "running" /\ Returns(t, "ok") /\ status(SettlementTx(t, m)) = "Executed"
      /\ setup' = setup /\ pool' = pool /\ wire' = wire /\ last' = last /\ faults' = faults
      /\ block' = block /\ mined' = mined /\ valid' = valid
    BY DEF Confirmed, LoopSucceeds, At, chain, network
<1>3. /\ LockInv' /\ holder' \in [Signer -> Task \cup {NoTask}]
      /\ state' \in [Task -> {"idle", "waiting", "running", "ok", "failed", "aborted"}]
      /\ loop' \in [Task -> [Mempool -> Loop]]
      /\ state'[t] = "ok" /\ \A u \in Task \ {t} : state'[u] = state[u] /\ loop'[u] = loop[u]
    BY <1>1, <1>2, ReturnsTypes
<1>4. settled(t)
    <2>1. SettlementTx(t, m).task = t /\ SettlementTx(t, m).kind = "settle"
        BY <1>1, SettlementFields
    <2>2. PICK i \in DOMAIN mined[signer[t]] :
             mined[signer[t]][i] = [tx |-> SettlementTx(t, m), ok |-> TRUE]
        BY <1>2, <2>1 DEF status
    <2> QED BY <2>1, <2>2 DEF settled
<1>5. OkIsExecuted'
    BY <1>1, <1>2, <1>3, <1>4 DEF OkIsExecuted, settled
<1>6. TypeOK' /\ ChainInv'
    BY <1>1, <1>2, <1>3 DEF TypeOK, Loop, ChainInv, Count
<1>7. BroadcastInv'
    <2>1. ASSUME faults = 0, NEW n \in Mempool, NEW tx \in pool[n], tx.kind = "settle"
          PROVE  PoolInv(n, tx)'
        <3>1. PoolInv(n, tx) /\ tx.task \in Task
            BY <1>1, <2>1, Facts DEF BroadcastInv
        <3>2. CASE tx.task = t
            BY <1>3, <3>2 DEF PoolInv
        <3>3. CASE tx.task # t
            BY <1>2, <1>3, <3>1, <3>3 DEF PoolInv, SettlementTx, Mempools, Cancels
        <3> QED BY <3>2, <3>3
    <2>2. ASSUME faults = 0, NEW r \in wire, r.tx.kind = "settle" PROVE WireInv(r)'
        <3>1. WireInv(r) /\ r.tx.task \in Task
            BY <1>1, <2>2, Facts DEF BroadcastInv
        <3>2. CASE r.tx.task = t
            BY <1>3, <3>2 DEF WireInv
        <3>3. CASE r.tx.task # t
            BY <1>2, <1>3, <3>1, <3>3 DEF WireInv, SettlementTx, Mempools
        <3> QED BY <3>2, <3>3
    <2> QED BY <1>2, <2>1, <2>2 DEF BroadcastInv
<1> QED BY <1>3, <1>5, <1>6, <1>7 DEF IInv

-----------------------------------------------------------------------------
(* Broadcasts                                                              *)

(* The greater of two numbers.                                             *)
LEMMA MaxOfTwo ==
    ASSUME NEW p \in Nat, NEW r \in Nat
    PROVE  Max({p, r}) \in {p, r} /\ Max({p, r}) >= p
<1>1. PICK x \in {p, r} : \A y \in {p, r} : x >= y
    <2>1. CASE p >= r
        BY <2>1
    <2>2. CASE r >= p
        BY <2>2
    <2> QED BY <2>1, <2>2
<1> QED BY <1>1 DEF Max

(* What has to be paid for a place is one more than what it may be paid    *)
(* for already, or nothing when that is not known.                         *)
LEMMA ReplacementPrice ==
    ASSUME TypeOK, NEW m \in Mempool, NEW s \in Signer, NEW nonce,
           NEW r \in minimum_replacement_gas_price(m, s, nonce)
    PROVE  /\ r \in Nat /\ last[m][s].nonce \in Nat /\ last[m][s].price \in Nat
           /\ \/ r = 0
              \/ last[m][s].nonce = nonce /\ r = last[m][s].price + 1
              \/ \E tx \in PendingAt(m, s, nonce) : r = tx.price + 1
<1>1. last[m][s] \in [nonce : Nat, price : Nat]
    BY DEF TypeOK
<1>2. \A tx \in PendingAt(m, s, nonce) : tx.price \in Nat
    BY Facts DEF PendingAt
<1> QED BY <1>1, <1>2 DEF minimum_replacement_gas_price

(* The settlement is sent to the loop's own mempool.                       *)
LEMMA BroadcastStep ==
    ASSUME IInv, NEW t \in Task, NEW m \in Mempools, Broadcast(t, m)
    PROVE  IInv'
<1>1. TypeOK /\ LockInv /\ ChainInv /\ BroadcastInv /\ OkIsExecuted /\ m \in Mempool /\ signer[t] \in Signer
    BY Facts DEF IInv
<1>2. PICK price \in FinalGasPrice(t, m) :
         /\ loop' = [loop EXCEPT ![t][m].pc = "sending", ![t][m].price = price]
         /\ wire' = wire \cup {[to |-> m, by |-> m, tx |-> SettlementTx(t, m)']}
    BY DEF Broadcast
<1>3. /\ state[t] = "running" /\ loop[t][m].pc = "nonce"
      /\ setup' = setup /\ pool' = pool /\ last' = last /\ faults' = faults
      /\ block' = block /\ mined' = mined /\ valid' = valid /\ holder' = holder /\ state' = state
    BY DEF Broadcast, At, chain
<1>4. price \in Nat \ {0}
    <2>1. PICK p \in GasPrice, r \in minimum_replacement_gas_price(m, signer[t], loop[t][m].nonce) :
             price = Max({p, r})
        BY DEF FinalGasPrice
    <2>2. p \in Nat \ {0} /\ r \in Nat
        BY <1>1, <2>1, ReplacementPrice, SubmissionAssumption
    <2> QED BY <2>1, <2>2, MaxOfTwo
<1> DEFINE l == [loop[t][m] EXCEPT !.pc = "sending", !.price = price]
<1>5. loop[t][m] \in Loop /\ loop \in [Task -> [Mempool -> Loop]] /\ loop[t][m].nonce \in Nat
    BY <1>1, LoopTypes
<1>6. /\ l \in Loop /\ l.pc = "sending" /\ l.nonce = loop[t][m].nonce /\ l.price = price
    BY <1>4, <1>5 DEF Loop
<1>7. loop' = [loop EXCEPT ![t] = [@ EXCEPT ![m] = l]]
    BY <1>2, <1>5
<1> HIDE DEF l
<1>8. LoopIs(t, m, l)
    BY <1>1, <1>6, <1>7, PointIs
<1>9. PICK sent \in MempoolRequest :
         /\ sent.to = m /\ sent.by = m /\ sent.tx.task = t /\ sent.tx.kind = "settle"
         /\ sent.tx = [task |-> t, kind |-> "settle", nonce |-> l.nonce, price |-> l.price]
         /\ wire' = wire \cup {sent}
    <2> DEFINE tx == [task |-> t, kind |-> "settle", nonce |-> l.nonce, price |-> l.price]
    <2>1. SettlementTx(t, m)' = tx
        BY <1>8 DEF SettlementTx, LoopIs
    <2>2. l.nonce \in Nat /\ l.price \in Nat \ {0}
        BY <1>4, <1>5, <1>6
    <2>3. tx \in Tx /\ tx.task = t /\ tx.kind = "settle"
        BY <2>2 DEF Tx
    <2> HIDE DEF tx
    <2>4. [to |-> m, by |-> m, tx |-> tx] \in MempoolRequest
        BY <1>1, <2>3 DEF MempoolRequest
    <2> QED BY <1>2, <2>1, <2>3, <2>4 DEF tx
<1>10. wire' = wire \cup {sent}
    BY <1>9
<1>11. LockInv'
    BY <1>1, <1>3, <1>8, <1>9, <1>10, LockLoop
<1>12. TypeOK' /\ ChainInv' /\ OkIsExecuted'
    <2>1. wire' \in SUBSET MempoolRequest
        BY <1>1, <1>9, <1>10 DEF TypeOK
    <2>2. TypeOK'
        BY <1>1, <1>3, <1>8, <2>1 DEF TypeOK, Loop, LoopIs
    <2> QED BY <1>1, <1>3, <2>2 DEF ChainInv, Count, OkIsExecuted, settled
<1>13. BroadcastInv'
    <2>1. ASSUME faults = 0, NEW n \in Mempool, NEW tx \in pool[n], tx.kind = "settle"
          PROVE  PoolInv(n, tx)'
        <3>1. PoolInv(n, tx) /\ tx.task \in Task
            BY <1>1, <2>1, Facts DEF BroadcastInv
        <3>2. CASE state[tx.task] # "running"
            BY <1>3, <3>1, <3>2 DEF PoolInv
        <3>3. CASE state[tx.task] = "running"
            <4>1. loop'[tx.task][n] = loop[tx.task][n]
                BY <1>3, <1>8, <3>1, <3>3 DEF PoolInv, LoopIs
            <4> QED BY <1>3, <1>10, <3>1, <3>3, <4>1 DEF PoolInv, SettlementTx, Mempools, Cancels
        <3> QED BY <3>2, <3>3
    <2>2. ASSUME faults = 0, NEW r \in wire, r.tx.kind = "settle" PROVE WireInv(r)'
        <3>1. WireInv(r) /\ r.tx.task \in Task /\ r.by \in Mempool
            BY <1>1, <2>2, Facts DEF BroadcastInv
        <3>2. CASE state[r.tx.task] # "running"
            BY <1>3, <3>1, <3>2 DEF WireInv
        <3>3. CASE state[r.tx.task] = "running"
            <4>1. loop'[r.tx.task][r.by] = loop[r.tx.task][r.by]
                BY <1>3, <1>8, <3>1, <3>3 DEF WireInv, LoopIs
            <4> QED BY <1>3, <3>1, <3>3, <4>1 DEF WireInv, SettlementTx, Mempools
        <3> QED BY <3>2, <3>3
    <2>3. WireInv(sent)'
        BY <1>3, <1>6, <1>8, <1>9 DEF WireInv, LoopIs, SettlementTx, Mempools
    <2> QED BY <1>3, <1>10, <2>1, <2>2, <2>3 DEF BroadcastInv
<1> QED BY <1>11, <1>12, <1>13 DEF IInv

(* The cancellation to the loop's own mempool offers more than whatever is *)
(* in the settlement's place there: it is known from last_submissions, or  *)
(* seen in the pool, or it is the settlement, whose price the loop knows.  *)
LEMMA CancelAllStep ==
    ASSUME IInv, NEW t \in Task, NEW m \in Mempools, cancel_all(t, m)
    PROVE  IInv'
<1>1. TypeOK /\ LockInv /\ ChainInv /\ BroadcastInv /\ OkIsExecuted /\ m \in Mempool /\ signer[t] \in Signer
    BY Facts DEF IInv
<1>2. PICK price \in [Mempools -> UNION {CancelPrice(t, m, to) : to \in Mempools}] :
         /\ \A to \in Mempools : price[to] \in CancelPrice(t, m, to)
         /\ wire' = wire \cup {[to |-> to, by |-> m, tx |-> Cancellation(t, m, price[to])] :
                                 to \in Mempools}
    BY DEF cancel_all
<1>3. /\ state[t] = "running" /\ loop[t][m].pc = "giveup"
      /\ setup' = setup /\ pool' = pool /\ last' = last /\ faults' = faults
      /\ block' = block /\ mined' = mined /\ valid' = valid /\ holder' = holder /\ state' = state
    BY DEF cancel_all, At, chain
<1>4. PICK l \in Loop : LoopIs(t, m, l) /\ l.pc = "cancelling" /\ l.nonce = loop[t][m].nonce
                        /\ l.price = loop[t][m].price
    BY <1>1, GoToIs DEF cancel_all
<1>5. \A to \in Mempools : price[to] \in Nat \ {0}
    <2> SUFFICES ASSUME NEW to \in Mempools PROVE price[to] \in Nat \ {0}
        OBVIOUS
    <2>1. PICK r \in minimum_replacement_gas_price(to, signer[t], loop[t][m].nonce) :
             price[to] = IF r = 0 THEN loop[t][m].price + 1 ELSE r
        BY <1>2 DEF CancelPrice
    <2>2. to \in Mempool
        BY <1>1, Facts
    <2>3. r \in Nat /\ loop[t][m].price \in Nat
        BY <1>1, <2>1, <2>2, ReplacementPrice, LoopTypes
    <2> QED BY <2>1, <2>3
<1> DEFINE Sends(to) == [to |-> to, by |-> m, tx |-> Cancellation(t, m, price[to])]
<1>6. \A to \in Mempools :
         /\ Sends(to) \in MempoolRequest /\ Sends(to).to = to /\ Sends(to).by = m
         /\ Sends(to).tx.task = t /\ Sends(to).tx.kind = "cancel"
         /\ Sends(to).tx.nonce = loop[t][m].nonce /\ Sends(to).tx.price = price[to]
    <2> SUFFICES ASSUME NEW to \in Mempools
                 PROVE  /\ Sends(to) \in MempoolRequest /\ Sends(to).to = to /\ Sends(to).by = m
                        /\ Sends(to).tx.task = t /\ Sends(to).tx.kind = "cancel"
                        /\ Sends(to).tx.nonce = loop[t][m].nonce /\ Sends(to).tx.price = price[to]
        OBVIOUS
    <2> DEFINE p == price[to]
               nonce == loop[t][m].nonce
               s == SettlementTx(t, m)
               tx == [s EXCEPT !.kind = "cancel", !.price = p]
    <2>1. p \in Nat \ {0} /\ nonce \in Nat /\ to \in Mempool /\ loop[t][m].price \in Nat
        BY <1>1, <1>5, LoopTypes, Facts
    <2>2. Cancellation(t, m, p) = tx
        BY DEF Cancellation
    <2> HIDE DEF p
    <2>3. s \in [task : Task, kind : {"settle", "cancel"}, nonce : Nat, price : Nat]
          /\ s.task = t /\ s.nonce = nonce
        BY <2>1 DEF SettlementTx
    <2> HIDE DEF nonce, s
    <2>4. tx \in Tx /\ tx.task = t /\ tx.kind = "cancel" /\ tx.nonce = nonce /\ tx.price = p
        BY <2>1, <2>3 DEF Tx
    <2> HIDE DEF tx
    <2>5. [to |-> to, by |-> m, tx |-> tx] \in MempoolRequest
        BY <1>1, <2>1, <2>4 DEF MempoolRequest
    <2>6. Sends(to) = [to |-> to, by |-> m, tx |-> tx]
        BY <2>2 DEF p
    <2> QED BY <2>4, <2>5, <2>6 DEF p, nonce
<1> DEFINE sent == {Sends(to) : to \in Mempools}
<1>7. wire' = wire \cup sent
    BY <1>2
<1>8. \A r \in sent : /\ r \in MempoolRequest /\ r.by \in Mempools
                        /\ r.tx.task = t /\ r.tx.kind = "cancel"
    BY <1>6
<1>9. Sends(m) \in wire'
    BY <1>7
<1>10. ASSUME faults = 0, NEW tx \in pool[m], tx.kind = "settle", tx.task = t
       PROVE  Cancels(Sends(m), m, tx)
    <2>1. /\ tx = SettlementTx(t, m) /\ tx.nonce = loop[t][m].nonce /\ tx.price = loop[t][m].price
          /\ last[m][signer[t]].nonce = tx.nonce => last[m][signer[t]].price >= tx.price
          /\ tx.price \in Nat
        BY <1>1, <1>3, <1>10, Placed, Facts
    <2>2. PICK r \in minimum_replacement_gas_price(m, signer[t], tx.nonce) :
             price[m] = IF r = 0 THEN tx.price + 1 ELSE r
        BY <1>2, <2>1 DEF CancelPrice
    <2>3. /\ r \in Nat /\ last[m][signer[t]].price \in Nat
          /\ \/ r = 0
             \/ last[m][signer[t]].nonce = tx.nonce /\ r = last[m][signer[t]].price + 1
             \/ \E q \in PendingAt(m, signer[t], tx.nonce) : r = q.price + 1
        BY <1>1, <2>2, ReplacementPrice
    <2>4. \A q \in PendingAt(m, signer[t], tx.nonce) : q = tx
        BY <1>1, <1>10 DEF PendingAt, ChainInv
    <2>5. price[m] > tx.price
        BY <2>1, <2>2, <2>3, <2>4
    <2> QED BY <1>6, <1>10, <2>1, <2>5 DEF Cancels
<1> HIDE DEF sent, Sends
<1>11. LockInv'
    BY <1>1, <1>3, <1>4, <1>7, <1>8, LockLoop
<1>12. TypeOK' /\ ChainInv' /\ OkIsExecuted'
    <2>1. wire' \in SUBSET MempoolRequest
        BY <1>1, <1>7, <1>8 DEF TypeOK
    <2>2. TypeOK'
        BY <1>1, <1>3, <1>4, <2>1 DEF TypeOK, Loop, LoopIs
    <2> QED BY <1>1, <1>3, <2>2 DEF ChainInv, Count, OkIsExecuted, settled
<1>13. BroadcastInv'
    <2>1. ASSUME faults = 0, NEW n \in Mempool, NEW tx \in pool[n], tx.kind = "settle"
          PROVE  PoolInv(n, tx)'
        <3>1. PoolInv(n, tx) /\ tx.task \in Task
            BY <1>1, <2>1, Facts DEF BroadcastInv
        <3>2. CASE state[tx.task] # "running"
            BY <1>3, <3>1, <3>2 DEF PoolInv
        <3>3. CASE state[tx.task] = "running" /\ (tx.task # t \/ n # m)
            <4>1. loop'[tx.task][n] = loop[tx.task][n]
                BY <1>4, <3>1, <3>3 DEF LoopIs
            <4> QED BY <1>3, <1>7, <3>1, <3>3, <4>1 DEF PoolInv, SettlementTx, Mempools, Cancels
        <3>4. CASE state[tx.task] = "running" /\ tx.task = t /\ n = m
            <4>1. loop'[t][m] = l
                BY <1>4 DEF LoopIs
            <4>2. \E r \in wire' : Cancels(r, m, tx)
                BY <1>9, <1>10, <2>1, <3>4
            <4> QED BY <1>3, <1>4, <3>1, <3>4, <4>1, <4>2 DEF PoolInv, SettlementTx, Mempools, Cancels
        <3> QED BY <3>2, <3>3, <3>4
    <2>2. ASSUME faults = 0, NEW r \in wire, r.tx.kind = "settle" PROVE WireInv(r)'
        <3>1. WireInv(r) /\ r.tx.task \in Task /\ r.by \in Mempool
            BY <1>1, <2>2, Facts DEF BroadcastInv
        <3>2. CASE state[r.tx.task] # "running"
            BY <1>3, <3>1, <3>2 DEF WireInv
        <3>3. CASE state[r.tx.task] = "running"
            <4>1. loop'[r.tx.task][r.by] = loop[r.tx.task][r.by]
                BY <1>3, <1>4, <3>1, <3>3 DEF WireInv, LoopIs
            <4> QED BY <1>3, <3>1, <3>3, <4>1 DEF WireInv, SettlementTx, Mempools
        <3> QED BY <3>2, <3>3
    <2> QED BY <1>3, <1>7, <1>8, <2>1, <2>2 DEF BroadcastInv
<1> QED BY <1>11, <1>12, <1>13 DEF IInv

-----------------------------------------------------------------------------
(* Arrivals                                                                *)

(* A node that accepts a transaction drops the one in its place.           *)
LEMMA EntersChain ==
    ASSUME TypeOK, ChainInv, NEW m \in Mempool, NEW tx \in Tx, Accepts(m, tx), Enters(m, tx), mined' = mined
    PROVE  /\ ChainInv' /\ pool' \in [Mempool -> SUBSET Tx]
           /\ \A n \in Mempool \ {m} : pool'[n] = pool[n]
           /\ pool'[m] = (pool[m] \ PendingAt(m, signer[tx.task], tx.nonce)) \cup {tx}
<1>1. /\ pool \in [Mempool -> SUBSET Tx]
      /\ pool' = [pool EXCEPT ![m] = (@ \ PendingAt(m, signer[tx.task], tx.nonce)) \cup {tx}]
    BY DEF TypeOK, Enters
<1>2. /\ pool' \in [Mempool -> SUBSET Tx] /\ \A n \in Mempool \ {m} : pool'[n] = pool[n]
      /\ pool'[m] = (pool[m] \ PendingAt(m, signer[tx.task], tx.nonce)) \cup {tx}
    BY <1>1
<1>3. \A s \in Signer : Count(s)' = Count(s)
    BY DEF Count
<1>4. \A n \in Mempool : \A q \in pool'[n] :
         /\ q.nonce >= Count(signer[q.task])
         /\ \A u \in pool'[n] : signer[u.task] = signer[q.task] /\ u.nonce = q.nonce => u = q
    <2> SUFFICES ASSUME NEW n \in Mempool, NEW q \in pool'[n]
                 PROVE  /\ q.nonce >= Count(signer[q.task])
                        /\ \A u \in pool'[n] : signer[u.task] = signer[q.task] /\ u.nonce = q.nonce => u = q
        OBVIOUS
    <2>1. CASE n # m
        BY <1>2, <2>1 DEF ChainInv
    <2>2. CASE n = m
        <3>1. \A u \in pool'[m] : u = tx \/ (u \in pool[m] /\ u \notin PendingAt(m, signer[tx.task], tx.nonce))
            BY <1>2
        <3>2. \A u \in pool'[m] : u # tx => ~ (signer[u.task] = signer[tx.task] /\ u.nonce = tx.nonce)
            BY <3>1 DEF PendingAt
        <3> QED BY <2>2, <3>1, <3>2 DEF ChainInv, Accepts
    <2> QED BY <2>1, <2>2
<1>5. \A n \in Mempool : \A q \in pool'[n] : signer[q.task] \in Signer
    BY <1>2, SubmissionAssumption DEF Tx
<1> QED BY <1>2, <1>3, <1>4, <1>5 DEF ChainInv

(* The running loop that sent it goes to its watch, and what it knows is   *)
(* in its place is recorded.                                               *)
LEMMA AcceptedStep == ASSUME IInv, NEW r \in wire, Accepted(r) PROVE IInv'
<1> DEFINE t == r.tx.task
           m == r.by
<1>1. TypeOK /\ LockInv /\ ChainInv /\ BroadcastInv /\ OkIsExecuted
    BY DEF IInv
<1>2. /\ t \in Task /\ m \in Mempool /\ r.to \in Mempool /\ r.tx \in Tx /\ signer[t] \in Signer
      /\ r.tx.kind \in {"settle", "cancel"} /\ r.tx.nonce \in Nat /\ r.tx.price \in Nat
    BY <1>1, Facts
<1>3. /\ state[t] = "running" /\ Accepts(r.to, r.tx) /\ Enters(r.to, r.tx)
      /\ wire' = wire \ {r} /\ Recorded(r)
      /\ setup' = setup /\ faults' = faults
      /\ block' = block /\ mined' = mined /\ valid' = valid /\ holder' = holder /\ state' = state
    BY DEF Accepted, Running, chain
<1>4. /\ ChainInv' /\ pool' \in [Mempool -> SUBSET Tx]
      /\ \A n \in Mempool \ {r.to} : pool'[n] = pool[n]
      /\ pool'[r.to] = (pool[r.to] \ PendingAt(r.to, signer[t], r.tx.nonce)) \cup {r.tx}
    BY <1>1, <1>2, <1>3, EntersChain
<1>5. /\ last' \in [Mempool -> [Signer -> [nonce : Nat, price : Nat]]]
      /\ last'[r.to][signer[t]] = [nonce |-> r.tx.nonce, price |-> r.tx.price]
      /\ \A n \in Mempool, s \in Signer : n # r.to \/ s # signer[t] => last'[n][s] = last[n][s]
    <2>1. last \in [Mempool -> [Signer -> [nonce : Nat, price : Nat]]]
        BY <1>1 DEF TypeOK
    <2> DEFINE new == [nonce |-> r.tx.nonce, price |-> r.tx.price]
    <2>2. new \in [nonce : Nat, price : Nat]
        BY <1>2
    <2>3. last' = [last EXCEPT ![r.to][signer[t]] = new]
        BY <1>3 DEF Recorded
    <2> HIDE DEF new
    <2>4. /\ last' \in [Mempool -> [Signer -> [nonce : Nat, price : Nat]]]
          /\ last'[r.to][signer[t]] = new
          /\ \A n \in Mempool, s \in Signer : n # r.to \/ s # signer[t] => last'[n][s] = last[n][s]
        BY <1>2, <2>1, <2>2, <2>3
    <2> QED BY <2>4 DEF new
<1>6. PICK l \in Loop :
         /\ LoopIs(t, m, l) /\ l.nonce = loop[t][m].nonce /\ l.price = loop[t][m].price
         /\ l.pc = IF r.tx.kind = "settle" THEN "watching" ELSE loop[t][m].pc
    <2>1. CASE r.tx.kind = "settle"
        <3>1. GoTo(t, m, "watching")
            BY <2>1 DEF Accepted
        <3> QED BY <1>1, <1>2, <2>1, <3>1, GoToIs
    <2>2. CASE r.tx.kind # "settle"
        <3>1. loop' = loop
            BY <2>2 DEF Accepted
        <3> QED BY <1>1, <1>2, <2>2, <3>1, LoopTypes DEF LoopIs
    <2> QED BY <2>1, <2>2
<1> HIDE DEF t, m
<1>7. LockInv'
    BY <1>1, <1>2, <1>3, <1>6, LockLoop
<1>8. TypeOK' /\ OkIsExecuted'
    <2>1. wire' \in SUBSET MempoolRequest
        BY <1>1, <1>3 DEF TypeOK
    <2>2. TypeOK'
        BY <1>1, <1>3, <1>4, <1>5, <1>6, <2>1 DEF TypeOK, Loop, LoopIs
    <2> QED BY <1>1, <1>3, <2>2 DEF OkIsExecuted, settled
<1>9. ASSUME faults = 0, NEW n \in Mempool, NEW tx \in pool'[n], tx.kind = "settle"
      PROVE  PoolInv(n, tx)'
    <2>1. CASE tx = r.tx /\ n = r.to
        <3>1. WireInv(r)
            BY <1>1, <1>9, <2>1 DEF BroadcastInv
        <3>2. /\ r.by \in Mempools /\ r.to = m /\ n = m /\ tx = SettlementTx(t, m) /\ tx.task = t
            BY <1>3, <2>1, <3>1 DEF WireInv, t, m
        <3>3. loop'[t][m] = l /\ l.pc = "watching"
            BY <1>6, <1>9, <2>1 DEF LoopIs
        <3>4. last'[m][signer[t]].price = tx.price
            BY <1>5, <2>1, <3>2
        <3>5. SettlementTx(t, m)' = SettlementTx(t, m)
            BY <1>6, <3>3 DEF SettlementTx
        <3>6. tx.price >= tx.price
            BY <1>2, <2>1
        <3> QED BY <1>3, <3>2, <3>3, <3>4, <3>5, <3>6 DEF PoolInv, Mempools, m
    <2>2. CASE ~ (tx = r.tx /\ n = r.to)
        <3>1. tx \in pool[n] /\ (n = r.to => tx \notin PendingAt(n, signer[t], r.tx.nonce))
            BY <1>4, <2>2
        <3>2. PoolInv(n, tx) /\ tx.task \in Task /\ signer[tx.task] \in Signer
            BY <1>1, <1>9, <3>1, Facts DEF BroadcastInv
        <3>3. ~ (n = r.to /\ signer[tx.task] = signer[t] /\ tx.nonce = r.tx.nonce)
            BY <3>1 DEF PendingAt
        <3>4. CASE state[tx.task] # "running"
            BY <1>3, <3>2, <3>4 DEF PoolInv
        <3>5. CASE state[tx.task] = "running"
            <4>1. /\ loop'[tx.task][n].pc = loop[tx.task][n].pc
                  /\ loop'[tx.task][n].nonce = loop[tx.task][n].nonce
                  /\ loop'[tx.task][n].price = loop[tx.task][n].price
                <5>1. CASE tx.task # t \/ n # m
                    BY <1>6, <3>2, <5>1 DEF LoopIs
                <5>2. CASE tx.task = t /\ n = m
                    <6>1. r.tx.kind # "settle"
                        BY <1>1, <1>9, <3>2, <3>5, <5>2 DEF PoolInv, BroadcastInv, WireInv, t, m
                    <6> QED BY <1>6, <5>2, <6>1 DEF LoopIs
                <5> QED BY <5>1, <5>2
            <4>2. last'[n][signer[tx.task]].nonce = tx.nonce => last'[n][signer[tx.task]].price >= tx.price
                BY <1>5, <3>2, <3>3, <3>5 DEF PoolInv
            <4>3. \A c \in wire : Cancels(c, n, tx) => c \in wire'
                BY <1>3, <3>3 DEF Cancels, t
            <4> QED BY <1>3, <3>2, <3>5, <4>1, <4>2, <4>3 DEF PoolInv, SettlementTx, Mempools, Cancels
        <3> QED BY <3>4, <3>5
    <2> QED BY <2>1, <2>2
<1>10. ASSUME faults = 0, NEW c \in wire', c.tx.kind = "settle" PROVE WireInv(c)'
    <2>1. c \in wire /\ c # r
        BY <1>3
    <2>2. WireInv(c) /\ c.tx.task \in Task /\ c.by \in Mempool /\ c \in MempoolRequest /\ r \in MempoolRequest
        BY <1>1, <1>10, <2>1, Facts DEF BroadcastInv
    <2>3. CASE state[c.tx.task] # "running"
        BY <1>3, <2>2, <2>3 DEF WireInv
    <2>4. CASE state[c.tx.task] = "running"
        <3>1. CASE c.tx.task = t /\ c.by = m
            <4>1. r.tx.kind # "settle"
                <5>1. ASSUME r.tx.kind = "settle" PROVE FALSE
                    <6>1. WireInv(r)
                        BY <1>1, <1>10, <5>1 DEF BroadcastInv
                    <6>2. c.to = r.to /\ c.by = r.by /\ c.tx = r.tx
                        BY <1>3, <2>2, <2>4, <3>1, <6>1 DEF WireInv, t, m
                    <6> QED BY <2>1, <2>2, <6>2 DEF MempoolRequest
                <5> QED BY <5>1
            <4> QED BY <1>3, <1>6, <2>2, <2>4, <3>1, <4>1 DEF WireInv, LoopIs, SettlementTx, Mempools
        <3>2. CASE c.tx.task # t \/ c.by # m
            <4>1. loop'[c.tx.task][c.by] = loop[c.tx.task][c.by]
                BY <1>6, <2>2, <3>2 DEF LoopIs
            <4> QED BY <1>3, <2>2, <2>4, <4>1 DEF WireInv, SettlementTx, Mempools
        <3> QED BY <3>1, <3>2
    <2> QED BY <2>3, <2>4
<1>11. BroadcastInv'
    BY <1>3, <1>9, <1>10 DEF BroadcastInv
<1> QED BY <1>4, <1>7, <1>8, <1>11 DEF IInv

(* A cancellation is refused only when the settlement is in its place no   *)
(* more.                                                                   *)
LEMMA RefusedStep == ASSUME IInv, NEW r \in wire, Refused(r) PROVE IInv'
<1> DEFINE t == r.tx.task
           m == r.by
<1>1. TypeOK /\ LockInv /\ ChainInv /\ BroadcastInv /\ OkIsExecuted
    BY DEF IInv
<1>2. /\ t \in Task /\ m \in Mempools /\ m \in Mempool /\ r.to \in Mempool /\ signer[t] \in Signer /\ r \in MempoolRequest
      /\ r.tx.kind \in {"settle", "cancel"} /\ r.tx.nonce \in Nat /\ r.tx.price \in Nat
    BY <1>1, Facts DEF LockInv
<1>3. /\ state[t] = "running" /\ loop[t][m].pc # "err" /\ ~Accepts(r.to, r.tx)
      /\ wire' = wire \ {r} /\ Fails(r)
      /\ setup' = setup /\ faults' = faults /\ pool' = pool /\ last' = last
      /\ block' = block /\ mined' = mined /\ valid' = valid
    BY DEF Refused, Running, chain
<1>4. CASE r.tx.kind = "settle"
    <2>1. LoopFails(t, m)
        BY <1>3, <1>4 DEF Fails
    <2>2. ASSUME faults = 0
          PROVE  /\ \A c \in wire' : ~ (c.tx.kind = "settle" /\ c.tx.task = t /\ c.by = m)
                 /\ \A tx \in pool[m] : ~ (tx.kind = "settle" /\ tx.task = t)
        <3>1. WireInv(r)
            BY <1>1, <1>4, <2>2 DEF BroadcastInv
        <3>2. ASSUME NEW c \in wire', c.tx.kind = "settle", c.tx.task = t, c.by = m PROVE FALSE
            <4>1. c \in wire /\ c # r /\ c \in MempoolRequest
                BY <1>1, <1>3, <3>2, Facts
            <4>2. WireInv(c)
                BY <1>1, <2>2, <3>2, <4>1 DEF BroadcastInv
            <4>3. c.to = r.to /\ c.by = r.by /\ c.tx = r.tx
                BY <1>3, <3>1, <3>2, <4>2 DEF WireInv
            <4> QED BY <1>2, <4>1, <4>3 DEF MempoolRequest
        <3>3. \A tx \in pool[m] : ~ (tx.kind = "settle" /\ tx.task = t)
            BY <1>1, <1>2, <1>3, <2>2, <3>1 DEF WireInv, BroadcastInv, PoolInv
        <3> QED BY <3>2, <3>3
    <2> QED BY <1>3, <1>4, <1>2, <2>1, <2>2, FailsStep DEF chain
<1>5. CASE r.tx.kind = "cancel"
    <2>1. state' = state /\ holder' = holder /\ loop' = loop
        BY <1>3, <1>5 DEF Fails
    <2>2. LockInv' /\ ChainInv' /\ OkIsExecuted' /\ TypeOK'
        <3>1. wire' \in SUBSET MempoolRequest /\ LockInv'
            BY <1>1, <1>3, <2>1 DEF TypeOK, LockInv, Mempools
        <3>2. TypeOK'
            BY <1>1, <1>3, <2>1, <3>1 DEF TypeOK
        <3> QED BY <1>1, <1>3, <2>1, <3>1, <3>2 DEF ChainInv, Count, OkIsExecuted, settled
    <2>3. ASSUME faults = 0, NEW n \in Mempool, NEW tx \in pool[n], tx.kind = "settle"
          PROVE  PoolInv(n, tx)'
        <3>1. PoolInv(n, tx) /\ tx.task \in Task /\ tx.nonce \in Nat /\ tx.price \in Nat
            BY <1>1, <2>3, Facts DEF BroadcastInv
        <3>2. ASSUME Cancels(r, n, tx) PROVE FALSE
            <4>1. /\ n = r.to /\ tx.task = t /\ r.tx.nonce = tx.nonce /\ r.tx.price > tx.price
                BY <3>2 DEF Cancels
            <4>2. \A q \in PendingAt(n, signer[t], tx.nonce) : q = tx
                BY <1>1, <2>3, <4>1 DEF PendingAt, ChainInv
            <4>3. tx.nonce >= Count(signer[t])
                BY <1>1, <2>3, <4>1 DEF ChainInv
            <4> QED BY <1>3, <4>1, <4>2, <4>3 DEF Accepts
        <3> QED BY <1>3, <2>1, <3>1, <3>2 DEF PoolInv, SettlementTx, Mempools, Cancels
    <2>4. ASSUME faults = 0, NEW c \in wire', c.tx.kind = "settle" PROVE WireInv(c)'
        <3>1. WireInv(c)
            BY <1>1, <1>3, <2>4 DEF BroadcastInv
        <3> QED BY <1>3, <2>1, <3>1 DEF WireInv, SettlementTx, Mempools
    <2> QED BY <1>3, <2>2, <2>3, <2>4 DEF BroadcastInv, IInv
<1> QED BY <1>2, <1>4, <1>5

(* What a loop's error does to the lock and the types.                     *)
LEMMA FailsTypes ==
    ASSUME TypeOK, LockInv, NEW t \in Task, NEW m \in Mempool, state[t] = "running",
           LoopFails(t, m), setup' = setup, wire' \subseteq wire
    PROVE  /\ LockInv' /\ holder' \in [Signer -> Task \cup {NoTask}]
           /\ state' \in [Task -> {"idle", "waiting", "running", "ok", "failed", "aborted"}]
           /\ loop' \in [Task -> [Mempool -> Loop]]
           /\ \A u \in Task : state'[u] = "ok" => state[u] = "ok"
<1>1. CASE \A n \in Mempools \ {m} : loop[t][n].pc = "err"
    <2>1. Returns(t, "failed")
        BY <1>1 DEF LoopFails
    <2>2. /\ LockInv' /\ holder' \in [Signer -> Task \cup {NoTask}]
          /\ state' \in [Task -> {"idle", "waiting", "running", "ok", "failed", "aborted"}]
          /\ loop' \in [Task -> [Mempool -> Loop]]
          /\ state'[t] = "failed" /\ \A u \in Task \ {t} : state'[u] = state[u]
        BY <2>1, ReturnsTypes
    <2> QED BY <2>2
<1>2. CASE ~ \A n \in Mempools \ {m} : loop[t][n].pc = "err"
    <2>1. GoTo(t, m, "err") /\ state' = state /\ holder' = holder
        BY <1>2 DEF LoopFails
    <2>2. PICK l \in Loop : LoopIs(t, m, l)
        BY <2>1, GoToIs
    <2>3. LockInv'
        BY <2>1, <2>2, LockLoop
    <2> QED BY <2>1, <2>2, <2>3 DEF TypeOK, LoopIs
<1> QED BY <1>1, <1>2

(* A request reached its node, or it did not.                              *)
LEMMA ArrivesChain ==
    ASSUME TypeOK, ChainInv, NEW r \in wire, mined' = mined,
           UNCHANGED pool \/ (Accepts(r.to, r.tx) /\ Enters(r.to, r.tx))
    PROVE  /\ ChainInv' /\ pool' \in [Mempool -> SUBSET Tx]
           /\ \A n \in Mempool : \A tx \in pool'[n] : tx \in pool[n] \/ tx = r.tx
<1>1. r.to \in Mempool /\ r.tx \in Tx
    BY Facts
<1>2. CASE UNCHANGED pool
    BY <1>2 DEF TypeOK, ChainInv, Count
<1>3. CASE Accepts(r.to, r.tx) /\ Enters(r.to, r.tx)
    <2>1. /\ ChainInv' /\ pool' \in [Mempool -> SUBSET Tx]
          /\ \A n \in Mempool \ {r.to} : pool'[n] = pool[n]
          /\ pool'[r.to] = (pool[r.to] \ PendingAt(r.to, signer[r.tx.task], r.tx.nonce)) \cup {r.tx}
        BY <1>1, <1>3, EntersChain
    <2> QED BY <2>1
<1> QED BY <1>2, <1>3

(* Nothing is claimed of broadcasts once there was a fault.                *)
LEMMA AfterFault ==
    ASSUME TypeOK, faults' = faults + 1
    PROVE  BroadcastInv'
<1>1. faults' # 0
    BY Facts
<1> QED BY <1>1 DEF BroadcastInv

LEMMA LostStep == ASSUME IInv, NEW r \in wire, Lost(r) PROVE IInv'
<1>1. TypeOK /\ LockInv /\ ChainInv /\ OkIsExecuted
    BY DEF IInv
<1>2. /\ r.tx.task \in Task /\ r.by \in Mempool /\ setup.faults \in Nat /\ faults \in Nat
    BY <1>1, Facts
<1>3. /\ state[r.tx.task] = "running" /\ Fails(r) /\ wire' = wire \ {r}
      /\ faults < setup.faults /\ faults' = faults + 1
      /\ UNCHANGED pool \/ (Accepts(r.to, r.tx) /\ Enters(r.to, r.tx))
      /\ setup' = setup /\ last' = last /\ block' = block /\ mined' = mined /\ valid' = valid
    BY DEF Lost, Running, chain
<1>4. /\ LockInv' /\ holder' \in [Signer -> Task \cup {NoTask}]
      /\ state' \in [Task -> {"idle", "waiting", "running", "ok", "failed", "aborted"}]
      /\ loop' \in [Task -> [Mempool -> Loop]]
      /\ \A u \in Task : state'[u] = "ok" => state[u] = "ok"
    <2>1. CASE r.tx.kind = "settle"
        <3>1. LoopFails(r.tx.task, r.by) /\ wire' \subseteq wire
            BY <1>3, <2>1 DEF Fails
        <3> QED BY <1>1, <1>2, <1>3, <3>1, FailsTypes
    <2>2. CASE r.tx.kind # "settle"
        <3>1. state' = state /\ holder' = holder /\ loop' = loop
            BY <1>3, <2>2 DEF Fails
        <3>2. LockInv'
            BY <1>1, <1>3, <3>1 DEF LockInv, Mempools
        <3> QED BY <1>1, <3>1, <3>2, LoopTypes DEF TypeOK
    <2> QED BY <2>1, <2>2
<1>5. ChainInv' /\ pool' \in [Mempool -> SUBSET Tx]
    BY <1>1, <1>3, ArrivesChain
<1>6. TypeOK'
    <2>1. wire' \in SUBSET MempoolRequest /\ faults' \in 0..setup.faults
        BY <1>1, <1>2, <1>3 DEF TypeOK
    <2> QED BY <1>1, <1>3, <1>4, <1>5, <2>1 DEF TypeOK, Loop
<1>7. OkIsExecuted'
    BY <1>1, <1>3, <1>4 DEF OkIsExecuted, settled
<1>8. BroadcastInv'
    BY <1>1, <1>3, AfterFault
<1> QED BY <1>4, <1>5, <1>6, <1>7, <1>8 DEF IInv

(* Without faults, a settlement whose loop is gone enters a pool only when *)
(* its execution succeeded meanwhile.                                      *)
LEMMA OrphanStep == ASSUME IInv, NEW r \in wire, Orphan(r) PROVE IInv'
<1>1. TypeOK /\ LockInv /\ ChainInv /\ BroadcastInv /\ OkIsExecuted
    BY DEF IInv
<1>2. /\ ~ (state[r.tx.task] = "running" /\ loop[r.tx.task][r.by].pc # "err")
      /\ wire' = wire \ {r}
      /\ UNCHANGED pool \/ (Accepts(r.to, r.tx) /\ Enters(r.to, r.tx))
      /\ setup' = setup /\ last' = last /\ block' = block /\ mined' = mined /\ valid' = valid
      /\ holder' = holder /\ state' = state /\ loop' = loop /\ faults' = faults
    BY DEF Orphan, Running, chain
<1>3. /\ ChainInv' /\ pool' \in [Mempool -> SUBSET Tx]
      /\ \A n \in Mempool : \A tx \in pool'[n] : tx \in pool[n] \/ tx = r.tx
    BY <1>1, <1>2, ArrivesChain
<1>4. LockInv'
    BY <1>1, <1>2 DEF LockInv, Mempools
<1>5. TypeOK'
    <2>1. wire' \in SUBSET MempoolRequest
        BY <1>1, <1>2 DEF TypeOK
    <2> QED BY <1>1, <1>2, <1>3, <2>1 DEF TypeOK
<1>6. OkIsExecuted'
    BY <1>1, <1>2 DEF OkIsExecuted, settled
<1>7. ASSUME faults = 0, NEW n \in Mempool, NEW tx \in pool'[n], tx.kind = "settle"
      PROVE  PoolInv(n, tx)'
    <2>1. CASE tx \in pool[n]
        <3>1. PoolInv(n, tx)
            BY <1>1, <1>7, <2>1 DEF BroadcastInv
        <3>2. state[tx.task] = "running" /\ loop[tx.task][n].pc = "cancelling" =>
                  \A c \in wire : Cancels(c, n, tx) => c \in wire'
            BY <1>2 DEF Cancels
        <3> QED BY <1>2, <3>1, <3>2 DEF PoolInv, SettlementTx, Mempools, Cancels
    <2>2. CASE tx = r.tx
        <3>1. WireInv(r)
            BY <1>1, <1>7, <2>2 DEF BroadcastInv
        <3> QED BY <1>2, <2>2, <3>1 DEF WireInv, PoolInv
    <2> QED BY <1>3, <1>7, <2>1, <2>2
<1>8. ASSUME faults = 0, NEW c \in wire', c.tx.kind = "settle" PROVE WireInv(c)'
    <2>1. WireInv(c)
        BY <1>1, <1>2, <1>8 DEF BroadcastInv
    <2> QED BY <1>2, <2>1 DEF WireInv, SettlementTx, Mempools
<1>9. BroadcastInv'
    BY <1>2, <1>7, <1>8 DEF BroadcastInv
<1> QED BY <1>3, <1>4, <1>5, <1>6, <1>9 DEF IInv

-----------------------------------------------------------------------------
(* The lock is taken, tasks and the driver stop                            *)

(* What was broadcast stays accounted for when the task that changes was   *)
(* waiting: it has broadcast nothing.                                      *)
LEMMA WaitingBroadcast ==
    ASSUME IInv, NEW t \in Task, state[t] = "waiting", \A u \in Task \ {t} : state'[u] = state[u],
           UNCHANGED <<setup, pool, wire, last, loop, faults>>
    PROVE  BroadcastInv'
<1>1. /\ setup' = setup /\ pool' = pool /\ wire' = wire /\ last' = last /\ loop' = loop
      /\ faults' = faults
    OBVIOUS
<1>2. TypeOK /\ BroadcastInv
    BY DEF IInv
<1>3. ASSUME faults = 0, NEW n \in Mempool, NEW tx \in pool[n], tx.kind = "settle" PROVE PoolInv(n, tx)'
    <2>1. PoolInv(n, tx) /\ tx.task \in Task
        BY <1>2, <1>3, Facts DEF BroadcastInv
    <2>2. state'[tx.task] = state[tx.task]
        BY <2>1 DEF PoolInv
    <2> QED BY <1>1, <2>1, <2>2 DEF PoolInv, SettlementTx, Mempools, Cancels
<1>4. ASSUME faults = 0, NEW r \in wire, r.tx.kind = "settle" PROVE WireInv(r)'
    <2>1. WireInv(r) /\ r.tx.task \in Task
        BY <1>2, <1>4, Facts DEF BroadcastInv
    <2>2. state'[r.tx.task] = state[r.tx.task]
        BY <2>1 DEF WireInv
    <2> QED BY <1>1, <2>1, <2>2 DEF WireInv, SettlementTx, Mempools
<1> QED BY <1>1, <1>3, <1>4 DEF BroadcastInv

(* The lock was free, so no other execution of the signer is running.      *)
LEMMA AcquireStep == ASSUME IInv, NEW t \in Task, Acquire(t) PROVE IInv'
<1>1. TypeOK /\ LockInv /\ ChainInv /\ OkIsExecuted
    BY DEF IInv
<1>2. /\ state[t] = "waiting" /\ holder[signer[t]] = NoTask
      /\ holder' = [holder EXCEPT ![signer[t]] = t] /\ state' = [state EXCEPT ![t] = "running"]
      /\ setup' = setup /\ pool' = pool /\ wire' = wire /\ last' = last /\ loop' = loop
      /\ faults' = faults /\ block' = block /\ mined' = mined /\ valid' = valid
    BY DEF Acquire, chain, network
<1>3. /\ holder \in [Signer -> Task \cup {NoTask}] /\ signer[t] \in Signer
      /\ state \in [Task -> {"idle", "waiting", "running", "ok", "failed", "aborted"}]
      /\ \A u \in Task : signer[u] \in Signer /\ u # NoTask
    BY <1>1, Facts DEF TypeOK
<1>4. /\ holder' \in [Signer -> Task \cup {NoTask}] /\ holder'[signer[t]] = t
      /\ \A s \in Signer \ {signer[t]} : holder'[s] = holder[s]
      /\ state' \in [Task -> {"idle", "waiting", "running", "ok", "failed", "aborted"}]
      /\ state'[t] = "running" /\ \A u \in Task \ {t} : state'[u] = state[u]
    BY <1>2, <1>3
<1>5. LockInv'
    <2>1. ASSUME NEW u \in Task
          PROVE  IF state'[u] = "running" THEN holder'[signer[u]] = u
                                          ELSE loop[u] = [m \in Mempool |-> NotStarted]
        <3>1. CASE u = t
            BY <1>4, <3>1
        <3>2. CASE u # t /\ state[u] = "running"
            <4>1. holder[signer[u]] = u
                BY <1>1, <3>2 DEF LockInv
            <4>2. signer[u] # signer[t]
                BY <1>2, <1>3, <4>1
            <4> QED BY <1>3, <1>4, <3>2, <4>1, <4>2
        <3>3. CASE u # t /\ state[u] # "running"
            BY <1>1, <1>4, <3>3 DEF LockInv
        <3> QED BY <3>1, <3>2, <3>3
    <2>2. \A r \in wire : state'[r.tx.task] \notin {"idle", "waiting"} /\ r.by \in Mempools
        BY <1>1, <1>4, Facts DEF LockInv
    <2> QED BY <1>2, <2>1, <2>2 DEF LockInv, Mempools
<1>6. TypeOK'
    BY <1>1, <1>2, <1>4 DEF TypeOK
<1>7. ChainInv' /\ OkIsExecuted'
    BY <1>1, <1>2, <1>4 DEF ChainInv, Count, OkIsExecuted, settled
<1>8. BroadcastInv'
    BY <1>2, <1>4, WaitingBroadcast
<1> QED BY <1>5, <1>6, <1>7, <1>8 DEF IInv

(* A task that waits for the lock gives up or is dropped.                  *)
LEMMA WaitingEnds ==
    ASSUME IInv, NEW t \in Task, NEW result \in {"failed", "aborted"},
           state[t] = "waiting", state' = [state EXCEPT ![t] = result],
           UNCHANGED <<setup, chain, network, holder, loop>>, faults' \in 0..setup.faults,
           faults' = faults \/ faults' = faults + 1
    PROVE  IInv'
<1>1. TypeOK /\ LockInv /\ ChainInv /\ OkIsExecuted
    BY DEF IInv
<1>2. /\ setup' = setup /\ pool' = pool /\ wire' = wire /\ last' = last /\ loop' = loop
      /\ holder' = holder /\ block' = block /\ mined' = mined /\ valid' = valid
    BY DEF chain, network
<1>3. /\ state' \in [Task -> {"idle", "waiting", "running", "ok", "failed", "aborted"}]
      /\ state'[t] = result /\ \A u \in Task \ {t} : state'[u] = state[u]
    BY <1>1 DEF TypeOK
<1>4. LockInv'
    BY <1>1, <1>2, <1>3, Facts DEF LockInv, Mempools
<1>5. TypeOK'
    BY <1>1, <1>2, <1>3 DEF TypeOK
<1>6. ChainInv' /\ OkIsExecuted'
    BY <1>1, <1>2, <1>3 DEF ChainInv, Count, OkIsExecuted, settled
<1>7. BroadcastInv'
    BY <1>1, <1>2, <1>3, WaitingBroadcast, AfterFault
<1> QED BY <1>4, <1>5, <1>6, <1>7 DEF IInv

LEMMA AcquireTooLateStep == ASSUME IInv, NEW t \in Task, AcquireTooLate(t) PROVE IInv'
<1>1. faults \in 0..setup.faults
    BY DEF IInv, TypeOK
<1> QED BY <1>1, WaitingEnds DEF AcquireTooLate

LEMMA AbortStep == ASSUME IInv, NEW t \in Task, Abort(t) PROVE IInv'
<1>1. TypeOK /\ LockInv /\ ChainInv /\ OkIsExecuted /\ setup.faults \in Nat /\ faults \in Nat
    BY Facts DEF IInv
<1>2. /\ faults < setup.faults /\ faults' = faults + 1 /\ faults' \in 0..setup.faults
      /\ setup' = setup /\ pool' = pool /\ wire' = wire /\ last' = last
      /\ block' = block /\ mined' = mined /\ valid' = valid
    BY <1>1 DEF Abort, chain, network
<1>3. CASE state[t] = "running"
    <2>1. Returns(t, "aborted")
        BY <1>3 DEF Abort
    <2>2. /\ LockInv' /\ holder' \in [Signer -> Task \cup {NoTask}]
          /\ state' \in [Task -> {"idle", "waiting", "running", "ok", "failed", "aborted"}]
          /\ loop' \in [Task -> [Mempool -> Loop]]
          /\ state'[t] = "aborted" /\ \A u \in Task \ {t} : state'[u] = state[u]
        BY <1>1, <1>2, <1>3, <2>1, ReturnsTypes
    <2>3. TypeOK'
        BY <1>1, <1>2, <2>2 DEF TypeOK, Loop
    <2>4. ChainInv' /\ OkIsExecuted'
        BY <1>1, <1>2, <2>2 DEF ChainInv, Count, OkIsExecuted, settled
    <2>5. BroadcastInv'
        BY <1>1, <1>2, AfterFault
    <2> QED BY <2>2, <2>3, <2>4, <2>5 DEF IInv
<1>4. CASE state[t] # "running"
    <2>1. /\ state[t] = "waiting" /\ state' = [state EXCEPT ![t] = "aborted"]
          /\ UNCHANGED <<setup, chain, network, holder, loop>>
        BY <1>4 DEF Abort
    <2> QED BY <1>2, <2>1, WaitingEnds
<1> QED BY <1>3, <1>4

LEMMA RestartStep == ASSUME IInv, Restart PROVE IInv'
<1>1. TypeOK /\ LockInv /\ ChainInv /\ OkIsExecuted /\ setup.faults \in Nat /\ faults \in Nat
    BY Facts DEF IInv
<1>2. /\ faults < setup.faults /\ faults' = faults + 1
      /\ state' = [t \in Task |-> IF state[t] \in {"waiting", "running"} THEN "aborted" ELSE state[t]]
      /\ holder' = [s \in Signer |-> NoTask]
      /\ last' = [m \in Mempool |-> [s \in Signer |-> NeverSubmitted]]
      /\ loop' = [t \in Task |-> [m \in Mempool |-> NotStarted]]
      /\ setup' = setup /\ pool' = pool /\ wire' = wire
      /\ block' = block /\ mined' = mined /\ valid' = valid
    BY DEF Restart, chain
<1>3. /\ state \in [Task -> {"idle", "waiting", "running", "ok", "failed", "aborted"}]
      /\ state' \in [Task -> {"idle", "waiting", "running", "ok", "failed", "aborted"}]
      /\ \A u \in Task : state'[u] \notin {"waiting", "running"}
                         /\ (state'[u] \in {"ok", "idle"} => state'[u] = state[u])
    BY <1>1, <1>2 DEF TypeOK
<1>4. LockInv'
    BY <1>1, <1>2, <1>3, Facts DEF LockInv, Mempools
<1>5. TypeOK'
    <2>1. holder' \in [Signer -> Task \cup {NoTask}]
        BY <1>2
    <2>2. last' \in [Mempool -> [Signer -> [nonce : Nat, price : Nat]]]
        BY <1>2 DEF NeverSubmitted
    <2>3. loop' \in [Task -> [Mempool -> Loop]]
        <3>1. NotStarted \in Loop
            BY DEF NotStarted, Loop
        <3> QED BY <1>2, <3>1
    <2>4. faults' \in 0..setup.faults
        BY <1>1, <1>2
    <2> QED BY <1>1, <1>2, <1>3, <2>1, <2>2, <2>3, <2>4 DEF TypeOK, Loop
<1>6. ChainInv' /\ OkIsExecuted'
    BY <1>1, <1>2, <1>3 DEF ChainInv, Count, OkIsExecuted, settled
<1>7. BroadcastInv'
    BY <1>1, <1>2, AfterFault
<1> QED BY <1>4, <1>5, <1>6, <1>7 DEF IInv

-----------------------------------------------------------------------------
(* The chain                                                               *)

(* A transaction that is mined has the next nonce, and what stays pending  *)
(* a later one.                                                            *)
LEMMA MineStep == ASSUME IInv, NEW m \in Mempool, NEW tx \in pool[m], Mine(m, tx) PROVE IInv'
<1> DEFINE s == signer[tx.task]
           ok == tx.kind = "settle" => valid[tx.task]
           e == [tx |-> tx, ok |-> ok]
<1>1. TypeOK /\ LockInv /\ ChainInv /\ BroadcastInv /\ OkIsExecuted
    BY DEF IInv
<1>2. /\ tx \in Tx /\ tx.task \in Task /\ s \in Signer /\ Count(s) \in Nat /\ tx.nonce = Count(s)
      /\ mined[s] \in Seq([tx : Tx, ok : BOOLEAN])
    BY <1>1, Facts DEF Mine, TypeOK
<1>3. /\ mined' = [mined EXCEPT ![s] = Append(@, e)]
      /\ valid' = IF tx.kind = "settle" THEN [valid EXCEPT ![tx.task] = FALSE] ELSE valid
      /\ pool' = [n \in Mempool |-> {q \in pool[n] : signer[q.task] = s => q.nonce > tx.nonce}]
      /\ setup' = setup /\ block' = block /\ wire' = wire /\ last' = last /\ holder' = holder
      /\ state' = state /\ loop' = loop /\ faults' = faults
    BY DEF Mine
<1>4. e \in [tx : Tx, ok : BOOLEAN] /\ e.tx = tx
    <2>1. ok \in BOOLEAN
        OBVIOUS
    <2> HIDE DEF ok
    <2> QED BY <1>2, <2>1
<1> HIDE DEF e
<1>5. /\ Append(mined[s], e) \in Seq([tx : Tx, ok : BOOLEAN])
      /\ Len(Append(mined[s], e)) = Count(s) + 1
      /\ DOMAIN Append(mined[s], e) = 1..(Count(s) + 1) /\ DOMAIN mined[s] = 1..Count(s)
      /\ \A i \in DOMAIN mined[s] : Append(mined[s], e)[i] = mined[s][i]
      /\ Append(mined[s], e)[Count(s) + 1] = e
    BY <1>2, <1>4 DEF Count
<1>6. /\ mined \in [Signer -> Seq([tx : Tx, ok : BOOLEAN])]
      /\ mined' \in [Signer -> Seq([tx : Tx, ok : BOOLEAN])] /\ mined'[s] = Append(mined[s], e)
      /\ \A z \in Signer \ {s} : mined'[z] = mined[z]
    BY <1>1, <1>2, <1>3, <1>5 DEF TypeOK
<1>7. /\ pool' \in [Mempool -> SUBSET Tx]
      /\ \A n \in Mempool : \A q \in pool'[n] :
            q \in pool[n] /\ (signer[q.task] = s => q.nonce > tx.nonce)
    BY <1>1, <1>3 DEF TypeOK
<1> HIDE DEF s
<1>8. LockInv'
    BY <1>1, <1>3 DEF LockInv, Mempools
<1>9. TypeOK'
    <2>1. valid' \in [Task -> BOOLEAN]
        BY <1>1, <1>2, <1>3 DEF TypeOK
    <2> QED BY <1>1, <1>3, <1>6, <1>7, <2>1 DEF TypeOK
<1>10. ChainInv'
    <2>1. \A z \in Signer : \A i \in DOMAIN mined'[z] : mined'[z][i].tx.nonce = i - 1
        <3>1. \A z \in Signer \ {s} : \A i \in DOMAIN mined'[z] : mined'[z][i].tx.nonce = i - 1
            BY <1>1, <1>6 DEF ChainInv
        <3>2. ASSUME NEW i \in DOMAIN mined'[s] PROVE mined'[s][i].tx.nonce = i - 1
            <4>1. CASE i \in 1..Count(s)
                <5>1. i \in DOMAIN mined[s] /\ mined'[s][i] = mined[s][i]
                    BY <1>5, <1>6, <4>1
                <5>2. mined[s][i].tx.nonce = i - 1
                    BY <1>1, <1>2, <5>1 DEF ChainInv
                <5> QED BY <5>1, <5>2
            <4>2. CASE i = Count(s) + 1
                BY <1>2, <1>4, <1>5, <1>6, <4>2
            <4> QED BY <1>2, <1>5, <1>6, <3>2, <4>1, <4>2
        <3> QED BY <3>1, <3>2
    <2>2. \A z \in Signer : Len(mined'[z]) = IF z = s THEN Count(z) + 1 ELSE Count(z)
        BY <1>5, <1>6 DEF Count
    <2>3. \A n \in Mempool : \A q \in pool'[n] :
             /\ q.nonce >= Len(mined'[signer[q.task]])
             /\ \A u \in pool'[n] : signer[u.task] = signer[q.task] /\ u.nonce = q.nonce => u = q
        <3> SUFFICES ASSUME NEW n \in Mempool, NEW q \in pool'[n]
                     PROVE  /\ q.nonce >= Len(mined'[signer[q.task]])
                            /\ \A u \in pool'[n] :
                                  signer[u.task] = signer[q.task] /\ u.nonce = q.nonce => u = q
            OBVIOUS
        <3>1. q \in pool[n] /\ q.nonce \in Nat /\ signer[q.task] \in Signer
            BY <1>1, <1>7, Facts
        <3>2. q.nonce >= Len(mined'[signer[q.task]])
            <4>1. CASE signer[q.task] = s
                BY <1>2, <1>7, <2>2, <3>1, <4>1
            <4>2. CASE signer[q.task] # s
                BY <1>1, <2>2, <3>1, <4>2 DEF ChainInv
            <4> QED BY <4>1, <4>2
        <3> QED BY <1>1, <1>7, <3>1, <3>2 DEF ChainInv
    <2> QED BY <2>1, <2>3 DEF ChainInv, Count
<1>11. OkIsExecuted'
    <2> SUFFICES ASSUME NEW t \in Task, state[t] = "ok" PROVE settled(t)'
        BY <1>3 DEF OkIsExecuted
    <2>1. PICK i \in DOMAIN mined[signer[t]] :
             /\ mined[signer[t]][i].ok /\ mined[signer[t]][i].tx.task = t
             /\ mined[signer[t]][i].tx.kind = "settle"
        BY <1>1 DEF OkIsExecuted, settled
    <2>2. signer[t] \in Signer
        BY <1>1, Facts
    <2>3. i \in DOMAIN mined'[signer[t]] /\ mined'[signer[t]][i] = mined[signer[t]][i]
        <3>1. CASE signer[t] = s
            BY <1>2, <1>5, <1>6, <2>1, <3>1
        <3>2. CASE signer[t] # s
            BY <1>6, <2>1, <2>2, <3>2
        <3> QED BY <3>1, <3>2
    <2> QED BY <2>1, <2>3 DEF settled
<1>12. BroadcastInv'
    <2>1. ASSUME faults = 0, NEW n \in Mempool, NEW q \in pool'[n], q.kind = "settle"
          PROVE  PoolInv(n, q)'
        <3>1. PoolInv(n, q)
            BY <1>1, <1>7, <2>1 DEF BroadcastInv
        <3> QED BY <1>3, <3>1 DEF PoolInv, SettlementTx, Mempools, Cancels
    <2>2. ASSUME faults = 0, NEW r \in wire, r.tx.kind = "settle" PROVE WireInv(r)'
        <3>1. WireInv(r)
            BY <1>1, <2>2 DEF BroadcastInv
        <3> QED BY <1>3, <3>1 DEF WireInv, SettlementTx, Mempools
    <2> QED BY <1>3, <2>1, <2>2 DEF BroadcastInv
<1> QED BY <1>8, <1>9, <1>10, <1>11, <1>12 DEF IInv

(* Where the loops are and what they sent is not the market's or a         *)
(* block's to change.                                                      *)
LEMMA SamePlaces ==
    ASSUME IInv, UNCHANGED <<setup, mined, network, holder, state, faults>>,
           loop' \in [Task -> [Mempool -> Loop]],
           \A t \in Task, m \in Mempool :
              /\ loop'[t][m].pc = loop[t][m].pc /\ loop'[t][m].nonce = loop[t][m].nonce
              /\ loop'[t][m].price = loop[t][m].price,
           \A t \in Task : state[t] # "running" => loop'[t] = loop[t],
           block' \in 0..MaxBlock, valid' \in [Task -> BOOLEAN]
    PROVE  IInv'
<1>1. TypeOK /\ LockInv /\ ChainInv /\ BroadcastInv /\ OkIsExecuted
    BY DEF IInv
<1>2. /\ setup' = setup /\ pool' = pool /\ wire' = wire /\ last' = last
      /\ holder' = holder /\ state' = state /\ faults' = faults /\ mined' = mined
    BY DEF network
<1>3. TypeOK'
    BY <1>1, <1>2 DEF TypeOK, Loop
<1>4. LockInv'
    BY <1>1, <1>2 DEF LockInv, Mempools
<1>5. ChainInv' /\ OkIsExecuted'
    BY <1>1, <1>2 DEF ChainInv, Count, OkIsExecuted, settled
<1>6. ASSUME faults = 0, NEW n \in Mempool, NEW tx \in pool[n], tx.kind = "settle" PROVE PoolInv(n, tx)'
    <2>1. PoolInv(n, tx) /\ tx.task \in Task
        BY <1>1, <1>6, Facts DEF BroadcastInv
    <2>2. SettlementTx(tx.task, n)' = SettlementTx(tx.task, n)
        BY <2>1 DEF SettlementTx
    <2> QED BY <1>2, <2>1, <2>2 DEF PoolInv, Mempools, Cancels
<1>7. ASSUME faults = 0, NEW r \in wire, r.tx.kind = "settle" PROVE WireInv(r)'
    <2>1. WireInv(r) /\ r.tx.task \in Task /\ r.by \in Mempool
        BY <1>1, <1>7, Facts DEF BroadcastInv
    <2>2. SettlementTx(r.tx.task, r.by)' = SettlementTx(r.tx.task, r.by)
        BY <2>1 DEF SettlementTx
    <2> QED BY <1>2, <2>1, <2>2 DEF WireInv, Mempools
<1>8. BroadcastInv'
    BY <1>2, <1>6, <1>7 DEF BroadcastInv
<1> QED BY <1>3, <1>4, <1>5, <1>8 DEF IInv

LEMMA MarketMovesStep == ASSUME IInv, NEW t \in Task, MarketMoves(t) PROVE IInv'
<1>1. TypeOK
    BY DEF IInv
<1>2. /\ loop' = loop /\ block' = block /\ valid' = [valid EXCEPT ![t] = ~@]
      /\ UNCHANGED <<setup, mined, network, holder, state, faults>>
    BY DEF MarketMoves
<1>3. valid' \in [Task -> BOOLEAN] /\ block' \in 0..MaxBlock
    BY <1>1, <1>2 DEF TypeOK
<1> QED BY <1>1, <1>2, <1>3, SamePlaces, LoopTypes

LEMMA NewBlockStep == ASSUME IInv, NewBlock PROVE IInv'
<1>1. TypeOK
    BY DEF IInv
<1>2. /\ block' = (IF block < MaxBlock THEN block + 1 ELSE block) /\ valid' = valid
      /\ UNCHANGED <<setup, mined, network, holder, state, faults>>
      /\ loop' = [t \in Task |-> [m \in Mempool |->
                     IF state[t] = "running" /\ loop[t][m].pc \notin {"start", "err"}
                     THEN [loop[t][m] EXCEPT !.fresh = TRUE] ELSE loop[t][m]]]
    BY DEF NewBlock
<1>3. valid' \in [Task -> BOOLEAN] /\ block' \in 0..MaxBlock
    BY <1>1, <1>2, SubmissionAssumption DEF TypeOK
<1>4. loop \in [Task -> [Mempool -> Loop]]
    BY <1>1, LoopTypes
<1>5. \A l \in Loop : /\ [l EXCEPT !.fresh = TRUE] \in Loop
                      /\ [l EXCEPT !.fresh = TRUE].pc = l.pc
                      /\ [l EXCEPT !.fresh = TRUE].nonce = l.nonce
                      /\ [l EXCEPT !.fresh = TRUE].price = l.price
    BY DEF Loop
<1>6. \A t \in Task, m \in Mempool :
         /\ loop'[t][m] \in Loop
         /\ loop'[t][m].pc = loop[t][m].pc /\ loop'[t][m].nonce = loop[t][m].nonce
         /\ loop'[t][m].price = loop[t][m].price
         /\ state[t] # "running" => loop'[t][m] = loop[t][m]
    BY <1>2, <1>4, <1>5
<1>7. loop' \in [Task -> [Mempool -> Loop]]
    BY <1>2, <1>4, <1>5
<1>8. \A t \in Task : state[t] # "running" => loop'[t] = loop[t]
    BY <1>4, <1>6, <1>7
<1> QED BY <1>2, <1>3, <1>6, <1>7, <1>8, SamePlaces

-----------------------------------------------------------------------------
(* The invariant                                                           *)

LEMMA InitIInv == Init => IInv
<1> SUFFICES ASSUME Init PROVE IInv
    OBVIOUS
<1>1. /\ setup \in Setups /\ faults = 0 /\ wire = {} /\ block = 0
      /\ mined = [s \in Signer |-> <<>>] /\ valid = [t \in Task |-> TRUE]
      /\ pool = [m \in Mempool |-> {}]
      /\ last = [m \in Mempool |-> [s \in Signer |-> NeverSubmitted]]
      /\ holder = [s \in Signer |-> NoTask]
      /\ state = [t \in Task |-> IF t \in setup.tasks THEN "waiting" ELSE "idle"]
      /\ loop = [t \in Task |-> [m \in Mempool |-> NotStarted]]
    BY DEF Init
<1>2. setup.faults \in Nat /\ MaxBlock \in Nat
    BY <1>1, SubmissionAssumption
<1>3. TypeOK
    <2>1. block \in 0..MaxBlock /\ faults \in 0..setup.faults
        BY <1>1, <1>2
    <2>2. mined \in [Signer -> Seq([tx : Tx, ok : BOOLEAN])]
        <3>1. <<>> \in Seq([tx : Tx, ok : BOOLEAN])
            OBVIOUS
        <3> QED BY <1>1, <3>1
    <2>3. last \in [Mempool -> [Signer -> [nonce : Nat, price : Nat]]]
        BY <1>1 DEF NeverSubmitted
    <2>4. loop \in [Task -> [Mempool -> Loop]]
        <3>1. NotStarted \in Loop
            BY DEF NotStarted, Loop
        <3> QED BY <1>1, <3>1
    <2>5. /\ valid \in [Task -> BOOLEAN] /\ pool \in [Mempool -> SUBSET Tx] /\ wire \in SUBSET MempoolRequest
          /\ holder \in [Signer -> Task \cup {NoTask}]
          /\ state \in [Task -> {"idle", "waiting", "running", "ok", "failed", "aborted"}]
        BY <1>1
    <2> QED BY <1>1, <2>1, <2>2, <2>3, <2>4, <2>5 DEF TypeOK, Loop
<1>4. \A t \in Task : state[t] \in {"waiting", "idle"} /\ loop[t] = [m \in Mempool |-> NotStarted]
    BY <1>1
<1>5. \A s \in Signer : DOMAIN mined[s] = {}
    BY <1>1
<1>6. LockInv /\ OkIsExecuted
    BY <1>1, <1>4 DEF LockInv, OkIsExecuted
<1>7. ChainInv /\ BroadcastInv
    BY <1>1, <1>5 DEF ChainInv, BroadcastInv
<1> QED BY <1>3, <1>6, <1>7 DEF IInv

LEMMA SubmitStep ==
    ASSUME IInv, NEW t \in Task, NEW m \in Mempools, Submit(t, m)
    PROVE  IInv'
<1>1. CASE Simulate(t, m) \/ get_nonce(t, m) \/ Watch(t, m) \/ Resimulate(t, m)
    BY <1>1, WaitsStep
<1>2. CASE CancelIsFutile(t, m) \/ CancelAnswered(t, m)
    BY <1>2, GivesUpStep
<1>3. CASE \/ Disabled(t, m) \/ CapExceeded(t, m) \/ ReadFails(t, m) \/ Reverted(t, m)
           \/ LastAttempt(t, m)
    BY <1>3, ErrsStep
<1>4. CASE Confirmed(t, m)
    BY <1>4, ConfirmedStep
<1>5. CASE Broadcast(t, m)
    BY <1>5, BroadcastStep
<1>6. CASE cancel_all(t, m)
    BY <1>6, CancelAllStep
<1> QED BY <1>1, <1>2, <1>3, <1>4, <1>5, <1>6 DEF Submit

LEMMA NextIInv == IInv /\ [Next]_vars => IInv'
<1> SUFFICES ASSUME IInv, [Next]_vars PROVE IInv'
    OBVIOUS
<1>1. CASE \E t \in Task : \E m \in Mempools : Submit(t, m)
    BY <1>1, SubmitStep
<1>2. CASE \E t \in Task : Acquire(t)
    BY <1>2, AcquireStep
<1>3. CASE \E t \in Task : AcquireTooLate(t)
    BY <1>3, AcquireTooLateStep
<1>4. CASE \E t \in Task : Abort(t)
    BY <1>4, AbortStep
<1>5. CASE \E t \in Task : MarketMoves(t)
    BY <1>5, MarketMovesStep
<1>6. CASE \E r \in wire : Arrives(r)
    BY <1>6, AcceptedStep, RefusedStep, LostStep, OrphanStep DEF Arrives
<1>7. CASE \E m \in Mempool : \E tx \in pool[m] : Mine(m, tx)
    BY <1>7, MineStep
<1>8. CASE Restart
    BY <1>8, RestartStep
<1>9. CASE NewBlock
    BY <1>9, NewBlockStep
<1>10. CASE UNCHANGED vars
    <2>1. /\ UNCHANGED <<setup, mined, network, holder, state, faults>>
          /\ loop' = loop /\ block' = block /\ valid' = valid
        BY <1>10 DEF vars, chain, driver
    <2>2. TypeOK
        BY DEF IInv
    <2>3. block' \in 0..MaxBlock /\ valid' \in [Task -> BOOLEAN]
        BY <2>1, <2>2 DEF TypeOK
    <2> QED BY <2>1, <2>2, <2>3, SamePlaces, LoopTypes
<1> QED BY <1>1, <1>2, <1>3, <1>4, <1>5, <1>6, <1>7, <1>8, <1>9, <1>10 DEF Next

LEMMA IInvariant == Spec => []IInv
BY InitIInv, NextIInv, PTL DEF Spec

-----------------------------------------------------------------------------
(* What the driver keeps                                                   *)

(* execute tells its caller that the settlement was executed only when it  *)
(* is on chain and did not revert, for whichever mempool's loop found it.  *)
THEOREM OkIsOnChain == Spec => []Inv
<1>1. IInv => Inv
    BY DEF IInv, Inv
<1> QED BY <1>1, IInvariant, PTL

(* Without faults, an execution that failed left no settlement in any      *)
(* mempool: each of its loops ended with its own transaction mined, out of *)
(* place, or cancelled at its node.                                        *)
THEOREM FailureIsClean == Spec => []FailedLeavesNothing
<1>1. ASSUME IInv PROVE FailedLeavesNothing
    <2> SUFFICES ASSUME NEW t \in Task, state[t] = "failed", faults = 0,
                        NEW m \in Mempool, NEW tx \in pool[m], tx.task = t, tx.kind = "settle"
                 PROVE  FALSE
        BY DEF FailedLeavesNothing
    <2>1. PoolInv(m, tx)
        BY <1>1 DEF IInv, BroadcastInv
    <2> QED BY <2>1 DEF PoolInv
<1> QED BY <1>1, IInvariant, PTL

(* A node drops what is in the place of a transaction that arrives: it is  *)
(* of the same execution, or its sender is gone.                           *)
LEMMA ArrivalDisplaces ==
    ASSUME IInv, NEW r \in wire, Accepts(r.to, r.tx), Enters(r.to, r.tx),
           NEW m \in Mempool, NEW tx \in pool[m] \ pool'[m], state[tx.task] = "running"
    PROVE  \E q \in pool'[m] \ pool[m] :
              q.task = tx.task \/ state[q.task] \notin {"waiting", "running"}
<1>1. TypeOK /\ LockInv
    BY DEF IInv
<1>2. /\ r.to \in Mempool /\ r.tx \in Tx /\ r.tx.task \in Task /\ tx.task \in Task
      /\ r.tx.price \in Nat /\ pool \in [Mempool -> SUBSET Tx]
    BY <1>1, Facts DEF TypeOK
<1>3. /\ \A n \in Mempool \ {r.to} : pool'[n] = pool[n]
      /\ pool'[r.to] = (pool[r.to] \ PendingAt(r.to, signer[r.tx.task], r.tx.nonce)) \cup {r.tx}
    BY <1>2 DEF Enters
<1>4. m = r.to /\ tx \in PendingAt(m, signer[r.tx.task], r.tx.nonce) /\ r.tx \in pool'[m]
    BY <1>2, <1>3
<1>5. signer[tx.task] = signer[r.tx.task]
    BY <1>4 DEF PendingAt
<1>6. r.tx \notin pool[m]
    <2>1. ASSUME r.tx \in pool[m] PROVE FALSE
        <3>1. r.tx \in PendingAt(m, signer[r.tx.task], r.tx.nonce)
            BY <2>1 DEF PendingAt
        <3> QED BY <1>2, <1>4, <3>1 DEF Accepts
    <2> QED BY <2>1
<1>7. r.tx.task = tx.task \/ state[r.tx.task] \notin {"waiting", "running"}
    BY <1>1, <1>2, <1>5 DEF LockInv
<1> QED BY <1>4, <1>6, <1>7

(* The nonce of what is mined, and of whatever it drops, is consumed.      *)
LEMMA MineDisplaces ==
    ASSUME IInv, NEW n \in Mempool, NEW u \in pool[n], Mine(n, u),
           NEW m \in Mempool, NEW tx \in pool[m] \ pool'[m]
    PROVE  Count(signer[tx.task])' > tx.nonce
<1> DEFINE s == signer[u.task]
<1>1. TypeOK
    BY DEF IInv
<1>2. /\ s \in Signer /\ Count(s) \in Nat /\ u.nonce = Count(s) /\ tx.nonce \in Nat
      /\ mined \in [Signer -> Seq([tx : Tx, ok : BOOLEAN])]
    BY <1>1, Facts DEF Mine, TypeOK
<1>3. PICK e : mined' = [mined EXCEPT ![s] = Append(@, e)]
    BY DEF Mine
<1>4. signer[tx.task] = s /\ ~ (tx.nonce > u.nonce)
    BY DEF Mine
<1>5. Len(mined'[s]) = Count(s) + 1
    BY <1>2, <1>3 DEF Count
<1> HIDE DEF s
<1> QED BY <1>2, <1>4, <1>5 DEF Count

(* While an execution runs, its settlement leaves a mempool only when its  *)
(* nonce is consumed, by a transaction of its own, or by a request that an *)
(* execution since dropped had sent: nobody else signs meanwhile.          *)
THEOREM LockKeepsPlace == Spec => NotDisplaced
<1> DEFINE Displaced(m, tx) ==
               \/ Count(signer[tx.task])' > tx.nonce
               \/ \E q \in pool'[m] \ pool[m] :
                     q.task = tx.task \/ state[q.task] \notin {"waiting", "running"}
<1>1. ASSUME IInv, Next, NEW m \in Mempool, NEW tx \in pool[m] \ pool'[m],
             state[tx.task] = "running"
      PROVE  Displaced(m, tx)
    <2>1. CASE \E r \in wire : Accepts(r.to, r.tx) /\ Enters(r.to, r.tx)
        BY <1>1, <2>1, ArrivalDisplaces
    <2>2. CASE \E n \in Mempool : \E u \in pool[n] : Mine(n, u)
        BY <1>1, <2>2, MineDisplaces
    <2>3. CASE pool' = pool
        BY <1>1, <2>3
    <2>4. ASSUME NEW r \in wire, Arrives(r)
          PROVE  pool' = pool \/ (Accepts(r.to, r.tx) /\ Enters(r.to, r.tx))
        BY <2>4 DEF Arrives, Accepted, Refused, Lost, Orphan
    <2>5. ASSUME NEW t \in Task, NEW n \in Mempools, Submit(t, n) PROVE pool' = pool
        BY <2>5 DEF Submit, Disabled, Simulate, get_nonce, Broadcast, CapExceeded, ReadFails, Watch,
                    Confirmed, Reverted, Resimulate, CancelIsFutile, cancel_all, CancelAnswered,
                    LastAttempt, network
    <2>6. ASSUME NEW t \in Task, Acquire(t) \/ AcquireTooLate(t) \/ Abort(t) \/ MarketMoves(t)
          PROVE  pool' = pool
        BY <2>6 DEF Acquire, AcquireTooLate, Abort, MarketMoves, network
    <2>7. ASSUME Restart \/ NewBlock PROVE pool' = pool
        BY <2>7 DEF Restart, NewBlock, network
    <2> QED BY <1>1, <2>1, <2>2, <2>3, <2>4, <2>5, <2>6, <2>7 DEF Next
<1>2. ASSUME IInv, [Next]_vars
      PROVE  [\A m \in Mempool : \A tx \in pool[m] \ pool'[m] :
                 state[tx.task] = "running" /\ tx.kind = "settle" =>
                    \/ Count(signer[tx.task])' > tx.nonce
                    \/ \E q \in pool'[m] \ pool[m] :
                          \/ q.task = tx.task
                          \/ state[q.task] \notin {"waiting", "running"}]_vars
    BY <1>1, <1>2
<1> QED BY <1>2, IInvariant, PTL DEF Spec, NotDisplaced
=============================================================================
