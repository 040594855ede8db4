----------------------------- MODULE SettleQueue ----------------------------
(***************************************************************************)
(* One lane of the driver: the cache of settlements an auction proposed    *)
(* and the settle requests that execute them.  A request is admitted,      *)
(* looks its settlement up, waits for a submission slot (the solver's own  *)
(* account or a delegated one), takes the settlement out of the cache and  *)
(* executes it.  Requests run in tasks of their own; a task is aborted     *)
(* only where it waits, and gives back its admission permit with its slot. *)
(* What an execution does is in Submission: here it ends in either result. *)
(***************************************************************************)
EXTENDS Integers, Sequences, FiniteSets

CONSTANTS
    Request,                     \* settle calls
    Account, Direct, NoSlot,     \* delegated accounts, the solver's own, none
    settle_queue_size, max_solutions_to_propose,
    MAX_CONCURRENT_AUCTIONS,
    MaxAuctions                  \* bound

ASSUME QueueAssumption ==
    /\ IsFiniteSet(Request) /\ IsFiniteSet(Account)
    /\ Direct \notin Account /\ NoSlot \notin Account \cup {Direct}
    /\ settle_queue_size \in Nat /\ max_solutions_to_propose \in Nat \ {0}
    /\ MAX_CONCURRENT_AUCTIONS \in Nat \ {0} /\ MaxAuctions \in Nat

\* Solution ids are unique until the driver restarts.
Settlement == [auction : Nat, rank : Nat]
NoSettlement == [auction |-> 0, rank |-> 0]

VARIABLES
    settlements,   \* the cache, most recent first
    auctions,      \* auctions solved so far
    solving,       \* scored settlements of a solve still being resimulated
    proposed,      \* solutions the driver has answered with
    request,       \* Request -> where its task is, what it settles, its slot
    channel,       \* delegated accounts free to acquire
    returning,     \* delegated accounts on their way back
    executions     \* the settlements executed, in order

cache == <<settlements, auctions, solving, proposed>>
slots == <<channel, returning>>
queueVars == <<cache, request, slots, executions>>

Idle == [pc |-> "idle", wants |-> NoSettlement, slot |-> NoSlot]

QueueInit ==
    /\ settlements = <<>> /\ auctions = 0 /\ solving = {} /\ proposed = {}
    /\ request = [r \in Request |-> Idle]
    /\ channel = Account /\ returning = {} /\ executions = <<>>

-----------------------------------------------------------------------------
(* The pool *)

Answers == {"settled", "failed", "unavailable", "rejected", "late", "aborted"}
Active(r) == request[r].pc \notin {"idle"} \cup Answers

admission_capacity == 1 + Cardinality(Account) + settle_queue_size
Admitted == {r \in Request : Active(r)}
available_permits == admission_capacity - Cardinality(Admitted)

\* Variation: the permit goes with the wait, not with the execution.
DirectIdle == \A r \in Request : request[r].pc = "executing" => request[r].slot # Direct

DirectFree == \A r \in Request : request[r].slot # Direct

Cached(s) == \E i \in DOMAIN settlements : settlements[i] = s

-----------------------------------------------------------------------------
(* solve *)

\* All scored settlements are cached, and the oldest beyond the limit dropped.
Solve ==
    /\ solving = {} /\ auctions < MaxAuctions /\ available_permits > 0
    /\ \E n \in 1..max_solutions_to_propose :
         LET new == [i \in 1..n |-> [auction |-> auctions + 1, rank |-> n + 1 - i]]
             all == new \o settlements
             limit == max_solutions_to_propose * MAX_CONCURRENT_AUCTIONS IN
         /\ settlements' = SubSeq(all, 1, IF Len(all) > limit THEN limit ELSE Len(all))
         /\ solving' = {new[i] : i \in 1..n}
    /\ auctions' = auctions + 1
    /\ UNCHANGED <<proposed, request, slots, executions>>

\* No permit is left, or no solution is worth proposing.
SolvesNothing == solving = {} /\ UNCHANGED queueVars

\* Those not voided stay in the cache, in their order.
Retains(voided) ==
    LET kept == {i \in DOMAIN settlements : settlements[i] \notin voided} IN
    \E at \in [1..Cardinality(kept) -> kept] :
        /\ \A i, j \in DOMAIN at : i < j => at[i] < at[j]
        /\ settlements' = [i \in DOMAIN at |-> settlements[at[i]]]

\* resimulate_until_revert drops what started to revert; solve answers with the rest.
Proposes ==
    /\ solving # {}
    /\ \E voided \in SUBSET solving :
         /\ Retains(voided)
         /\ proposed' = proposed \cup (solving \ voided)
    /\ solving' = {}
    /\ UNCHANGED <<auctions, request, slots, executions>>

-----------------------------------------------------------------------------
(* settle *)

Moves(r, pc) == request' = [request EXCEPT ![r].pc = pc]

Settle(r) ==
    /\ request[r] = Idle
    /\ \E s \in proposed, pc \in {"admitted", "late"} :
         /\ available_permits > 0
         /\ request' = [request EXCEPT ![r].pc = pc, ![r].wants = s]
    /\ UNCHANGED <<cache, slots, executions>>

TooManyPending(r) ==
    /\ request[r] = Idle /\ proposed # {} /\ available_permits = 0
    /\ Moves(r, "rejected")
    /\ UNCHANGED <<cache, slots, executions>>

LooksUp(r) ==
    /\ request[r].pc = "admitted"
    /\ Moves(r, IF Cached(request[r].wants) THEN "found" ELSE "unavailable")
    /\ UNCHANGED <<cache, slots, executions>>

Holds(r, slot) == request' = [request EXCEPT ![r].pc = "holding", ![r].slot = slot]

\* The direct slot is preferred; when it is busy the two kinds race.
TryDirect(r) ==
    /\ request[r].pc = "found"
    /\ IF DirectFree THEN Holds(r, Direct) ELSE Moves(r, "racing")
    /\ UNCHANGED <<cache, slots, executions>>

AcquireDirect(r) ==
    /\ request[r].pc = "racing" /\ DirectFree
    /\ Holds(r, Direct)
    /\ UNCHANGED <<cache, slots, executions>>

AcquireDelegated(r) ==
    /\ request[r].pc = "racing"
    /\ \E a \in channel : Holds(r, a) /\ channel' = channel \ {a}
    /\ UNCHANGED <<cache, returning, executions>>

\* Variation: an aborted task's account is not sent back.
EndsUnlessAborted(r, answer) ==
    /\ request' = [request EXCEPT ![r].pc = answer, ![r].slot = NoSlot]
    /\ returning' = IF request[r].slot \in Account /\ answer # "aborted"
                    THEN returning \cup {request[r].slot} ELSE returning

\* The answer drops the guard; a delegated account is sent back by a task of its own.
Ends(r, answer) ==
    /\ request' = [request EXCEPT ![r].pc = answer, ![r].slot = NoSlot]
    /\ returning' = IF request[r].slot \in Account
                    THEN returning \cup {request[r].slot} ELSE returning

\* swap_remove_front: the front takes the place of the removed one.
SwapRemoveFront(s) ==
    LET i == CHOOSE j \in DOMAIN settlements : settlements[j] = s IN
    Tail([settlements EXCEPT ![i] = settlements[1]])

\* Variation: what was found before the wait is executed after it.
TakeFound(r) ==
    /\ request[r].pc = "holding"
    /\ settlements' = IF Cached(request[r].wants) THEN SwapRemoveFront(request[r].wants)
                                                 ELSE settlements
    /\ executions' = Append(executions, request[r].wants)
    /\ Moves(r, "executing")
    /\ UNCHANGED <<auctions, solving, proposed, slots>>

Take(r) ==
    /\ request[r].pc = "holding" /\ Cached(request[r].wants)
    /\ settlements' = SwapRemoveFront(request[r].wants)
    /\ executions' = Append(executions, request[r].wants)
    /\ Moves(r, "executing")
    /\ UNCHANGED <<auctions, solving, proposed, slots>>

Raced(r) ==
    /\ request[r].pc = "holding" /\ ~Cached(request[r].wants)
    /\ Ends(r, "unavailable")
    /\ UNCHANGED <<cache, channel, executions>>

Executed(r) ==
    /\ request[r].pc = "executing"
    /\ \E answer \in {"settled", "failed"} : Ends(r, answer)
    /\ UNCHANGED <<cache, channel, executions>>

\* The caller is gone: the task is dropped where it waits.
AbortRequest(r) ==
    /\ request[r].pc \in {"racing", "executing"}
    /\ Ends(r, "aborted")
    /\ UNCHANGED <<cache, channel, executions>>

Released(a) ==
    /\ a \in returning
    /\ returning' = returning \ {a} /\ channel' = channel \cup {a}
    /\ UNCHANGED <<cache, request, executions>>

\* The caller asks again, perhaps for the same settlement.
Forget(r) ==
    /\ request[r].pc \in Answers
    /\ request' = [request EXCEPT ![r] = Idle]
    /\ UNCHANGED <<cache, slots, executions>>

-----------------------------------------------------------------------------
Process(r) ==
    \/ LooksUp(r) \/ TryDirect(r) \/ AcquireDirect(r) \/ AcquireDelegated(r)
    \/ Take(r) \/ Raced(r) \/ Executed(r)

QueueNext ==
    \/ Solve \/ SolvesNothing \/ Proposes
    \/ \E r \in Request : Settle(r) \/ TooManyPending(r) \/ Process(r) \/ AbortRequest(r) \/ Forget(r)
    \/ \E a \in Account : Released(a)

QueueSpec == QueueInit /\ [][QueueNext]_queueVars

\* Tasks are polled, executions return (Submission's ExecutionsEnd), the semaphore and
\* the channel serve their waiters in turn.
QueueFairness ==
    /\ WF_queueVars(Proposes) /\ \A a \in Account : WF_queueVars(Released(a))
    /\ \A r \in Request : /\ WF_queueVars(Process(r))
                          /\ SF_queueVars(AcquireDirect(r)) /\ SF_queueVars(AcquireDelegated(r))

QueueFairSpec == QueueSpec /\ QueueFairness

-----------------------------------------------------------------------------
(* Safety *)

QueueTypeOK ==
    /\ settlements \in Seq(Settlement) /\ auctions \in 0..MaxAuctions
    /\ solving \subseteq Settlement /\ proposed \subseteq Settlement
    /\ request \in [Request ->
          [pc : {"idle", "admitted", "found", "racing", "holding", "executing"} \cup Answers,
           wants : Settlement, slot : Account \cup {Direct, NoSlot}]]
    /\ channel \subseteq Account /\ returning \subseteq Account
    /\ executions \in Seq(Settlement)

(* However many requests ask for a settlement, at whatever distance from   *)
(* each other, it is executed once: what was looked up before the wait for *)
(* a slot is taken out of the cache after it.                              *)
SettledOnce ==
    \A i, j \in DOMAIN executions : executions[i] = executions[j] => i = j

(* A submission account is in one place: free, on its way back, or with    *)
(* one request, whichever way its requests end.  The solver's own account  *)
(* is with one request at most.                                            *)
SlotsAreExclusive ==
    /\ channel \cap returning = {}
    /\ \A a \in Account : a \in channel \cup returning <=> \A r \in Request : request[r].slot # a
    /\ \A q, r \in Request : request[q].slot = request[r].slot /\ q # r => request[q].slot = NoSlot

(* The admission semaphore: no more requests wait or execute than there    *)
(* are slots and places in the queue, however their tasks end.             *)
AdmittedWithinCapacity == available_permits >= 0

(* Checked together: the queue's bookkeeping.                              *)
QueueInv == QueueTypeOK /\ SlotsAreExclusive /\ AdmittedWithinCapacity

(* The comment of MAX_CONCURRENT_AUCTIONS: a proposed settlement of one of *)
(* the last generations can be settled, unless somebody asked for it.      *)
RecentSettlementsStay ==
    \A s \in proposed : \/ auctions - s.auction >= MAX_CONCURRENT_AUCTIONS
                        \/ Cached(s) \/ \E i \in DOMAIN executions : executions[i] = s

-----------------------------------------------------------------------------
(* Liveness *)

(* An admitted request is answered, though others hold every slot.         *)
AdmittedIsAnswered == \A r \in Request : Active(r) ~> ~Active(r)

(* A delegated account comes back, also from an aborted task.              *)
AccountsComeBack == \A a \in Account : a \notin channel ~> a \in channel

(* Neither a request nor an account is lost in the queue.                  *)
SlotsGoRound == AdmittedIsAnswered /\ AccountsComeBack
=============================================================================
