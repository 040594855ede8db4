------------------------------- MODULE RunLoop -----------------------------
(***************************************************************************)
(* Autopilot instances that share a database: each tries to lead, waits    *)
(* for its maintenance task to index the latest block, rebuilds its cache  *)
(* of solvable orders, and the leader runs auctions, saves the competition *)
(* and starts an execution per winner.  An execution waits for its         *)
(* settlement to be seen on chain, or for its deadline.                    *)
(*                                                                         *)
(* Orders are fill-or-kill and a solution settles one order.  Faults the   *)
(* code handles happen where the setup has them: a database that fails     *)
(* single queries, maintenance that fails or is too slow, sessions that    *)
(* die under a leader.                                                     *)
(***************************************************************************)
EXTENDS Integers, FiniteSets, FiniteSetsExt

CONSTANTS
    Instance, NoOne,
    Order,
    submission_deadline,
    Setups,                      \* the instances, orders, blocks, stops and faults there are
    MaxAuctions                  \* bound

ASSUME RunLoopAssumption ==
    /\ IsFiniteSet(Instance) /\ NoOne \notin Instance /\ IsFiniteSet(Order)
    /\ submission_deadline \in Nat \ {0}
    /\ Setups \subseteq [instances : SUBSET Instance, orders : SUBSET Order, blocks : Nat \ {0},
                         stops : Nat, restarts : BOOLEAN,
                         faults : SUBSET {"database", "maintenance", "sessions"}]
    /\ MaxAuctions \in Nat

VARIABLES
    setup,
    head, mined,             \* the chain and the settlements in it
    lock,                    \* the holder of the advisory lock
    indexed, attributed,     \* block the trades are known to, settlements attributed
    auctions, winners,       \* auction ids given out, saved winners and their executions
    instance,                \* Instance -> its loop, caches and maintenance task
    stops                    \* crashes and shutdowns so far

chain == <<head, mined>>
database == <<indexed, attributed, auctions, winners>>
vars == <<setup, chain, lock, database, instance, stops>>

Auction == [block : Nat, orders : SUBSET Order]
NoAuction == [block |-> 0, orders |-> {}]

\* The cache: the auction, the orders it was made from and the block they are known to.
NoCache == [auction |-> NoAuction, orders |-> {}, latest |-> -1]

\* A process that starts at block b: both watch channels hold the current block.
Started(b) ==
    [pc |-> "top", is_leader |-> FALSE, block |-> 0, fetched |-> NoCache,
     cache |-> NoCache, id |-> 0, auction |-> NoAuction, prev_auction |-> NoAuction,
     prev_block |-> 0, boot |-> b, taken |-> b - 1, attributing |-> FALSE,
     partially_processed |-> b, fully_processed |-> b]

Init ==
    /\ setup \in Setups
    /\ head = 1 /\ mined = {} /\ lock = NoOne
    /\ indexed = 0 /\ attributed = {} /\ auctions = 0 /\ winners = {}
    /\ instance = [i \in setup.instances |-> Started(1)]
    /\ stops = 0

-----------------------------------------------------------------------------
(* What the database answers *)

Settlements(b) == {s \in mined : s.block <= b}
Traded(b) == {s.order : s \in Settlements(indexed) \ Settlements(b)}

\* all_solvable_orders, and MAX(block_number) of the settlements.
Open == setup.orders \ Traded(0)
LatestSettlement == Max({0} \cup {s.block : s \in Settlements(indexed)})

Is(s, w) == s.auction = w.auction /\ s.order = w.order
IsMined(w) == \E s \in mined : Is(s, w)
IsAttributed(w) == \E s \in attributed : Is(s, w)

\* Variation: a solution is in flight only before the block of its deadline.
InFlightBefore(b) ==
    {w.order : w \in {v \in winners : v.deadline > b + 1 /\ ~IsAttributed(v)}}

InFlight(b) == {w.order : w \in {v \in winners : v.deadline > b /\ ~IsAttributed(v)}}

-----------------------------------------------------------------------------
(* Maintenance *)

At(i, pc) == instance[i].pc = pc

\* What an iteration held is gone when the next begins.
Top(p) == [p EXCEPT !.pc = "top", !.block = 0, !.fetched = NoCache, !.id = 0,
                    !.auction = NoAuction]
Up(i) == ~At(i, "off")

\* The essential part: trades are indexed, then the block is announced.
Index(i) ==
    /\ Up(i) /\ ~instance[i].attributing /\ instance[i].taken < head
    /\ indexed' = head
    /\ instance' = [instance EXCEPT ![i].taken = head, ![i].attributing = TRUE,
                                    ![i].partially_processed = head]
    /\ UNCHANGED <<setup, chain, lock, attributed, auctions, winners, stops>>

\* A failure announces nothing; the next block brings the next try.
IndexFails(i) ==
    /\ "maintenance" \in setup.faults
    /\ Up(i) /\ ~instance[i].attributing /\ instance[i].taken < head
    /\ instance' = [instance EXCEPT ![i].taken = head]
    /\ UNCHANGED <<setup, chain, lock, database, stops>>

\* Settlements the observer gives up on are left out and the block is announced all the same,
\* unless another of the optional tasks fails.
Attribute(i) ==
    /\ Up(i) /\ instance[i].attributing
    /\ \E failed \in SUBSET (Settlements(indexed) \ attributed) :
         /\ failed # {} => "maintenance" \in setup.faults
         /\ attributed' = attributed \cup (Settlements(indexed) \ failed)
    /\ LET ended == [instance EXCEPT ![i].attributing = FALSE] IN
       \/ instance' = [ended EXCEPT ![i].fully_processed = ended[i].partially_processed]
       \/ "maintenance" \in setup.faults /\ instance' = ended
    /\ UNCHANGED <<setup, chain, lock, indexed, auctions, winners, stops>>

-----------------------------------------------------------------------------
(* The loop *)

\* Variation: an error counts as leading.
TryAcquireHopes(i) ==
    /\ At(i, "top")
    /\ \/ lock = NoOne /\ lock' = i
       \/ lock' = lock
    /\ \E err \in BOOLEAN :
         instance' = [instance EXCEPT ![i].pc = "wait", ![i].block = head,
                                      ![i].is_leader = lock' = i \/ err]
    /\ UNCHANGED <<setup, chain, database, stops>>

\* The session is pinged; without one the lock is tried, unless it was tried a moment ago.
TryAcquire(i) ==
    /\ At(i, "top")
    /\ \/ lock = NoOne /\ lock' = i
       \/ lock' = lock
    /\ instance' = [instance EXCEPT ![i].pc = "wait", ![i].block = head, ![i].is_leader = lock' = i]
    /\ UNCHANGED <<setup, chain, database, stops>>

\* Variation: the block before is good enough.
SyncsLate(i) ==
    /\ At(i, "wait")
    /\ \E b \in instance[i].block..head :
         /\ instance[i].partially_processed >= b - 1 \/ "maintenance" \in setup.faults
         /\ instance' = [instance EXCEPT ![i].pc = "read", ![i].block = b]
    /\ UNCHANGED <<setup, chain, lock, database, stops>>

\* The loop was woken at block b, and b is processed by now or the wait has timed out.
Syncs(i) ==
    /\ At(i, "wait")
    /\ \E b \in instance[i].block..head :
         /\ instance[i].partially_processed >= b \/ "maintenance" \in setup.faults
         /\ instance' = [instance EXCEPT ![i].pc = "read", ![i].block = b]
    /\ UNCHANGED <<setup, chain, lock, database, stops>>

\* Everything when there is no cache; after that the trades since the latest settlement.
ReadsOrders(i) ==
    /\ At(i, "read")
    /\ LET orders == IF instance[i].cache = NoCache THEN Open
                     ELSE instance[i].cache.orders \ Traded(instance[i].cache.latest) IN
       instance' = [instance EXCEPT
           ![i].pc = "filter",
           ![i].fetched = [NoCache EXCEPT !.orders = orders, !.latest = LatestSettlement]]
    /\ UNCHANGED <<setup, chain, lock, database, stops>>

\* next_auction: the previous auction is always replaced, the previous block only when the
\* auction is the same.  Every auction cut takes an id, here those that are run.
NextAuction(p) ==
    LET auction == p.cache.auction
        same == auction = p.prev_auction
        cut == [p EXCEPT !.prev_auction = auction, !.prev_block = IF same THEN p.block ELSE @,
                         !.fetched = NoCache] IN
    IF auction.orders = {} \/ auctions = MaxAuctions THEN Top(p)
    ELSE IF same /\ p.prev_block = p.block THEN Top(cut)
    ELSE [cut EXCEPT !.pc = "solve", !.id = auctions + 1, !.auction = auction]

\* After the cache is updated, or kept as it was, only the leader goes on to an auction.
Continues(i, p) ==
    LET next == IF p.is_leader THEN NextAuction(p) ELSE Top(p) IN
    /\ instance' = [instance EXCEPT ![i] = next]
    /\ auctions' = IF next.pc = "solve" THEN auctions + 1 ELSE auctions
    /\ UNCHANGED <<setup, chain, lock, indexed, attributed, winners, stops>>

\* Orders in flight are read after the open ones; a failed query counts as none.
UpdatesCache(i) ==
    /\ At(i, "filter")
    /\ \E in_flight \in {InFlight(instance[i].block)}
                        \cup IF "database" \in setup.faults THEN {{}} ELSE {} :
         LET fetched == instance[i].fetched
             auction == [block |-> instance[i].block, orders |-> fetched.orders \ in_flight] IN
         Continues(i, [instance[i] EXCEPT !.cache = [fetched EXCEPT !.auction = auction]])

UpdateFails(i) ==
    /\ "database" \in setup.faults
    /\ instance[i].pc \in {"read", "filter"}
    /\ Continues(i, instance[i])

EndsRun(i) == instance' = [instance EXCEPT ![i] = Top(@)]

NoSolutions(i) ==
    /\ At(i, "solve")
    /\ EndsRun(i)
    /\ UNCHANGED <<setup, chain, lock, database, stops>>

\* The winners, with a deadline counted from the head b once the solvers had answered.
Rows(i, won, b, pc) ==
    {[auction |-> instance[i].id, order |-> o, block |-> instance[i].auction.block, by |-> i,
      deadline |-> b + submission_deadline, pc |-> pc, asked |-> FALSE, seen |-> 0] : o \in won}

SolvedAt(i) == {b \in instance[i].block..head : b + submission_deadline <= setup.blocks}
Won(i) == {won \in SUBSET instance[i].auction.orders : won # {}}

\* post_processing, and an execution for each winner.
Saves(i) ==
    /\ At(i, "solve")
    /\ \E won \in Won(i), b \in SolvedAt(i) : winners' = winners \cup Rows(i, won, b, "starting")
    /\ EndsRun(i)
    /\ UNCHANGED <<setup, chain, lock, indexed, attributed, auctions, stops>>

\* One of the five writes fails: the competition may be in the database or not.
SaveFails(i) ==
    /\ "database" \in setup.faults
    /\ At(i, "solve")
    /\ \/ UNCHANGED winners
       \/ \E won \in Won(i), b \in SolvedAt(i) : winners' = winners \cup Rows(i, won, b, "unsaved")
    /\ EndsRun(i)
    /\ UNCHANGED <<setup, chain, lock, indexed, attributed, auctions, stops>>

-----------------------------------------------------------------------------
(* Executions *)

Running == {"starting", "driving", "awaiting"}
Ended(w, pc) == [w EXCEPT !.pc = pc, !.seen = 0]
Becomes(w, v) ==
    /\ winners' = (winners \ {w}) \cup {v}
    /\ UNCHANGED <<setup, chain, lock, indexed, attributed, auctions, instance, stops>>

\* The driver is asked, unless the deadline has passed.
Starts(w) ==
    /\ w.pc = "starting"
    /\ Becomes(w, IF head < w.deadline
                  THEN [w EXCEPT !.pc = "driving", !.asked = TRUE, !.seen = head]
                  ELSE Ended(w, "failed"))

\* The driver's error ends the execution, its answer does not.
DriverAnswers(w) ==
    /\ w.pc = "driving"
    /\ \/ Becomes(w, Ended(w, "failed"))
       \/ IsMined(w) /\ Becomes(w, [w EXCEPT !.pc = "awaiting"])

\* Blocks an execution can be woken by; beyond the bound they go on without a number.
NextBlocks(w) == IF head = setup.blocks THEN {head} \cup (w.seen + 1)..head
                                        ELSE (w.seen + 1)..head

\* Variation: the deadline is not looked at.
ObservedPatient(w, b, found) ==
    IF found THEN Ended(w, "success") ELSE [w EXCEPT !.seen = head]

Observed(w, b, found) ==
    IF found THEN Ended(w, "success")
    ELSE IF b >= w.deadline THEN Ended(w, "timeout") ELSE [w EXCEPT !.seen = head]

\* Variation: the block need only be indexed.
ProcessedPartially(i, b) ==
    instance[i].partially_processed >= b \/ "maintenance" \in setup.faults

Processed(i, b) == instance[i].fully_processed >= b \/ "maintenance" \in setup.faults

\* find_settlement_transaction, an error counting as not found.
Lookup(w) == {IsAttributed(w)} \cup IF "database" \in setup.faults THEN {FALSE} ELSE {}

Observes(w) ==
    /\ w.pc \in {"driving", "awaiting"}
    /\ \E b \in NextBlocks(w), found \in Lookup(w) :
         Processed(w.by, b) /\ Becomes(w, Observed(w, b, found))

-----------------------------------------------------------------------------
(* The chain, the driver's transactions, the processes *)

\* A block settles an order once.  What a driver was asked to settle it may have broadcast, and
\* that may be mined late or never.
NewBlock ==
    /\ head < setup.blocks
    /\ head' = head + 1
    /\ \E txs \in SUBSET {w \in winners : w.asked /\ \A s \in mined : s.order # w.order} :
         /\ \A s, t \in txs : s.order = t.order => s = t
         /\ mined' = mined \cup {[auction |-> w.auction, order |-> w.order, block |-> head + 1]
                                 : w \in txs}
    /\ UNCHANGED <<setup, lock, database, instance, stops>>

\* The process ends and its session and executions with it.
Stops(i) ==
    /\ stops < setup.stops /\ Up(i)
    /\ stops' = stops + 1
    /\ instance' = [instance EXCEPT ![i] = [Started(1) EXCEPT !.pc = "off"]]
    /\ lock' = IF lock = i THEN NoOne ELSE lock
    /\ winners' = {IF w.by = i /\ w.pc \in Running THEN Ended(w, "lost") ELSE w
                   : w \in winners}
    /\ UNCHANGED <<setup, chain, indexed, attributed, auctions>>

Restarts(i) ==
    /\ ~Up(i) /\ setup.restarts
    /\ instance' = [instance EXCEPT ![i] = Started(head)]
    /\ UNCHANGED <<setup, chain, lock, database, stops>>

SessionDies ==
    /\ "sessions" \in setup.faults /\ lock # NoOne /\ stops < setup.stops
    /\ stops' = stops + 1 /\ lock' = NoOne
    /\ UNCHANGED <<setup, chain, database, instance>>

-----------------------------------------------------------------------------
Loop(i) ==
    \/ TryAcquire(i) \/ Syncs(i) \/ ReadsOrders(i) \/ UpdatesCache(i)
    \/ UpdateFails(i) \/ NoSolutions(i) \/ Saves(i) \/ SaveFails(i)

Maintenance(i) == Index(i) \/ IndexFails(i) \/ Attribute(i)

Execution(w) == Starts(w) \/ DriverAnswers(w) \/ Observes(w)

Next ==
    \/ \E i \in setup.instances : Loop(i) \/ Maintenance(i) \/ Stops(i) \/ Restarts(i)
    \/ \E w \in winners : Execution(w)
    \/ NewBlock \/ SessionDies

Spec == Init /\ [][Next]_vars

\* The loop and the tasks are polled, the listeners wake them, blocks arrive.
Fairness ==
    /\ WF_vars(NewBlock)
    /\ \A i \in Instance : LET Here(A) == i \in setup.instances /\ A IN
         WF_vars(Here(Loop(i))) /\ WF_vars(Here(Maintenance(i))) /\ WF_vars(Here(Restarts(i)))
    /\ WF_vars(\E w \in winners : Execution(w))

FairSpec == Spec /\ Fairness

-----------------------------------------------------------------------------
(* Safety *)

Winner == [auction : 1..MaxAuctions, order : Order, block : Nat, by : Instance,
           deadline : Nat, asked : BOOLEAN, seen : Nat,
           pc : Running \cup {"success", "timeout", "failed", "lost", "unsaved"}]

TypeOK ==
    /\ setup \in Setups /\ head \in 1..setup.blocks /\ stops \in 0..setup.stops
    /\ mined \subseteq [auction : 1..MaxAuctions, order : Order, block : Nat \ {0}]
    /\ lock \in Instance \cup {NoOne}
    /\ indexed \in 0..head /\ attributed \subseteq mined
    /\ auctions \in 0..MaxAuctions /\ winners \subseteq Winner
    /\ \A v, w \in winners : v.auction = w.auction /\ v.order = w.order => v = w
    /\ \A i \in setup.instances :
         /\ instance[i].pc \in {"top", "wait", "read", "filter", "solve", "off"}
         /\ instance[i].is_leader \in BOOLEAN /\ instance[i].attributing \in BOOLEAN
         /\ instance[i].cache.auction \in Auction /\ instance[i].auction \in Auction
         /\ instance[i].fully_processed <= instance[i].partially_processed
         /\ instance[i].partially_processed <= head

(* While no session dies, at most one instance acts as leader, whatever    *)
(* crashes, restarts and shutdowns there are: what try_acquire returned    *)
(* holds until the next call.                                              *)
OneLeader ==
    "sessions" \notin setup.faults =>
        \A i, j \in setup.instances : instance[i].is_leader /\ instance[j].is_leader => i = j

(* No order of an auction had been filled by the block the auction is for: *)
(* its events were indexed before the orders were read.  The exceptions    *)
(* are a wait that timed out and the block the process was started at.     *)
AuctionIsCurrent ==
    "maintenance" \notin setup.faults =>
        \A i \in setup.instances, s \in mined :
            s.order \in instance[i].auction.orders =>
                s.block > instance[i].auction.block \/ instance[i].auction.block = instance[i].boot

(* While the database answers, an order wins a second time only after the  *)
(* deadline of the first or after its settlement, even when instances take *)
(* over from each other.  After a session died two leaders may pick the    *)
(* same order, one leader still may not.                                   *)
OneInFlight ==
    [][\A v \in winners, w \in winners' \ winners :
          v.order = w.order /\ v.auction < w.auction /\ "database" \notin setup.faults =>
              \/ v.deadline <= w.block \/ IsMined(v)
              \/ "sessions" \in setup.faults /\ v.by # w.by]_vars

(* An execution reported as a success settled in its own auction; one that *)
(* timed out was not settled by its deadline, unless maintenance or the    *)
(* database failed.                                                        *)
OutcomeIsTrue ==
    \A w \in winners :
        /\ w.pc = "success" => IsMined(w)
        /\ w.pc = "timeout" /\ setup.faults \cap {"database", "maintenance"} = {} =>
              ~ \E s \in mined : Is(s, w) /\ s.block <= w.deadline

(* The two, checked together: what is recorded of winners and executions.  *)
Inv == TypeOK /\ OutcomeIsTrue

(* The maintenance that is "needed to ensure the next auction gets built   *)
(* using the most up-to-date information" (maintenance.rs) is waited for,  *)
(* and so also before the first auction of a process.                      *)
FirstAuctionIsCurrent ==
    \A i \in setup.instances, s \in mined :
        s.order \in instance[i].auction.orders => s.block > instance[i].auction.block

-----------------------------------------------------------------------------
(* Liveness *)

(* Every execution ends, with its settlement, the driver's error, its       *)
(* deadline or its process: once the auctions are over, none is left.      *)
ExecutionsEnd == <>[](\A w \in winners : w.pc \notin Running)
=============================================================================
