--------------------------- MODULE AutopilotProofs ---------------------------
(***************************************************************************)
(* What the autopilot keeps, for any values of the constants: the run loop *)
(* with any instances, orders, blocks and faults, the indexing of events   *)
(* with any bounds and, where a theorem says so, any store, and the        *)
(* selection of winners from any solutions.                                *)
(*                                                                         *)
(* An auction is current because of where each thing it is made from was   *)
(* read: a process knows what its maintenance task indexed (ProcessInv),   *)
(* its cache misses no trade up to the settlement it remembers (CacheInv), *)
(* and the winners it has to leave out are those that were there when it   *)
(* cut the auction (SolveInv), for nobody else leads until it is done      *)
(* (LeaderInv).  An execution's verdict rests on what was attributed       *)
(* before the block it waited for was announced (ExecutionInv).            *)
(*                                                                         *)
(* A store of events mirrors the chain up to the last handled block        *)
(* (Mirror) because of what the indexer holds on its stack: the blocks it  *)
(* handled are one chain's or about to be replaced (HandledInv), the range *)
(* it queries goes on from one of them (RangeInv), and what it appends     *)
(* follows on what it keeps (FollowsOn).                                   *)
(*                                                                         *)
(* The selection takes three facts about its parts: sorting lists each     *)
(* index once and in order (SortIsListing), picking one by one gives what  *)
(* is Selected, and a score is below a baseline exactly when two solvers   *)
(* exceed it alone (BaselineIsSecond).                                     *)
(***************************************************************************)
EXTENDS RunLoop, EventIndexing, WinnerSelection, Sums, FiniteSetTheorems, SequenceTheorems, TLAPS

(* The run loop *)

Cache == [auction : Auction, orders : SUBSET Order, latest : Nat \cup {-1}]
Process ==
    [pc : {"top", "wait", "read", "filter", "solve", "off"}, is_leader : BOOLEAN, block : Nat,
     fetched : Cache, cache : Cache, id : Nat, auction : Auction, prev_auction : Auction,
     prev_block : Nat, boot : Nat, taken : Nat, attributing : BOOLEAN,
     partially_processed : Nat, fully_processed : Nat]

(* A process is at no later block than the chain.  What it announced since *)
(* it was started is indexed and, unless maintenance fails, attributed.    *)
ProcessInv(p) ==
    /\ p \in Process
    /\ p.boot <= head /\ p.taken <= head /\ p.block <= head
    /\ p.pc \in {"wait", "read", "filter", "solve"} => p.boot <= p.block
    /\ p.fully_processed <= p.partially_processed /\ p.partially_processed <= head
    /\ p.pc = "read" /\ "maintenance" \notin setup.faults => p.block = p.boot \/ p.block <= indexed
    /\ p.partially_processed > p.boot \/ p.attributing => p.partially_processed <= indexed
    /\ "maintenance" \notin setup.faults /\ p.fully_processed > p.boot =>
          Settlements(p.fully_processed) \subseteq attributed

(* The orders of a cache traded only after the settlement it remembers,    *)
(* those of an auction only after its block.                               *)
Untraded(orders, b) == \A s \in mined : s.order \in orders => s.block > b
Current(p, orders, b) == "maintenance" \notin setup.faults => Untraded(orders, b) \/ b = p.boot
CacheInv(p) ==
    /\ p.cache.latest <= indexed /\ Untraded(p.cache.orders, p.cache.latest)
    /\ p.fetched.latest <= indexed /\ Untraded(p.fetched.orders, p.fetched.latest)
    /\ p.pc = "filter" => Current(p, p.fetched.orders, p.block)
    /\ p.cache.auction.block <= head /\ p.auction.block <= head
    /\ Current(p, p.cache.auction.orders, p.cache.auction.block)
    /\ Current(p, p.auction.orders, p.auction.block)

LeaderInv ==
    "sessions" \notin setup.faults => \A i \in setup.instances : instance[i].is_leader => lock = i

(* The auction that is being solved, and the winners saved before it.      *)
Later(v, b, i, M) ==
    \/ v.deadline <= b \/ \E s \in M : Is(s, v)
    \/ "sessions" \in setup.faults /\ v.by # i
SolveInv ==
    \A i \in setup.instances : instance[i].pc = "solve" =>
        LET p == instance[i]
        IN /\ p.is_leader /\ p.id \in 1..auctions
           /\ "sessions" \notin setup.faults => p.id = auctions
           /\ \A j \in setup.instances : instance[j].pc = "solve" /\ instance[j].id = p.id => i = j
           /\ \A w \in winners : w.auction # p.id /\ (w.by = i => w.auction < p.id)
           /\ "database" \notin setup.faults =>
                 \A v \in winners : v.order \in p.auction.orders => Later(v, p.auction.block, i, mined)

(* The winners, running and ended.                                         *)
WinnersInv ==
    /\ \A w \in winners : w.auction <= auctions
    /\ "database" \notin setup.faults =>
          \A v, w \in winners : v.order = w.order /\ v.auction < w.auction => Later(v, w.block, w.by, mined)
ExecutionInv ==
    \A w \in winners :
        /\ w.pc \in Running => /\ w.by \in setup.instances /\ instance[w.by].pc # "off"
                               /\ w.deadline > instance[w.by].boot
        /\ w.pc = "timeout" => w.deadline <= head

IInv ==
    /\ TypeOK
    /\ \A i \in setup.instances : ProcessInv(instance[i]) /\ CacheInv(instance[i])
    /\ instance \in [setup.instances -> Process]
    /\ LeaderInv /\ SolveInv /\ WinnersInv /\ ExecutionInv /\ OutcomeIsTrue

-----------------------------------------------------------------------------
(* The setup and the chain.                                                *)
LEMMA Facts ==
    ASSUME TypeOK
    PROVE  /\ setup.instances \subseteq Instance /\ setup.orders \subseteq Order
           /\ setup.blocks \in Nat \ {0} /\ setup.stops \in Nat
           /\ head \in Nat /\ head >= 1 /\ indexed \in Nat /\ indexed <= head /\ auctions \in Nat
           /\ \A s \in mined : s.block \in Nat \ {0} /\ s.order \in Order
           /\ \A w \in winners : /\ w.auction \in Nat /\ w.block \in Nat /\ w.deadline \in Nat
                                 /\ w.order \in Order /\ w.by \in Instance
<1>1. setup \in [instances : SUBSET Instance, orders : SUBSET Order, blocks : Nat \ {0},
                 stops : Nat, restarts : BOOLEAN, faults : SUBSET {"database", "maintenance", "sessions"}]
    BY RunLoopAssumption DEF TypeOK
<1>2. \A w \in winners : w \in Winner
    BY DEF TypeOK
<1>3. \A s \in mined : s \in [auction : 1..MaxAuctions, order : Order, block : Nat \ {0}]
    BY DEF TypeOK
<1>4. head \in 1..setup.blocks /\ indexed \in 0..head /\ auctions \in 0..MaxAuctions
    BY DEF TypeOK
<1> QED BY <1>1, <1>2, <1>3, <1>4, RunLoopAssumption DEF Winner

(* The latest settlement the database knows of is in an indexed block.     *)
LEMMA LatestIndexed ==
    ASSUME TypeOK
    PROVE  LatestSettlement \in Nat /\ LatestSettlement <= indexed
<1> DEFINE S == {0} \cup {s.block : s \in Settlements(indexed)}
<1>1. indexed \in Nat /\ S \subseteq 0..indexed /\ S # {}
    BY Facts DEF Settlements
<1>2. Max(S) \in S
    BY <1>1, MaxIsIn
<1> QED BY <1>1, <1>2 DEF LatestSettlement

-----------------------------------------------------------------------------
(* What a step leaves alone                                                *)

(* The chain gets longer, and the database learns of it.                   *)
Grows ==
    /\ setup' = setup /\ head' \in Nat /\ head' >= head
    /\ mined \subseteq mined' /\ \A s \in mined' \ mined : s.block \in Nat \ {0} /\ s.block > head
    /\ indexed' \in Nat /\ indexed' >= indexed /\ indexed' <= head' /\ attributed \subseteq attributed'

(* A process that does not move, while the chain or the database does.     *)
LEMMA ProcessKept ==
    ASSUME IInv, Grows, NEW i \in setup.instances, instance'[i] = instance[i]
    PROVE  ProcessInv(instance[i])' /\ CacheInv(instance[i])'
<1> DEFINE p == instance[i]
<1>1. TypeOK /\ ProcessInv(p) /\ CacheInv(p)
    BY DEF IInv
<1>2. p \in Process /\ p.cache \in Cache /\ p.fetched \in Cache /\ p.auction \in Auction
    BY <1>1 DEF ProcessInv, Process
<1>3. /\ p.boot \in Nat /\ p.taken \in Nat /\ p.block \in Nat
      /\ p.partially_processed \in Nat /\ p.fully_processed \in Nat
      /\ p.cache.latest \in Int /\ p.fetched.latest \in Int
      /\ p.cache.auction \in Auction /\ p.cache.auction.block \in Nat /\ p.auction.block \in Nat
    BY <1>2 DEF Process, Cache, Auction
<1>4. head \in Nat /\ indexed \in Nat /\ indexed <= head /\ \A s \in mined : s.block \in Nat
    BY <1>1, Facts
<1>5. ProcessInv(instance[i])'
    <2>1. "maintenance" \notin setup.faults /\ p.fully_processed > p.boot =>
              \A s \in mined' : s.block <= p.fully_processed => s \in attributed'
        BY <1>1, <1>3, <1>4 DEF ProcessInv, Settlements, Grows
    <2> HIDE DEF p
    <2>2. instance'[i] = p
        BY DEF p
    <2> QED BY <1>1, <1>3, <1>4, <2>1, <2>2 DEF ProcessInv, Settlements, Grows
<1>6. CacheInv(instance[i])'
    <2>1. \A b \in Int : b <= head => \A orders : Untraded(orders, b) => \A s \in mined' : s.order \in orders => s.block > b
        BY <1>4 DEF Untraded, Grows
    <2> HIDE DEF p
    <2>2. instance'[i] = p
        BY DEF p
    <2>3. setup' = setup /\ head' >= head /\ indexed' >= indexed /\ head' \in Nat /\ indexed' \in Nat
        BY DEF Grows
    <2>4. /\ p.cache.latest <= indexed' /\ \A s \in mined' : s.order \in p.cache.orders => s.block > p.cache.latest
          /\ p.fetched.latest <= indexed' /\ \A s \in mined' : s.order \in p.fetched.orders => s.block > p.fetched.latest
        BY <1>1, <1>3, <1>4, <2>1, <2>3 DEF CacheInv
    <2>5. ASSUME "maintenance" \notin setup.faults
          PROVE  /\ p.pc = "filter" => (\A s \in mined' : s.order \in p.fetched.orders => s.block > p.block) \/ p.block = p.boot
                 /\ \/ \A s \in mined' : s.order \in p.cache.auction.orders => s.block > p.cache.auction.block
                    \/ p.cache.auction.block = p.boot
                 /\ \/ \A s \in mined' : s.order \in p.auction.orders => s.block > p.auction.block
                    \/ p.auction.block = p.boot
        BY <1>1, <1>3, <1>4, <2>1, <2>5 DEF CacheInv, Current, ProcessInv
    <2>6. p.cache.auction.block <= head' /\ p.auction.block <= head'
        BY <1>1, <1>3, <1>4, <2>3 DEF CacheInv
    <2> QED BY <2>2, <2>3, <2>4, <2>5, <2>6 DEF CacheInv, Current, Untraded
<1> QED BY <1>5, <1>6

(* Winners keep what they won when their executions go on.                 *)
SameWin(v, w) ==
    /\ v.auction = w.auction /\ v.order = w.order /\ v.block = w.block
    /\ v.by = w.by /\ v.deadline = w.deadline
WinnersFrom == \A w \in winners' : \E v \in winners : SameWin(v, w)

(* No process begins to solve, and no winner is added.                     *)
LEMMA SolveKept ==
    ASSUME SolveInv, Grows, WinnersFrom, auctions' = auctions,
           \A j \in setup.instances : instance'[j].pc = "solve" =>
              /\ instance[j].pc = "solve" /\ instance'[j].is_leader = instance[j].is_leader
              /\ instance'[j].id = instance[j].id /\ instance'[j].auction = instance[j].auction
    PROVE  SolveInv'
<1> SUFFICES ASSUME NEW i \in setup.instances, instance'[i].pc = "solve"
             PROVE  LET p == instance'[i]
                    IN /\ p.is_leader /\ p.id \in 1..auctions'
                       /\ "sessions" \notin setup.faults => p.id = auctions'
                       /\ \A j \in setup.instances : instance'[j].pc = "solve" /\ instance'[j].id = p.id => i = j
                       /\ \A w \in winners' : w.auction # p.id /\ (w.by = i => w.auction < p.id)
                       /\ "database" \notin setup.faults =>
                             \A v \in winners' : v.order \in p.auction.orders => Later(v, p.auction.block, i, mined')
    BY DEF SolveInv, Grows, Later
<1> DEFINE p == instance[i]
<1>1. /\ p.pc = "solve" /\ p.is_leader /\ p.id \in 1..auctions
      /\ "sessions" \notin setup.faults => p.id = auctions
      /\ \A j \in setup.instances : instance[j].pc = "solve" /\ instance[j].id = p.id => i = j
      /\ \A w \in winners : w.auction # p.id /\ (w.by = i => w.auction < p.id)
      /\ "database" \notin setup.faults =>
             \A v \in winners : v.order \in p.auction.orders => Later(v, p.auction.block, i, mined)
    BY DEF SolveInv
<1>2. \A w \in winners' : w.auction # p.id /\ (w.by = i => w.auction < p.id)
    BY <1>1 DEF WinnersFrom, SameWin
<1>3. ASSUME "database" \notin setup.faults, NEW v \in winners', v.order \in p.auction.orders
      PROVE  Later(v, p.auction.block, i, mined')
    <2>1. PICK u \in winners : SameWin(u, v)
        BY DEF WinnersFrom
    <2>2. Later(u, p.auction.block, i, mined)
        BY <1>1, <1>3, <2>1 DEF SameWin
    <2>3. instance'[i].auction = p.auction
        OBVIOUS
    <2> QED BY <2>1, <2>2, <2>3 DEF Later, Is, SameWin, Grows
<1> QED BY <1>1, <1>2, <1>3

(* No winner is added.                                                     *)
LEMMA WinnersKept ==
    ASSUME TypeOK, WinnersInv, Grows, WinnersFrom, auctions' \in Nat, auctions' >= auctions
    PROVE  WinnersInv'
<1>1. \A w \in winners' : w.auction <= auctions'
    <2> SUFFICES ASSUME NEW w \in winners' PROVE w.auction <= auctions'
        OBVIOUS
    <2>1. PICK u \in winners : SameWin(u, w)
        BY DEF WinnersFrom
    <2>2. u.auction <= auctions /\ u.auction \in Nat /\ auctions \in Nat
        BY Facts DEF WinnersInv
    <2> QED BY <2>1, <2>2 DEF SameWin
<1>2. ASSUME "database" \notin setup.faults, NEW v \in winners', NEW w \in winners',
             v.order = w.order, v.auction < w.auction
      PROVE  Later(v, w.block, w.by, mined')
    <2>1. PICK t \in winners, u \in winners : SameWin(t, v) /\ SameWin(u, w)
        BY DEF WinnersFrom
    <2>2. Later(t, u.block, u.by, mined)
        BY <1>2, <2>1 DEF WinnersInv, SameWin
    <2> QED BY <2>1, <2>2 DEF Later, Is, SameWin, Grows
<1>3. setup' = setup
    BY DEF Grows
<1> QED BY <1>1, <1>2, <1>3 DEF WinnersInv, Later

(* Executions that do not move, while the chain may.                       *)
LEMMA ExecutionsKept ==
    ASSUME TypeOK, ExecutionInv, OutcomeIsTrue, Grows, winners' = winners,
           \A i \in setup.instances : /\ instance'[i].boot = instance[i].boot
                                      /\ instance[i].pc # "off" => instance'[i].pc # "off"
    PROVE  ExecutionInv' /\ OutcomeIsTrue'
<1>1. /\ setup' = setup /\ head' \in Nat /\ head' >= head /\ head \in Nat
      /\ mined \subseteq mined' /\ \A s \in mined' \ mined : s.block \in Nat \ {0} /\ s.block > head
      /\ \A w \in winners : w.deadline \in Nat
    BY Facts DEF Grows
<1>2. ExecutionInv'
    BY <1>1 DEF ExecutionInv
<1>3. OutcomeIsTrue'
    <2> SUFFICES ASSUME NEW w \in winners
                 PROVE  /\ w.pc = "success" => \E s \in mined' : Is(s, w)
                        /\ w.pc = "timeout" /\ setup.faults \cap {"database", "maintenance"} = {} =>
                              ~ \E s \in mined' : Is(s, w) /\ s.block <= w.deadline
        BY <1>1 DEF OutcomeIsTrue, IsMined
    <2>1. w.pc = "success" => \E s \in mined' : Is(s, w)
        BY <1>1 DEF OutcomeIsTrue, IsMined
    <2>2. w.pc = "timeout" /\ setup.faults \cap {"database", "maintenance"} = {} =>
              ~ \E s \in mined' : Is(s, w) /\ s.block <= w.deadline
        BY <1>1 DEF OutcomeIsTrue, ExecutionInv
    <2> QED BY <2>1, <2>2
<1> QED BY <1>2, <1>3

-----------------------------------------------------------------------------
(* One process moves                                                       *)

Moves(i) ==
    /\ instance' \in [setup.instances -> Process]
    /\ \A j \in setup.instances \ {i} : instance'[j] = instance[j]

(* The parts of the type invariant that follow from the others.            *)
LEMMA InstanceTypes ==
    ASSUME instance' \in [setup.instances -> Process], setup' = setup, attributed' \subseteq mined',
           \A i \in setup.instances : ProcessInv(instance[i])'
    PROVE  \A i \in setup'.instances :
              /\ instance'[i].pc \in {"top", "wait", "read", "filter", "solve", "off"}
              /\ instance'[i].is_leader \in BOOLEAN /\ instance'[i].attributing \in BOOLEAN
              /\ instance'[i].cache.auction \in Auction /\ instance'[i].auction \in Auction
              /\ instance'[i].fully_processed <= instance'[i].partially_processed
              /\ instance'[i].partially_processed <= head'
<1> SUFFICES ASSUME NEW i \in setup.instances
             PROVE  /\ instance'[i].pc \in {"top", "wait", "read", "filter", "solve", "off"}
                    /\ instance'[i].is_leader \in BOOLEAN /\ instance'[i].attributing \in BOOLEAN
                    /\ instance'[i].cache.auction \in Auction /\ instance'[i].auction \in Auction
                    /\ instance'[i].fully_processed <= instance'[i].partially_processed
                    /\ instance'[i].partially_processed <= head'
    OBVIOUS
<1>1. instance'[i] \in Process
    OBVIOUS
<1> QED BY <1>1 DEF Process, Cache, ProcessInv

(* A process goes on without a new auction.                                *)
LEMMA ProcessStep ==
    ASSUME IInv, NEW i \in setup.instances, Moves(i), Grows,
           UNCHANGED <<chain, lock, auctions, winners, stops>>, attributed' \subseteq mined,
           ProcessInv(instance[i])', CacheInv(instance[i])',
           instance'[i].boot = instance[i].boot,
           instance'[i].is_leader => instance[i].is_leader,
           instance[i].pc # "off" => instance'[i].pc # "off",
           instance'[i].pc = "solve" =>
              /\ instance[i].pc = "solve" /\ instance'[i].is_leader = instance[i].is_leader
              /\ instance'[i].id = instance[i].id /\ instance'[i].auction = instance[i].auction
    PROVE  IInv'
<1>1. /\ TypeOK /\ LeaderInv /\ SolveInv /\ WinnersInv /\ ExecutionInv /\ OutcomeIsTrue
      /\ setup' = setup /\ head' = head /\ mined' = mined /\ lock' = lock /\ auctions' = auctions
      /\ winners' = winners /\ stops' = stops
    BY DEF IInv, chain, Grows
<1>2. \A j \in setup.instances : ProcessInv(instance[j])' /\ CacheInv(instance[j])'
    BY ProcessKept DEF Moves
<1>3. WinnersFrom
    BY <1>1 DEF WinnersFrom, SameWin
<1>4. SolveInv' /\ WinnersInv'
    <2>1. SolveInv'
        BY <1>1, <1>3, SolveKept DEF Moves
    <2>2. auctions' \in Nat /\ auctions' >= auctions
        BY <1>1, Facts
    <2> QED BY <1>1, <1>3, <2>1, <2>2, WinnersKept
<1>5. ExecutionInv' /\ OutcomeIsTrue'
    BY <1>1, ExecutionsKept DEF Moves
<1>6. LeaderInv'
    BY <1>1 DEF LeaderInv, Moves
<1>7. TypeOK'
    <2>1. indexed' \in 0..head'
        BY DEF Grows
    <2>2. attributed' \subseteq mined'
        BY <1>1
    <2> QED BY <1>1, <1>2, <2>1, <2>2, InstanceTypes DEF TypeOK, Moves
<1> QED BY <1>1, <1>2, <1>4, <1>5, <1>6, <1>7 DEF IInv, Moves

(* What the invariant says of one process, its fields typed.               *)
LEMMA ProcessFacts ==
    ASSUME IInv, NEW i \in setup.instances
    PROVE  /\ TypeOK /\ ProcessInv(instance[i]) /\ CacheInv(instance[i])
           /\ instance \in [setup.instances -> Process] /\ instance[i] \in Process
           /\ instance[i].boot \in Nat /\ instance[i].block \in Nat
           /\ instance[i].partially_processed \in Nat /\ instance[i].fully_processed \in Nat
           /\ instance[i].cache \in Cache /\ instance[i].fetched \in Cache /\ instance[i].auction \in Auction
           /\ head \in Nat /\ head >= 1 /\ indexed \in Nat /\ indexed <= head /\ attributed \subseteq mined
           /\ \A s \in mined : s.block \in Nat \ {0} /\ s.order \in Order
<1>1. /\ TypeOK /\ ProcessInv(instance[i]) /\ CacheInv(instance[i])
      /\ instance \in [setup.instances -> Process] /\ instance[i] \in Process
    BY DEF IInv
<1>2. /\ head \in Nat /\ head >= 1 /\ indexed \in Nat /\ indexed <= head /\ attributed \subseteq mined
      /\ \A s \in mined : s.block \in Nat \ {0} /\ s.order \in Order
    BY <1>1, Facts DEF TypeOK
<1> QED BY <1>1, <1>2 DEF Process

(* The cache's part of the invariant is about these fields only.           *)
LEMMA CacheKept ==
    ASSUME IInv, NEW i \in setup.instances, Grows, mined' = mined,
           instance'[i].cache = instance[i].cache, instance'[i].fetched = instance[i].fetched,
           instance'[i].auction = instance[i].auction, instance'[i].boot = instance[i].boot,
           instance'[i].pc # "filter" \/ (instance[i].pc = "filter" /\ instance'[i].block = instance[i].block)
    PROVE  CacheInv(instance[i])'
<1> DEFINE p == instance[i]
           q == instance'[i]
<1>1. /\ CacheInv(p) /\ head \in Nat /\ indexed \in Nat
      /\ p.cache.latest \in Int /\ p.fetched.latest \in Int
      /\ p.cache.auction.block \in Nat /\ p.auction.block \in Nat
    BY ProcessFacts DEF Cache, Auction
<1>2. /\ setup' = setup /\ head' >= head /\ head' \in Nat /\ indexed' >= indexed /\ indexed' \in Nat
    BY DEF Grows
<1> HIDE DEF p, q
<1>3. /\ q.cache = p.cache /\ q.fetched = p.fetched /\ q.auction = p.auction /\ q.boot = p.boot
      /\ q.pc # "filter" \/ (p.pc = "filter" /\ q.block = p.block)
    BY DEF p, q
<1>4. /\ q.cache.latest <= indexed' /\ \A s \in mined' : s.order \in q.cache.orders => s.block > q.cache.latest
      /\ q.fetched.latest <= indexed' /\ \A s \in mined' : s.order \in q.fetched.orders => s.block > q.fetched.latest
      /\ q.cache.auction.block <= head' /\ q.auction.block <= head'
    BY <1>1, <1>2, <1>3 DEF CacheInv, Untraded
<1>5. ASSUME "maintenance" \notin setup.faults
      PROVE  /\ q.pc = "filter" => (\A s \in mined' : s.order \in q.fetched.orders => s.block > q.block) \/ q.block = q.boot
             /\ \/ \A s \in mined' : s.order \in q.cache.auction.orders => s.block > q.cache.auction.block
                \/ q.cache.auction.block = q.boot
             /\ \/ \A s \in mined' : s.order \in q.auction.orders => s.block > q.auction.block
                \/ q.auction.block = q.boot
    BY <1>1, <1>3, <1>5 DEF CacheInv, Current, Untraded
<1> QED BY <1>2, <1>4, <1>5 DEF CacheInv, Current, Untraded, q

(* The trades up to the head are indexed before the head is announced.     *)
LEMMA IndexStep == ASSUME IInv, NEW i \in setup.instances, Index(i) PROVE IInv'
<1>1. /\ instance[i].pc # "off" /\ indexed' = head
      /\ instance' = [instance EXCEPT ![i].taken = head, ![i].attributing = TRUE,
                                      ![i].partially_processed = head]
      /\ UNCHANGED <<chain, lock, auctions, winners, stops>>
      /\ setup' = setup /\ head' = head /\ mined' = mined /\ attributed' = attributed
    BY DEF Index, Up, At, chain
<1>2. /\ TypeOK /\ ProcessInv(instance[i]) /\ CacheInv(instance[i])
      /\ instance \in [setup.instances -> Process] /\ instance[i] \in Process
      /\ instance[i].boot \in Nat /\ instance[i].fully_processed \in Nat
      /\ instance[i].partially_processed \in Nat
      /\ head \in Nat /\ indexed \in Nat /\ indexed <= head /\ attributed \subseteq mined
      /\ \A s \in mined : s.block \in Nat
    BY ProcessFacts
<1>3. Grows
    BY <1>1, <1>2 DEF Grows
<1> DEFINE p == [instance[i] EXCEPT !.taken = head, !.attributing = TRUE, !.partially_processed = head]
<1>4. /\ p \in Process /\ p.pc = instance[i].pc /\ p.is_leader = instance[i].is_leader
      /\ p.block = instance[i].block /\ p.fetched = instance[i].fetched /\ p.cache = instance[i].cache
      /\ p.id = instance[i].id /\ p.auction = instance[i].auction /\ p.boot = instance[i].boot
      /\ p.fully_processed = instance[i].fully_processed
      /\ p.taken = head /\ p.attributing = TRUE /\ p.partially_processed = head
    BY <1>2 DEF Process
<1> HIDE DEF p
<1>5. instance' = [instance EXCEPT ![i] = p]
    BY <1>1, <1>2 DEF p
<1>6. Moves(i) /\ instance'[i] = p
    BY <1>2, <1>4, <1>5 DEF Moves
<1>7. ProcessInv(instance[i])'
    BY <1>1, <1>2, <1>4, <1>6 DEF ProcessInv, Settlements
<1>8. CacheInv(instance[i])'
    BY <1>1, <1>3, <1>4, <1>6, CacheKept
<1> QED BY <1>1, <1>2, <1>3, <1>4, <1>6, <1>7, <1>8, ProcessStep

(* A failure to index moves nothing but the block that was taken.          *)
LEMMA IndexFailsStep == ASSUME IInv, NEW i \in setup.instances, IndexFails(i) PROVE IInv'
<1>1. /\ instance' = [instance EXCEPT ![i].taken = head]
      /\ UNCHANGED <<chain, lock, auctions, winners, stops>>
      /\ setup' = setup /\ head' = head /\ mined' = mined /\ attributed' = attributed /\ indexed' = indexed
    BY DEF IndexFails, chain, database
<1>2. /\ ProcessInv(instance[i])
      /\ instance \in [setup.instances -> Process] /\ instance[i] \in Process
      /\ head \in Nat /\ indexed \in Nat /\ indexed <= head /\ attributed \subseteq mined
    BY ProcessFacts
<1>3. Grows
    BY <1>1, <1>2 DEF Grows
<1> DEFINE p == [instance[i] EXCEPT !.taken = head]
<1>4. /\ p \in Process /\ p.pc = instance[i].pc /\ p.is_leader = instance[i].is_leader
      /\ p.block = instance[i].block /\ p.fetched = instance[i].fetched /\ p.cache = instance[i].cache
      /\ p.id = instance[i].id /\ p.auction = instance[i].auction /\ p.boot = instance[i].boot
      /\ p.fully_processed = instance[i].fully_processed /\ p.attributing = instance[i].attributing
      /\ p.taken = head /\ p.partially_processed = instance[i].partially_processed
    BY <1>2 DEF Process
<1> HIDE DEF p
<1>5. instance' = [instance EXCEPT ![i] = p]
    BY <1>1, <1>2 DEF p
<1>6. Moves(i) /\ instance'[i] = p
    BY <1>2, <1>4, <1>5 DEF Moves
<1>7. ProcessInv(instance[i])'
    BY <1>1, <1>2, <1>4, <1>6 DEF ProcessInv, Settlements
<1>8. CacheInv(instance[i])'
    BY <1>1, <1>3, <1>4, <1>6, CacheKept
<1> QED BY <1>1, <1>2, <1>3, <1>4, <1>6, <1>7, <1>8, ProcessStep

(* Settlements are attributed before their block is announced in full.     *)
LEMMA AttributeStep == ASSUME IInv, NEW i \in setup.instances, Attribute(i) PROVE IInv'
<1>1. /\ instance[i].attributing
      /\ UNCHANGED <<chain, lock, auctions, winners, stops>>
      /\ setup' = setup /\ head' = head /\ mined' = mined /\ indexed' = indexed
    BY DEF Attribute, chain
<1>2. /\ ProcessInv(instance[i])
      /\ instance \in [setup.instances -> Process] /\ instance[i] \in Process
      /\ instance[i].boot \in Nat /\ instance[i].partially_processed \in Nat
      /\ instance[i].fully_processed \in Nat
      /\ head \in Nat /\ indexed \in Nat /\ indexed <= head /\ attributed \subseteq mined
      /\ \A s \in mined : s.block \in Nat
    BY ProcessFacts
<1>3. /\ attributed \subseteq attributed' /\ attributed' \subseteq mined
      /\ "maintenance" \notin setup.faults => Settlements(indexed) \subseteq attributed'
    <2>1. PICK failed \in SUBSET (Settlements(indexed) \ attributed) :
             /\ failed # {} => "maintenance" \in setup.faults
             /\ attributed' = attributed \cup (Settlements(indexed) \ failed)
        BY DEF Attribute
    <2> QED BY <1>2, <2>1 DEF Settlements
<1>4. Grows
    BY <1>1, <1>2, <1>3 DEF Grows
<1>5. PICK b \in {instance[i].fully_processed, instance[i].partially_processed} :
         instance' = [instance EXCEPT ![i] = [@ EXCEPT !.attributing = FALSE, !.fully_processed = b]]
    <2> DEFINE ended == [instance EXCEPT ![i].attributing = FALSE]
    <2>1. CASE instance' = ended
        <3>1. ended = [instance EXCEPT ![i] = [@ EXCEPT !.attributing = FALSE,
                                                        !.fully_processed = instance[i].fully_processed]]
            BY <1>2 DEF Process
        <3> QED BY <2>1, <3>1
    <2>2. CASE instance' = [ended EXCEPT ![i].fully_processed = ended[i].partially_processed]
        <3>1. ended[i] = [instance[i] EXCEPT !.attributing = FALSE]
            BY <1>2
        <3>2. ended[i].partially_processed = instance[i].partially_processed
            BY <1>2, <3>1 DEF Process
        <3>3. [ended EXCEPT ![i].fully_processed = instance[i].partially_processed] =
                 [instance EXCEPT ![i] = [@ EXCEPT !.attributing = FALSE,
                                                   !.fully_processed = instance[i].partially_processed]]
            BY <1>2
        <3> QED BY <2>2, <3>2, <3>3
    <2> QED BY <2>1, <2>2 DEF Attribute
<1> DEFINE p == [instance[i] EXCEPT !.attributing = FALSE, !.fully_processed = b]
<1>6. /\ p \in Process /\ p.pc = instance[i].pc /\ p.is_leader = instance[i].is_leader
      /\ p.block = instance[i].block /\ p.fetched = instance[i].fetched /\ p.cache = instance[i].cache
      /\ p.id = instance[i].id /\ p.auction = instance[i].auction /\ p.boot = instance[i].boot
      /\ p.fully_processed = b /\ p.attributing = FALSE
      /\ p.taken = instance[i].taken /\ p.partially_processed = instance[i].partially_processed
    BY <1>2 DEF Process
<1> HIDE DEF p
<1>7. instance' = [instance EXCEPT ![i] = p]
    BY <1>5 DEF p
<1>8. Moves(i) /\ instance'[i] = p
    BY <1>2, <1>6, <1>7 DEF Moves
<1>9. ProcessInv(instance[i])'
    <2>1. "maintenance" \notin setup.faults /\ b > instance[i].boot =>
              \A s \in mined : s.block <= b => s \in attributed'
        BY <1>1, <1>2, <1>3 DEF ProcessInv, Settlements
    <2> QED BY <1>1, <1>2, <1>6, <1>8, <2>1 DEF ProcessInv, Settlements
<1>10. CacheInv(instance[i])'
    BY <1>1, <1>4, <1>6, <1>8, CacheKept
<1> QED BY <1>1, <1>2, <1>3, <1>4, <1>6, <1>8, <1>9, <1>10, ProcessStep

(* The block of an iteration is indexed, or the process started at it.     *)
LEMMA SyncsStep == ASSUME IInv, NEW i \in setup.instances, Syncs(i) PROVE IInv'
<1>1. PICK b \in instance[i].block..head :
         /\ instance[i].pc = "wait"
         /\ instance[i].partially_processed >= b \/ "maintenance" \in setup.faults
         /\ instance' = [instance EXCEPT ![i].pc = "read", ![i].block = b]
    BY DEF Syncs, At
<1>2. /\ UNCHANGED <<chain, lock, auctions, winners, stops>>
      /\ setup' = setup /\ head' = head /\ mined' = mined /\ attributed' = attributed /\ indexed' = indexed
    BY DEF Syncs, chain, database
<1>3. /\ ProcessInv(instance[i])
      /\ instance \in [setup.instances -> Process] /\ instance[i] \in Process
      /\ instance[i].boot \in Nat /\ instance[i].block \in Nat /\ instance[i].partially_processed \in Nat
      /\ head \in Nat /\ indexed \in Nat /\ indexed <= head /\ attributed \subseteq mined
    BY ProcessFacts
<1>4. Grows
    BY <1>2, <1>3 DEF Grows
<1> DEFINE p == [instance[i] EXCEPT !.pc = "read", !.block = b]
<1>5. /\ p \in Process /\ p.pc = "read" /\ p.is_leader = instance[i].is_leader
      /\ p.block = b /\ p.fetched = instance[i].fetched /\ p.cache = instance[i].cache
      /\ p.id = instance[i].id /\ p.auction = instance[i].auction /\ p.boot = instance[i].boot
      /\ p.fully_processed = instance[i].fully_processed /\ p.attributing = instance[i].attributing
      /\ p.taken = instance[i].taken /\ p.partially_processed = instance[i].partially_processed
    <2>1. b \in Nat
        BY <1>3
    <2> QED BY <1>3, <2>1 DEF Process
<1> HIDE DEF p
<1>6. instance' = [instance EXCEPT ![i] = p]
    BY <1>1, <1>3 DEF p
<1>7. Moves(i) /\ instance'[i] = p
    BY <1>3, <1>5, <1>6 DEF Moves
<1>8. ProcessInv(instance[i])'
    <2>1. b \in Nat /\ b <= head /\ b >= instance[i].boot
        BY <1>1, <1>3 DEF ProcessInv
    <2>2. "maintenance" \notin setup.faults => b = instance[i].boot \/ b <= indexed
        BY <1>1, <1>3, <2>1 DEF ProcessInv
    <2> QED BY <1>2, <1>3, <1>5, <1>7, <2>1, <2>2 DEF ProcessInv, Settlements
<1>9. CacheInv(instance[i])'
    BY <1>2, <1>4, <1>5, <1>7, CacheKept
<1> QED BY <1>1, <1>2, <1>3, <1>4, <1>5, <1>7, <1>8, <1>9, ProcessStep

(* What is left of an iteration when the next begins.                      *)
LEMMA NoCacheType == NoCache \in Cache /\ NoCache.orders = {} /\ NoCache.latest = -1 /\
                     NoCache.auction = NoAuction /\ NoAuction \in Auction /\
                     NoAuction.block = 0 /\ NoAuction.orders = {}
<1>1. NoAuction \in Auction /\ NoAuction.block = 0 /\ NoAuction.orders = {}
    BY DEF NoAuction, Auction
<1> HIDE DEF NoAuction
<1>2. NoCache.orders = {} /\ NoCache.latest = -1 /\ NoCache.auction = NoAuction
    BY DEF NoCache
<1>3. NoCache \in Cache
    BY <1>1 DEF NoCache, Cache
<1> QED BY <1>1, <1>2, <1>3

(* An iteration's end, field by field.                                     *)
LEMMA TopFacts ==
    ASSUME NEW p \in Process
    PROVE  /\ Top(p) \in Process /\ Top(p).pc = "top" /\ Top(p).is_leader = p.is_leader
           /\ Top(p).block = 0 /\ Top(p).fetched = NoCache /\ Top(p).cache = p.cache
           /\ Top(p).auction = NoAuction /\ Top(p).boot = p.boot /\ Top(p).taken = p.taken
           /\ Top(p).attributing = p.attributing
           /\ Top(p).partially_processed = p.partially_processed
           /\ Top(p).fully_processed = p.fully_processed
<1> DEFINE q == [p EXCEPT !.pc = "top", !.block = 0, !.fetched = NoCache, !.id = 0,
                          !.auction = NoAuction]
<1>1. Top(p) = q
    BY DEF Top
<1>2. /\ q \in Process /\ q.pc = "top" /\ q.is_leader = p.is_leader
      /\ q.block = 0 /\ q.fetched = NoCache /\ q.cache = p.cache
      /\ q.auction = NoAuction /\ q.boot = p.boot /\ q.taken = p.taken
      /\ q.attributing = p.attributing /\ q.partially_processed = p.partially_processed
      /\ q.fully_processed = p.fully_processed
    <2> HIDE DEF NoCache, NoAuction
    <2> QED BY NoCacheType DEF Process
<1> QED BY <1>1, <1>2

(* The auction a process cuts, if it does.                                 *)
LEMMA NextFacts ==
    ASSUME NEW p \in Process, auctions \in 0..MaxAuctions,
           NEW next, next = IF p.is_leader THEN NextAuction(p) ELSE Top(p)
    PROVE  /\ next \in Process /\ next.is_leader = p.is_leader /\ next.cache = p.cache
           /\ next.boot = p.boot /\ next.taken = p.taken /\ next.attributing = p.attributing
           /\ next.partially_processed = p.partially_processed
           /\ next.fully_processed = p.fully_processed /\ next.fetched = NoCache
           /\ \/ next.pc = "top" /\ next.block = 0 /\ next.auction = NoAuction
              \/ /\ next.pc = "solve" /\ next.is_leader /\ next.block = p.block
                 /\ next.id = auctions + 1 /\ next.auction = p.cache.auction
                 /\ auctions + 1 \in 1..MaxAuctions
<1> DEFINE auction == p.cache.auction
           same == auction = p.prev_auction
           b == IF same THEN p.block ELSE p.prev_block
           cut == [p EXCEPT !.prev_auction = auction, !.prev_block = b, !.fetched = NoCache]
           solve == [cut EXCEPT !.pc = "solve", !.id = auctions + 1, !.auction = auction]
<1>1. auction \in Auction /\ b \in Nat
    BY DEF Process, Cache
<1> HIDE DEF b, auction
<1>2. /\ cut \in Process /\ cut.is_leader = p.is_leader /\ cut.cache = p.cache /\ cut.block = p.block
      /\ cut.boot = p.boot /\ cut.taken = p.taken /\ cut.attributing = p.attributing
      /\ cut.partially_processed = p.partially_processed
      /\ cut.fully_processed = p.fully_processed /\ cut.fetched = NoCache
    <2> HIDE DEF NoCache
    <2> QED BY <1>1, NoCacheType DEF Process
<1> HIDE DEF cut
<1>3. /\ solve \in Process /\ solve.is_leader = p.is_leader /\ solve.cache = p.cache
      /\ solve.block = p.block
      /\ solve.boot = p.boot /\ solve.taken = p.taken /\ solve.attributing = p.attributing
      /\ solve.partially_processed = p.partially_processed
      /\ solve.fully_processed = p.fully_processed /\ solve.fetched = NoCache
      /\ solve.pc = "solve" /\ solve.id = auctions + 1 /\ solve.auction = auction
    <2>1. auctions + 1 \in Nat
        BY RunLoopAssumption
    <2> QED BY <1>1, <1>2, <2>1 DEF Process
<1> HIDE DEF solve
<1>4. CASE next = Top(p) \/ next = Top(cut)
    BY <1>2, <1>4, TopFacts
<1>5. CASE next = solve /\ p.is_leader /\ auctions # MaxAuctions
    <2>1. auctions + 1 \in 1..MaxAuctions
        BY <1>5, RunLoopAssumption
    <2> QED BY <1>3, <1>5, <2>1 DEF auction
<1>6. \/ next = Top(p) \/ next = Top(cut)
      \/ next = solve /\ p.is_leader /\ auctions # MaxAuctions
    BY DEF NextAuction, solve, cut, b, auction
<1> QED BY <1>4, <1>5, <1>6

(* An iteration without solutions ends.                                    *)
LEMMA NoSolutionsStep == ASSUME IInv, NEW i \in setup.instances, NoSolutions(i) PROVE IInv'
<1>1. /\ instance' = [instance EXCEPT ![i] = Top(instance[i])] /\ instance[i].pc = "solve"
      /\ UNCHANGED <<chain, lock, auctions, winners, stops>>
      /\ setup' = setup /\ head' = head /\ mined' = mined /\ attributed' = attributed /\ indexed' = indexed
    BY DEF NoSolutions, EndsRun, At, chain, database
<1>2. /\ ProcessInv(instance[i]) /\ CacheInv(instance[i])
      /\ instance \in [setup.instances -> Process] /\ instance[i] \in Process
      /\ head \in Nat /\ indexed \in Nat /\ indexed <= head /\ attributed \subseteq mined
    BY ProcessFacts
<1>3. Grows
    BY <1>1, <1>2 DEF Grows
<1> DEFINE p == Top(instance[i])
<1>4. /\ p \in Process /\ p.pc = "top" /\ p.is_leader = instance[i].is_leader
      /\ p.block = 0 /\ p.fetched = NoCache /\ p.cache = instance[i].cache
      /\ p.auction = NoAuction /\ p.boot = instance[i].boot
      /\ p.fully_processed = instance[i].fully_processed /\ p.attributing = instance[i].attributing
      /\ p.taken = instance[i].taken /\ p.partially_processed = instance[i].partially_processed
    BY <1>2, TopFacts
<1> HIDE DEF p
<1>5. Moves(i) /\ instance'[i] = p
    <2>1. instance' = [instance EXCEPT ![i] = p]
        BY <1>1 DEF p
    <2> QED BY <1>2, <1>4, <2>1 DEF Moves
<1>6. ProcessInv(instance[i])'
    BY <1>1, <1>2, <1>4, <1>5 DEF ProcessInv, Settlements
<1>7. CacheInv(instance[i])'
    <2> HIDE DEF NoCache, NoAuction
    <2> QED BY <1>1, <1>2, <1>4, <1>5, NoCacheType DEF CacheInv, Current, Untraded
<1> QED BY <1>1, <1>2, <1>3, <1>4, <1>5, <1>6, <1>7, ProcessStep

(* No trade up to the indexed block is missed: the cache's orders had not  *)
(* traded by the settlement it remembers, and later trades are read.       *)
LEMMA ReadsOrdersStep == ASSUME IInv, NEW i \in setup.instances, ReadsOrders(i) PROVE IInv'
<1> DEFINE orders == IF instance[i].cache = NoCache THEN Open
                     ELSE instance[i].cache.orders \ Traded(instance[i].cache.latest)
           fetched == [NoCache EXCEPT !.orders = orders, !.latest = LatestSettlement]
           p == [instance[i] EXCEPT !.pc = "filter", !.fetched = fetched]
<1>1. /\ instance[i].pc = "read"
      /\ instance' = [instance EXCEPT ![i].pc = "filter", ![i].fetched = fetched]
      /\ UNCHANGED <<chain, lock, auctions, winners, stops>>
      /\ setup' = setup /\ head' = head /\ mined' = mined /\ attributed' = attributed /\ indexed' = indexed
    BY DEF ReadsOrders, At, chain, database
<1>2. /\ TypeOK /\ ProcessInv(instance[i]) /\ CacheInv(instance[i])
      /\ instance \in [setup.instances -> Process] /\ instance[i] \in Process
      /\ instance[i].boot \in Nat /\ instance[i].block \in Nat /\ instance[i].cache \in Cache
      /\ head \in Nat /\ indexed \in Nat /\ indexed <= head /\ attributed \subseteq mined
      /\ \A s \in mined : s.block \in Nat \ {0}
    BY ProcessFacts
<1>3. Grows
    BY <1>1, <1>2 DEF Grows
<1>4. LatestSettlement \in Nat /\ LatestSettlement <= indexed
    BY <1>2, LatestIndexed
<1>5. orders \subseteq Order /\ \A s \in mined : s.order \in orders => s.block > indexed
    <2>1. CASE instance[i].cache = NoCache
        <3>1. orders = setup.orders \ Traded(0)
            BY <2>1 DEF Open
        <3>2. \A s \in mined : s.block <= indexed => s.order \in Traded(0)
            BY <1>2 DEF Traded, Settlements
        <3> QED BY <1>2, <3>1, <3>2, Facts
    <2>2. CASE instance[i].cache # NoCache
        <3>1. instance[i].cache.orders \subseteq Order /\ instance[i].cache.latest \in Int
            BY <1>2 DEF Cache
        <3>2. \A s \in mined : s.order \in instance[i].cache.orders => s.block > instance[i].cache.latest
            BY <1>2 DEF CacheInv, Untraded
        <3>3. \A s \in mined : s.block <= indexed /\ s.block > instance[i].cache.latest =>
                 s.order \in Traded(instance[i].cache.latest)
            BY <1>2, <3>1 DEF Traded, Settlements
        <3> QED BY <1>2, <2>2, <3>1, <3>2, <3>3
    <2> QED BY <2>1, <2>2
<1>6. fetched \in Cache /\ fetched.orders = orders /\ fetched.latest = LatestSettlement
    <2> HIDE DEF orders, NoCache
    <2> QED BY <1>4, <1>5, NoCacheType DEF Cache
<1> HIDE DEF orders, fetched
<1>7. /\ p \in Process /\ p.pc = "filter" /\ p.is_leader = instance[i].is_leader
      /\ p.block = instance[i].block /\ p.fetched = fetched /\ p.cache = instance[i].cache
      /\ p.id = instance[i].id /\ p.auction = instance[i].auction /\ p.boot = instance[i].boot
      /\ p.fully_processed = instance[i].fully_processed /\ p.attributing = instance[i].attributing
      /\ p.taken = instance[i].taken /\ p.partially_processed = instance[i].partially_processed
    BY <1>2, <1>6 DEF Process
<1>8. instance' = [instance EXCEPT ![i] = p]
    BY <1>1, <1>2
<1> HIDE DEF p
<1>9. Moves(i) /\ instance'[i] = p
    BY <1>2, <1>7, <1>8 DEF Moves
<1>10. ProcessInv(instance[i])'
    BY <1>1, <1>2, <1>7, <1>9 DEF ProcessInv, Settlements
<1>11. CacheInv(instance[i])'
    <2>1. "maintenance" \notin setup.faults => instance[i].block = instance[i].boot \/ instance[i].block <= indexed
        BY <1>1, <1>2 DEF ProcessInv
    <2>2. fetched.latest <= indexed /\ \A s \in mined : s.order \in fetched.orders => s.block > fetched.latest
        BY <1>2, <1>4, <1>5, <1>6
    <2>3. "maintenance" \notin setup.faults =>
             \/ \A s \in mined : s.order \in fetched.orders => s.block > instance[i].block
             \/ instance[i].block = instance[i].boot
        BY <1>2, <1>5, <1>6, <2>1
    <2> QED BY <1>1, <1>2, <1>7, <1>9, <2>2, <2>3 DEF CacheInv, Current, Untraded
<1> QED BY <1>1, <1>2, <1>3, <1>7, <1>9, <1>10, <1>11, ProcessStep

(* The cache p has is as good as the process's own, and its auction leaves *)
(* out who is in flight: the process may cut it.                           *)
LEMMA ContinuesStep ==
    ASSUME IInv, NEW i \in setup.instances, instance[i].pc \in {"read", "filter"},
           NEW p \in Process, Continues(i, p),
           p.is_leader = instance[i].is_leader /\ p.block = instance[i].block,
           p.auction = instance[i].auction /\ p.boot = instance[i].boot /\ p.taken = instance[i].taken,
           p.attributing = instance[i].attributing,
           p.partially_processed = instance[i].partially_processed,
           p.fully_processed = instance[i].fully_processed,
           p.cache.latest <= indexed /\ Untraded(p.cache.orders, p.cache.latest),
           p.cache.auction.block <= head,
           Current(p, p.cache.auction.orders, p.cache.auction.block),
           "database" \notin setup.faults =>
              \A v \in winners : v.order \in p.cache.auction.orders => Later(v, p.cache.auction.block, i, mined)
    PROVE  IInv'
<1> DEFINE next == IF p.is_leader THEN NextAuction(p) ELSE Top(p)
<1>1. /\ instance' = [instance EXCEPT ![i] = next]
      /\ auctions' = IF next.pc = "solve" THEN auctions + 1 ELSE auctions
      /\ UNCHANGED <<chain, lock, winners, stops>>
      /\ setup' = setup /\ head' = head /\ mined' = mined /\ attributed' = attributed /\ indexed' = indexed
      /\ lock' = lock /\ winners' = winners /\ stops' = stops
    BY DEF Continues, chain
<1>2. /\ TypeOK /\ ProcessInv(instance[i]) /\ CacheInv(instance[i])
      /\ instance \in [setup.instances -> Process] /\ instance[i] \in Process
      /\ instance[i].block \in Nat
      /\ head \in Nat /\ indexed \in Nat /\ indexed <= head /\ attributed \subseteq mined
    BY ProcessFacts
<1>3. auctions \in 0..MaxAuctions
    BY <1>2 DEF TypeOK
<1>4. /\ next \in Process /\ next.is_leader = p.is_leader /\ next.cache = p.cache
      /\ next.boot = p.boot /\ next.taken = p.taken /\ next.attributing = p.attributing
      /\ next.partially_processed = p.partially_processed
      /\ next.fully_processed = p.fully_processed /\ next.fetched = NoCache
      /\ \/ next.pc = "top" /\ next.block = 0 /\ next.auction = NoAuction
         \/ /\ next.pc = "solve" /\ next.is_leader /\ next.block = p.block
            /\ next.id = auctions + 1 /\ next.auction = p.cache.auction
            /\ auctions + 1 \in 1..MaxAuctions
    BY <1>3, NextFacts
<1> HIDE DEF next
<1>5. Grows
    BY <1>1, <1>2 DEF Grows
<1>6. Moves(i) /\ instance'[i] = next
    BY <1>1, <1>2, <1>4 DEF Moves
<1>7. ProcessInv(instance[i])'
    BY <1>1, <1>2, <1>4, <1>6 DEF ProcessInv, Settlements
<1>8. CacheInv(instance[i])'
    <2> HIDE DEF NoCache, NoAuction
    <2> QED BY <1>1, <1>2, <1>4, <1>6, NoCacheType DEF CacheInv, Current, Untraded
<1>9. CASE next.pc # "solve"
    <2>1. auctions' = auctions
        BY <1>1, <1>9
    <2> QED BY <1>1, <1>2, <1>4, <1>5, <1>6, <1>7, <1>8, <1>9, <2>1, ProcessStep
<1>10. CASE next.pc = "solve"
    <2>1. /\ next.is_leader /\ next.id = auctions + 1 /\ next.auction = p.cache.auction
          /\ auctions' = auctions + 1 /\ auctions' \in 1..MaxAuctions /\ auctions \in Nat
        BY <1>1, <1>3, <1>4, <1>10
    <2>2. LeaderInv /\ SolveInv /\ WinnersInv /\ ExecutionInv /\ OutcomeIsTrue
        BY DEF IInv
    <2>3. \A j \in setup.instances : ProcessInv(instance[j])' /\ CacheInv(instance[j])'
        BY <1>5, <1>6, <1>7, <1>8, ProcessKept DEF Moves
    <2>4. LeaderInv'
        BY <1>1, <1>4, <1>6, <2>2 DEF LeaderInv, Moves
    <2>5. WinnersFrom
        BY <1>1 DEF WinnersFrom, SameWin
    <2>6. WinnersInv'
        BY <1>2, <1>5, <2>1, <2>2, <2>5, WinnersKept
    <2>7. ExecutionInv' /\ OutcomeIsTrue'
        BY <1>1, <1>2, <1>4, <1>5, <1>6, <2>2, ExecutionsKept DEF Moves
    <2>8. TypeOK'
        <3>1. attributed' \subseteq mined'
            BY <1>1, <1>2
        <3>2. /\ setup' \in Setups /\ head' \in 1..setup'.blocks /\ stops' \in 0..setup'.stops
              /\ mined' \subseteq [auction : 1..MaxAuctions, order : Order, block : Nat \ {0}]
              /\ lock' \in Instance \cup {NoOne} /\ indexed' \in 0..head'
              /\ auctions' \in 0..MaxAuctions /\ winners' \subseteq Winner
              /\ \A v, w \in winners' : v.auction = w.auction /\ v.order = w.order => v = w
            BY <1>1, <1>2, <2>1 DEF TypeOK
        <3> QED BY <1>1, <1>6, <2>3, <3>1, <3>2, InstanceTypes DEF TypeOK, Moves
    <2>9. SolveInv'
        <3> SUFFICES ASSUME NEW j \in setup.instances, instance'[j].pc = "solve"
                     PROVE  LET q == instance'[j]
                            IN /\ q.is_leader /\ q.id \in 1..auctions'
                               /\ "sessions" \notin setup.faults => q.id = auctions'
                               /\ \A k \in setup.instances : instance'[k].pc = "solve" /\ instance'[k].id = q.id => j = k
                               /\ \A w \in winners : w.auction # q.id /\ (w.by = j => w.auction < q.id)
                               /\ "database" \notin setup.faults =>
                                     \A v \in winners : v.order \in q.auction.orders =>
                                         Later(v, q.auction.block, j, mined)
            BY <1>1 DEF SolveInv, Later
        <3>1. \A k \in setup.instances \ {i} : instance'[k].pc = "solve" =>
                 instance[k].is_leader /\ instance[k].id \in 1..auctions
            BY <1>6, <2>2 DEF SolveInv, Moves
        <3>2. \A w \in winners : w.auction <= auctions /\ w.auction \in Nat
            BY <1>2, <2>2, Facts DEF WinnersInv
        <3>3. CASE j = i
            BY <1>4, <1>6, <2>1, <3>1, <3>2, <3>3 DEF Moves
        <3>4. CASE j # i
            <4>1. instance'[j] = instance[j] /\ instance[j].is_leader
                BY <1>6, <3>1, <3>4 DEF Moves
            <4>2. "sessions" \in setup.faults
                BY <1>4, <2>1, <2>2, <3>4, <4>1 DEF LeaderInv
            <4>3. /\ instance[j].id \in 1..auctions
                  /\ \A k \in setup.instances : instance[k].pc = "solve" /\ instance[k].id = instance[j].id => j = k
                  /\ \A w \in winners : w.auction # instance[j].id /\ (w.by = j => w.auction < instance[j].id)
                  /\ "database" \notin setup.faults =>
                        \A v \in winners : v.order \in instance[j].auction.orders =>
                            Later(v, instance[j].auction.block, j, mined)
                BY <2>2, <4>1 DEF SolveInv
            <4> QED BY <1>4, <1>6, <2>1, <3>1, <4>1, <4>2, <4>3 DEF Moves
        <3> QED BY <3>3, <3>4
    <2> QED BY <1>1, <1>6, <2>3, <2>4, <2>6, <2>7, <2>8, <2>9 DEF IInv, Moves
<1> QED BY <1>9, <1>10

(* The auction leaves out the orders that are in flight.                   *)
LEMMA UpdatesCacheStep == ASSUME IInv, NEW i \in setup.instances, UpdatesCache(i) PROVE IInv'
<1> DEFINE fetched == instance[i].fetched
<1>1. PICK in_flight \in {InFlight(instance[i].block)}
                         \cup (IF "database" \in setup.faults THEN {{}} ELSE {}) :
         Continues(i, [instance[i] EXCEPT !.cache =
                          [fetched EXCEPT !.auction = [block |-> instance[i].block,
                                                       orders |-> fetched.orders \ in_flight]]])
    BY DEF UpdatesCache
<1>2. /\ instance[i].pc = "filter"
      /\ TypeOK /\ ProcessInv(instance[i]) /\ CacheInv(instance[i])
      /\ instance[i] \in Process /\ instance[i].fetched \in Cache /\ instance[i].block \in Nat
      /\ attributed \subseteq mined
    BY ProcessFacts DEF UpdatesCache, At
<1> DEFINE auction == [block |-> instance[i].block, orders |-> fetched.orders \ in_flight]
           cache == [fetched EXCEPT !.auction = auction]
           p == [instance[i] EXCEPT !.cache = cache]
<1>3. auction \in Auction /\ auction.block = instance[i].block /\ auction.orders \subseteq fetched.orders
    BY <1>2 DEF Auction, Cache
<1>4. "database" \notin setup.faults =>
         \A v \in winners : v.order \in auction.orders => Later(v, auction.block, i, mined)
    <2> SUFFICES ASSUME "database" \notin setup.faults, NEW v \in winners, v.order \in auction.orders
                 PROVE  Later(v, auction.block, i, mined)
        OBVIOUS
    <2>1. v.order \notin InFlight(instance[i].block)
        OBVIOUS
    <2>2. ~(v.deadline > instance[i].block) \/ IsAttributed(v)
        BY <2>1 DEF InFlight
    <2>3. v.deadline \in Nat
        BY <1>2, Facts
    <2> QED BY <1>2, <2>2, <2>3 DEF Later, IsAttributed
<1> HIDE DEF auction
<1>5. /\ cache \in Cache /\ cache.auction = auction /\ cache.orders = fetched.orders
      /\ cache.latest = fetched.latest
    BY <1>2, <1>3 DEF Cache
<1> HIDE DEF cache
<1>6. /\ p \in Process /\ p.cache = cache /\ p.is_leader = instance[i].is_leader
      /\ p.block = instance[i].block /\ p.auction = instance[i].auction /\ p.boot = instance[i].boot
      /\ p.taken = instance[i].taken /\ p.attributing = instance[i].attributing
      /\ p.partially_processed = instance[i].partially_processed
      /\ p.fully_processed = instance[i].fully_processed
    BY <1>2, <1>5 DEF Process
<1>7. Continues(i, p)
    BY <1>1 DEF cache, auction
<1> HIDE DEF p
<1>8. /\ p.cache.latest <= indexed /\ Untraded(p.cache.orders, p.cache.latest)
      /\ p.cache.auction.block <= head /\ Current(p, p.cache.auction.orders, p.cache.auction.block)
    <2>1. /\ fetched.latest <= indexed /\ Untraded(fetched.orders, fetched.latest)
          /\ Current(instance[i], fetched.orders, instance[i].block) /\ instance[i].block <= head
        BY <1>2 DEF CacheInv, ProcessInv
    <2>2. "maintenance" \notin setup.faults =>
             Untraded(auction.orders, auction.block) \/ auction.block = p.boot
        BY <1>3, <1>6, <2>1 DEF Current, Untraded
    <2> QED BY <1>3, <1>5, <1>6, <2>1, <2>2 DEF Current
<1>9. "database" \notin setup.faults =>
         \A v \in winners : v.order \in p.cache.auction.orders => Later(v, p.cache.auction.block, i, mined)
    BY <1>4, <1>5, <1>6
<1> QED BY <1>2, <1>6, <1>7, <1>8, <1>9, ContinuesStep

(* A cache that is kept was true before.                                   *)
LEMMA UpdateFailsStep == ASSUME IInv, NEW i \in setup.instances, UpdateFails(i) PROVE IInv'
<1>1. /\ "database" \in setup.faults /\ instance[i].pc \in {"read", "filter"}
      /\ Continues(i, instance[i])
    BY DEF UpdateFails
<1>2. CacheInv(instance[i]) /\ instance[i] \in Process
    BY ProcessFacts
<1> QED BY <1>1, <1>2, ContinuesStep DEF CacheInv

(* Only the holder of the lock leads.                                      *)
LEMMA TryAcquireStep == ASSUME IInv, NEW i \in setup.instances, TryAcquire(i) PROVE IInv'
<1>1. /\ instance[i].pc = "top"
      /\ (lock = NoOne /\ lock' = i) \/ lock' = lock
      /\ instance' = [instance EXCEPT ![i].pc = "wait", ![i].block = head, ![i].is_leader = lock' = i]
      /\ UNCHANGED <<setup, chain, database, stops>>
      /\ setup' = setup /\ head' = head /\ mined' = mined /\ attributed' = attributed /\ indexed' = indexed
      /\ auctions' = auctions /\ winners' = winners /\ stops' = stops
    BY DEF TryAcquire, At, chain, database
<1>2. /\ TypeOK /\ ProcessInv(instance[i])
      /\ instance \in [setup.instances -> Process] /\ instance[i] \in Process
      /\ instance[i].boot \in Nat
      /\ head \in Nat /\ indexed \in Nat /\ indexed <= head /\ attributed \subseteq mined
    BY ProcessFacts
<1>3. Grows
    BY <1>1, <1>2 DEF Grows
<1> DEFINE leads == lock' = i
           p == [instance[i] EXCEPT !.pc = "wait", !.block = head, !.is_leader = leads]
<1>4. leads \in BOOLEAN
    OBVIOUS
<1> HIDE DEF leads
<1>5. /\ p \in Process /\ p.pc = "wait" /\ p.is_leader = leads
      /\ p.block = head /\ p.fetched = instance[i].fetched /\ p.cache = instance[i].cache
      /\ p.auction = instance[i].auction /\ p.boot = instance[i].boot
      /\ p.fully_processed = instance[i].fully_processed /\ p.attributing = instance[i].attributing
      /\ p.taken = instance[i].taken /\ p.partially_processed = instance[i].partially_processed
    BY <1>2, <1>4 DEF Process
<1>6. instance' = [instance EXCEPT ![i] = p]
    BY <1>1, <1>2 DEF leads
<1> HIDE DEF p
<1>7. Moves(i) /\ instance'[i] = p
    BY <1>2, <1>5, <1>6 DEF Moves
<1>8. ProcessInv(instance[i])' /\ CacheInv(instance[i])'
    <2>1. ProcessInv(instance[i])'
        BY <1>1, <1>2, <1>5, <1>7 DEF ProcessInv, Settlements
    <2> QED BY <1>1, <1>3, <1>5, <1>7, <2>1, CacheKept
<1>9. \A j \in setup.instances : ProcessInv(instance[j])' /\ CacheInv(instance[j])'
    BY <1>3, <1>7, <1>8, ProcessKept DEF Moves
<1>10. LeaderInv /\ SolveInv /\ WinnersInv /\ ExecutionInv /\ OutcomeIsTrue
    BY DEF IInv
<1>11. LeaderInv'
    <2> SUFFICES ASSUME "sessions" \notin setup.faults, NEW j \in setup.instances, instance'[j].is_leader
                 PROVE  lock' = j
        BY <1>1 DEF LeaderInv
    <2>1. CASE j = i
        BY <1>5, <1>7, <2>1 DEF leads
    <2>2. CASE j # i
        <3>1. lock = j
            BY <1>7, <1>10, <2>2 DEF LeaderInv, Moves
        <3>2. j # NoOne
            BY <1>2, Facts, RunLoopAssumption
        <3> QED BY <1>1, <3>1, <3>2
    <2> QED BY <2>1, <2>2
<1>12. WinnersFrom
    BY <1>1 DEF WinnersFrom, SameWin
<1>13. SolveInv' /\ WinnersInv'
    <2>1. SolveInv'
        BY <1>1, <1>3, <1>5, <1>7, <1>10, <1>12, SolveKept DEF Moves
    <2>2. auctions' \in Nat /\ auctions' >= auctions
        BY <1>1, <1>2, Facts
    <2> QED BY <1>2, <1>3, <1>10, <1>12, <2>1, <2>2, WinnersKept
<1>14. ExecutionInv' /\ OutcomeIsTrue'
    BY <1>1, <1>2, <1>3, <1>5, <1>7, <1>10, ExecutionsKept DEF Moves
<1>15. TypeOK'
    <2>1. attributed' \subseteq mined'
        BY <1>1, <1>2
    <2>2. /\ setup' \in Setups /\ head' \in 1..setup'.blocks /\ stops' \in 0..setup'.stops
          /\ mined' \subseteq [auction : 1..MaxAuctions, order : Order, block : Nat \ {0}]
          /\ lock' \in Instance \cup {NoOne} /\ indexed' \in 0..head'
          /\ auctions' \in 0..MaxAuctions /\ winners' \subseteq Winner
          /\ \A v, w \in winners' : v.auction = w.auction /\ v.order = w.order => v = w
        BY <1>1, <1>2, Facts DEF TypeOK
    <2> QED BY <1>1, <1>7, <1>9, <2>1, <2>2, InstanceTypes DEF TypeOK, Moves
<1> QED BY <1>1, <1>7, <1>9, <1>11, <1>13, <1>14, <1>15 DEF IInv, Moves

-----------------------------------------------------------------------------
(* Winners                                                                 *)

(* The winners of an auction are saved: those of another leader's are told *)
(* apart by their auction, and only a session that died makes a second.    *)
LEMMA SavesStep == ASSUME IInv, NEW i \in setup.instances, Saves(i) \/ SaveFails(i) PROVE IInv'
<1> DEFINE p == instance[i]
<1>1. /\ p.pc = "solve" /\ instance' = [instance EXCEPT ![i] = Top(p)]
      /\ UNCHANGED <<chain, lock, auctions, stops>>
      /\ setup' = setup /\ head' = head /\ mined' = mined /\ attributed' = attributed /\ indexed' = indexed
      /\ lock' = lock /\ auctions' = auctions /\ stops' = stops
    BY DEF Saves, SaveFails, EndsRun, At, chain
<1>2. /\ TypeOK /\ ProcessInv(p) /\ CacheInv(p)
      /\ instance \in [setup.instances -> Process] /\ p \in Process
      /\ p.boot \in Nat /\ p.block \in Nat /\ p.auction \in Auction
      /\ head \in Nat /\ indexed \in Nat /\ indexed <= head /\ attributed \subseteq mined
    BY ProcessFacts
<1>3. Grows
    BY <1>1, <1>2 DEF Grows
<1> DEFINE q == Top(p)
<1>4. /\ q \in Process /\ q.pc = "top" /\ q.is_leader = p.is_leader
      /\ q.block = 0 /\ q.fetched = NoCache /\ q.cache = p.cache
      /\ q.auction = NoAuction /\ q.boot = p.boot
      /\ q.fully_processed = p.fully_processed /\ q.attributing = p.attributing
      /\ q.taken = p.taken /\ q.partially_processed = p.partially_processed
    BY <1>2, TopFacts
<1> HIDE DEF q
<1>5. Moves(i) /\ instance'[i] = q
    <2>1. instance' = [instance EXCEPT ![i] = q]
        BY <1>1 DEF q
    <2> QED BY <1>2, <1>4, <2>1 DEF Moves
<1>6. ProcessInv(instance[i])' /\ CacheInv(instance[i])'
    <2>1. ProcessInv(instance[i])'
        BY <1>1, <1>2, <1>4, <1>5 DEF ProcessInv, Settlements
    <2>2. CacheInv(instance[i])'
        <3> HIDE DEF NoCache, NoAuction
        <3> QED BY <1>1, <1>2, <1>4, <1>5, NoCacheType DEF CacheInv, Current, Untraded
    <2> QED BY <2>1, <2>2
<1>7. \A j \in setup.instances : ProcessInv(instance[j])' /\ CacheInv(instance[j])'
    BY <1>3, <1>5, <1>6, ProcessKept DEF Moves
<1>8. LeaderInv /\ SolveInv /\ WinnersInv /\ ExecutionInv /\ OutcomeIsTrue
    BY DEF IInv
<1>9. CASE winners' = winners
    BY <1>1, <1>2, <1>3, <1>4, <1>5, <1>6, <1>9, ProcessStep
<1>10. CASE \E won \in Won(i), b \in SolvedAt(i), pc \in {"starting", "unsaved"} :
               winners' = winners \cup Rows(i, won, b, pc)
    <2>1. PICK won \in Won(i), b \in SolvedAt(i), pc \in {"starting", "unsaved"} :
             winners' = winners \cup Rows(i, won, b, pc)
        BY <1>10
    <2> DEFINE new == Rows(i, won, b, pc)
    <2>2. /\ p.is_leader /\ p.id \in 1..auctions
          /\ "sessions" \notin setup.faults => p.id = auctions
          /\ \A j \in setup.instances : instance[j].pc = "solve" /\ instance[j].id = p.id => i = j
          /\ \A w \in winners : w.auction # p.id /\ (w.by = i => w.auction < p.id)
          /\ "database" \notin setup.faults =>
                \A v \in winners : v.order \in p.auction.orders => Later(v, p.auction.block, i, mined)
        BY <1>1, <1>8 DEF SolveInv
    <2>3. /\ won \subseteq p.auction.orders /\ p.auction.orders \subseteq Order /\ p.auction.block \in Nat
          /\ i \in Instance /\ auctions \in 0..MaxAuctions
          /\ b \in Nat /\ b + submission_deadline \in Nat /\ b + submission_deadline > p.boot
        <3>1. won \subseteq p.auction.orders /\ b \in p.block..head
            BY DEF Won, SolvedAt
        <3>2. p.block >= p.boot
            BY <1>1, <1>2 DEF ProcessInv
        <3>3. i \in Instance /\ auctions \in 0..MaxAuctions
            BY <1>2, Facts DEF TypeOK
        <3> QED BY <1>2, <3>1, <3>2, <3>3, RunLoopAssumption DEF Auction
    <2>4. \A w \in new :
             /\ w \in Winner /\ w.auction = p.id /\ w.order \in p.auction.orders
             /\ w.block = p.auction.block /\ w.by = i /\ w.deadline = b + submission_deadline
             /\ w.pc = pc
             /\ \A v \in new : v.order = w.order => v = w
        <3> DEFINE id == p.id
                   block == p.auction.block
                   d == b + submission_deadline
                   Row(o) == [auction |-> id, order |-> o, block |-> block, by |-> i,
                              deadline |-> d, pc |-> pc, asked |-> FALSE, seen |-> 0]
        <3>1. \A w \in new : \E o \in won : w = Row(o)
            BY DEF Rows
        <3>2. id \in 1..MaxAuctions /\ i \in Instance /\ block \in Nat
            BY <2>2, <2>3, RunLoopAssumption
        <3>3. pc \in Running \cup {"success", "timeout", "failed", "lost", "unsaved"} /\ 0 \in Nat
            BY DEF Running
        <3>4. d \in Nat
            BY <2>3
        <3>5. \A o \in won : o \in Order
            BY <2>3
        <3> HIDE DEF new, d, id, block
        <3>6. \A o \in won : Row(o) \in Winner
            BY <3>2, <3>3, <3>4, <3>5 DEF Winner
        <3>7. \A o \in won : /\ Row(o).auction = id /\ Row(o).order = o
                             /\ Row(o).block = block /\ Row(o).by = i
                             /\ Row(o).deadline = d /\ Row(o).pc = pc
            OBVIOUS
        <3> HIDE DEF Row
        <3>8. \A w \in new : /\ w \in Winner /\ w.auction = id /\ w.order \in p.auction.orders
                            /\ w.block = block /\ w.by = i /\ w.deadline = d /\ w.pc = pc
            BY <2>3, <3>1, <3>6, <3>7
        <3>9. ASSUME NEW v \in new, NEW w \in new, v.order = w.order PROVE v = w
            BY <3>1, <3>7, <3>9
        <3> QED BY <3>8, <3>9 DEF d, id, block
    <2> HIDE DEF new
    <2>5. winners' = winners \cup new
        BY <2>1 DEF new
    <2>6. \A w \in winners : w.auction <= auctions /\ w.auction \in Nat
        BY <1>2, <1>8, Facts DEF WinnersInv
    <2>7. WinnersInv'
        <3>1. \A w \in winners' : w.auction <= auctions
            BY <2>2, <2>3, <2>4, <2>5, <2>6
        <3>2. ASSUME "database" \notin setup.faults, NEW v \in winners', NEW w \in winners',
                     v.order = w.order, v.auction < w.auction
              PROVE  Later(v, w.block, w.by, mined)
            <4>1. CASE v \in winners /\ w \in winners
                BY <1>8, <3>2, <4>1 DEF WinnersInv
            <4>2. CASE v \in winners /\ w \in new
                BY <2>2, <2>4, <3>2, <4>2
            <4>3. CASE v \in new /\ w \in winners
                <5>1. p.id < w.auction /\ v.by = i
                    BY <2>4, <3>2, <4>3
                <5>2. "sessions" \in setup.faults
                    BY <2>2, <2>6, <4>3, <5>1
                <5>3. w.by # i
                    BY <2>2, <2>6, <4>3, <5>1
                <5> QED BY <5>1, <5>2, <5>3 DEF Later
            <4>4. CASE v \in new /\ w \in new
                BY <2>2, <2>3, <2>4, <3>2, <4>4
            <4> QED BY <2>5, <4>1, <4>2, <4>3, <4>4
        <3> QED BY <1>1, <3>1, <3>2 DEF WinnersInv, Later
    <2>8. ExecutionInv' /\ OutcomeIsTrue'
        <3>1. \A j \in setup.instances : instance'[j].boot = instance[j].boot
                                         /\ (instance[j].pc # "off" => instance'[j].pc # "off")
            BY <1>4, <1>5 DEF Moves
        <3>2. ExecutionInv'
            BY <1>1, <1>4, <1>5, <1>8, <2>3, <2>4, <2>5, <3>1 DEF ExecutionInv, Running
        <3>3. OutcomeIsTrue'
            BY <1>1, <1>8, <2>4, <2>5 DEF OutcomeIsTrue, IsMined
        <3> QED BY <3>2, <3>3
    <2>9. SolveInv'
        <3> SUFFICES ASSUME NEW j \in setup.instances, instance'[j].pc = "solve"
                     PROVE  LET r == instance'[j]
                            IN /\ r.is_leader /\ r.id \in 1..auctions
                               /\ "sessions" \notin setup.faults => r.id = auctions
                               /\ \A k \in setup.instances : instance'[k].pc = "solve" /\ instance'[k].id = r.id => j = k
                               /\ \A w \in winners' : w.auction # r.id /\ (w.by = j => w.auction < r.id)
                               /\ "database" \notin setup.faults =>
                                     \A v \in winners' : v.order \in r.auction.orders =>
                                         Later(v, r.auction.block, j, mined)
            BY <1>1 DEF SolveInv, Later
        <3>1. j # i /\ instance'[j] = instance[j]
            BY <1>4, <1>5 DEF Moves
        <3>2. /\ instance[j].is_leader /\ instance[j].id \in 1..auctions
              /\ "sessions" \notin setup.faults => instance[j].id = auctions
              /\ \A k \in setup.instances : instance[k].pc = "solve" /\ instance[k].id = instance[j].id => j = k
              /\ \A w \in winners : w.auction # instance[j].id /\ (w.by = j => w.auction < instance[j].id)
              /\ "database" \notin setup.faults =>
                    \A v \in winners : v.order \in instance[j].auction.orders =>
                        Later(v, instance[j].auction.block, j, mined)
            BY <1>8, <3>1 DEF SolveInv
        <3>3. "sessions" \in setup.faults
            BY <1>8, <2>2, <3>1, <3>2 DEF LeaderInv
        <3>4. \A w \in new : w.auction # instance[j].id /\ w.by # j
            BY <1>1, <2>4, <3>1, <3>2
        <3>5. \A k \in setup.instances : instance'[k].pc = "solve" => instance'[k] = instance[k]
            BY <1>4, <1>5 DEF Moves
        <3> QED BY <2>5, <3>1, <3>2, <3>3, <3>4, <3>5 DEF Later
    <2>10. LeaderInv'
        BY <1>1, <1>4, <1>5, <1>8 DEF LeaderInv, Moves
    <2>11. TypeOK'
        <3>1. attributed' \subseteq mined'
            BY <1>1, <1>2
        <3>2. \A v, w \in winners' : v.auction = w.auction /\ v.order = w.order => v = w
            BY <1>2, <2>2, <2>4, <2>5 DEF TypeOK
        <3>3. winners' \subseteq Winner
            BY <1>2, <2>4, <2>5 DEF TypeOK
        <3>4. /\ setup' \in Setups /\ head' \in 1..setup'.blocks /\ stops' \in 0..setup'.stops
              /\ mined' \subseteq [auction : 1..MaxAuctions, order : Order, block : Nat \ {0}]
              /\ lock' \in Instance \cup {NoOne} /\ indexed' \in 0..head' /\ auctions' \in 0..MaxAuctions
            BY <1>1, <1>2 DEF TypeOK
        <3> QED BY <1>1, <1>5, <1>7, <3>1, <3>2, <3>3, <3>4, InstanceTypes DEF TypeOK, Moves
    <2> QED BY <1>1, <1>5, <1>7, <2>7, <2>8, <2>9, <2>10, <2>11 DEF IInv, Moves
<1>11. \/ winners' = winners
       \/ \E won \in Won(i), b \in SolvedAt(i), pc \in {"starting", "unsaved"} :
             winners' = winners \cup Rows(i, won, b, pc)
    BY DEF Saves, SaveFails
<1> QED BY <1>9, <1>10, <1>11

-----------------------------------------------------------------------------
(* Executions                                                              *)

(* An execution goes on or ends, its winner otherwise the same.            *)
LEMMA BecomesStep ==
    ASSUME IInv, NEW w \in winners, NEW v \in Winner, Becomes(w, v), SameWin(w, v),
           v.pc \in Running => w.pc \in Running,
           v.pc = "success" => IsMined(w),
           v.pc = "timeout" => w.deadline <= head,
           v.pc = "timeout" /\ setup.faults \cap {"database", "maintenance"} = {} =>
              ~ \E s \in mined : Is(s, w) /\ s.block <= w.deadline
    PROVE  IInv'
<1>1. /\ winners' = (winners \ {w}) \cup {v} /\ instance' = instance
      /\ setup' = setup /\ head' = head /\ mined' = mined /\ attributed' = attributed /\ indexed' = indexed
      /\ lock' = lock /\ auctions' = auctions /\ stops' = stops
    BY DEF Becomes, chain
<1>2. /\ TypeOK /\ LeaderInv /\ SolveInv /\ WinnersInv /\ ExecutionInv /\ OutcomeIsTrue
      /\ instance \in [setup.instances -> Process]
      /\ \A i \in setup.instances : ProcessInv(instance[i]) /\ CacheInv(instance[i])
    BY DEF IInv
<1>3. Grows
    BY <1>1, <1>2, Facts DEF Grows
<1>4. WinnersFrom
    BY <1>1 DEF WinnersFrom, SameWin
<1>5. \A i \in setup.instances : ProcessInv(instance[i])' /\ CacheInv(instance[i])'
    BY <1>1, <1>3, ProcessKept
<1>6. SolveInv'
    BY <1>1, <1>2, <1>3, <1>4, SolveKept
<1>7. WinnersInv'
    <2>1. auctions' \in Nat /\ auctions' >= auctions
        BY <1>1, <1>2, Facts
    <2> QED BY <1>2, <1>3, <1>4, <2>1, WinnersKept
<1>8. ExecutionInv'
    <2> SUFFICES ASSUME NEW u \in winners'
                 PROVE  /\ u.pc \in Running => /\ u.by \in setup.instances /\ instance[u.by].pc # "off"
                                               /\ u.deadline > instance[u.by].boot
                        /\ u.pc = "timeout" => u.deadline <= head
        BY <1>1 DEF ExecutionInv
    <2>1. CASE u \in winners
        BY <1>2, <2>1 DEF ExecutionInv
    <2>2. CASE u = v
        BY <1>2, <2>2 DEF ExecutionInv, SameWin
    <2> QED BY <1>1, <2>1, <2>2
<1>9. OutcomeIsTrue'
    <2> SUFFICES ASSUME NEW u \in winners'
                 PROVE  /\ u.pc = "success" => \E s \in mined : Is(s, u)
                        /\ u.pc = "timeout" /\ setup.faults \cap {"database", "maintenance"} = {} =>
                              ~ \E s \in mined : Is(s, u) /\ s.block <= u.deadline
        BY <1>1 DEF OutcomeIsTrue, IsMined
    <2>1. CASE u \in winners
        BY <1>2, <2>1 DEF OutcomeIsTrue, IsMined
    <2>2. CASE u = v
        BY <2>2 DEF SameWin, Is, IsMined
    <2> QED BY <1>1, <2>1, <2>2
<1>10. TypeOK'
    <2>1. \A t, u \in winners' : t.auction = u.auction /\ t.order = u.order => t = u
        <3>1. \A u \in winners : u.auction = v.auction /\ u.order = v.order => u = w
            BY <1>2 DEF TypeOK, SameWin
        <3> QED BY <1>1, <1>2, <3>1 DEF TypeOK
    <2>2. winners' \subseteq Winner
        BY <1>1, <1>2 DEF TypeOK
    <2> QED BY <1>1, <1>2, <2>1, <2>2 DEF TypeOK
<1>11. LeaderInv'
    BY <1>1, <1>2 DEF LeaderInv
<1> QED BY <1>1, <1>2, <1>5, <1>6, <1>7, <1>8, <1>9, <1>10, <1>11 DEF IInv

(* An execution that ends.                                                 *)
LEMMA EndedFacts ==
    ASSUME NEW w \in Winner, NEW pc \in {"success", "timeout", "failed", "lost"}
    PROVE  Ended(w, pc) \in Winner /\ SameWin(w, Ended(w, pc)) /\ Ended(w, pc).pc = pc
<1>1. Ended(w, pc) = [w EXCEPT !.pc = pc, !.seen = 0]
    BY DEF Ended
<1>2. 0 \in Nat /\ pc \in Running \cup {"success", "timeout", "failed", "lost", "unsaved"}
    OBVIOUS
<1> QED BY <1>1, <1>2 DEF Winner, SameWin

(* The driver is asked or the deadline has passed.                         *)
LEMMA StartsStep == ASSUME IInv, NEW w \in winners, Starts(w) PROVE IInv'
<1>1. TypeOK /\ w \in Winner /\ head \in Nat
    BY Facts DEF IInv, TypeOK
<1>2. CASE head < w.deadline
    <2> DEFINE v == [w EXCEPT !.pc = "driving", !.asked = TRUE, !.seen = head]
    <2>1. Becomes(w, v) /\ w.pc = "starting"
        BY <1>2 DEF Starts
    <2>2. v \in Winner /\ SameWin(w, v) /\ v.pc = "driving"
        BY <1>1 DEF Winner, SameWin, Running
    <2> HIDE DEF v
    <2> QED BY <2>1, <2>2, BecomesStep DEF Running
<1>3. CASE ~ (head < w.deadline)
    <2>1. Becomes(w, Ended(w, "failed"))
        BY <1>3 DEF Starts
    <2>2. Ended(w, "failed") \in Winner /\ SameWin(w, Ended(w, "failed")) /\ Ended(w, "failed").pc = "failed"
        BY <1>1, EndedFacts
    <2> QED BY <2>1, <2>2, BecomesStep DEF Running
<1> QED BY <1>2, <1>3

(* The driver's answer says nothing about the chain.                       *)
LEMMA DriverAnswersStep == ASSUME IInv, NEW w \in winners, DriverAnswers(w) PROVE IInv'
<1>1. w \in Winner /\ w.pc = "driving"
    BY DEF IInv, TypeOK, DriverAnswers
<1>2. CASE Becomes(w, Ended(w, "failed"))
    <2>1. Ended(w, "failed") \in Winner /\ SameWin(w, Ended(w, "failed")) /\ Ended(w, "failed").pc = "failed"
        BY <1>1, EndedFacts
    <2> QED BY <1>2, <2>1, BecomesStep DEF Running
<1>3. CASE Becomes(w, [w EXCEPT !.pc = "awaiting"])
    <2> DEFINE v == [w EXCEPT !.pc = "awaiting"]
    <2>1. v \in Winner /\ SameWin(w, v) /\ v.pc = "awaiting"
        BY <1>1 DEF Winner, SameWin, Running
    <2> HIDE DEF v
    <2>2. Becomes(w, v)
        BY <1>3 DEF v
    <2> QED BY <1>1, <2>1, <2>2, BecomesStep DEF Running
<1> QED BY <1>2, <1>3 DEF DriverAnswers

(* A settlement that is found was mined.  One that is not found by the     *)
(* deadline was not mined by then: the block that the execution waited for *)
(* was announced after the settlements up to it had been attributed.       *)
LEMMA ObservesStep == ASSUME IInv, NEW w \in winners, Observes(w) PROVE IInv'
<1>1. PICK b \in NextBlocks(w), found \in Lookup(w) :
         w.pc \in {"driving", "awaiting"} /\ Processed(w.by, b) /\ Becomes(w, Observed(w, b, found))
    BY DEF Observes
<1>2. /\ TypeOK /\ ExecutionInv /\ w \in Winner /\ head \in Nat /\ w.deadline \in Nat
      /\ attributed \subseteq mined /\ \A s \in mined : s.block \in Nat
    BY Facts DEF IInv, TypeOK
<1>3. w.seen \in Nat
    BY <1>2 DEF Winner
<1>4. b \in Nat /\ b <= head
    BY <1>2, <1>3 DEF NextBlocks
<1>5. CASE found
    <2>1. Becomes(w, Ended(w, "success"))
        BY <1>1, <1>5 DEF Observed
    <2>2. Ended(w, "success") \in Winner /\ SameWin(w, Ended(w, "success")) /\ Ended(w, "success").pc = "success"
        BY <1>2, EndedFacts
    <2>3. IsAttributed(w)
        BY <1>5 DEF Lookup
    <2>4. IsMined(w)
        BY <1>2, <2>3 DEF IsAttributed, IsMined
    <2> QED BY <2>1, <2>2, <2>4, BecomesStep DEF Running
<1>6. CASE ~found /\ b >= w.deadline
    <2>1. Becomes(w, Ended(w, "timeout"))
        BY <1>1, <1>6 DEF Observed
    <2>2. Ended(w, "timeout") \in Winner /\ SameWin(w, Ended(w, "timeout")) /\ Ended(w, "timeout").pc = "timeout"
        BY <1>2, EndedFacts
    <2>3. w.deadline <= head
        BY <1>2, <1>4, <1>6
    <2>4. ASSUME setup.faults \cap {"database", "maintenance"} = {}, NEW s \in mined, Is(s, w), s.block <= w.deadline
          PROVE  FALSE
        <3>1. w.by \in setup.instances /\ w.deadline > instance[w.by].boot
            BY <1>1, <1>2 DEF ExecutionInv, Running
        <3> DEFINE p == instance[w.by]
        <3>2. ProcessInv(p) /\ p.fully_processed \in Nat /\ p.boot \in Nat
            BY <3>1, ProcessFacts
        <3>3. p.fully_processed >= b
            BY <1>1, <2>4 DEF Processed
        <3>4. Settlements(p.fully_processed) \subseteq attributed
            BY <1>2, <1>4, <1>6, <2>4, <3>1, <3>2, <3>3 DEF ProcessInv
        <3>5. s.block <= p.fully_processed
            BY <1>2, <1>4, <1>6, <2>4, <3>2, <3>3
        <3>6. IsAttributed(w)
            BY <2>4, <3>4, <3>5 DEF Settlements, IsAttributed
        <3> QED BY <1>6, <2>4, <3>6 DEF Lookup
    <2> QED BY <2>1, <2>2, <2>3, <2>4, BecomesStep DEF Running
<1>7. CASE ~found /\ ~ (b >= w.deadline)
    <2> DEFINE v == [w EXCEPT !.seen = head]
    <2>1. v \in Winner /\ SameWin(w, v) /\ v.pc = w.pc
        BY <1>2 DEF Winner, SameWin
    <2> HIDE DEF v
    <2>2. Becomes(w, v)
        BY <1>1, <1>7 DEF Observed, v
    <2> QED BY <1>1, <2>1, <2>2, BecomesStep
<1> QED BY <1>5, <1>6, <1>7

-----------------------------------------------------------------------------
(* The chain and the processes                                             *)

(* A block is later than whatever was read before it.                      *)
LEMMA NewBlockStep == ASSUME IInv, NewBlock PROVE IInv'
<1>1. PICK txs \in SUBSET {w \in winners : w.asked /\ \A s \in mined : s.order # w.order} :
         mined' = mined \cup {[auction |-> w.auction, order |-> w.order, block |-> head + 1] : w \in txs}
    BY DEF NewBlock
<1>2. /\ head < setup.blocks /\ head' = head + 1 /\ setup' = setup /\ lock' = lock
      /\ indexed' = indexed /\ attributed' = attributed /\ auctions' = auctions /\ winners' = winners
      /\ instance' = instance /\ stops' = stops
    BY DEF NewBlock, database
<1>3. /\ TypeOK /\ LeaderInv /\ SolveInv /\ WinnersInv /\ ExecutionInv /\ OutcomeIsTrue
      /\ instance \in [setup.instances -> Process]
      /\ head \in Nat /\ head >= 1 /\ indexed \in Nat /\ indexed <= head /\ setup.blocks \in Nat
    BY Facts DEF IInv
<1>4. \A s \in mined' \ mined : s \in [auction : 1..MaxAuctions, order : Order, block : Nat \ {0}] /\ s.block = head + 1
    <2> SUFFICES ASSUME NEW w \in winners
                 PROVE  LET s == [auction |-> w.auction, order |-> w.order, block |-> head + 1]
                        IN s \in [auction : 1..MaxAuctions, order : Order, block : Nat \ {0}] /\ s.block = head + 1
        BY <1>1
    <2>1. w \in Winner
        BY <1>3 DEF TypeOK
    <2> QED BY <1>3, <2>1 DEF Winner
<1>5. Grows
    BY <1>1, <1>2, <1>3, <1>4 DEF Grows
<1>6. \A i \in setup.instances : ProcessInv(instance[i])' /\ CacheInv(instance[i])'
    BY <1>2, <1>5, ProcessKept
<1>7. WinnersFrom
    BY <1>2 DEF WinnersFrom, SameWin
<1>8. SolveInv' /\ WinnersInv'
    <2>1. SolveInv'
        BY <1>2, <1>3, <1>5, <1>7, SolveKept
    <2>2. auctions' \in Nat /\ auctions' >= auctions
        BY <1>2, <1>3, Facts
    <2> QED BY <1>3, <1>5, <1>7, <2>1, <2>2, WinnersKept
<1>9. ExecutionInv' /\ OutcomeIsTrue'
    BY <1>2, <1>3, <1>5, ExecutionsKept
<1>10. LeaderInv'
    BY <1>2, <1>3 DEF LeaderInv
<1>11. TypeOK'
    <2>1. mined' \subseteq [auction : 1..MaxAuctions, order : Order, block : Nat \ {0}] /\ attributed' \subseteq mined'
        BY <1>1, <1>2, <1>3, <1>4 DEF TypeOK
    <2>2. /\ setup' \in Setups /\ head' \in 1..setup'.blocks /\ stops' \in 0..setup'.stops
          /\ lock' \in Instance \cup {NoOne} /\ indexed' \in 0..head'
          /\ auctions' \in 0..MaxAuctions /\ winners' \subseteq Winner
          /\ \A v, w \in winners' : v.auction = w.auction /\ v.order = w.order => v = w
        BY <1>2, <1>3 DEF TypeOK
    <2>3. instance' \in [setup.instances -> Process]
        BY <1>2, <1>3
    <2> QED BY <1>2, <1>6, <2>1, <2>2, <2>3, InstanceTypes DEF TypeOK
<1> QED BY <1>2, <1>3, <1>6, <1>8, <1>9, <1>10, <1>11 DEF IInv

(* A process that starts knows nothing and leads nobody.                   *)
LEMMA StartedFacts ==
    ASSUME head \in Nat, indexed \in Nat, NEW b \in 1..head, NEW pc \in {"top", "off"}, NEW p,
           \/ pc = "top" /\ p = Started(b)
           \/ pc = "off" /\ p = [Started(b) EXCEPT !.pc = "off"]
    PROVE  /\ p \in Process /\ p.pc = pc /\ p.is_leader = FALSE
           /\ ProcessInv(p) /\ CacheInv(p)
<1>1. head \in Nat /\ indexed \in Nat /\ b \in Nat /\ b <= head /\ b - 1 \in Nat
    OBVIOUS
<1>2. /\ p \in Process /\ p.pc = pc /\ p.is_leader = FALSE /\ p.block = 0 /\ p.fetched = NoCache
      /\ p.cache = NoCache /\ p.auction = NoAuction /\ p.boot = b /\ p.taken = b - 1
      /\ p.attributing = FALSE /\ p.partially_processed = b /\ p.fully_processed = b
    <2> HIDE DEF NoCache, NoAuction
    <2> DEFINE q == Started(b)
    <2>1. /\ q \in Process /\ q.pc = "top" /\ q.is_leader = FALSE /\ q.block = 0 /\ q.fetched = NoCache
          /\ q.cache = NoCache /\ q.auction = NoAuction /\ q.boot = b /\ q.taken = b - 1
          /\ q.attributing = FALSE /\ q.partially_processed = b /\ q.fully_processed = b
        BY <1>1, NoCacheType DEF Started, Process
    <2> HIDE DEF q
    <2>2. CASE pc = "top" /\ p = q
        BY <2>1, <2>2
    <2>3. CASE pc = "off" /\ p = [q EXCEPT !.pc = "off"]
        BY <2>1, <2>3 DEF Process
    <2> QED BY <2>2, <2>3 DEF q
<1>3. ProcessInv(p)
    BY <1>1, <1>2 DEF ProcessInv
<1>4. CacheInv(p)
    <2> HIDE DEF NoCache, NoAuction
    <2> QED BY <1>1, <1>2, NoCacheType DEF CacheInv, Current, Untraded
<1> QED BY <1>2, <1>3, <1>4

(* A process that restarts has no execution left.                          *)
LEMMA RestartsStep == ASSUME IInv, NEW i \in setup.instances, Restarts(i) PROVE IInv'
<1>1. /\ instance[i].pc = "off" /\ instance' = [instance EXCEPT ![i] = Started(head)]
      /\ setup' = setup /\ head' = head /\ mined' = mined /\ lock' = lock
      /\ indexed' = indexed /\ attributed' = attributed /\ auctions' = auctions /\ winners' = winners
      /\ stops' = stops
    BY DEF Restarts, Up, At, chain, database
<1>2. /\ TypeOK /\ LeaderInv /\ SolveInv /\ WinnersInv /\ ExecutionInv /\ OutcomeIsTrue
      /\ instance \in [setup.instances -> Process] /\ head \in 1..head
    BY Facts DEF IInv
<1> DEFINE p == Started(head)
<1>3. p \in Process /\ p.pc = "top" /\ p.is_leader = FALSE /\ ProcessInv(p) /\ CacheInv(p)
    BY <1>2, StartedFacts, Facts
<1> HIDE DEF p
<1>4. Moves(i) /\ instance'[i] = p
    <2>1. instance' = [instance EXCEPT ![i] = p]
        BY <1>1 DEF p
    <2> QED BY <1>2, <1>3, <2>1 DEF Moves
<1>5. Grows
    BY <1>1, <1>2, Facts DEF Grows
<1>6. \A j \in setup.instances : ProcessInv(instance[j])' /\ CacheInv(instance[j])'
    <2>1. ProcessInv(instance[i])' /\ CacheInv(instance[i])'
        BY <1>1, <1>3, <1>4 DEF ProcessInv, CacheInv, Current, Untraded, Settlements
    <2> QED BY <1>4, <1>5, <2>1, ProcessKept DEF Moves
<1>7. WinnersFrom
    BY <1>1 DEF WinnersFrom, SameWin
<1>8. SolveInv' /\ WinnersInv'
    <2>1. SolveInv'
        BY <1>1, <1>2, <1>3, <1>4, <1>5, <1>7, SolveKept DEF Moves
    <2>2. auctions' \in Nat /\ auctions' >= auctions
        BY <1>1, <1>2, Facts
    <2> QED BY <1>2, <1>5, <1>7, <2>1, <2>2, WinnersKept
<1>9. ExecutionInv' /\ OutcomeIsTrue'
    BY <1>1, <1>2, <1>4 DEF ExecutionInv, OutcomeIsTrue, IsMined, Moves
<1>10. LeaderInv'
    BY <1>1, <1>2, <1>3, <1>4 DEF LeaderInv, Moves
<1>11. TypeOK'
    <2>1. attributed' \subseteq mined'
        BY <1>1, <1>2 DEF TypeOK
    <2>2. /\ setup' \in Setups /\ head' \in 1..setup'.blocks /\ stops' \in 0..setup'.stops
          /\ mined' \subseteq [auction : 1..MaxAuctions, order : Order, block : Nat \ {0}]
          /\ lock' \in Instance \cup {NoOne} /\ indexed' \in 0..head'
          /\ auctions' \in 0..MaxAuctions /\ winners' \subseteq Winner
          /\ \A v, w \in winners' : v.auction = w.auction /\ v.order = w.order => v = w
        BY <1>1, <1>2 DEF TypeOK
    <2> QED BY <1>1, <1>4, <1>6, <2>1, <2>2, InstanceTypes DEF TypeOK, Moves
<1> QED BY <1>1, <1>4, <1>6, <1>8, <1>9, <1>10, <1>11 DEF IInv, Moves

(* The executions of a process that ends end with it.                      *)
LEMMA StopsStep == ASSUME IInv, NEW i \in setup.instances, Stops(i) PROVE IInv'
<1> DEFINE p == [Started(1) EXCEPT !.pc = "off"]
           After(w) == IF w.by = i /\ w.pc \in Running THEN Ended(w, "lost") ELSE w
<1>1. /\ stops < setup.stops /\ stops' = stops + 1
      /\ instance' = [instance EXCEPT ![i] = p]
      /\ lock' = (IF lock = i THEN NoOne ELSE lock)
      /\ winners' = {After(w) : w \in winners}
      /\ setup' = setup /\ head' = head /\ mined' = mined
      /\ indexed' = indexed /\ attributed' = attributed /\ auctions' = auctions
    BY DEF Stops, chain
<1>2. /\ TypeOK /\ LeaderInv /\ SolveInv /\ WinnersInv /\ ExecutionInv /\ OutcomeIsTrue
      /\ instance \in [setup.instances -> Process] /\ 1 \in 1..head /\ winners \subseteq Winner
    BY Facts DEF IInv, TypeOK
<1>3. p \in Process /\ p.pc = "off" /\ p.is_leader = FALSE /\ ProcessInv(p) /\ CacheInv(p)
    BY <1>2, StartedFacts, Facts
<1> HIDE DEF p
<1>4. Moves(i) /\ instance'[i] = p
    BY <1>1, <1>2, <1>3 DEF Moves
<1>5. Grows
    BY <1>1, <1>2, Facts DEF Grows
<1>6. \A j \in setup.instances : ProcessInv(instance[j])' /\ CacheInv(instance[j])'
    <2>1. ProcessInv(instance[i])' /\ CacheInv(instance[i])'
        BY <1>1, <1>3, <1>4 DEF ProcessInv, CacheInv, Current, Untraded, Settlements
    <2> QED BY <1>4, <1>5, <2>1, ProcessKept DEF Moves
<1>7. \A w \in winners :
         /\ After(w) \in Winner /\ SameWin(w, After(w))
         /\ \/ After(w).pc = "lost"
            \/ After(w) = w /\ ~ (w.by = i /\ w.pc \in Running)
    BY <1>2, EndedFacts DEF SameWin
<1> HIDE DEF After
<1>8. WinnersFrom
    BY <1>1, <1>7 DEF WinnersFrom
<1>9. SolveInv' /\ WinnersInv'
    <2>1. SolveInv'
        BY <1>1, <1>2, <1>3, <1>4, <1>5, <1>8, SolveKept DEF Moves
    <2>2. auctions' \in Nat /\ auctions' >= auctions
        BY <1>1, <1>2, Facts
    <2> QED BY <1>2, <1>5, <1>8, <2>1, <2>2, WinnersKept
<1>10. \A u \in winners' : u.pc = "lost" \/ (u \in winners /\ ~ (u.by = i /\ u.pc \in Running))
    BY <1>1, <1>7
<1>11. ExecutionInv'
    <2> SUFFICES ASSUME NEW u \in winners'
                 PROVE  /\ u.pc \in Running => /\ u.by \in setup.instances /\ instance'[u.by].pc # "off"
                                               /\ u.deadline > instance'[u.by].boot
                        /\ u.pc = "timeout" => u.deadline <= head
        BY <1>1 DEF ExecutionInv
    <2> QED BY <1>2, <1>4, <1>10 DEF ExecutionInv, Moves, Running
<1>12. OutcomeIsTrue'
    BY <1>1, <1>2, <1>10 DEF OutcomeIsTrue, IsMined
<1>13. LeaderInv'
    <2> SUFFICES ASSUME "sessions" \notin setup.faults, NEW j \in setup.instances, instance'[j].is_leader
                 PROVE  lock' = j
        BY <1>1 DEF LeaderInv
    <2>1. j # i
        BY <1>3, <1>4
    <2>2. lock = j
        BY <1>2, <1>4, <2>1 DEF LeaderInv, Moves
    <2> QED BY <1>1, <2>1, <2>2
<1>14. TypeOK'
    <2>1. attributed' \subseteq mined'
        BY <1>1, <1>2 DEF TypeOK
    <2>2. winners' \subseteq Winner
        BY <1>1, <1>7
    <2>3. \A t, u \in winners' : t.auction = u.auction /\ t.order = u.order => t = u
        <3> SUFFICES ASSUME NEW v \in winners, NEW w \in winners, After(v).auction = After(w).auction,
                            After(v).order = After(w).order
                     PROVE  v = w
            BY <1>1
        <3> QED BY <1>2, <1>7 DEF TypeOK, SameWin
    <2>4. /\ setup' \in Setups /\ head' \in 1..setup'.blocks /\ stops' \in 0..setup'.stops
          /\ mined' \subseteq [auction : 1..MaxAuctions, order : Order, block : Nat \ {0}]
          /\ lock' \in Instance \cup {NoOne} /\ indexed' \in 0..head' /\ auctions' \in 0..MaxAuctions
        BY <1>1, <1>2, Facts DEF TypeOK
    <2> QED BY <1>1, <1>4, <1>6, <2>1, <2>2, <2>3, <2>4, InstanceTypes DEF TypeOK, Moves
<1> QED BY <1>1, <1>4, <1>6, <1>9, <1>11, <1>12, <1>13, <1>14 DEF IInv, Moves

(* The lock is lost under a leader that does not know it.                  *)
LEMMA SessionDiesStep == ASSUME IInv, SessionDies PROVE IInv'
<1>1. /\ "sessions" \in setup.faults /\ stops < setup.stops /\ stops' = stops + 1 /\ lock' = NoOne
      /\ setup' = setup /\ head' = head /\ mined' = mined /\ instance' = instance
      /\ indexed' = indexed /\ attributed' = attributed /\ auctions' = auctions /\ winners' = winners
    BY DEF SessionDies, chain, database
<1>2. /\ TypeOK /\ LeaderInv /\ SolveInv /\ WinnersInv /\ ExecutionInv /\ OutcomeIsTrue
      /\ instance \in [setup.instances -> Process]
    BY DEF IInv
<1>3. Grows
    BY <1>1, <1>2, Facts DEF Grows
<1>4. \A i \in setup.instances : ProcessInv(instance[i])' /\ CacheInv(instance[i])'
    BY <1>1, <1>3, ProcessKept
<1>5. WinnersFrom
    BY <1>1 DEF WinnersFrom, SameWin
<1>6. SolveInv' /\ WinnersInv'
    <2>1. SolveInv'
        BY <1>1, <1>2, <1>3, <1>5, SolveKept
    <2>2. auctions' \in Nat /\ auctions' >= auctions
        BY <1>1, <1>2, Facts
    <2> QED BY <1>2, <1>3, <1>5, <2>1, <2>2, WinnersKept
<1>7. ExecutionInv' /\ OutcomeIsTrue'
    BY <1>1, <1>2, <1>3, ExecutionsKept
<1>8. LeaderInv'
    BY <1>1 DEF LeaderInv
<1>9. TypeOK'
    <2>1. stops' \in 0..setup'.stops
        BY <1>1, <1>2, Facts DEF TypeOK
    <2> QED BY <1>1, <1>2, <2>1 DEF TypeOK
<1> QED BY <1>1, <1>2, <1>4, <1>6, <1>7, <1>8, <1>9 DEF IInv

-----------------------------------------------------------------------------
(* The invariant                                                           *)

(* The invariant holds at the start.                                       *)
LEMMA InitIInv == ASSUME Init PROVE IInv
<1>1. /\ setup \in Setups /\ head = 1 /\ mined = {} /\ lock = NoOne
      /\ indexed = 0 /\ attributed = {} /\ auctions = 0 /\ winners = {}
      /\ instance = [i \in setup.instances |-> Started(1)] /\ stops = 0
    BY DEF Init
<1>2. setup.blocks \in Nat \ {0} /\ setup.stops \in Nat
    BY <1>1, RunLoopAssumption
<1>3. \A i \in setup.instances :
         /\ instance[i] \in Process /\ instance[i].pc = "top" /\ instance[i].is_leader = FALSE
         /\ ProcessInv(instance[i]) /\ CacheInv(instance[i])
    <2>1. head \in Nat /\ indexed \in Nat /\ 1 \in 1..head
        BY <1>1
    <2>2. \A i \in setup.instances : instance[i] = Started(1)
        BY <1>1
    <2> QED BY <2>1, <2>2, StartedFacts
<1>4. instance \in [setup.instances -> Process]
    BY <1>1, <1>3
<1>5. TypeOK
    <2>1. \A i \in setup.instances :
             /\ instance[i].pc \in {"top", "wait", "read", "filter", "solve", "off"}
             /\ instance[i].is_leader \in BOOLEAN /\ instance[i].attributing \in BOOLEAN
             /\ instance[i].cache.auction \in Auction /\ instance[i].auction \in Auction
             /\ instance[i].fully_processed <= instance[i].partially_processed
             /\ instance[i].partially_processed <= head
        BY <1>3 DEF Process, Cache, ProcessInv
    <2>2. /\ head \in 1..setup.blocks /\ stops \in 0..setup.stops /\ indexed \in 0..head
          /\ auctions \in 0..MaxAuctions
        BY <1>1, <1>2, RunLoopAssumption
    <2> QED BY <1>1, <2>1, <2>2 DEF TypeOK
<1>6. LeaderInv /\ SolveInv
    BY <1>3 DEF LeaderInv, SolveInv
<1>7. WinnersInv /\ ExecutionInv /\ OutcomeIsTrue
    BY <1>1 DEF WinnersInv, ExecutionInv, OutcomeIsTrue
<1> QED BY <1>3, <1>4, <1>5, <1>6, <1>7 DEF IInv

(* A step that changes nothing keeps it.                                   *)
LEMMA StutterStep == ASSUME IInv, UNCHANGED vars PROVE IInv'
<1>1. /\ setup' = setup /\ head' = head /\ mined' = mined /\ lock' = lock /\ instance' = instance
      /\ indexed' = indexed /\ attributed' = attributed /\ auctions' = auctions
      /\ winners' = winners /\ stops' = stops
    BY DEF vars, chain, database
<1>2. /\ TypeOK /\ LeaderInv /\ SolveInv /\ WinnersInv /\ ExecutionInv /\ OutcomeIsTrue
      /\ instance \in [setup.instances -> Process]
    BY DEF IInv
<1>3. Grows
    BY <1>1, <1>2, Facts DEF Grows
<1>4. \A i \in setup.instances : ProcessInv(instance[i])' /\ CacheInv(instance[i])'
    BY <1>1, <1>3, ProcessKept
<1>5. WinnersFrom
    BY <1>1 DEF WinnersFrom, SameWin
<1>6. SolveInv' /\ WinnersInv'
    <2>1. SolveInv'
        BY <1>1, <1>2, <1>3, <1>5, SolveKept
    <2>2. auctions' \in Nat /\ auctions' >= auctions
        BY <1>1, <1>2, Facts
    <2> QED BY <1>2, <1>3, <1>5, <2>1, <2>2, WinnersKept
<1>7. ExecutionInv' /\ OutcomeIsTrue'
    BY <1>1, <1>2, <1>3, ExecutionsKept
<1>8. LeaderInv' /\ TypeOK'
    BY <1>1, <1>2 DEF LeaderInv, TypeOK
<1> QED BY <1>1, <1>2, <1>4, <1>6, <1>7, <1>8 DEF IInv

(* Every step keeps it.                                                    *)
LEMMA NextIInv == ASSUME IInv, [Next]_vars PROVE IInv'
<1>1. ASSUME NEW i \in setup.instances, Loop(i) PROVE IInv'
    BY <1>1, TryAcquireStep, SyncsStep, ReadsOrdersStep, UpdatesCacheStep, UpdateFailsStep,
       NoSolutionsStep, SavesStep DEF Loop
<1>2. ASSUME NEW i \in setup.instances, Maintenance(i) PROVE IInv'
    BY <1>2, IndexStep, IndexFailsStep, AttributeStep DEF Maintenance
<1>3. ASSUME NEW i \in setup.instances, Stops(i) \/ Restarts(i) PROVE IInv'
    BY <1>3, StopsStep, RestartsStep
<1>4. ASSUME NEW w \in winners, Execution(w) PROVE IInv'
    BY <1>4, StartsStep, DriverAnswersStep, ObservesStep DEF Execution
<1> QED BY <1>1, <1>2, <1>3, <1>4, NewBlockStep, SessionDiesStep, StutterStep DEF Next

(* The invariant holds in every state.                                     *)
LEMMA IInvariant == Spec => []IInv
BY InitIInv, NextIInv, PTL DEF Spec

(* The types hold, an execution reported as a success settled in its own   *)
(* auction, and one that timed out was not settled by its deadline, unless *)
(* maintenance or the database failed.                                     *)
THEOREM OutcomesAreTrue == Spec => []Inv
<1>1. IInv => Inv
    BY DEF IInv, Inv
<1> QED BY <1>1, IInvariant, PTL

(* While no session dies, at most one instance acts as leader.             *)
THEOREM LeaderIsAlone == Spec => []OneLeader
<1>1. IInv => OneLeader
    BY DEF IInv, LeaderInv, OneLeader
<1> QED BY <1>1, IInvariant, PTL

(* While maintenance works, no order of an auction had been filled by the  *)
(* block the auction is for, unless that is the block the process was      *)
(* started at.                                                             *)
THEOREM AuctionMissesNoTrade == Spec => []AuctionIsCurrent
<1>1. IInv => AuctionIsCurrent
    BY DEF IInv, CacheInv, Current, Untraded, AuctionIsCurrent
<1> QED BY <1>1, IInvariant, PTL

-----------------------------------------------------------------------------
(* Orders in flight                                                        *)

(* A step saves the winners of an auction, or lets those there are go on.  *)
LEMMA WinnersOfStep ==
    ASSUME TypeOK, [Next]_vars
    PROVE  \/ WinnersFrom
           \/ \E i \in setup.instances :
                 /\ instance[i].pc = "solve"
                 /\ \E won \in Won(i), b \in SolvedAt(i), pc \in {"starting", "unsaved"} :
                       winners' = winners \cup Rows(i, won, b, pc)
<1>1. winners' = winners => WinnersFrom
    BY DEF WinnersFrom, SameWin
<1>2. ASSUME NEW i \in setup.instances, Loop(i)
      PROVE  \/ WinnersFrom
             \/ /\ instance[i].pc = "solve"
                /\ \E won \in Won(i), b \in SolvedAt(i), pc \in {"starting", "unsaved"} :
                      winners' = winners \cup Rows(i, won, b, pc)
    <2>1. CASE Saves(i) \/ SaveFails(i)
        BY <1>1, <2>1 DEF Saves, SaveFails, At
    <2>2. CASE ~ (Saves(i) \/ SaveFails(i))
        BY <1>1, <1>2, <2>2 DEF Loop, TryAcquire, Syncs, ReadsOrders, UpdatesCache, UpdateFails,
              NoSolutions, Continues, database
    <2> QED BY <2>1, <2>2
<1>3. ASSUME NEW i \in setup.instances, Maintenance(i) \/ Restarts(i) PROVE WinnersFrom
    BY <1>1, <1>3 DEF Maintenance, Index, IndexFails, Attribute, Restarts, database
<1>4. ASSUME NEW i \in setup.instances, Stops(i) PROVE WinnersFrom
    <2>1. winners' = {IF w.by = i /\ w.pc \in Running THEN Ended(w, "lost") ELSE w : w \in winners}
        BY <1>4 DEF Stops
    <2>2. \A w \in winners : w \in Winner
        BY DEF TypeOK
    <2>3. \A w \in winners : SameWin(w, Ended(w, "lost")) /\ SameWin(w, w)
        BY <2>2, EndedFacts DEF SameWin
    <2> QED BY <2>1, <2>3 DEF WinnersFrom
<1>5. ASSUME NEW w \in winners, NEW v, Becomes(w, v), SameWin(w, v) PROVE WinnersFrom
    BY <1>5 DEF Becomes, WinnersFrom, SameWin
<1>6. ASSUME NEW w \in winners, Execution(w) PROVE WinnersFrom
    <2>1. w \in Winner
        BY DEF TypeOK
    <2>2. \A pc \in {"success", "timeout", "failed"} : SameWin(w, Ended(w, pc))
        BY <2>1, EndedFacts
    <2>3. /\ SameWin(w, [w EXCEPT !.pc = "driving", !.asked = TRUE, !.seen = head])
          /\ SameWin(w, [w EXCEPT !.pc = "awaiting"]) /\ SameWin(w, [w EXCEPT !.seen = head])
        BY <2>1 DEF Winner, SameWin
    <2>4. CASE Starts(w)
        BY <1>5, <2>2, <2>3, <2>4 DEF Starts
    <2>5. CASE DriverAnswers(w)
        BY <1>5, <2>2, <2>3, <2>5 DEF DriverAnswers
    <2>6. CASE Observes(w)
        <3>1. PICK b \in NextBlocks(w), found \in Lookup(w) : Becomes(w, Observed(w, b, found))
            BY <2>6 DEF Observes
        <3>2. SameWin(w, Observed(w, b, found))
            BY <2>2, <2>3 DEF Observed
        <3> QED BY <1>5, <3>1, <3>2
    <2> QED BY <1>6, <2>4, <2>5, <2>6 DEF Execution
<1>7. NewBlock \/ SessionDies \/ UNCHANGED vars => winners' = winners
    BY DEF NewBlock, SessionDies, vars, database
<1> QED BY <1>1, <1>2, <1>3, <1>4, <1>6, <1>7 DEF Next

(* While the database answers, an order wins a second time only after the  *)
(* deadline of the first or after its settlement, or against a leader      *)
(* whose session died.                                                     *)
THEOREM OrdersWinOnce == Spec => OneInFlight
<1> DEFINE Once == \A v \in winners, w \in winners' \ winners :
                      v.order = w.order /\ v.auction < w.auction /\ "database" \notin setup.faults =>
                          \/ v.deadline <= w.block \/ IsMined(v)
                          \/ "sessions" \in setup.faults /\ v.by # w.by
<1>1. ASSUME IInv, [Next]_vars PROVE Once
    <2> SUFFICES ASSUME NEW v \in winners, NEW w \in winners' \ winners, v.order = w.order,
                        v.auction < w.auction, "database" \notin setup.faults
                 PROVE  Later(v, w.block, w.by, mined)
        BY DEF Later, IsMined
    <2>1. TypeOK /\ SolveInv /\ WinnersInv
        BY <1>1 DEF IInv
    <2>2. CASE WinnersFrom
        <3>1. PICK u \in winners : SameWin(u, w)
            BY <2>2 DEF WinnersFrom
        <3> QED BY <2>1, <3>1 DEF WinnersInv, SameWin
    <2>3. CASE \E i \in setup.instances :
                  /\ instance[i].pc = "solve"
                  /\ \E won \in Won(i), b \in SolvedAt(i), pc \in {"starting", "unsaved"} :
                        winners' = winners \cup Rows(i, won, b, pc)
        <3>1. PICK i \in setup.instances :
                 /\ instance[i].pc = "solve"
                 /\ \E won \in Won(i), b \in SolvedAt(i), pc \in {"starting", "unsaved"} :
                       winners' = winners \cup Rows(i, won, b, pc)
            BY <2>3
        <3>2. PICK won \in Won(i), b \in SolvedAt(i), pc \in {"starting", "unsaved"} :
                 winners' = winners \cup Rows(i, won, b, pc)
            BY <3>1
        <3>3. w \in Rows(i, won, b, pc) /\ won \subseteq instance[i].auction.orders
            BY <3>2 DEF Won
        <3>4. w.order \in instance[i].auction.orders /\ w.block = instance[i].auction.block /\ w.by = i
            BY <3>3 DEF Rows
        <3> QED BY <2>1, <3>1, <3>4 DEF SolveInv
    <2> QED BY <1>1, <2>1, <2>2, <2>3, WinnersOfStep
<1>2. Spec => [][Once]_vars
    BY <1>1, IInvariant, PTL DEF Spec
<1> QED BY <1>2 DEF OneInFlight

-----------------------------------------------------------------------------
(* The indexing of events *)

(* What is known of the block that was handled last: after a restart only  *)
(* the number in the checkpoint.                                           *)
LastHandled == Last(Base)

(* A block the node has shown.  Its number is not above the chain's, and   *)
(* what a reorganisation can no longer replace is on the chain.            *)
SeenOn(b, c, k) ==
    /\ b \in Blocks /\ Len(b) <= Len(c)
    /\ \A n \in 1..Len(b) : b[n] <= k /\ (n + Depth <= Len(b) => b[n] = c[n])
Seen(b) == SeenOn(b, canonical, forks)

Agree(b, c, number) == \A n \in 1..number : b[n] = c[n]
Ancestor(b, c) == Len(b) <= Len(c) /\ Agree(b, c, Len(b))

(* Consecutive blocks of one chain, from this number on.                   *)
BranchOn(blocks, first, c, k) ==
    /\ blocks \in Seq(Blocks) /\ blocks # <<>>
    /\ \A i \in 1..Len(blocks) : SeenOn(blocks[i], c, k) /\ Len(blocks[i]) = first + i - 1
    /\ \A i, j \in 1..Len(blocks) : i <= j => Ancestor(blocks[i], blocks[j])
Branch(blocks, first) == BranchOn(blocks, first, canonical, forks)

HandledInv ==
    /\ handled \in Seq(Blocks) /\ Len(handled) <= Depth
    /\ \A i \in 1..Len(handled) :
          /\ Seen(handled[i])
          /\ restarts = 0 /\ Ancestor(handled[i], canonical) => Ancestor(handled[i], LastHandled)
    /\ \A i, j \in 1..Len(handled) : i < j => Len(handled[i]) < Len(handled[j])
    /\ Len(LastHandled) <= Len(tip)
    /\ fresh /\ handled # <<>> => Len(LastHandled) < Len(tip)
    /\ restarts = 0 /\ handled = <<>> => persisted = 0

TargetInv ==
    task # idle =>
        /\ Seen(task.target) /\ Len(task.target) <= Len(tip)
        /\ fresh => Len(task.target) < Len(tip)

(* What update_events holds on its stack, step by step.                    *)
RangeInv ==
    task.at \in {"probe", "split"} =>
        /\ IF handled = <<>> THEN /\ Len(task.base) = 1 /\ Seen(task.base[1])
                                  /\ Len(task.base[1]) = persisted
                             ELSE task.base = handled
        /\ Len(LastHandled) <= Len(task.target)
        /\ handled # <<>> => Len(LastHandled) < Len(task.target)
        /\ task.at = "split" /\ forks = 0 => Len(LastHandled) + 2 * Queried < Len(task.target)

(* The tail is of one chain and goes on where the handled blocks end, or   *)
(* from a block they share with it.                                        *)
FollowsOn(blocks, replace, last, k, halts) ==
    LET first == Len(blocks[1]) IN
    /\ k = 0 => first = Len(last) + 1
    /\ halts = 0 => /\ first <= Len(last) + 1 /\ Agree(blocks[1], last, first - 1)
                    /\ replace \/ first = Len(last) + 1
Follows(blocks, replace) == FollowsOn(blocks, replace, LastHandled, forks, restarts)

LatestInv ==
    task.at = "latest" =>
        /\ task.replace \in BOOLEAN /\ Branch(task.blocks, Len(task.blocks[1]))
        /\ Len(Last(task.blocks)) <= Len(task.target) /\ Follows(task.blocks, task.replace)

TailOn(blocks, number, target, c, k) ==
    blocks # <<>> => /\ BranchOn(blocks, number + 1, c, k) /\ Len(Last(blocks)) <= Len(target)
                     /\ Agree(blocks[1], c, number)
TailFollows(number) == TailOn(task.blocks, number, task.target, canonical, forks)

HistoryInv ==
    /\ task.at = "checkpoint" => task.last \in Nat
    /\ task.at = "history" =>
          Seen(task.checkpoint) /\ Agree(task.checkpoint, canonical, Len(task.checkpoint))
    /\ task.at \in {"checkpoint", "history"} =>
          LET last == IF task.at = "checkpoint" THEN task.last ELSE Len(task.checkpoint) IN
          /\ last + Depth <= Len(task.target) /\ TailFollows(last)
          /\ task.first = Minus(Len(LastHandled), Depth) /\ task.first <= last
          /\ forks = 0 => Len(LastHandled) <= last
    /\ task.at = "persistHistory" =>
          /\ task.last + Depth <= Len(task.target) /\ TailFollows(task.last)
          /\ Agree(LastHandled, canonical, task.last)
    /\ task.at \in {"persistHistory", "persistLatest"} =>
          /\ task.last \in Nat /\ task.last <= Len(task.target)
          /\ handled # <<>> /\ Len(LastHandled) = task.last

(* The chain is final: there is one block for a number.                    *)
FinalInv ==
    /\ final => forks = 0
    /\ task.at \in {"confirm", "range", "fetch"} => task.last = LastHandled
    /\ task.at \in {"confirm", "range"} => Len(LastHandled) < Len(task.target)
    /\ task.at \in {"range", "fetch", "verify"} => task.rounds \in Nat \ {0}
    /\ task.at = "persistRange" => task.rounds \in Nat \ {0}
    /\ task.at \in {"fetch", "verify", "persistRange"} =>
          /\ Seen(task.checkpoint) /\ Len(LastHandled) < Len(task.checkpoint)
          /\ Len(task.checkpoint) <= Len(task.target)
    /\ task.at = "verify" => task.events = EventsIn(canonical, Len(LastHandled) + 1, Len(task.checkpoint))
    /\ task.at = "persistRange" => EventsIn(canonical, 1, Len(task.checkpoint)) \subseteq stored

(* Without reorganisations the store is not behind what was handled.       *)
StoreInv ==
    forks = 0 => /\ persisted <= Len(LastHandled)
                 /\ EventsIn(canonical, 1, Len(LastHandled)) \subseteq stored
                 /\ stored \subseteq EventsIn(canonical, 1, Len(canonical))

IndexIInv ==
    /\ IndexTypeOK /\ Seen(canonical) /\ Seen(tip) /\ HandledInv /\ TargetInv /\ RangeInv /\ LatestInv /\ HistoryInv
    /\ FinalInv /\ StoreInv

(* As long as the process runs the store has exactly the events of what    *)
(* was handled.                                                            *)
Mirror == ~ final /\ restarts = 0 => stored = EventsIn(LastHandled, 1, Len(LastHandled))

-----------------------------------------------------------------------------
(* Blocks                                                                  *)

LEMMA IndexBounds ==
    /\ Depth \in Nat \ {0} /\ Queried \in Nat /\ 2 * Depth <= Queried
    /\ HistoryMax \in Nat /\ HistoryMax > Depth + 1 /\ LatestMax \in Nat \ {0}
    /\ RangeMax \in Nat \ {0} /\ Rounds \in Nat \ {0}
    /\ MaxHeight \in Nat /\ MaxReorgs \in Nat /\ MaxRestarts \in Nat /\ Forks \subseteq Nat
BY DepthAssumption, LimitsAssumption, BoundsAssumption DEF Forks

LEMMA BlockFacts ==
    ASSUME NEW b \in Blocks
    PROVE  /\ b \in Seq(Forks) /\ Len(b) \in 0..MaxHeight /\ Len(b) \in Nat
           /\ \A n \in 1..Len(b) : b[n] \in Forks /\ b[n] \in Nat
<1>1. PICK m \in Numbers : b \in [1..m -> Forks]
    BY DEF Blocks
<1>2. m \in 0..MaxHeight /\ MaxHeight \in Nat
    BY <1>1, IndexBounds DEF Numbers
<1>3. b \in Seq(Forks) /\ Len(b) = m
    BY <1>1, <1>2
<1>4. \A n \in 1..Len(b) : b[n] \in Forks
    BY <1>1, <1>3
<1>5. \A n \in 1..Len(b) : b[n] \in Nat
    BY <1>4, IndexBounds
<1>6. Len(b) \in 0..MaxHeight /\ Len(b) \in Nat
    BY <1>2, <1>3
<1> QED BY <1>3, <1>4, <1>5, <1>6

LEMMA IsBlock ==
    ASSUME NEW b \in Seq(Forks), Len(b) <= MaxHeight
    PROVE  b \in Blocks
<1>1. Len(b) \in Numbers /\ b \in [1..Len(b) -> Forks]
    BY LenProperties, IndexBounds DEF Numbers
<1> QED BY <1>1 DEF Blocks

(* Blocks of one number with the same forks are one block.                 *)
LEMMA SameBlock ==
    ASSUME NEW b \in Blocks, NEW c \in Blocks, Len(b) = Len(c), Agree(b, c, Len(b))
    PROVE  b = c
BY BlockFacts, SeqEqual DEF Agree

LEMMA SubBlock ==
    ASSUME NEW b \in Blocks, NEW n \in 0..Len(b)
    PROVE  /\ SubSeq(b, 1, n) \in Blocks /\ Len(SubSeq(b, 1, n)) = n
           /\ \A i \in 1..n : SubSeq(b, 1, n)[i] = b[i]
<1>1. Len(b) \in 0..MaxHeight /\ MaxHeight \in Nat /\ \A i \in 1..n : b[i] \in Forks
    BY BlockFacts, IndexBounds
<1>2. n \in Nat /\ n <= MaxHeight
    BY <1>1
<1>3. /\ SubSeq(b, 1, n) \in Seq(Forks) /\ Len(SubSeq(b, 1, n)) = n
      /\ \A i \in 1..n : SubSeq(b, 1, n)[i] = b[i]
    BY <1>1, <1>2, SubSeqProperties
<1> QED BY <1>2, <1>3, IsBlock

(* The parent of a block.                                                  *)
LEMMA FrontBlock ==
    ASSUME NEW b \in Blocks, NEW c \in Blocks, b # <<>>, Front(b) = c
    PROVE  Len(b) = Len(c) + 1 /\ Agree(b, c, Len(c))
<1>1. Len(b) \in Nat \ {0}
    BY BlockFacts, EmptySeq
<1>2. Len(b) - 1 \in 0..Len(b)
    BY <1>1
<1> QED BY <1>1, <1>2, SubBlock DEF Front, Agree

-----------------------------------------------------------------------------
(* Events                                                                  *)

LEMMA EventFacts ==
    ASSUME NEW b \in Blocks, NEW first \in Int, NEW last \in Int, NEW e \in EventsIn(b, first, last)
    PROVE  /\ e[1] \in 1..Len(b) /\ first <= e[1] /\ e[1] <= last
           /\ e = <<e[1], b[e[1]]>> /\ b[e[1]] \notin Quiet /\ e \in Numbers \X Forks
<1>1. PICK n \in 1..Len(b) : n \in first..last /\ b[n] \notin Quiet /\ e = <<n, b[n]>>
    BY DEF EventsIn
<1>2. n \in Numbers /\ b[n] \in Forks
    BY <1>1, BlockFacts, IndexBounds DEF Numbers
<1> QED BY <1>1, <1>2

LEMMA IsEvent ==
    ASSUME NEW b \in Blocks, NEW first \in Int, NEW last \in Int,
           NEW n \in 1..Len(b), first <= n, n <= last, b[n] \notin Quiet
    PROVE  <<n, b[n]>> \in EventsIn(b, first, last)
<1>1. n \in Int
    BY BlockFacts
<1>2. n \in first..last
    BY <1>1
<1> QED BY <1>2 DEF EventsIn

(* The events of a block and its ancestors depend on its part only.        *)
LEMMA SameEvents ==
    ASSUME NEW b \in Blocks, NEW c \in Blocks, NEW first \in Int, NEW last \in Int,
           last <= Len(b), last <= Len(c), Agree(b, c, last)
    PROVE  EventsIn(b, first, last) = EventsIn(c, first, last)
<1>1. ASSUME NEW x \in Blocks, NEW y \in Blocks, last <= Len(x), last <= Len(y), Agree(x, y, last),
             NEW e \in EventsIn(x, first, last)
      PROVE  e \in EventsIn(y, first, last)
    <2>1. /\ e[1] \in 1..Len(x) /\ first <= e[1] /\ e[1] <= last /\ e = <<e[1], x[e[1]]>>
          /\ x[e[1]] \notin Quiet
        BY <1>1, EventFacts
    <2>2. Len(x) \in Nat /\ Len(y) \in Nat
        BY <1>1, BlockFacts
    <2>3. e[1] \in 1..Len(y) /\ x[e[1]] = y[e[1]]
        BY <1>1, <2>1, <2>2 DEF Agree
    <2> QED BY <2>1, <2>3, IsEvent
<1>2. Agree(c, b, last)
    BY DEF Agree
<1> QED BY <1>1, <1>2

(* What is put together from the two parts of a block.                     *)
LEMMA EventsJoin ==
    ASSUME NEW b \in Blocks, NEW middle \in Nat, NEW last \in Int, middle <= last + 1
    PROVE  EventsIn(b, 1, last) = EventsIn(b, 1, middle - 1) \cup EventsIn(b, middle, last)
<1> DEFINE before == middle - 1
<1>1. 1 \in Int /\ middle \in Int /\ before \in Int
    OBVIOUS
<1>2. \A n \in Int : n < middle => n <= before
    OBVIOUS
<1>3. \A n \in Int : n <= before => n <= last
    OBVIOUS
<1> HIDE DEF before
<1>4. ASSUME NEW e \in EventsIn(b, 1, last)
      PROVE  e \in EventsIn(b, 1, before) \cup EventsIn(b, middle, last)
    <2>1. /\ e[1] \in 1..Len(b) /\ e[1] <= last /\ e = <<e[1], b[e[1]]>> /\ b[e[1]] \notin Quiet
        BY <1>1, <1>4, EventFacts
    <2>2. e[1] \in Int /\ 1 <= e[1]
        BY <2>1, BlockFacts
    <2>3. CASE e[1] < middle
        <3>1. e[1] <= before
            BY <1>2, <2>2, <2>3
        <3> QED BY <1>1, <2>1, <2>2, <3>1, IsEvent
    <2>4. CASE middle <= e[1]
        BY <1>1, <2>1, <2>4, IsEvent
    <2> QED BY <2>2, <2>3, <2>4
<1>5. ASSUME NEW e \in EventsIn(b, 1, before) \cup EventsIn(b, middle, last)
      PROVE  e \in EventsIn(b, 1, last)
    <2>1. /\ e[1] \in 1..Len(b) /\ e = <<e[1], b[e[1]]>> /\ b[e[1]] \notin Quiet
          /\ e[1] <= before \/ (middle <= e[1] /\ e[1] <= last)
        BY <1>1, <1>5, EventFacts
    <2>2. e[1] \in Int /\ 1 <= e[1]
        BY <2>1, BlockFacts
    <2>3. e[1] <= last
        BY <1>3, <2>1, <2>2
    <2> QED BY <1>1, <2>1, <2>2, <2>3, IsEvent
<1> QED BY <1>4, <1>5 DEF before

-----------------------------------------------------------------------------
(* What the node has shown, and what a reorganisation leaves of it         *)

LEMMA ShownBlock ==
    ASSUME Seen(canonical), NEW n \in 0..Len(canonical)
    PROVE  /\ Seen(Block(n)) /\ Block(n) \in Blocks /\ Len(Block(n)) = n
           /\ \A i \in 1..n : Block(n)[i] = canonical[i]
<1>1. canonical \in Blocks
    BY DEF Seen, SeenOn
<1>2. Block(n) \in Blocks /\ Len(Block(n)) = n /\ \A i \in 1..n : Block(n)[i] = canonical[i]
    BY <1>1, SubBlock DEF Block
<1>3. Len(canonical) \in Nat
    BY <1>1, BlockFacts
<1>4. \A i \in 1..n : i \in 1..Len(canonical)
    BY <1>3
<1>5. \A i \in 1..n : canonical[i] <= forks
    BY <1>4 DEF Seen, SeenOn
<1>6. n <= Len(canonical)
    BY <1>3
<1> QED BY <1>2, <1>5, <1>6 DEF Seen, SeenOn

(* The chain goes on: nothing is replaced but what is near its end, and by *)
(* blocks of a fork that was not there before.                             *)
Onward ==
    /\ SeenOn(canonical', canonical', forks') /\ Len(canonical) <= Len(canonical')
    /\ forks \in Nat /\ forks' \in Nat /\ forks <= forks'
    /\ \A n \in 1..Len(canonical) :
          canonical'[n] = canonical[n] \/ (Len(canonical) < n + Depth /\ forks < canonical'[n])

LEMMA Extended ==
    ASSUME IndexTypeOK, Seen(canonical), Extend
    PROVE  Onward /\ forks' = forks
<1>1. /\ canonical \in Blocks /\ forks \in Forks /\ forks \in Nat /\ forks' = forks
      /\ Len(canonical) < MaxHeight /\ canonical' = Append(canonical, forks)
    BY IndexBounds DEF IndexTypeOK, Extend
<1>2. /\ canonical \in Seq(Forks) /\ Len(canonical) \in Nat /\ MaxHeight \in Nat
      /\ \A n \in 1..Len(canonical) : canonical[n] \in Nat
    BY <1>1, BlockFacts, IndexBounds
<1>3. /\ canonical' \in Seq(Forks) /\ Len(canonical') = Len(canonical) + 1
      /\ \A n \in 1..Len(canonical) : canonical'[n] = canonical[n]
      /\ canonical'[Len(canonical) + 1] = forks
    BY <1>1, <1>2, AppendProperties
<1>4. canonical' \in Blocks
    <2>1. Len(canonical') <= MaxHeight
        BY <1>1, <1>2, <1>3
    <2> QED BY <1>3, <2>1, IsBlock
<1>5. \A n \in 1..Len(canonical') : canonical'[n] <= forks
    <2> SUFFICES ASSUME NEW n \in 1..Len(canonical') PROVE canonical'[n] <= forks
        OBVIOUS
    <2>1. n \in 1..Len(canonical) \/ n = Len(canonical) + 1
        BY <1>2, <1>3
    <2> QED BY <1>1, <1>3, <2>1 DEF Seen, SeenOn
<1>6. Len(canonical) <= Len(canonical')
    BY <1>2, <1>3
<1> QED BY <1>1, <1>3, <1>4, <1>5, <1>6 DEF Onward, SeenOn

LEMMA Forked ==
    ASSUME IndexTypeOK, Seen(canonical), Reorganise
    PROVE  Onward /\ Len(canonical') = Len(canonical)
<1> DEFINE len == Len(canonical)
<1>1. /\ canonical \in Blocks /\ forks \in Forks /\ forks \in Nat /\ forks' = forks + 1
      /\ forks < MaxReorgs /\ MaxReorgs \in Nat
    BY IndexBounds DEF IndexTypeOK, Reorganise
<1>2. /\ len \in Nat /\ len <= MaxHeight /\ MaxHeight \in Nat /\ Depth \in Nat
      /\ \A n \in 1..len : canonical[n] \in Forks /\ canonical[n] \in Nat
    BY <1>1, BlockFacts, IndexBounds
<1>3. PICK k \in 1..AtMost(Depth, len) :
          canonical' = [n \in 1..len |-> IF n > len - k THEN forks + 1 ELSE canonical[n]]
    BY DEF Reorganise
<1>4. k \in Nat /\ k <= Depth /\ forks + 1 \in Forks
    <2>1. AtMost(Depth, len) \in Nat /\ AtMost(Depth, len) <= Depth
        BY <1>2 DEF AtMost
    <2>2. forks + 1 \in Forks
        BY <1>1 DEF Forks
    <2> QED BY <1>2, <2>1, <2>2
<1> HIDE DEF len
<1>5. canonical' \in [1..len -> Forks]
    BY <1>2, <1>3, <1>4
<1>6. canonical' \in Seq(Forks) /\ Len(canonical') = len
    BY <1>2, <1>5
<1>7. \A n \in 1..len : \/ canonical'[n] = canonical[n]
                        \/ canonical'[n] = forks + 1 /\ len < n + Depth
    BY <1>2, <1>3, <1>4
<1>8. canonical' \in Blocks
    BY <1>2, <1>6, IsBlock
<1>9. \A n \in 1..len : canonical[n] <= forks
    BY DEF Seen, SeenOn, len
<1>10. \A n \in 1..len : canonical'[n] <= forks + 1
    BY <1>1, <1>2, <1>7, <1>9
<1> QED BY <1>1, <1>2, <1>6, <1>7, <1>8, <1>10 DEF Onward, SeenOn, len

LEMMA Stays ==
    ASSUME IndexTypeOK, Seen(canonical), UNCHANGED <<canonical, forks>>
    PROVE  Onward
<1>1. forks \in Nat /\ Len(canonical) \in Nat
    BY BlockFacts, IndexBounds DEF IndexTypeOK
<1> QED BY <1>1 DEF Onward, Seen

(* What was seen stays seen.                                               *)
LEMMA SeenOnward ==
    ASSUME NEW b, Seen(canonical), Seen(b), Onward
    PROVE  SeenOn(b, canonical', forks')
<1>1. /\ b \in Blocks /\ canonical \in Blocks /\ canonical' \in Blocks /\ Len(b) <= Len(canonical)
      /\ Len(canonical) <= Len(canonical')
    BY DEF Seen, SeenOn, Onward
<1>2. /\ Len(b) \in Nat /\ Len(canonical) \in Nat /\ Len(canonical') \in Nat /\ Depth \in Nat
      /\ \A n \in 1..Len(b) : b[n] \in Nat
    BY <1>1, BlockFacts, IndexBounds
<1>3. ASSUME NEW n \in 1..Len(b) PROVE b[n] <= forks' /\ (n + Depth <= Len(b) => b[n] = canonical'[n])
    <2>1. b[n] <= forks /\ (n + Depth <= Len(b) => b[n] = canonical[n])
        BY DEF Seen, SeenOn
    <2>2. n \in 1..Len(canonical)
        BY <1>1, <1>2
    <2>3. n + Depth <= Len(b) => canonical'[n] = canonical[n]
        BY <1>1, <1>2, <2>2 DEF Onward
    <2>4. b[n] <= forks'
        BY <1>2, <2>1 DEF Onward
    <2> QED BY <2>1, <2>3, <2>4
<1>4. Len(b) <= Len(canonical')
    BY <1>1, <1>2
<1> QED BY <1>1, <1>3, <1>4 DEF SeenOn

(* So do the numbers no reorganisation reaches.                            *)
LEMMA FinalOnward ==
    ASSUME Seen(canonical), Onward, NEW number \in Nat, number + Depth <= Len(canonical)
    PROVE  \A n \in 1..number : canonical'[n] = canonical[n]
<1>1. Len(canonical) \in Nat /\ Depth \in Nat
    BY BlockFacts, IndexBounds DEF Seen, SeenOn
<1> QED BY <1>1 DEF Onward

(* While nothing was replaced, there is one block for a number.            *)
LEMMA NoForks ==
    ASSUME Seen(canonical), Onward, forks' = 0
    PROVE  forks = 0 /\ Agree(canonical', canonical, Len(canonical))
<1>1. forks = 0
    BY DEF Onward
<1>2. Len(canonical) \in Nat /\ Len(canonical') \in Nat /\ \A n \in 1..Len(canonical') : canonical'[n] \in Nat
    BY BlockFacts DEF Onward, Seen, SeenOn
<1>3. \A n \in 1..Len(canonical) : n \in 1..Len(canonical') /\ canonical'[n] <= 0
    BY <1>2 DEF Onward, SeenOn
<1>4. \A n \in 1..Len(canonical) : canonical'[n] = canonical[n]
    BY <1>1, <1>2, <1>3 DEF Onward
<1> QED BY <1>1, <1>4 DEF Agree

LEMMA OneChain ==
    ASSUME Seen(canonical), NEW b, Seen(b), NEW c, Seen(c), forks = 0, Len(b) <= Len(c)
    PROVE  Agree(b, c, Len(b))
<1>1. /\ Len(b) \in Nat /\ Len(c) \in Nat
      /\ \A n \in 1..Len(b) : b[n] \in Nat
      /\ \A n \in 1..Len(c) : c[n] \in Nat
    BY BlockFacts DEF Seen, SeenOn
<1>2. \A n \in 1..Len(b) : n \in 1..Len(c) /\ b[n] <= 0 /\ c[n] <= 0
    BY <1>1 DEF Seen, SeenOn
<1>3. \A n \in 1..Len(b) : b[n] = c[n]
    BY <1>1, <1>2
<1> QED BY <1>3 DEF Agree

-----------------------------------------------------------------------------
(* Consecutive blocks                                                      *)

LEMMA BranchFacts ==
    ASSUME NEW blocks, NEW first \in Nat, Branch(blocks, first)
    PROVE  /\ blocks \in Seq(Blocks) /\ Len(blocks) \in Nat \ {0} /\ Last(blocks) = blocks[Len(blocks)]
           /\ \A i \in 1..Len(blocks) : /\ Seen(blocks[i]) /\ blocks[i] \in Blocks
                                        /\ Len(blocks[i]) = first + i - 1
                                        /\ Ancestor(blocks[i], Last(blocks))
           /\ Len(blocks[1]) = first /\ Len(Last(blocks)) = first + Len(blocks) - 1
           /\ Seen(Last(blocks)) /\ Seen(blocks[1])
<1>1. blocks \in Seq(Blocks) /\ Len(blocks) \in Nat \ {0} /\ Last(blocks) = blocks[Len(blocks)]
    BY EmptySeq DEF Branch, BranchOn, Last
<1>2. 1 \in 1..Len(blocks) /\ Len(blocks) \in 1..Len(blocks)
    BY <1>1
<1>3. \A i \in 1..Len(blocks) : /\ Seen(blocks[i]) /\ blocks[i] \in Blocks
                                /\ Len(blocks[i]) = first + i - 1
    BY DEF Branch, BranchOn, Seen, SeenOn
<1>4. \A i \in 1..Len(blocks) : Ancestor(blocks[i], Last(blocks))
    BY <1>1, <1>2 DEF Branch, BranchOn
<1>5. first + 1 - 1 = first
    OBVIOUS
<1> QED BY <1>1, <1>2, <1>3, <1>4, <1>5

LEMMA BlocksInBranch ==
    ASSUME Seen(canonical), NEW first \in Nat, NEW last \in Nat, first <= last, last <= Len(canonical)
    PROVE  LET blocks == BlocksIn(first, last) IN
           /\ Branch(blocks, first) /\ Len(blocks) = last + 1 - first /\ Len(Last(blocks)) = last
           /\ \A i \in 1..Len(blocks) : blocks[i] = Block(first + i - 1)
           /\ Agree(blocks[1], canonical, first)
<1> DEFINE blocks == BlocksIn(first, last)
           count == last + 1 - first
<1>1. count \in Nat \ {0} /\ Len(canonical) \in Nat
    BY BlockFacts DEF Seen, SeenOn
<1>2. \A i \in 1..count : first + i - 1 \in 0..Len(canonical)
    BY <1>1
<1>3. \A i \in 1..count : /\ Seen(Block(first + i - 1)) /\ Block(first + i - 1) \in Blocks
                          /\ Len(Block(first + i - 1)) = first + i - 1
                          /\ \A n \in 1..(first + i - 1) : Block(first + i - 1)[n] = canonical[n]
    BY <1>2, ShownBlock
<1>4. blocks = [i \in 1..count |-> Block(first + i - 1)]
    BY DEF BlocksIn
<1>5. blocks \in [1..count -> Blocks]
    BY <1>3, <1>4
<1>6. blocks \in Seq(Blocks) /\ Len(blocks) = count
    BY <1>1, <1>5
<1>7. \A i \in 1..count : blocks[i] = Block(first + i - 1)
    BY <1>4
<1> HIDE DEF blocks
<1>8. \A i \in 1..count : Seen(blocks[i]) /\ Len(blocks[i]) = first + i - 1
    BY <1>3, <1>7
<1>9. \A i, j \in 1..count : i <= j => Ancestor(blocks[i], blocks[j])
    <2> SUFFICES ASSUME NEW i \in 1..count, NEW j \in 1..count, i <= j
                 PROVE  Ancestor(blocks[i], blocks[j])
        OBVIOUS
    <2>1. Len(blocks[i]) = first + i - 1 /\ Len(blocks[j]) = first + j - 1
        BY <1>8
    <2>2. \A n \in 1..(first + i - 1) : n \in 1..(first + j - 1)
        BY <1>1
    <2>3. \A n \in 1..(first + i - 1) : blocks[i][n] = blocks[j][n]
        BY <1>3, <1>7, <2>2
    <2>4. first + i - 1 <= first + j - 1
        BY <1>1
    <2> QED BY <2>1, <2>3, <2>4 DEF Ancestor, Agree
<1>10. Branch(blocks, first)
    <2>1. blocks # <<>>
        BY <1>1, <1>6, EmptySeq
    <2> QED BY <1>6, <1>8, <1>9, <2>1 DEF Branch, BranchOn, Seen
<1>11. Len(Last(blocks)) = last
    <2>1. Len(Last(blocks)) = first + count - 1
        BY <1>6, <1>10, BranchFacts
    <2> QED BY <1>1, <2>1
<1>12. Agree(blocks[1], canonical, first)
    <2>1. 1 \in 1..count /\ first + 1 - 1 = first
        BY <1>1
    <2> QED BY <1>3, <1>7, <2>1 DEF Agree
<1> QED BY <1>6, <1>7, <1>10, <1>11, <1>12 DEF blocks

(* A part of them.                                                         *)
LEMMA SubBranch ==
    ASSUME NEW blocks, NEW first \in Nat, Branch(blocks, first),
           NEW from \in 1..Len(blocks), NEW to \in from..Len(blocks)
    PROVE  LET part == SubSeq(blocks, from, to) IN
           /\ Branch(part, first + from - 1) /\ Len(part) = to + 1 - from
           /\ part[1] = blocks[from] /\ Last(part) = blocks[to]
<1> DEFINE part == SubSeq(blocks, from, to)
           count == to + 1 - from
<1>1. /\ blocks \in Seq(Blocks) /\ Len(blocks) \in Nat \ {0}
      /\ \A i \in 1..Len(blocks) : /\ Seen(blocks[i]) /\ blocks[i] \in Blocks
                                   /\ Len(blocks[i]) = first + i - 1
    BY BranchFacts
<1>2. from \in Int /\ to \in Int /\ count \in Nat \ {0} /\ \A i \in from..to : blocks[i] \in Blocks
    <2>1. from \in Int /\ to \in Int /\ count \in Nat \ {0} /\ \A i \in from..to : i \in 1..Len(blocks)
        BY <1>1
    <2> QED BY <1>1, <2>1
<1>3. /\ part \in Seq(Blocks) /\ Len(part) = count
      /\ \A i \in 1..count : part[i] = blocks[from + i - 1]
    <2>1. /\ part \in Seq(Blocks) /\ Len(part) = IF from <= to THEN to - from + 1 ELSE 0
          /\ \A i \in 1..(to - from + 1) : part[i] = blocks[from + i - 1]
        BY <1>2, SubSeqProperties
    <2> QED BY <1>2, <2>1
<1> HIDE DEF part
<1>4. \A i \in 1..count : from + i - 1 \in 1..Len(blocks)
    BY <1>1, <1>2
<1>5. \A i \in 1..count : Seen(part[i]) /\ Len(part[i]) = (first + from - 1) + i - 1
    <2>1. \A i \in 1..count : first + (from + i - 1) - 1 = (first + from - 1) + i - 1
        BY <1>2
    <2> QED BY <1>1, <1>3, <1>4, <2>1
<1>6. \A i, j \in 1..count : i <= j => Ancestor(part[i], part[j])
    <2>1. \A i, j \in 1..count : i <= j => from + i - 1 <= from + j - 1
        BY <1>2
    <2> QED BY <1>3, <1>4, <2>1 DEF Branch, BranchOn
<1>7. Branch(part, first + from - 1)
    <2>1. part # <<>>
        BY <1>2, <1>3, EmptySeq
    <2> QED BY <1>3, <1>5, <1>6, <2>1 DEF Branch, BranchOn, Seen
<1>8. part[1] = blocks[from] /\ Last(part) = blocks[to]
    <2>1. 1 \in 1..count /\ count \in 1..count /\ from + 1 - 1 = from /\ from + count - 1 = to
        BY <1>2
    <2> QED BY <1>3, <2>1 DEF Last
<1> QED BY <1>3, <1>7, <1>8 DEF part

LEMMA BranchOnward ==
    ASSUME NEW blocks, NEW first, Seen(canonical), Branch(blocks, first), Onward
    PROVE  BranchOn(blocks, first, canonical', forks')
BY SeenOnward DEF Branch, BranchOn, Seen

-----------------------------------------------------------------------------
(* Facts about one state                                                   *)

LEMMA IndexFacts ==
    ASSUME IndexIInv
    PROVE  /\ canonical \in Blocks /\ tip \in Blocks /\ handled \in Seq(Blocks)
           /\ Len(canonical) \in Nat /\ Len(tip) \in Nat /\ persisted \in Nat /\ forks \in Nat
           /\ Len(handled) \in Nat /\ \A i \in 1..Len(handled) : handled[i] \in Blocks
           /\ Len(tip) <= Len(canonical) /\ persisted <= Len(tip)
           /\ Seen(canonical) /\ Seen(tip) /\ stored \subseteq Numbers \X Forks
<1>1. canonical \in Blocks /\ tip \in Blocks /\ handled \in Seq(Blocks) /\ forks \in Forks
    BY DEF IndexIInv, IndexTypeOK, HandledInv
<1>2. Len(canonical) \in Nat /\ Len(tip) \in Nat /\ Len(handled) \in Nat /\ forks \in Nat
    BY <1>1, BlockFacts, LenProperties, IndexBounds
<1>3. \A i \in 1..Len(handled) : handled[i] \in Blocks
    BY <1>1, ElementOfSeq
<1> QED BY <1>1, <1>2, <1>3 DEF IndexIInv, IndexTypeOK

LEMMA LastFacts ==
    ASSUME IndexIInv
    PROVE  /\ LastHandled \in Blocks /\ Seen(LastHandled) /\ Len(LastHandled) \in Nat
           /\ Len(LastHandled) <= Len(tip)
           /\ handled = <<>> => LastHandled = Block(persisted) /\ Len(LastHandled) = persisted
           /\ handled # <<>> => /\ LastHandled = Last(handled) /\ Len(handled) \in 1..Len(handled)
                                /\ LastHandled = handled[Len(handled)]
<1>1. CASE handled = <<>>
    <2>1. Base = <<Block(persisted)>> /\ LastHandled = Block(persisted)
        BY <1>1 DEF Base, LastHandled, Last
    <2>2. persisted \in 0..Len(canonical)
        BY IndexFacts
    <2>3. Seen(LastHandled) /\ LastHandled \in Blocks /\ Len(LastHandled) = persisted
        BY <2>1, <2>2, IndexFacts, ShownBlock
    <2> QED BY <1>1, <2>1, <2>3, IndexFacts
<1>2. CASE handled # <<>>
    <2>1. LastHandled = Last(handled) /\ Len(handled) \in 1..Len(handled) /\ LastHandled = handled[Len(handled)]
        <3>1. Len(handled) \in Nat \ {0}
            BY <1>2, IndexFacts, EmptySeq
        <3> QED BY <1>2, <3>1 DEF Base, LastHandled, Last
    <2>2. Seen(LastHandled) /\ LastHandled \in Blocks
        BY <2>1, IndexFacts DEF IndexIInv, HandledInv
    <2>3. Len(LastHandled) \in Nat /\ Len(LastHandled) <= Len(tip)
        BY <2>2, BlockFacts DEF IndexIInv, HandledInv
    <2> QED BY <1>2, <2>1, <2>2, <2>3
<1> QED BY <1>1, <1>2

(* What the checkpoint stands for changes with the chain, but not while    *)
(* the process runs, nor where nothing was replaced.                       *)
LEMMA LastStays ==
    ASSUME IndexIInv, Onward, UNCHANGED <<handled, persisted>>
    PROVE  /\ Len(LastHandled') = Len(LastHandled)
           /\ handled # <<>> \/ persisted = 0 \/ forks' = 0 => LastHandled' = LastHandled
<1>1. CASE handled # <<>>
    BY <1>1 DEF Base, LastHandled
<1>2. CASE handled = <<>>
    <2>1. LastHandled' = SubSeq(canonical', 1, persisted) /\ LastHandled = SubSeq(canonical, 1, persisted)
        BY <1>2 DEF Base, LastHandled, Last, Block
    <2>2. canonical \in Blocks /\ canonical' \in Blocks /\ Len(canonical) \in Nat /\ Len(canonical') \in Nat
        BY IndexFacts, BlockFacts DEF Onward, SeenOn
    <2>3. persisted \in 0..Len(canonical) /\ persisted \in 0..Len(canonical')
        BY <2>2, IndexFacts DEF Onward
    <2>4. /\ LastHandled \in Blocks /\ LastHandled' \in Blocks
          /\ Len(LastHandled) = persisted /\ Len(LastHandled') = persisted
          /\ \A n \in 1..persisted : LastHandled[n] = canonical[n] /\ LastHandled'[n] = canonical'[n]
        BY <2>1, <2>2, <2>3, SubBlock
    <2>5. ASSUME persisted = 0 \/ forks' = 0 PROVE LastHandled' = LastHandled
        <3>1. \A n \in 1..persisted : canonical'[n] = canonical[n]
            <4>1. CASE persisted = 0
                BY <4>1
            <4>2. CASE forks' = 0
                <5>1. Agree(canonical', canonical, Len(canonical))
                    BY <4>2, IndexFacts, NoForks
                <5>2. \A n \in 1..persisted : n \in 1..Len(canonical)
                    BY <2>2, <2>3
                <5> QED BY <5>1, <5>2 DEF Agree
            <4> QED BY <2>5, <4>1, <4>2
        <3>2. Agree(LastHandled', LastHandled, persisted)
            BY <2>4, <3>1 DEF Agree
        <3> QED BY <2>4, <3>2, SameBlock
    <2> QED BY <1>2, <2>4, <2>5
<1> QED BY <1>1, <1>2

-----------------------------------------------------------------------------
(* The chain goes on under the indexer                                     *)

rest == <<final, tip, stored, persisted, handled, fresh, task, announced, restarts>>

LEMMA TargetFacts ==
    ASSUME IndexIInv, task # idle
    PROVE  /\ task.target \in Blocks /\ Len(task.target) \in Nat /\ Seen(task.target)
           /\ Len(task.target) <= Len(tip) /\ Len(task.target) <= Len(canonical)
<1>1. Seen(task.target) /\ Len(task.target) <= Len(tip)
    BY DEF IndexIInv, TargetInv
<1>2. task.target \in Blocks /\ Len(task.target) <= Len(canonical)
    BY <1>1 DEF Seen, SeenOn
<1> QED BY <1>1, <1>2, BlockFacts

LEMMA HandledOnward ==
    ASSUME IndexIInv, Onward, UNCHANGED rest
    PROVE  HandledInv'
<1>1. ASSUME NEW i \in 1..Len(handled)
      PROVE  /\ SeenOn(handled[i], canonical', forks')
             /\ restarts = 0 /\ Ancestor(handled[i], canonical') => Ancestor(handled[i], LastHandled')
    <2>1. Seen(handled[i])
        BY DEF IndexIInv, HandledInv
    <2>2. SeenOn(handled[i], canonical', forks')
        BY <2>1, IndexFacts, SeenOnward
    <2>3. ASSUME restarts = 0, Ancestor(handled[i], canonical') PROVE Ancestor(handled[i], LastHandled')
        <3>1. handled[i] \in Blocks /\ Len(handled[i]) \in Nat /\ \A n \in 1..Len(handled[i]) : handled[i][n] \in Nat
            BY IndexFacts, BlockFacts
        <3>2. \A n \in 1..Len(handled[i]) : n \in 1..Len(canonical) /\ handled[i][n] <= forks
            BY <2>1, <3>1, IndexFacts DEF Seen, SeenOn
        <3>3. \A n \in 1..Len(handled[i]) : handled[i][n] = canonical[n]
            BY <2>3, <3>1, <3>2, IndexFacts DEF Ancestor, Agree, Onward
        <3>4. Ancestor(handled[i], canonical)
            BY <2>1, <3>3 DEF Ancestor, Agree, Seen, SeenOn
        <3>5. Ancestor(handled[i], LastHandled) /\ handled # <<>>
            BY <2>3, <3>4, EmptySeq DEF IndexIInv, HandledInv
        <3> QED BY <3>5, LastStays DEF rest
    <2> QED BY <2>2, <2>3
<1>2. /\ handled' = handled /\ tip' = tip /\ fresh' = fresh /\ restarts' = restarts /\ persisted' = persisted
      /\ Len(LastHandled') = Len(LastHandled)
    BY LastStays DEF rest
<1> QED BY <1>1, <1>2 DEF IndexIInv, HandledInv, Seen

LEMMA TailOnward ==
    ASSUME IndexIInv, Onward, UNCHANGED rest, task # idle, NEW number \in Nat,
           number + Depth <= Len(task.target)
    PROVE  /\ \A n \in 1..number : canonical'[n] = canonical[n]
           /\ TailFollows(number) => TailOn(task.blocks, number, task.target, canonical', forks')
<1>1. number + Depth <= Len(canonical)
    BY TargetFacts, IndexFacts, IndexBounds
<1>2. \A n \in 1..number : canonical'[n] = canonical[n]
    BY <1>1, IndexFacts, FinalOnward
<1>3. Branch(task.blocks, number + 1) => BranchOn(task.blocks, number + 1, canonical', forks')
    BY IndexFacts, BranchOnward
<1> QED BY <1>2, <1>3 DEF TailFollows, TailOn, Branch, Agree

LEMMA TaskOnward ==
    ASSUME IndexIInv, Onward, UNCHANGED rest
    PROVE  TargetInv' /\ RangeInv' /\ LatestInv' /\ HistoryInv'
<1>1. /\ handled' = handled /\ tip' = tip /\ fresh' = fresh /\ restarts' = restarts /\ persisted' = persisted
      /\ task' = task /\ Len(LastHandled') = Len(LastHandled)
    BY LastStays DEF rest
<1>2. forks' = 0 => forks = 0
    BY IndexFacts, NoForks
<1>3. TargetInv'
    BY <1>1, IndexFacts, SeenOnward DEF IndexIInv, TargetInv, Seen
<1>4. RangeInv'
    BY <1>1, <1>2, IndexFacts, SeenOnward DEF IndexIInv, RangeInv, Seen
<1>5. LatestInv'
    <2> SUFFICES ASSUME task.at = "latest" PROVE LatestInv'
        BY <1>1 DEF LatestInv
    <2>1. BranchOn(task.blocks, Len(task.blocks[1]), canonical', forks')
        BY IndexFacts, BranchOnward DEF IndexIInv, LatestInv
    <2>2. restarts = 0 => LastHandled' = LastHandled
        BY LastStays DEF IndexIInv, HandledInv, rest
    <2>3. Follows(task.blocks, task.replace)'
        BY <1>1, <1>2, <2>2 DEF IndexIInv, LatestInv, Follows, FollowsOn, Agree
    <2> QED BY <1>1, <2>1, <2>3 DEF IndexIInv, LatestInv, Branch
<1>6. HistoryInv'
    <2>1. task.at \in {"checkpoint", "history", "persistHistory", "persistLatest"} => task # idle
        BY DEF idle
    <2>2. ASSUME task.at = "checkpoint" PROVE HistoryInv'
        <3>1. task.last \in Nat /\ task.last + Depth <= Len(task.target)
            BY <2>2 DEF IndexIInv, HistoryInv
        <3> QED BY <1>1, <1>2, <2>1, <2>2, <3>1, TailOnward DEF IndexIInv, HistoryInv, TailFollows
    <2>3. ASSUME task.at = "history" PROVE HistoryInv'
        <3>1. Seen(task.checkpoint) /\ Len(task.checkpoint) + Depth <= Len(task.target)
            BY <2>3 DEF IndexIInv, HistoryInv
        <3>2. Len(task.checkpoint) \in Nat
            BY <3>1, BlockFacts DEF Seen, SeenOn
        <3>3. SeenOn(task.checkpoint, canonical', forks')
            BY <3>1, IndexFacts, SeenOnward
        <3>4. Agree(task.checkpoint, canonical', Len(task.checkpoint))
            BY <2>1, <2>3, <3>1, <3>2, TailOnward DEF IndexIInv, HistoryInv, Agree
        <3> QED BY <1>1, <1>2, <2>1, <2>3, <3>1, <3>2, <3>3, <3>4, TailOnward
                DEF IndexIInv, HistoryInv, Seen, TailFollows
    <2>4. ASSUME task.at = "persistHistory" PROVE HistoryInv'
        <3>1. /\ task.last \in Nat /\ task.last + Depth <= Len(task.target) /\ handled # <<>>
              /\ Agree(LastHandled, canonical, task.last)
            BY <2>4 DEF IndexIInv, HistoryInv
        <3>2. LastHandled' = LastHandled
            BY <3>1, LastStays DEF rest
        <3>3. Agree(LastHandled, canonical', task.last)
            BY <2>1, <2>4, <3>1, TailOnward DEF Agree
        <3> QED BY <1>1, <2>1, <2>4, <3>1, <3>2, <3>3, TailOnward DEF IndexIInv, HistoryInv, TailFollows
    <2>5. ASSUME task.at \notin {"checkpoint", "history", "persistHistory"} PROVE HistoryInv'
        BY <1>1, <2>5 DEF IndexIInv, HistoryInv
    <2> QED BY <2>2, <2>3, <2>4, <2>5
<1> QED BY <1>3, <1>4, <1>5, <1>6

LEMMA EventsOnward ==
    ASSUME IndexIInv, Onward, forks' = 0, NEW first \in Int, NEW last \in Int, last <= Len(canonical)
    PROVE  EventsIn(canonical', first, last) = EventsIn(canonical, first, last)
<1>1. /\ canonical \in Blocks /\ canonical' \in Blocks /\ Len(canonical) \in Nat
      /\ Len(canonical') \in Nat /\ Len(canonical) <= Len(canonical')
    BY IndexFacts, BlockFacts DEF Onward, SeenOn
<1>2. Agree(canonical', canonical, Len(canonical))
    BY IndexFacts, NoForks
<1>3. Agree(canonical', canonical, last)
    BY <1>1, <1>2 DEF Agree
<1> QED BY <1>1, <1>3, SameEvents

LEMMA FinalInvOnward ==
    ASSUME IndexIInv, Onward, UNCHANGED rest, final => forks' = forks
    PROVE  FinalInv'
<1>1. final' = final /\ task' = task /\ stored' = stored /\ handled' = handled /\ persisted' = persisted
      /\ Len(LastHandled') = Len(LastHandled)
    BY LastStays DEF rest
<1>2. CASE ~ final
    <2>1. task.at \notin {"confirm", "range", "fetch", "verify", "persistRange"}
        BY <1>2 DEF IndexIInv, IndexTypeOK, Task, idle
    <2> QED BY <1>1, <1>2, <2>1 DEF FinalInv
<1>3. CASE final
    <2>1. forks = 0 /\ forks' = 0
        BY <1>3 DEF IndexIInv, FinalInv
    <2>2. LastHandled' = LastHandled
        BY <2>1, LastStays DEF rest
    <2>3. task.at \in {"fetch", "verify", "persistRange"} =>
              /\ SeenOn(task.checkpoint, canonical', forks') /\ Len(task.checkpoint) \in Nat
              /\ Len(task.checkpoint) <= Len(canonical)
        BY IndexFacts, SeenOnward, BlockFacts DEF IndexIInv, FinalInv, Seen, SeenOn
    <2>4. Len(LastHandled) + 1 \in Int /\ 1 \in Int
        BY LastFacts
    <2>5. task.at = "verify" => EventsIn(canonical', Len(LastHandled) + 1, Len(task.checkpoint))
                                  = EventsIn(canonical, Len(LastHandled) + 1, Len(task.checkpoint))
        BY <2>1, <2>3, <2>4, EventsOnward
    <2>6. task.at = "persistRange" => EventsIn(canonical', 1, Len(task.checkpoint))
                                        = EventsIn(canonical, 1, Len(task.checkpoint))
        BY <2>1, <2>3, <2>4, EventsOnward
    <2> QED BY <1>1, <2>1, <2>2, <2>3, <2>5, <2>6 DEF IndexIInv, FinalInv, Seen
<1> QED BY <1>2, <1>3

LEMMA StoreOnward ==
    ASSUME IndexIInv, Onward, UNCHANGED rest
    PROVE  StoreInv'
<1> SUFFICES ASSUME forks' = 0 PROVE StoreInv'
    BY DEF StoreInv
<1>1. forks = 0 /\ LastHandled' = LastHandled /\ stored' = stored /\ persisted' = persisted
    BY IndexFacts, NoForks, LastStays DEF rest
<1>2. /\ Len(LastHandled) \in Int /\ Len(canonical) \in Nat /\ Len(LastHandled) <= Len(canonical)
      /\ Len(canonical') \in Nat /\ Len(canonical) <= Len(canonical') /\ canonical' \in Blocks
    BY LastFacts, IndexFacts, BlockFacts DEF Onward, SeenOn
<1>3. EventsIn(canonical', 1, Len(LastHandled)) = EventsIn(canonical, 1, Len(LastHandled))
    BY <1>2, EventsOnward
<1>4. EventsIn(canonical, 1, Len(canonical)) \subseteq EventsIn(canonical', 1, Len(canonical'))
    <2>1. Len(canonical) + 1 \in Nat /\ Len(canonical) + 1 <= Len(canonical') + 1
          /\ Len(canonical) + 1 - 1 = Len(canonical) /\ Len(canonical') \in Int
        BY <1>2
    <2>2. EventsIn(canonical', 1, Len(canonical)) \subseteq EventsIn(canonical', 1, Len(canonical'))
        BY <1>2, <2>1, EventsJoin
    <2>3. EventsIn(canonical', 1, Len(canonical)) = EventsIn(canonical, 1, Len(canonical))
        BY <1>2, EventsOnward
    <2> QED BY <2>2, <2>3
<1> QED BY <1>1, <1>3, <1>4 DEF IndexIInv, StoreInv

LEMMA ChainStep == ASSUME IndexIInv, Extend \/ Reorganise PROVE IndexIInv'
<1>1. Onward /\ UNCHANGED rest /\ (final => forks' = forks) /\ forks' \in Forks
    <2>1. CASE Extend
        BY <2>1, IndexFacts, Extended DEF IndexIInv, IndexTypeOK, Extend, rest
    <2>2. CASE Reorganise
        <3>1. forks + 1 \in Forks
            BY <2>2, IndexBounds, IndexFacts DEF Reorganise, Forks
        <3> QED BY <2>2, <3>1, IndexFacts, Forked DEF IndexIInv, Reorganise, rest
    <2> QED BY <2>1, <2>2
<1>2. SeenOn(canonical', canonical', forks') /\ SeenOn(tip, canonical', forks')
    BY <1>1, IndexFacts, SeenOnward DEF Onward
<1>3. IndexTypeOK'
    <2>1. canonical' \in Blocks /\ Len(tip) <= Len(canonical')
        BY <1>2 DEF SeenOn
    <2> QED BY <1>1, <2>1 DEF IndexIInv, IndexTypeOK, rest, Task
<1> QED BY <1>1, <1>2, <1>3, HandledOnward, TaskOnward, FinalInvOnward, StoreOnward DEF IndexIInv, rest, Seen

LEMMA NoticeStep == ASSUME IndexIInv, NoticeHead PROVE IndexIInv'
<1>1. /\ UNCHANGED <<canonical, forks, final, stored, persisted, handled, task, announced, restarts>>
      /\ tip' = canonical /\ fresh' = TRUE /\ Len(tip) < Len(canonical)
    BY DEF NoticeHead
<1>2. LastHandled' = LastHandled
    BY <1>1 DEF LastHandled, Base, Block
<1>3. /\ Len(LastHandled) \in Nat /\ Len(LastHandled) <= Len(tip) /\ Len(tip) \in Nat
      /\ Len(canonical) \in Nat /\ canonical \in Blocks /\ persisted \in Nat /\ persisted <= Len(tip)
    BY LastFacts, IndexFacts
<1>4. IndexTypeOK'
    <2>1. announced \in 0..Len(canonical) /\ persisted \in 0..Len(canonical)
        BY <1>1, <1>3 DEF IndexIInv, IndexTypeOK
    <2> QED BY <1>1, <1>3, <2>1 DEF IndexIInv, IndexTypeOK, Task
<1>5. Seen(canonical)' /\ Seen(tip)'
    BY <1>1 DEF IndexIInv, Seen
<1>6. HandledInv'
    <2>1. Len(LastHandled) <= Len(canonical) /\ Len(LastHandled) < Len(canonical)
        BY <1>1, <1>3
    <2> QED BY <1>1, <1>2, <2>1 DEF IndexIInv, HandledInv, Seen
<1>7. TargetInv'
    <2> SUFFICES ASSUME task # idle PROVE TargetInv'
        BY <1>1 DEF TargetInv
    <2>1. Len(task.target) < Len(canonical) /\ Len(task.target) <= Len(canonical) /\ Seen(task.target)
        BY <1>1, <1>3, TargetFacts
    <2> QED BY <1>1, <2>1 DEF TargetInv, Seen
<1>8. RangeInv' /\ LatestInv' /\ HistoryInv' /\ FinalInv' /\ StoreInv'
    BY <1>1, <1>2 DEF IndexIInv, RangeInv, LatestInv, HistoryInv, FinalInv, StoreInv, Seen, Branch,
                      TailFollows, Follows
<1> QED BY <1>4, <1>5, <1>6, <1>7, <1>8 DEF IndexIInv

-----------------------------------------------------------------------------
(* Steps of the indexer that only read                                     *)

LEMMA ReadsStep ==
    ASSUME IndexIInv, UNCHANGED <<node, stored, persisted, handled>>, fresh' \in BOOLEAN,
           fresh' => fresh, announced' \in 0..Len(tip), Task', TargetInv', RangeInv', LatestInv',
           HistoryInv', FinalInv'
    PROVE  IndexIInv'
<1>1. LastHandled' = LastHandled
    BY DEF LastHandled, Base, Block, node
<1>2. IndexTypeOK' /\ Seen(canonical)' /\ Seen(tip)'
    BY DEF IndexIInv, IndexTypeOK, Seen, node
<1>3. HandledInv' /\ StoreInv'
    BY <1>1 DEF IndexIInv, HandledInv, StoreInv, Seen, node
<1> QED BY <1>2, <1>3 DEF IndexIInv

LEMMA IdleTask ==
    ASSUME FinalInv, task' = idle, UNCHANGED <<final, forks>>
    PROVE  Task' /\ TargetInv' /\ RangeInv' /\ LatestInv' /\ HistoryInv' /\ FinalInv'
<1>1. task'.at = "idle" /\ final' = final /\ forks' = forks
    BY DEF idle
<1> QED BY <1>1 DEF Task, TargetInv, RangeInv, LatestInv, HistoryInv, FinalInv

LEMMA CoolDownStep == ASSUME IndexIInv, CoolDown PROVE IndexIInv'
<1>1. FinalInv /\ announced \in 0..Len(tip)
    BY DEF IndexIInv, IndexTypeOK
<1> QED BY <1>1, IdleTask, ReadsStep DEF CoolDown, Take, node

LEMMA FailStep == ASSUME IndexIInv, Fail PROVE IndexIInv'
<1>1. FinalInv /\ announced \in 0..Len(tip) /\ fresh \in BOOLEAN
    BY DEF IndexIInv, IndexTypeOK
<1> QED BY <1>1, IdleTask, ReadsStep DEF Fail, Go, node

LEMMA FinishStep ==
    ASSUME IndexIInv, UNCHANGED <<node, stored, persisted, handled>>, fresh' \in BOOLEAN,
           fresh' => fresh, NEW target, Len(target) \in 0..Len(tip), Finish(target)
    PROVE  IndexIInv'
<1>1. FinalInv /\ announced' \in 0..Len(tip) /\ task' = idle
    BY DEF IndexIInv, IndexTypeOK, Finish
<1> QED BY <1>1, IdleTask, ReadsStep DEF node

(* The tail of one attempt is on its way to be written.                    *)
LEMMA LatestTask ==
    ASSUME IndexIInv, UNCHANGED node, ~ final, NEW blocks, NEW replace \in BOOLEAN, NEW target,
           task' = latest(blocks, replace, target),
           Seen(target), Len(target) <= Len(tip), fresh' => Len(target) < Len(tip),
           Branch(blocks, Len(blocks[1])), Len(Last(blocks)) <= Len(target),
           FollowsOn(blocks, replace, LastHandled', forks', restarts')
    PROVE  Task' /\ TargetInv' /\ RangeInv' /\ LatestInv' /\ HistoryInv' /\ FinalInv'
<1>1. /\ task'.at = "latest" /\ task'.blocks = blocks /\ task'.replace = replace /\ task'.target = target
    BY DEF latest
<1>2. canonical' = canonical /\ forks' = forks /\ tip' = tip /\ final' = final
    BY DEF node
<1>3. Task' /\ TargetInv' /\ RangeInv' /\ HistoryInv' /\ FinalInv'
    BY <1>1, <1>2 DEF Task, TargetInv, RangeInv, HistoryInv, FinalInv, Seen
<1>4. LatestInv'
    BY <1>1, <1>2 DEF LatestInv, Branch, Follows
<1> QED BY <1>3, <1>4

LEMMA BeginStep == ASSUME IndexIInv, Begin PROVE IndexIInv'
<1>1. /\ UNCHANGED <<node, stored, persisted, handled>> /\ fresh /\ fresh' = FALSE /\ ~ final
      /\ FinalInv /\ announced \in 0..Len(tip)
    BY DEF Begin, Take, IndexIInv, IndexTypeOK
<1>2. LastHandled' = LastHandled /\ canonical' = canonical /\ forks' = forks /\ tip' = tip
    BY <1>1 DEF LastHandled, Base, Block, node
<1>3. Seen(tip) /\ tip \in Blocks /\ Len(tip) \in Nat /\ LastHandled \in Blocks /\ Len(LastHandled) \in Nat
    BY IndexFacts, LastFacts
<1>4. CASE tip # <<>> /\ Front(tip) = Last(Base) /\ Go(latest(<<tip>>, FALSE, tip))
    <2>1. Len(tip) = Len(LastHandled) + 1 /\ Agree(tip, LastHandled, Len(LastHandled))
        BY <1>3, <1>4, FrontBlock DEF LastHandled
    <2> DEFINE blocks == <<tip>>
    <2>2. blocks \in Seq(Blocks) /\ Len(blocks) = 1 /\ blocks[1] = tip /\ blocks # <<>> /\ Last(blocks) = tip
        BY <1>3 DEF Last
    <2> HIDE DEF blocks
    <2>3. Len(tip) = Len(tip) + 1 - 1 /\ Len(LastHandled) = Len(tip) - 1 /\ Len(tip) <= Len(LastHandled) + 1
        BY <1>3, <2>1
    <2>4. Branch(blocks, Len(blocks[1]))
        BY <1>3, <2>2, <2>3 DEF Branch, BranchOn, Seen, Ancestor, Agree
    <2>5. FollowsOn(blocks, FALSE, LastHandled', forks', restarts')
        BY <1>2, <2>1, <2>2, <2>3 DEF FollowsOn
    <2>6. task' = latest(blocks, FALSE, tip) /\ announced' = announced
        BY <1>4 DEF Go, blocks
    <2>7. Task' /\ TargetInv' /\ RangeInv' /\ LatestInv' /\ HistoryInv' /\ FinalInv'
        <3>1. /\ FALSE \in BOOLEAN /\ UNCHANGED node /\ ~ final /\ Seen(tip) /\ Len(tip) <= Len(tip)
              /\ Len(Last(blocks)) <= Len(tip)
            BY <1>1, <1>3, <2>2
        <3>2. fresh' => Len(tip) < Len(tip)
            BY <1>1
        <3> QED BY <3>1, <3>2, <2>4, <2>5, <2>6, LatestTask
    <2> QED BY <1>1, <2>6, <2>7, ReadsStep
<1>5. CASE Finish(tip)
    <2>1. Len(tip) \in 0..Len(tip)
        BY <1>3
    <2> QED BY <1>1, <1>5, <2>1, FinishStep
<1>6. CASE Go([at |-> "probe", base |-> Base, target |-> tip])
    <2>1. task' = [at |-> "probe", base |-> Base, target |-> tip] /\ announced' = announced
        BY <1>6 DEF Go
    <2>2. task'.at = "probe" /\ task'.base = Base /\ task'.target = tip
        BY <2>1
    <2>3. TargetInv'
        BY <1>1, <1>2, <1>3, <2>2 DEF TargetInv, Seen
    <2>4. RangeInv'
        <3>1. IF handled = <<>> THEN Base = <<LastHandled>> /\ Len(LastHandled) = persisted ELSE Base = handled
            BY LastFacts DEF Base
        <3>2. IF handled = <<>> THEN Len(Base) = 1 /\ Base[1] = LastHandled ELSE Base = handled
            BY <3>1
        <3>3. Seen(LastHandled) /\ Len(LastHandled) <= Len(tip)
            BY LastFacts
        <3>4. handled # <<>> => Len(LastHandled) < Len(tip)
            BY <1>1 DEF IndexIInv, HandledInv
        <3> QED BY <1>1, <1>2, <2>2, <3>1, <3>2, <3>3, <3>4 DEF RangeInv, Seen
    <2>5. Task' /\ LatestInv' /\ HistoryInv' /\ FinalInv'
        BY <1>1, <2>2 DEF Task, LatestInv, HistoryInv, FinalInv, node
    <2> QED BY <1>1, <2>1, <2>3, <2>4, <2>5, ReadsStep
<1> QED BY <1>4, <1>5, <1>6 DEF Begin

LEMMA RangeFacts ==
    ASSUME IndexIInv, task.at \in {"probe", "split"}
    PROVE  /\ ~ final /\ task # idle /\ Len(task.base) \in Nat \ {0}
           /\ \A i \in 1..Len(task.base) : Seen(task.base[i]) /\ Len(task.base[i]) <= Len(LastHandled)
           /\ Len(Last(task.base)) = Len(LastHandled) /\ Last(task.base) = task.base[Len(task.base)]
           /\ Len(LastHandled) <= Len(task.target)
           /\ restarts = 0 => Last(task.base) = LastHandled
<1>1. ~ final /\ task # idle /\ Len(LastHandled) <= Len(task.target)
    BY DEF IndexIInv, IndexTypeOK, RangeInv, Task, idle
<1>2. CASE handled = <<>>
    <2>1. /\ Len(task.base) = 1 /\ Seen(task.base[1]) /\ Len(task.base[1]) = Len(LastHandled)
          /\ Last(task.base) = task.base[1]
        BY <1>2, LastFacts DEF IndexIInv, RangeInv, Last
    <2>2. ASSUME restarts = 0 PROVE Last(task.base) = LastHandled
        <3>1. Len(LastHandled) = 0 /\ LastHandled \in Blocks /\ task.base[1] \in Blocks
            BY <1>2, <2>1, <2>2, LastFacts DEF IndexIInv, HandledInv, Seen, SeenOn
        <3>2. Agree(task.base[1], LastHandled, 0)
            BY DEF Agree
        <3> QED BY <2>1, <3>1, <3>2, SameBlock
    <2>3. Len(LastHandled) <= Len(LastHandled)
        BY LastFacts
    <2> QED BY <1>1, <2>1, <2>2, <2>3
<1>3. CASE handled # <<>>
    <2>1. task.base = handled /\ LastHandled = Last(handled) /\ Len(handled) \in Nat \ {0}
        BY <1>3, LastFacts, IndexFacts, EmptySeq DEF IndexIInv, RangeInv
    <2>2. \A i \in 1..Len(handled) : Len(handled[i]) <= Len(LastHandled)
        <3> SUFFICES ASSUME NEW i \in 1..Len(handled) PROVE Len(handled[i]) <= Len(LastHandled)
            OBVIOUS
        <3>1. i = Len(handled) \/ i < Len(handled)
            BY <2>1
        <3>2. Len(handled[i]) \in Nat /\ Len(LastHandled) \in Nat
            BY IndexFacts, LastFacts, BlockFacts
        <3>3. i < Len(handled) => Len(handled[i]) < Len(LastHandled)
            BY <1>3, LastFacts DEF IndexIInv, HandledInv
        <3> QED BY <1>3, <3>1, <3>2, <3>3, LastFacts
    <2>3. \A i \in 1..Len(handled) : Seen(handled[i])
        BY DEF IndexIInv, HandledInv
    <2> QED BY <1>1, <2>1, <2>2, <2>3 DEF Last
<1> QED BY <1>2, <1>3

(* A step of the indexer that only reads, and goes on with a new task.     *)
LEMMA ReadsFacts ==
    ASSUME IndexIInv, UNCHANGED <<node, fresh, stored, persisted, handled>>
    PROVE  /\ LastHandled' = LastHandled /\ canonical' = canonical /\ forks' = forks /\ tip' = tip
           /\ final' = final /\ restarts' = restarts /\ fresh' \in BOOLEAN /\ (fresh' => fresh)
           /\ FinalInv /\ announced \in 0..Len(tip)
<1>1. fresh \in BOOLEAN /\ announced \in 0..Len(tip) /\ FinalInv
    BY DEF IndexIInv, IndexTypeOK
<1>2. LastHandled' = LastHandled
    BY DEF LastHandled, Base, Block, node
<1> QED BY <1>1, <1>2 DEF node

LEMMA ProbeStep == ASSUME IndexIInv, Probe PROVE IndexIInv'
<1> DEFINE last == Last(task.base)
           to == Len(task.target)
           near == to >= Len(last) /\ to - Len(last) <= 2 * Queried
           new == BlocksIn(Len(last) + 1, AtMost(to, Len(last) + LatestMax))
<1>1. UNCHANGED <<node, fresh, stored, persisted, handled>> /\ task.at = "probe"
    BY DEF Probe
<1>2. /\ ~ final /\ task # idle /\ Len(task.base) \in Nat \ {0}
      /\ \A i \in 1..Len(task.base) : Seen(task.base[i]) /\ Len(task.base[i]) <= Len(LastHandled)
      /\ Len(last) = Len(LastHandled) /\ last = task.base[Len(task.base)]
      /\ Len(LastHandled) <= to /\ (restarts = 0 => last = LastHandled)
    BY <1>1, RangeFacts
<1>3. /\ to \in Nat /\ Seen(task.target) /\ to <= Len(tip) /\ to <= Len(canonical)
      /\ Len(canonical) \in Nat /\ Len(tip) \in Nat /\ Len(LastHandled) \in Nat
      /\ (fresh => to < Len(tip)) /\ Seen(canonical)
    BY <1>2, TargetFacts, IndexFacts, LastFacts DEF IndexIInv, TargetInv
<1>4. Seen(last) /\ Len(last) \in Nat
    BY <1>2, <1>3
<1>5. LatestMax \in Nat \ {0} /\ Queried \in Nat
    BY IndexBounds
<1>6. \/ near /\ Block(Len(last)) = last /\ new = <<>> /\ Finish(task.target)
      \/ near /\ Block(Len(last)) = last /\ new # <<>> /\ Go(latest(new, FALSE, task.target))
      \/ ~ (near /\ Block(Len(last)) = last) /\ Go([at |-> "split", base |-> task.base, target |-> task.target])
    BY DEF Probe
<1> HIDE DEF last, to, new
<1>7. CASE Finish(task.target)
    <2>1. Len(task.target) \in 0..Len(tip)
        BY <1>3 DEF to
    <2> QED BY <1>1, <1>7, <2>1, ReadsFacts, FinishStep
<1>8. CASE Block(Len(last)) = last /\ new # <<>> /\ Go(latest(new, FALSE, task.target))
    <2> DEFINE end == AtMost(to, Len(last) + LatestMax)
    <2>1. /\ end \in Nat /\ end <= to /\ (Len(last) < to => Len(last) + 1 <= end)
          /\ to <= Len(last) => end + 1 - (Len(last) + 1) <= 0
        <3>1. \A a, b \in Nat, c \in Nat \ {0} :
                  LET e == AtMost(a, b + c) IN
                  e \in Nat /\ e <= a /\ (b < a => b + 1 <= e) /\ (a <= b => e + 1 - (b + 1) <= 0)
            BY DEF AtMost
        <3> QED BY <1>3, <1>4, <1>5, <3>1
    <2>2. new = BlocksIn(Len(last) + 1, end)
        BY DEF new
    <2> HIDE DEF end
    <2>3. Len(last) + 1 <= end
        <3> SUFFICES ASSUME to <= Len(last) PROVE FALSE
            BY <1>3, <1>4, <2>1
        <3>1. 1..(end + 1 - (Len(last) + 1)) = {}
            BY <1>4, <2>1
        <3>2. new = [i \in {} |-> Block((Len(last) + 1) + i - 1)]
            BY <2>2, <3>1 DEF BlocksIn
        <3>3. new \in [1..0 -> Blocks]
            BY <3>2
        <3>4. new \in Seq(Blocks) /\ Len(new) = 0
            BY <3>3
        <3> QED BY <1>8, <3>4, EmptySeq
    <2>4. end <= Len(canonical) /\ Len(last) + 1 \in Nat
        BY <1>3, <1>4, <2>1
    <2>5. /\ Branch(new, Len(last) + 1) /\ Len(Last(new)) = end /\ Agree(new[1], canonical, Len(last) + 1)
        BY <1>3, <2>1, <2>2, <2>3, <2>4, BlocksInBranch
    <2>6. Len(new[1]) = Len(last) + 1
        BY <2>4, <2>5, BranchFacts
    <2>7. ASSUME restarts = 0 PROVE Agree(new[1], LastHandled, Len(LastHandled))
        <3>1. Len(last) \in 0..Len(canonical)
            BY <1>2, <1>3, <1>4
        <3>2. \A i \in 1..Len(last) : last[i] = canonical[i]
            BY <1>3, <1>8, <3>1, ShownBlock
        <3>3. \A i \in 1..Len(last) : new[1][i] = canonical[i]
            BY <1>4, <2>5 DEF Agree
        <3> QED BY <1>2, <2>7, <3>2, <3>3 DEF Agree
    <2>8. FollowsOn(new, FALSE, LastHandled', forks', restarts')
        <3>1. Len(new[1]) - 1 = Len(LastHandled) /\ Len(new[1]) = Len(LastHandled) + 1
              /\ Len(new[1]) <= Len(LastHandled) + 1
            BY <1>2, <1>3, <2>6
        <3> QED BY <1>1, <2>7, <3>1, ReadsFacts DEF FollowsOn
    <2>9. task' = latest(new, FALSE, task.target) /\ announced' = announced
        BY <1>8 DEF Go
    <2>10. Task' /\ TargetInv' /\ RangeInv' /\ LatestInv' /\ HistoryInv' /\ FinalInv'
        <3>1. /\ FALSE \in BOOLEAN /\ UNCHANGED node /\ Len(task.target) <= Len(tip) /\ (fresh' => Len(task.target) < Len(tip))
              /\ Len(Last(new)) <= Len(task.target) /\ Branch(new, Len(new[1]))
            BY <1>1, <1>3, <2>1, <2>5, <2>6, ReadsFacts DEF to
        <3> QED BY <1>2, <1>3, <2>8, <2>9, <3>1, LatestTask
    <2> QED BY <1>1, <2>9, <2>10, ReadsFacts, ReadsStep
<1>9. CASE ~ (near /\ Block(Len(last)) = last) /\ Go([at |-> "split", base |-> task.base, target |-> task.target])
    <2>1. task' = [at |-> "split", base |-> task.base, target |-> task.target] /\ announced' = announced
        BY <1>9 DEF Go
    <2>2. task'.at = "split" /\ task'.base = task.base /\ task'.target = task.target
        BY <2>1
    <2>3. ASSUME forks = 0 PROVE Len(LastHandled) + 2 * Queried < to
        <3>1. Len(last) \in 0..Len(canonical)
            BY <1>2, <1>3, <1>4
        <3>2. Seen(Block(Len(last))) /\ Block(Len(last)) \in Blocks /\ Len(Block(Len(last))) = Len(last) /\ last \in Blocks
            BY <1>3, <1>4, <3>1, ShownBlock DEF Seen, SeenOn
        <3>3. Agree(Block(Len(last)), last, Len(last))
            <4>1. Len(Block(Len(last))) <= Len(last)
                BY <1>4, <3>2
            <4> QED BY <1>3, <1>4, <2>3, <3>2, <4>1, OneChain
        <3>4. Block(Len(last)) = last
            BY <3>2, <3>3, SameBlock
        <3>5. ~ near
            BY <1>9, <3>4
        <3> QED BY <1>2, <1>3, <1>5, <3>5
    <2>4. TargetInv'
        BY <1>1, <1>2, <1>3, <2>2, ReadsFacts DEF TargetInv, Seen, to
    <2>5. RangeInv'
        BY <1>1, <2>2, <2>3, ReadsFacts DEF IndexIInv, RangeInv, Seen, node, to
    <2>6. Task' /\ LatestInv' /\ HistoryInv' /\ FinalInv'
        BY <1>1, <1>2, <2>2, ReadsFacts DEF Task, LatestInv, HistoryInv, FinalInv
    <2> QED BY <1>1, <2>1, <2>4, <2>5, <2>6, ReadsFacts, ReadsStep
<1> QED BY <1>6, <1>7, <1>8, <1>9

(* Where the new tail parts from the handled blocks.                       *)
LEMMA ReorgPath ==
    ASSUME NEW base, Len(base) \in Nat \ {0}, NEW tail \in Seq(Blocks)
    PROVE  LET path == DetectReorgPath(base, tail) IN
           \/ path.blocks = <<>> /\ \E i \in 1..Len(base) : base[i] = Last(tail)
           \/ path.blocks = tail /\ path.replace = TRUE
           \/ \E i \in 1..Len(base), j \in 1..(Len(tail) - 1) :
                 /\ base[i] = tail[j] /\ path.blocks = SubSeq(tail, j + 1, Len(tail))
                 /\ path.replace = (i # Len(base))
<1> DEFINE common == {i \in 1..Len(base) : Contains(tail, base[i])}
           newest == Max(common)
           ancestor == CHOOSE i \in 1..Len(tail) : tail[i] = base[newest]
           path == DetectReorgPath(base, tail)
<1>1. CASE common = {}
    BY <1>1 DEF DetectReorgPath
<1>2. CASE common # {}
    <2>1. path.blocks = SubSeq(tail, ancestor + 1, Len(tail)) /\ path.replace = IsReorg(base, newest)
        BY <1>2 DEF DetectReorgPath
    <2>2. newest \in common
        <3>1. common \subseteq 0..Len(base)
            OBVIOUS
        <3> HIDE DEF common
        <3> QED BY <1>2, <3>1, MaxIsIn
    <2>3. newest \in 1..Len(base) /\ \E i \in 1..Len(tail) : tail[i] = base[newest]
        BY <2>2 DEF Contains
    <2> HIDE DEF newest
    <2>4. ancestor \in 1..Len(tail) /\ tail[ancestor] = base[newest]
        BY <2>3
    <2> HIDE DEF ancestor
    <2>5. Len(tail) \in Nat
        OBVIOUS
    <2>6. CASE ancestor = Len(tail)
        <3>1. SubSeq(tail, ancestor + 1, Len(tail)) = <<>>
            <4>1. ancestor + 1 \in Int /\ Len(tail) \in Int /\ Len(tail) < ancestor + 1
                BY <2>5, <2>6
            <4> QED BY <4>1, SubSeqEmpty
        <3>2. base[newest] = Last(tail)
            BY <2>4, <2>6 DEF Last
        <3> QED BY <2>1, <2>3, <3>1, <3>2
    <2>7. CASE ancestor < Len(tail)
        <3>1. ancestor \in 1..(Len(tail) - 1)
            BY <2>4, <2>5, <2>7
        <3> QED BY <2>1, <2>3, <2>4, <3>1 DEF IsReorg
    <2>8. ancestor = Len(tail) \/ ancestor < Len(tail)
        BY <2>4, <2>5
    <2> QED BY <2>6, <2>7, <2>8
<1> QED BY <1>1, <1>2

(* The history below the tail is read by number.                           *)
LEMMA CheckpointTask ==
    ASSUME IndexIInv, UNCHANGED <<node, fresh, stored, persisted, handled>>, task # idle, ~ final,
           NEW last \in Nat, NEW blocks,
           task' = [at |-> "checkpoint", first |-> Minus(Len(LastHandled), Depth), last |-> last,
                    blocks |-> blocks, target |-> task.target],
           announced' = announced, last + Depth <= Len(task.target), Minus(Len(LastHandled), Depth) <= last,
           forks = 0 => Len(LastHandled) <= last,
           TailOn(blocks, last, task.target, canonical, forks)
    PROVE  IndexIInv'
<1>1. /\ task'.at = "checkpoint" /\ task'.first = Minus(Len(LastHandled), Depth) /\ task'.last = last
      /\ task'.blocks = blocks /\ task'.target = task.target
    OBVIOUS
<1>2. TargetInv'
    BY <1>1, ReadsFacts DEF IndexIInv, TargetInv, Seen
<1>3. HistoryInv'
    BY <1>1, ReadsFacts DEF HistoryInv, TailFollows
<1>4. Task' /\ RangeInv' /\ LatestInv' /\ FinalInv'
    BY <1>1, ReadsFacts DEF Task, RangeInv, LatestInv, FinalInv
<1> QED BY <1>2, <1>3, <1>4, ReadsFacts, ReadsStep

LEMMA SplitStep == ASSUME IndexIInv, Split PROVE IndexIInv'
<1> DEFINE last == Last(task.base)
           first == Minus(Len(last), Depth)
           to == Len(task.target)
           end == to - Queried
           tail == BlocksIn(first, to)
           path == DetectReorgPath(task.base, tail)
           rest0 == BlocksIn(end + 1, AtMost(to, end + LatestMax))
<1>1. UNCHANGED <<node, fresh, stored, persisted, handled>> /\ task.at = "split"
    BY DEF Split
<1>2. /\ ~ final /\ task # idle /\ Len(task.base) \in Nat \ {0}
      /\ \A i \in 1..Len(task.base) : Seen(task.base[i]) /\ Len(task.base[i]) <= Len(LastHandled)
      /\ Len(last) = Len(LastHandled) /\ last = task.base[Len(task.base)]
      /\ Len(LastHandled) <= to /\ (restarts = 0 => last = LastHandled)
    BY <1>1, RangeFacts
<1>3. /\ to \in Nat /\ Seen(task.target) /\ to <= Len(tip) /\ to <= Len(canonical)
      /\ Len(canonical) \in Nat /\ Len(tip) \in Nat /\ Len(LastHandled) \in Nat
      /\ (fresh => to < Len(tip)) /\ Seen(canonical)
    BY <1>2, TargetFacts, IndexFacts, LastFacts DEF IndexIInv, TargetInv
<1>4. /\ Depth \in Nat \ {0} /\ Queried \in Nat /\ 2 * Depth <= Queried /\ HistoryMax \in Nat
      /\ HistoryMax > Depth + 1 /\ LatestMax \in Nat \ {0}
    BY IndexBounds
<1>5. first = Minus(Len(LastHandled), Depth) /\ first \in Nat /\ first <= Len(LastHandled)
      /\ Len(LastHandled) <= first + Depth
    BY <1>2, <1>3, <1>4 DEF Minus
<1>6. forks = 0 => Len(LastHandled) + 2 * Queried < to
    BY <1>1 DEF IndexIInv, RangeInv
<1>7. \/ /\ to - first > Queried /\ first + HistoryMax - 1 < end
         /\ Go([at |-> "checkpoint", first |-> first, last |-> first + HistoryMax - 1, blocks |-> <<>>,
                target |-> task.target])
      \/ /\ to - first > Queried
         /\ Go([at |-> "checkpoint", first |-> first, last |-> end, blocks |-> rest0, target |-> task.target])
      \/ /\ to >= first /\ to - first <= Queried /\ path.blocks = <<>> /\ Finish(task.target)
      \/ /\ to >= first /\ to - first <= Queried /\ path.blocks # <<>>
         /\ Go(latest(path.blocks, path.replace, task.target))
    BY DEF Split
<1> HIDE DEF last, first, to, path, rest0
<1>8. CASE /\ to - first > Queried /\ first + HistoryMax - 1 < end
           /\ Go([at |-> "checkpoint", first |-> first, last |-> first + HistoryMax - 1, blocks |-> <<>>,
                  target |-> task.target])
    <2> DEFINE middle == first + HistoryMax - 1
    <2>1. middle \in Nat /\ middle + Depth <= to /\ first <= middle /\ Len(LastHandled) <= middle
        BY <1>3, <1>4, <1>5, <1>8
    <2>2. /\ task' = [at |-> "checkpoint", first |-> Minus(Len(LastHandled), Depth), last |-> middle,
                      blocks |-> <<>>, target |-> task.target]
          /\ announced' = announced
        BY <1>5, <1>8 DEF Go
    <2> HIDE DEF middle
    <2>3. TailOn(<<>>, middle, task.target, canonical, forks)
        BY DEF TailOn
    <2> QED BY <1>1, <1>2, <1>5, <2>1, <2>2, <2>3, CheckpointTask DEF to
<1>9. CASE /\ to - first > Queried
           /\ Go([at |-> "checkpoint", first |-> first, last |-> end, blocks |-> rest0, target |-> task.target])
    <2>1. end \in Nat /\ end + Depth <= to /\ first <= end /\ (forks = 0 => Len(LastHandled) <= end)
          /\ end + 1 \in Nat
        BY <1>3, <1>4, <1>5, <1>6, <1>9
    <2> DEFINE top == AtMost(to, end + LatestMax)
    <2>2. top \in Nat /\ end + 1 <= top /\ top <= to /\ top <= Len(canonical)
        <3>1. end + LatestMax \in Nat /\ end + 1 <= end + LatestMax /\ end + 1 <= to
            BY <1>3, <1>4, <2>1
        <3> QED BY <1>3, <3>1 DEF AtMost
    <2>3. /\ task' = [at |-> "checkpoint", first |-> Minus(Len(LastHandled), Depth), last |-> end,
                      blocks |-> rest0, target |-> task.target]
          /\ announced' = announced
        BY <1>5, <1>9 DEF Go
    <2>4. rest0 = BlocksIn(end + 1, top)
        BY DEF rest0
    <2> HIDE DEF top, end
    <2>5. Branch(rest0, end + 1) /\ Len(Last(rest0)) = top /\ Agree(rest0[1], canonical, end + 1)
        BY <1>3, <2>1, <2>2, <2>4, BlocksInBranch
    <2>6. Agree(rest0[1], canonical, end)
        BY <2>1, <2>5 DEF Agree
    <2>7. TailOn(rest0, end, task.target, canonical, forks)
        BY <2>2, <2>5, <2>6 DEF TailOn, Branch, to
    <2> QED BY <1>1, <1>2, <1>5, <2>1, <2>3, <2>7, CheckpointTask DEF to
<1>10. CASE Finish(task.target)
    <2>1. Len(task.target) \in 0..Len(tip)
        BY <1>3 DEF to
    <2> QED BY <1>1, <1>10, <2>1, ReadsFacts, FinishStep
<1>11. CASE /\ to >= first /\ to - first <= Queried /\ path.blocks # <<>>
            /\ Go(latest(path.blocks, path.replace, task.target))
    <2>1. forks # 0
        BY <1>3, <1>4, <1>5, <1>6, <1>11
    <2>2. /\ Branch(tail, first) /\ Len(tail) = to + 1 - first /\ Len(Last(tail)) = to
          /\ \A i \in 1..Len(tail) : tail[i] = Block(first + i - 1)
          /\ Agree(tail[1], canonical, first)
        BY <1>3, <1>5, <1>11, BlocksInBranch
    <2>3. tail \in Seq(Blocks) /\ Len(tail) \in Nat \ {0} /\ Len(tail[1]) = first
        BY <1>5, <2>2, BranchFacts
    <2>4. path = DetectReorgPath(task.base, tail)
        BY DEF path
    <2> HIDE DEF tail
    <2>5. \/ path.blocks = tail /\ path.replace = TRUE
          \/ \E i \in 1..Len(task.base), j \in 1..(Len(tail) - 1) :
                 /\ task.base[i] = tail[j] /\ path.blocks = SubSeq(tail, j + 1, Len(tail))
                 /\ path.replace = (i # Len(task.base))
        <3>1. Len(task.base) \in Nat \ {0} /\ tail \in Seq(Blocks) /\ path.blocks # <<>>
            BY <1>2, <1>11, <2>3
        <3> QED BY <2>4, <3>1, ReorgPath
    <2> DEFINE blocks == path.blocks
    <2>6. /\ path.replace \in BOOLEAN /\ Branch(blocks, Len(blocks[1])) /\ Len(Last(blocks)) <= to
          /\ FollowsOn(blocks, path.replace, LastHandled, forks, restarts)
        <3>1. CASE blocks = tail /\ path.replace = TRUE
            <4>1. \A n \in 1..(first - 1) : n + Depth <= Len(LastHandled) /\ n \in 1..Len(LastHandled)
                BY <1>2, <1>3, <1>4 DEF Minus, first
            <4>2. \A n \in 1..(first - 1) : LastHandled[n] = canonical[n]
                BY <4>1, LastFacts DEF Seen, SeenOn
            <4>3. \A n \in 1..(first - 1) : tail[1][n] = canonical[n]
                BY <1>5, <2>2 DEF Agree
            <4>4. first <= Len(LastHandled) + 1 /\ to <= to
                BY <1>3, <1>5
            <4> QED BY <2>1, <2>2, <2>3, <3>1, <4>2, <4>3, <4>4 DEF FollowsOn, Agree
        <3>2. ASSUME NEW i \in 1..Len(task.base), NEW j \in 1..(Len(tail) - 1),
                     task.base[i] = tail[j], blocks = SubSeq(tail, j + 1, Len(tail)),
                     path.replace = (i # Len(task.base))
              PROVE  /\ path.replace \in BOOLEAN /\ Branch(blocks, Len(blocks[1])) /\ Len(Last(blocks)) <= to
                     /\ FollowsOn(blocks, path.replace, LastHandled, forks, restarts)
            <4>1. /\ j \in 1..Len(tail) /\ j + 1 \in 1..Len(tail) /\ Len(tail) \in (j + 1)..Len(tail)
                  /\ j <= j + 1
                BY <2>3
            <4>2. Branch(blocks, first + (j + 1) - 1) /\ blocks[1] = tail[j + 1] /\ Last(blocks) = tail[Len(tail)]
                <5> DEFINE from == j + 1
                <5>1. first \in Nat /\ Branch(tail, first) /\ from \in 1..Len(tail) /\ Len(tail) \in from..Len(tail)
                    BY <1>5, <2>2, <4>1
                <5>2. blocks = SubSeq(tail, from, Len(tail))
                    BY <3>2
                <5> HIDE DEF from, blocks
                <5>3. Branch(blocks, first + from - 1) /\ blocks[1] = tail[from] /\ Last(blocks) = tail[Len(tail)]
                    BY <5>1, <5>2, SubBranch
                <5> QED BY <5>3 DEF from
            <4>3. Len(tail[j]) = first + j - 1 /\ Len(tail[j + 1]) = first + (j + 1) - 1
                  /\ Last(tail) = tail[Len(tail)]
                BY <1>5, <2>2, <4>1, BranchFacts
            <4>4. /\ Branch(blocks, Len(blocks[1])) /\ Len(Last(blocks)) <= to
                  /\ Len(blocks[1]) = Len(tail[j]) + 1 /\ Len(tail[j]) \in Nat
                <5>1. to <= to /\ first + (j + 1) - 1 = (first + j - 1) + 1 /\ first + j - 1 \in Nat
                    BY <1>3, <1>5
                <5> QED BY <2>2, <4>2, <4>3, <5>1
            <4>5. Agree(tail[j + 1], tail[j], Len(tail[j]))
                <5>1. Ancestor(tail[j], tail[j + 1])
                    BY <2>2, <4>1 DEF Branch, BranchOn
                <5> QED BY <5>1 DEF Ancestor, Agree
            <4>6. Len(tail[j]) <= Len(LastHandled)
                BY <1>2, <3>2
            <4>7. ASSUME restarts = 0 PROVE Agree(tail[j], LastHandled, Len(tail[j]))
                <5>1. CASE handled = <<>>
                    <6>1. Len(task.base) = 1
                        BY <1>1, <5>1 DEF IndexIInv, RangeInv
                    <6>3. i = Len(task.base)
                        BY <6>1
                    <6>2. tail[j] = LastHandled
                        BY <1>2, <3>2, <4>7, <6>3
                    <6> QED BY <6>2 DEF Agree
                <5>2. CASE handled # <<>>
                    <6>1. task.base = handled
                        BY <1>1, <5>2 DEF IndexIInv, RangeInv
                    <6>2. tail[j] = Block(first + j - 1) /\ first + j - 1 \in 0..Len(canonical)
                        <7>1. j \in Nat \ {0} /\ j <= to + 1 - first
                            BY <1>3, <1>5, <2>2, <4>1
                        <7>2. first + j - 1 \in 0..Len(canonical)
                            BY <1>3, <1>5, <7>1
                        <7> QED BY <2>2, <4>1, <7>2
                    <6>3. Ancestor(tail[j], canonical)
                        <7>1. /\ Len(Block(first + j - 1)) = first + j - 1
                              /\ \A n \in 1..(first + j - 1) : Block(first + j - 1)[n] = canonical[n]
                            BY <1>3, <6>2, ShownBlock
                        <7>2. first + j - 1 <= Len(canonical)
                            BY <6>2
                        <7> QED BY <6>2, <7>1, <7>2 DEF Ancestor, Agree
                    <6>4. Ancestor(tail[j], LastHandled)
                        BY <3>2, <4>7, <6>1, <6>3 DEF IndexIInv, HandledInv
                    <6> QED BY <6>4 DEF Ancestor
                <5> QED BY <5>1, <5>2
            <4>8. path.replace \/ Len(tail[j]) = Len(LastHandled)
                BY <1>2, <3>2
            <4>9. path.replace \in BOOLEAN
                BY <3>2
            <4>10. /\ Len(blocks[1]) <= Len(LastHandled) + 1 /\ Len(blocks[1]) - 1 = Len(tail[j])
                   /\ (Len(tail[j]) = Len(LastHandled) => Len(blocks[1]) = Len(LastHandled) + 1)
                BY <1>3, <4>4, <4>6
            <4>11. FollowsOn(blocks, path.replace, LastHandled, forks, restarts)
                BY <2>1, <4>2, <4>5, <4>7, <4>8, <4>10 DEF FollowsOn, Agree
            <4> QED BY <4>4, <4>9, <4>11
        <3> QED BY <2>5, <3>1, <3>2
    <2>7. task' = latest(blocks, path.replace, task.target) /\ announced' = announced
        BY <1>11 DEF Go
    <2> HIDE DEF blocks
    <2>8. Task' /\ TargetInv' /\ RangeInv' /\ LatestInv' /\ HistoryInv' /\ FinalInv'
        <3>1. /\ UNCHANGED node /\ Len(task.target) <= Len(tip) /\ (fresh' => Len(task.target) < Len(tip))
              /\ Len(Last(blocks)) <= Len(task.target)
              /\ FollowsOn(blocks, path.replace, LastHandled', forks', restarts')
            BY <1>1, <1>3, <2>6, ReadsFacts DEF to
        <3> QED BY <1>2, <1>3, <2>6, <2>7, <3>1, LatestTask
    <2> QED BY <1>1, <2>7, <2>8, ReadsFacts, ReadsStep
<1> QED BY <1>7, <1>8, <1>9, <1>10, <1>11

LEMMA CheckpointStep == ASSUME IndexIInv, Checkpoint PROVE IndexIInv'
<1>1. /\ UNCHANGED <<node, fresh, stored, persisted, handled>> /\ task.at = "checkpoint"
      /\ announced' = announced
      /\ task' = [at |-> "history", checkpoint |-> Block(task.last), first |-> task.first,
                  blocks |-> task.blocks, target |-> task.target]
    BY DEF Checkpoint, Go
<1>2. /\ task'.at = "history" /\ task'.checkpoint = Block(task.last) /\ task'.first = task.first
      /\ task'.blocks = task.blocks /\ task'.target = task.target /\ task # idle /\ ~ final
    BY <1>1 DEF IndexIInv, IndexTypeOK, Task, idle
<1>3. /\ task.last \in Nat /\ task.last + Depth <= Len(task.target) /\ TailFollows(task.last)
      /\ task.first = Minus(Len(LastHandled), Depth) /\ task.first <= task.last
      /\ forks = 0 => Len(LastHandled) <= task.last
    BY <1>1 DEF IndexIInv, HistoryInv
<1>4. task.last \in 0..Len(canonical)
    <2>1. Len(task.target) \in Nat /\ Len(task.target) <= Len(canonical) /\ Len(canonical) \in Nat /\ Depth \in Nat
        BY <1>2, TargetFacts, IndexFacts, IndexBounds
    <2> QED BY <1>3, <2>1
<1>5. /\ Seen(Block(task.last)) /\ Len(Block(task.last)) = task.last
      /\ Agree(Block(task.last), canonical, task.last)
    BY <1>4, IndexFacts, ShownBlock DEF Agree
<1>6. TargetInv'
    BY <1>1, <1>2, ReadsFacts DEF IndexIInv, TargetInv, Seen
<1>7. HistoryInv'
    BY <1>1, <1>2, <1>3, <1>5, ReadsFacts DEF HistoryInv, TailFollows, Seen
<1>8. Task' /\ RangeInv' /\ LatestInv' /\ FinalInv'
    BY <1>1, <1>2, ReadsFacts DEF Task, RangeInv, LatestInv, FinalInv
<1> QED BY <1>1, <1>6, <1>7, <1>8, ReadsFacts, ReadsStep

-----------------------------------------------------------------------------
(* The handled blocks after an update                                      *)

LEMMA RetainedFacts ==
    ASSUME IndexIInv, NEW number \in Nat
    PROVE  /\ Retained(number) \in Seq(Blocks) /\ Len(Retained(number)) \in Nat
           /\ \A i \in 1..Len(Retained(number)) :
                 i \in 1..Len(handled) /\ Retained(number)[i] = handled[i] /\ Len(handled[i]) < number
<1> DEFINE kept == {i \in 1..Len(handled) : Len(handled[i]) < number}
           top == Max({0} \union kept)
<1>1. Len(handled) \in Nat /\ \A i \in 1..Len(handled) : handled[i] \in Blocks /\ Len(handled[i]) \in Nat
    BY IndexFacts, BlockFacts
<1>2. top \in {0} \union kept
    <2>1. {0} \union kept \subseteq 0..Len(handled) /\ {0} \union kept # {}
        BY <1>1
    <2> HIDE DEF kept
    <2> QED BY <1>1, <2>1, MaxIsIn
<1>3. Retained(number) = SubSeq(handled, 1, top)
    BY DEF Retained
<1>4. /\ top \in Nat /\ top <= Len(handled)
      /\ top # 0 => top \in 1..Len(handled) /\ Len(handled[top]) < number
    BY <1>1, <1>2
<1> HIDE DEF top, kept
<1>5. /\ Retained(number) \in Seq(Blocks) /\ Len(Retained(number)) = top
      /\ \A i \in 1..top : Retained(number)[i] = handled[i]
    <2>1. 1 \in Int /\ top \in Int /\ \A i \in 1..top : handled[i] \in Blocks
        BY <1>1, <1>4
    <2>2. /\ SubSeq(handled, 1, top) \in Seq(Blocks)
          /\ Len(SubSeq(handled, 1, top)) = IF 1 <= top THEN top - 1 + 1 ELSE 0
          /\ \A i \in 1..(top - 1 + 1) : SubSeq(handled, 1, top)[i] = handled[1 + i - 1]
        BY <2>1, SubSeqProperties
    <2> QED BY <1>3, <1>4, <2>2
<1>6. \A i \in 1..top : i \in 1..Len(handled) /\ Len(handled[i]) < number
    <2> SUFFICES ASSUME NEW i \in 1..top PROVE i \in 1..Len(handled) /\ Len(handled[i]) < number
        OBVIOUS
    <2>1. i \in 1..Len(handled) /\ top \in 1..Len(handled) /\ Len(handled[top]) < number /\ (i = top \/ i < top)
        BY <1>1, <1>4
    <2>2. i < top => Len(handled[i]) < Len(handled[top])
        BY <2>1 DEF IndexIInv, HandledInv
    <2> QED BY <1>1, <2>1, <2>2
<1> QED BY <1>4, <1>5, <1>6

(* The last blocks of a sequence.                                          *)
LEMMA CappedFacts ==
    ASSUME NEW all \in Seq(Blocks), Len(all) > 0
    PROVE  /\ Capped(all) \in Seq(Blocks) /\ Len(Capped(all)) \in Nat \ {0} /\ Len(Capped(all)) <= Depth
           /\ Last(Capped(all)) = Last(all)
           /\ \E d \in Nat : /\ Len(Capped(all)) + d = Len(all)
                             /\ \A i \in 1..Len(Capped(all)) : Capped(all)[i] = all[i + d]
<1> DEFINE d == Minus(Len(all), Depth)
           some == Capped(all)
<1>1. /\ Len(all) \in Nat \ {0} /\ \A i \in 1..Len(all) : all[i] \in Blocks
    <2>1. Len(all) \in Nat /\ \A i \in 1..Len(all) : all[i] \in Blocks
        BY LenProperties, ElementOfSeq
    <2> QED BY <2>1
<1>2. d \in Nat /\ d < Len(all) /\ Len(all) - d <= Depth
    BY <1>1, IndexBounds DEF Minus
<1>3. some = SubSeq(all, d + 1, Len(all))
    BY DEF Capped
<1> HIDE DEF d, some
<1>4. /\ some \in Seq(Blocks) /\ Len(some) = Len(all) - d
      /\ \A i \in 1..(Len(all) - d) : some[i] = all[i + d]
    <2> DEFINE from == d + 1
    <2>1. from \in Int /\ Len(all) \in Int /\ from <= Len(all) /\ Len(all) - from + 1 = Len(all) - d
          /\ \A i \in from..Len(all) : i \in 1..Len(all)
        BY <1>1, <1>2
    <2>2. \A i \in Int : from + i - 1 = i + d
        BY <1>2
    <2>3. some = SubSeq(all, from, Len(all))
        BY <1>3
    <2> HIDE DEF from
    <2>4. \A i \in from..Len(all) : all[i] \in Blocks
        BY <1>1, <2>1
    <2>5. /\ some \in Seq(Blocks) /\ Len(some) = Len(all) - d
          /\ \A i \in 1..(Len(all) - d) : some[i] = all[from + i - 1]
        BY <2>1, <2>3, <2>4, SubSeqProperties
    <2>6. \A i \in 1..(Len(all) - d) : all[from + i - 1] = all[i + d]
        <3>1. \A i \in 1..(Len(all) - d) : i \in Int
            BY <1>1, <1>2
        <3> QED BY <2>2, <3>1
    <2> QED BY <2>5, <2>6
<1>5. Last(some) = Last(all)
    <2>1. Len(all) - d \in 1..(Len(all) - d) /\ Len(all) - d + d = Len(all)
        BY <1>1, <1>2
    <2>2. some[Len(all) - d] = all[Len(all)]
        BY <1>4, <2>1
    <2> QED BY <1>4, <2>2 DEF Last
<1>6. Len(some) \in Nat \ {0} /\ Len(some) <= Depth /\ Len(some) + d = Len(all)
    BY <1>1, <1>2, <1>4
<1> QED BY <1>2, <1>4, <1>5, <1>6 DEF some

LEMMA AdvanceFacts ==
    ASSUME IndexIInv, NEW blocks, Len(blocks[1]) \in Nat, Branch(blocks, Len(blocks[1]))
    PROVE  LET next == Advance(blocks) IN
           /\ next \in Seq(Blocks) /\ next # <<>> /\ Len(next) <= Depth /\ Last(next) = Last(blocks)
           /\ \A i \in 1..Len(next) :
                 \/ \E j \in 1..Len(handled) : next[i] = handled[j] /\ Len(handled[j]) < Len(blocks[1])
                 \/ \E j \in 1..Len(blocks) : next[i] = blocks[j]
           /\ \A i, j \in 1..Len(next) : i < j => Len(next[i]) < Len(next[j])
<1> DEFINE first == Len(blocks[1])
           kept == Retained(first)
           all == kept \o blocks
           next == Advance(blocks)
<1>1. /\ kept \in Seq(Blocks) /\ Len(kept) \in Nat
      /\ \A i \in 1..Len(kept) : i \in 1..Len(handled) /\ kept[i] = handled[i] /\ Len(handled[i]) < first
    BY RetainedFacts
<1>2. /\ blocks \in Seq(Blocks) /\ Len(blocks) \in Nat \ {0}
      /\ \A i \in 1..Len(blocks) : Len(blocks[i]) = first + i - 1
    BY BranchFacts
<1>3. next = Capped(all)
    BY DEF Advance
<1> HIDE DEF first, kept, next
<1>4. /\ all \in Seq(Blocks) /\ Len(all) = Len(kept) + Len(blocks)
      /\ \A i \in 1..Len(all) : all[i] = IF i <= Len(kept) THEN kept[i] ELSE blocks[i - Len(kept)]
    BY <1>1, <1>2, ConcatProperties
<1> HIDE DEF all
<1>5. Len(all) > 0 /\ Len(all) \in Nat
    BY <1>1, <1>2, <1>4
<1>6. /\ next \in Seq(Blocks) /\ Len(next) \in Nat \ {0} /\ Len(next) <= Depth /\ Last(next) = Last(all)
      /\ \E d \in Nat : Len(next) + d = Len(all) /\ \A i \in 1..Len(next) : next[i] = all[i + d]
    BY <1>3, <1>4, <1>5, CappedFacts
<1>7. Last(all) = Last(blocks)
    <2>1. Len(all) \in 1..Len(all) /\ ~ (Len(all) <= Len(kept)) /\ Len(all) - Len(kept) = Len(blocks)
        BY <1>1, <1>2, <1>4
    <2> QED BY <1>4, <2>1 DEF Last
<1>8. \A i \in 1..Len(all) :
         \/ i <= Len(kept) /\ i \in 1..Len(handled) /\ all[i] = handled[i] /\ Len(handled[i]) < first
         \/ /\ Len(kept) < i /\ i - Len(kept) \in 1..Len(blocks) /\ all[i] = blocks[i - Len(kept)]
            /\ Len(all[i]) = first + (i - Len(kept)) - 1
    <2> SUFFICES ASSUME NEW i \in 1..Len(all)
                 PROVE  \/ /\ i <= Len(kept) /\ i \in 1..Len(handled) /\ all[i] = handled[i]
                           /\ Len(handled[i]) < first
                        \/ /\ Len(kept) < i /\ i - Len(kept) \in 1..Len(blocks)
                           /\ all[i] = blocks[i - Len(kept)]
                           /\ Len(all[i]) = first + (i - Len(kept)) - 1
        OBVIOUS
    <2>1. CASE i <= Len(kept)
        <3>1. i \in 1..Len(kept)
            BY <1>1, <1>5, <2>1
        <3> QED BY <1>1, <1>4, <2>1, <3>1
    <2>2. CASE Len(kept) < i
        <3>1. i - Len(kept) \in 1..Len(blocks) /\ ~ (i <= Len(kept))
            BY <1>1, <1>2, <1>4, <2>2
        <3> QED BY <1>2, <1>4, <2>2, <3>1
    <2> QED BY <1>1, <1>5, <2>1, <2>2
<1>9. \A i, j \in 1..Len(all) : i < j => Len(all[i]) < Len(all[j])
    <2> SUFFICES ASSUME NEW i \in 1..Len(all), NEW j \in 1..Len(all), i < j PROVE Len(all[i]) < Len(all[j])
        OBVIOUS
    <2>1. first \in Nat /\ \A m \in 1..Len(handled) : Len(handled[m]) \in Nat
        BY IndexFacts, BlockFacts DEF first
    <2>2. CASE j <= Len(kept)
        <3>1. i <= Len(kept) /\ ~ (Len(kept) < i) /\ ~ (Len(kept) < j)
            BY <1>1, <1>5, <2>2
        <3>2. i \in 1..Len(handled) /\ all[i] = handled[i] /\ j \in 1..Len(handled) /\ all[j] = handled[j]
            BY <1>8, <3>1
        <3> QED BY <3>2 DEF IndexIInv, HandledInv
    <2>3. CASE i <= Len(kept) /\ Len(kept) < j
        <3>1. i \in 1..Len(handled) /\ all[i] = handled[i] /\ Len(handled[i]) < first
            BY <1>1, <1>5, <1>8, <2>3
        <3>2. Len(all[j]) = first + (j - Len(kept)) - 1
            BY <1>1, <1>5, <1>8, <2>3
        <3>3. first <= first + (j - Len(kept)) - 1 /\ first + (j - Len(kept)) - 1 \in Nat
            BY <1>1, <1>5, <2>1, <2>3
        <3> QED BY <2>1, <3>1, <3>2, <3>3
    <2>4. CASE Len(kept) < i
        <3>1. Len(kept) < j /\ ~ (i <= Len(kept)) /\ ~ (j <= Len(kept))
            BY <1>1, <1>5, <2>4
        <3>2. /\ Len(all[i]) = first + (i - Len(kept)) - 1 /\ Len(all[j]) = first + (j - Len(kept)) - 1
            BY <1>8, <3>1
        <3>3. first + (i - Len(kept)) - 1 < first + (j - Len(kept)) - 1
            BY <1>1, <1>5, <2>1
        <3> QED BY <3>2, <3>3
    <2> QED BY <1>1, <1>5, <2>2, <2>3, <2>4
<1>10. PICK d \in Nat : Len(next) + d = Len(all) /\ \A i \in 1..Len(next) : next[i] = all[i + d]
    BY <1>6
<1>11. \A i \in 1..Len(next) : i + d \in 1..Len(all)
    BY <1>5, <1>6, <1>10
<1>12. \A i \in 1..Len(next) :
          \/ \E j \in 1..Len(handled) : next[i] = handled[j] /\ Len(handled[j]) < Len(blocks[1])
          \/ \E j \in 1..Len(blocks) : next[i] = blocks[j]
    BY <1>8, <1>10, <1>11 DEF first
<1>13. \A i, j \in 1..Len(next) : i < j => Len(next[i]) < Len(next[j])
    <2>1. \A i, j \in 1..Len(next) : i < j => i + d < j + d
        BY <1>6, <1>10
    <2> QED BY <1>9, <1>10, <1>11, <2>1
<1>14. next # <<>>
    BY <1>6, EmptySeq
<1> QED BY <1>6, <1>7, <1>12, <1>13, <1>14 DEF next

(* The last handled block moves to the end of what was written.            *)
LEMMA AdvanceStep ==
    ASSUME IndexIInv, task # idle, NEW blocks, Len(blocks[1]) \in Nat, Branch(blocks, Len(blocks[1])),
           Len(Last(blocks)) <= Len(task.target), handled' = Advance(blocks), UNCHANGED <<node, fresh>>,
           restarts = 0 => \A j \in 1..Len(handled) :
              Len(handled[j]) < Len(blocks[1]) /\ Ancestor(handled[j], canonical) => Ancestor(handled[j], blocks[1])
    PROVE  HandledInv' /\ handled' # <<>> /\ LastHandled' = Last(blocks)
<1>1. /\ handled' \in Seq(Blocks) /\ handled' # <<>> /\ Len(handled') <= Depth /\ Last(handled') = Last(blocks)
      /\ \A i \in 1..Len(handled') :
            \/ \E j \in 1..Len(handled) : handled'[i] = handled[j] /\ Len(handled[j]) < Len(blocks[1])
            \/ \E j \in 1..Len(blocks) : handled'[i] = blocks[j]
      /\ \A i, j \in 1..Len(handled') : i < j => Len(handled'[i]) < Len(handled'[j])
    BY AdvanceFacts
<1>2. LastHandled' = Last(blocks)
    BY <1>1 DEF LastHandled, Base
<1>3. /\ canonical' = canonical /\ forks' = forks /\ tip' = tip /\ restarts' = restarts /\ fresh' = fresh
    BY DEF node
<1>4. \A j \in 1..Len(blocks) : Seen(blocks[j]) /\ Ancestor(blocks[j], Last(blocks))
    BY BranchFacts
<1>5. Ancestor(blocks[1], Last(blocks))
    <2>1. 1 \in 1..Len(blocks)
        BY BranchFacts
    <2> QED BY <1>4, <2>1
<1>6. ASSUME NEW j \in 1..Len(handled), restarts = 0, Len(handled[j]) < Len(blocks[1]), Ancestor(handled[j], canonical)
      PROVE  Ancestor(handled[j], Last(blocks))
    <2>1. Ancestor(handled[j], blocks[1])
        BY <1>6
    <2>2. Last(blocks) \in Blocks /\ blocks[1] \in Blocks /\ handled[j] \in Blocks
        BY BranchFacts, IndexFacts DEF Seen, SeenOn
    <2>3. Len(Last(blocks)) \in Nat /\ Len(blocks[1]) \in Nat /\ Len(handled[j]) \in Nat
        BY <2>2, BlockFacts
    <2>4. Len(handled[j]) <= Len(Last(blocks)) /\ \A n \in 1..Len(handled[j]) : n \in 1..Len(blocks[1])
        BY <1>5, <2>1, <2>3 DEF Ancestor
    <2> QED BY <1>5, <2>1, <2>4 DEF Ancestor, Agree
<1>7. \A j \in 1..Len(handled) : Seen(handled[j])
    BY DEF IndexIInv, HandledInv
<1>8. ASSUME NEW i \in 1..Len(handled')
      PROVE  /\ Seen(handled'[i])
             /\ restarts = 0 /\ Ancestor(handled'[i], canonical) => Ancestor(handled'[i], Last(blocks))
    BY <1>1, <1>4, <1>6, <1>7
<1>9. Len(Last(blocks)) <= Len(tip) /\ (fresh => Len(Last(blocks)) < Len(tip))
    <2>1. Len(task.target) <= Len(tip) /\ (fresh => Len(task.target) < Len(tip)) /\ Len(task.target) \in Nat
        BY TargetFacts DEF IndexIInv, TargetInv
    <2>2. Len(Last(blocks)) \in Nat /\ Len(tip) \in Nat
        BY BranchFacts, IndexFacts, BlockFacts DEF Seen, SeenOn
    <2> QED BY <2>1, <2>2
<1> QED BY <1>1, <1>2, <1>3, <1>8, <1>9 DEF HandledInv, Seen

(* A step that writes, and what is left to show of it.                     *)
LEMMA WritesStep ==
    ASSUME IndexIInv, UNCHANGED <<node, fresh>>, persisted' \in 0..Len(tip), announced' \in 0..Len(tip),
           stored' \subseteq Numbers \X Forks, Task', HandledInv', TargetInv', RangeInv', LatestInv',
           HistoryInv', FinalInv', StoreInv'
    PROVE  IndexIInv'
<1>1. \A i \in 1..Len(handled') : handled'[i] \in Blocks
    BY ElementOfSeq DEF HandledInv
<1>2. IndexTypeOK'
    BY <1>1 DEF IndexIInv, IndexTypeOK, HandledInv, node
<1> QED BY <1>2 DEF IndexIInv, Seen, node

(* Events that are on the chain already or go there.                       *)
LEMMA EventsWithin ==
    ASSUME NEW b \in Blocks, NEW first \in Int, NEW last \in Int
    PROVE  EventsIn(b, first, last) \subseteq EventsIn(b, 1, Len(b)) /\ EventsIn(b, first, last) \subseteq Numbers \X Forks
<1>1. 1 \in Int /\ Len(b) \in Int
    BY BlockFacts
<1>2. ASSUME NEW e \in EventsIn(b, first, last)
      PROVE  e \in EventsIn(b, 1, Len(b)) /\ e \in Numbers \X Forks
    <2>1. e[1] \in 1..Len(b) /\ e = <<e[1], b[e[1]]>> /\ b[e[1]] \notin Quiet /\ e \in Numbers \X Forks
        BY <1>2, EventFacts
    <2>2. 1 <= e[1] /\ e[1] <= Len(b)
        BY <1>1, <2>1
    <2> QED BY <1>1, <2>1, <2>2, IsEvent
<1> QED BY <1>2

LEMMA AppendFacts ==
    ASSUME NEW events, NEW b \in Blocks, stored \subseteq EventsIn(b, 1, Len(b)), events \subseteq EventsIn(b, 1, Len(b))
    PROVE  AppendEvents(events) = stored \cup events
<1>1. 1 \in Int /\ Len(b) \in Int
    BY BlockFacts
<1>2. ASSUME NEW e \in events, NEW s \in stored, s[1] = e[1] PROVE e \in stored
    <2>1. e \in EventsIn(b, 1, Len(b)) /\ s \in EventsIn(b, 1, Len(b))
        OBVIOUS
    <2>2. e = <<e[1], b[e[1]]>> /\ s = <<s[1], b[s[1]]>>
        BY <1>1, <2>1, EventFacts
    <2> QED BY <1>2, <2>2
<1> QED BY <1>2 DEF AppendEvents

(* The blocks of a branch have the events of its last block.               *)
LEMMA EventsOfBranch ==
    ASSUME NEW blocks, NEW first \in Nat, Branch(blocks, first)
    PROVE  EventsOf(blocks) = EventsIn(Last(blocks), first, Len(Last(blocks)))
<1> DEFINE top == Last(blocks)
<1>1. /\ Len(blocks) \in Nat \ {0} /\ Len(top) = first + Len(blocks) - 1 /\ top \in Blocks
      /\ \A i \in 1..Len(blocks) : /\ blocks[i] \in Blocks /\ Len(blocks[i]) = first + i - 1
                                   /\ Ancestor(blocks[i], top)
    BY BranchFacts DEF Seen, SeenOn
<1>2. Len(top) \in Int /\ first \in Int
    BY <1>1
<1> HIDE DEF top
<1>3. ASSUME NEW i \in 1..Len(blocks)
      PROVE  EventsIn(blocks[i], Len(blocks[i]), Len(blocks[i])) \subseteq EventsIn(top, first, Len(top))
    <2>1. Len(blocks[i]) \in Int /\ first <= Len(blocks[i]) /\ blocks[i] \in Blocks /\ 0 <= first
        BY <1>1
    <2> SUFFICES ASSUME NEW e \in EventsIn(blocks[i], Len(blocks[i]), Len(blocks[i]))
                 PROVE  e \in EventsIn(top, first, Len(top))
        OBVIOUS
    <2>2. /\ e[1] \in 1..Len(blocks[i]) /\ Len(blocks[i]) <= e[1] /\ e[1] <= Len(blocks[i])
          /\ e = <<e[1], blocks[i][e[1]]>> /\ blocks[i][e[1]] \notin Quiet
        BY <2>1, EventFacts
    <2>3. blocks[i][e[1]] = top[e[1]] /\ Len(blocks[i]) <= Len(top)
        BY <1>1, <2>2 DEF Ancestor, Agree
    <2>4. e[1] \in 1..Len(top) /\ first <= e[1] /\ e[1] <= Len(top)
        <3>1. \A m, l, t \in Int : m \in 1..l /\ l <= t => m \in 1..t /\ m <= t
            OBVIOUS
        <3>2. e[1] \in Int
            BY <2>1, <2>2
        <3>3. e[1] = Len(blocks[i])
            BY <2>1, <2>2, <3>2
        <3> QED BY <1>2, <2>1, <2>2, <2>3, <3>1, <3>2, <3>3
    <2>5. top[e[1]] \notin Quiet /\ e = <<e[1], top[e[1]]>> /\ top \in Blocks
        BY <1>1, <2>2, <2>3
    <2>6. <<e[1], top[e[1]]>> \in EventsIn(top, first, Len(top))
        BY <1>2, <2>4, <2>5, IsEvent
    <2> QED BY <2>5, <2>6
<1>4. ASSUME NEW e \in EventsIn(top, first, Len(top))
      PROVE  \E i \in 1..Len(blocks) : e \in EventsIn(blocks[i], Len(blocks[i]), Len(blocks[i]))
    <2>1. /\ e[1] \in 1..Len(top) /\ first <= e[1] /\ e = <<e[1], top[e[1]]>> /\ top[e[1]] \notin Quiet
        BY <1>1, <1>2, <1>4, EventFacts
    <2> DEFINE i == e[1] + 1 - first
    <2>2. i \in 1..Len(blocks) /\ first + i - 1 = e[1]
        BY <1>1, <1>2, <2>1
    <2> HIDE DEF i
    <2>3. Len(blocks[i]) = e[1] /\ blocks[i] \in Blocks
        BY <1>1, <2>2
    <2>4. e[1] \in 1..Len(blocks[i]) /\ e[1] \in Int /\ Len(blocks[i]) <= e[1] /\ e[1] <= Len(blocks[i])
        BY <1>2, <2>1, <2>3
    <2>5. blocks[i][e[1]] = top[e[1]]
        BY <1>1, <2>2, <2>4 DEF Ancestor, Agree
    <2>6. <<e[1], blocks[i][e[1]]>> \in EventsIn(blocks[i], Len(blocks[i]), Len(blocks[i]))
        BY <2>1, <2>3, <2>4, <2>5, IsEvent
    <2> QED BY <2>1, <2>2, <2>5, <2>6
<1>5. EventsOf(blocks) = UNION {EventsIn(blocks[i], Len(blocks[i]), Len(blocks[i])) : i \in 1..Len(blocks)}
    BY DEF EventsOf
<1> QED BY <1>3, <1>4, <1>5 DEF top

-----------------------------------------------------------------------------
(* Steps of the indexer that write                                         *)

(* Events below a number.                                                  *)
LEMMA EventsBelow ==
    ASSUME NEW b \in Blocks, NEW first \in Nat, NEW last \in Int, first <= last + 1
    PROVE  \A e \in EventsIn(b, 1, first - 1) : e[1] < first /\ e \in EventsIn(b, 1, last)
<1> DEFINE before == first - 1
<1>1. 1 \in Int /\ before \in Int /\ \A n \in Int : n <= before => n < first /\ n <= last
    OBVIOUS
<1> HIDE DEF before
<1>2. ASSUME NEW e \in EventsIn(b, 1, before)
      PROVE  e[1] < first /\ e \in EventsIn(b, 1, last)
    <2>1. /\ e[1] \in 1..Len(b) /\ 1 <= e[1] /\ e[1] <= before /\ e = <<e[1], b[e[1]]>> /\ b[e[1]] \notin Quiet
        BY <1>1, <1>2, EventFacts
    <2>2. e[1] \in Int
        BY <2>1, BlockFacts
    <2> QED BY <1>1, <2>1, <2>2, IsEvent
<1> QED BY <1>2 DEF before

(* Where nothing was replaced, what is added to the store joins the events *)
(* of the handled blocks.                                                  *)
LEMMA StoreGrows ==
    ASSUME IndexIInv, forks = 0, NEW first \in Nat, NEW last \in Nat, first <= Len(LastHandled) + 1,
           first <= last + 1, NEW kept, kept \subseteq stored, \A e \in stored : e[1] < first => e \in kept
    PROVE  LET new == kept \cup EventsIn(canonical, first, last) IN
           EventsIn(canonical, 1, last) \subseteq new /\ new \subseteq EventsIn(canonical, 1, Len(canonical))
<1>1. /\ canonical \in Blocks /\ EventsIn(canonical, 1, Len(LastHandled)) \subseteq stored
      /\ stored \subseteq EventsIn(canonical, 1, Len(canonical))
    BY IndexFacts DEF IndexIInv, StoreInv
<1>2. 1 \in Int /\ first \in Int /\ last \in Int /\ Len(LastHandled) \in Int /\ first - 1 \in Int /\ Len(canonical) \in Int
    BY LastFacts, IndexFacts
<1>3. EventsIn(canonical, first, last) \subseteq EventsIn(canonical, 1, Len(canonical))
    BY <1>1, <1>2, EventsWithin
<1>4. EventsIn(canonical, 1, last) = EventsIn(canonical, 1, first - 1) \cup EventsIn(canonical, first, last)
    BY <1>1, <1>2, EventsJoin
<1>5. EventsIn(canonical, 1, first - 1) \subseteq kept
    BY <1>1, <1>2, EventsBelow
<1> QED BY <1>1, <1>3, <1>4, <1>5

LEMMA KeptFacts ==
    ASSUME NEW first, NEW last
    PROVE  /\ (stored \ Deleted(first, last)) \subseteq stored
           /\ stored \subseteq Numbers \X Forks /\ first \in Nat =>
                 \A e \in stored : e[1] < first => e \in stored \ Deleted(first, last)
<1>1. ASSUME stored \subseteq Numbers \X Forks, first \in Nat, NEW e \in stored, e[1] < first
      PROVE  e \notin Deleted(first, last)
    <2>1. e[1] \in Nat
        BY <1>1, IndexBounds DEF Numbers
    <2> QED BY <1>1, <2>1 DEF Deleted
<1> QED BY <1>1

LEMMA UpdateOldBlocksStep == ASSUME IndexIInv, UpdateOldBlocks PROVE IndexIInv'
<1> DEFINE last == Len(task.checkpoint)
           blocks == <<task.checkpoint>>
           read == EventsIn(canonical, task.first, last)
<1>1. /\ task.at = "history" /\ stored' = ReplaceEvents(read, task.first, last)
      /\ handled' = Advance(blocks) /\ announced' = announced /\ UNCHANGED <<node, fresh, persisted>>
      /\ task' = [at |-> "persistHistory", last |-> last, blocks |-> task.blocks, target |-> task.target]
    BY DEF UpdateOldBlocks, Go
<1>2. task # idle /\ ~ final
    BY <1>1 DEF IndexIInv, IndexTypeOK, Task, idle
<1>3. /\ Seen(task.checkpoint) /\ Agree(task.checkpoint, canonical, last) /\ last + Depth <= Len(task.target)
      /\ TailFollows(last) /\ task.first = Minus(Len(LastHandled), Depth) /\ task.first <= last
      /\ forks = 0 => Len(LastHandled) <= last
    BY <1>1 DEF IndexIInv, HistoryInv
<1>4. /\ task'.at = "persistHistory" /\ task'.last = last /\ task'.blocks = task.blocks
      /\ task'.target = task.target
    BY <1>1
<1>5. /\ canonical' = canonical /\ forks' = forks /\ tip' = tip /\ final' = final /\ restarts' = restarts
      /\ fresh' = fresh /\ persisted' = persisted
    BY <1>1 DEF node
<1>6. /\ task.checkpoint \in Blocks /\ last \in Nat /\ last <= Len(task.target) /\ last <= last + 1 - 1
      /\ Len(task.target) \in Nat /\ Len(task.target) <= Len(tip)
    <2>1. task.checkpoint \in Blocks /\ last \in Nat /\ Depth \in Nat /\ Len(task.target) \in Nat
          /\ Len(task.target) <= Len(tip)
        BY <1>2, <1>3, TargetFacts, BlockFacts, IndexBounds DEF Seen, SeenOn
    <2> QED BY <1>3, <2>1
<1>7. task.first \in Nat /\ task.first <= Len(LastHandled) + 1 /\ task.first <= last + 1
    <2>1. Len(LastHandled) \in Nat /\ Depth \in Nat
        BY LastFacts, IndexBounds
    <2> QED BY <1>3, <1>6, <2>1 DEF Minus
<1>8. /\ blocks \in Seq(Blocks) /\ Len(blocks) = 1 /\ blocks[1] = task.checkpoint /\ blocks # <<>>
      /\ Last(blocks) = task.checkpoint
    BY <1>6 DEF Last
<1> HIDE DEF last, blocks
<1>9. Len(blocks[1]) = last /\ Len(blocks[1]) \in Nat /\ last = last + 1 - 1
    BY <1>6, <1>8 DEF last
<1>10. Branch(blocks, Len(blocks[1]))
    <2>1. Len(task.checkpoint) = last /\ last <= last
        BY <1>6 DEF last
    <2> QED BY <1>3, <1>8, <1>9, <2>1 DEF Branch, BranchOn, Seen, Ancestor, Agree
<1>11. HandledInv' /\ handled' # <<>> /\ LastHandled' = task.checkpoint
    <2>1. ASSUME NEW j \in 1..Len(handled), Len(handled[j]) < Len(blocks[1]), Ancestor(handled[j], canonical)
          PROVE  Ancestor(handled[j], blocks[1])
        <3>1. Len(handled[j]) \in Nat
            BY IndexFacts, BlockFacts
        <3>2. Len(handled[j]) <= Len(blocks[1]) /\ \A n \in 1..Len(handled[j]) : n \in 1..last
            BY <1>6, <1>9, <2>1, <3>1
        <3> QED BY <1>3, <1>8, <2>1, <3>2 DEF Ancestor, Agree
    <2>2. Len(Last(blocks)) <= Len(task.target)
        BY <1>6, <1>8 DEF last
    <2> QED BY <1>1, <1>2, <1>8, <1>9, <1>10, <2>1, <2>2, AdvanceStep
<1>12. stored' = (stored \ Deleted(task.first, last)) \cup read
    BY <1>1 DEF ReplaceEvents
<1>13. stored' \subseteq Numbers \X Forks
    <2>1. canonical \in Blocks /\ task.first \in Int /\ last \in Int /\ stored \subseteq Numbers \X Forks
        BY <1>6, <1>7, IndexFacts
    <2>2. read \subseteq Numbers \X Forks
        BY <2>1, EventsWithin
    <2> QED BY <1>12, <2>1, <2>2, KeptFacts
<1>14. StoreInv'
    <2> SUFFICES ASSUME forks = 0 PROVE StoreInv'
        BY <1>5 DEF StoreInv
    <2>1. persisted <= last
        <3>1. persisted <= Len(LastHandled) /\ Len(LastHandled) <= last /\ Len(LastHandled) \in Nat /\ persisted \in Nat
            BY <1>3, LastFacts, IndexFacts DEF IndexIInv, StoreInv
        <3> QED BY <1>6, <3>1
    <2> DEFINE kept == stored \ Deleted(task.first, last)
    <2>2. kept \subseteq stored /\ \A e \in stored : e[1] < task.first => e \in kept
        BY <1>7, IndexFacts, KeptFacts
    <2> HIDE DEF kept
    <2>3. EventsIn(canonical, 1, last) \subseteq kept \cup read
          /\ kept \cup read \subseteq EventsIn(canonical, 1, Len(canonical))
        BY <1>6, <1>7, <2>2, StoreGrows
    <2>4. Len(LastHandled') = last
        BY <1>11 DEF last
    <2> QED BY <1>5, <1>12, <2>1, <2>3, <2>4 DEF StoreInv, kept
<1>15. TargetInv'
    BY <1>2, <1>4, <1>5 DEF IndexIInv, TargetInv, Seen
<1>16. HistoryInv'
    <2>1. Len(LastHandled') = last /\ Agree(LastHandled', canonical, last)
        BY <1>3, <1>11 DEF last
    <2> QED BY <1>3, <1>4, <1>5, <1>6, <1>11, <2>1 DEF HistoryInv, TailFollows
<1>17. Task' /\ RangeInv' /\ LatestInv' /\ FinalInv'
    BY <1>2, <1>4, <1>5 DEF Task, RangeInv, LatestInv, FinalInv
<1>18. persisted' \in 0..Len(tip) /\ announced' \in 0..Len(tip)
    BY <1>1 DEF IndexIInv, IndexTypeOK
<1> QED BY <1>1, <1>11, <1>13, <1>14, <1>15, <1>16, <1>17, <1>18, WritesStep

LEMMA PersistHistoryStep == ASSUME IndexIInv, PersistHistory PROVE IndexIInv'
<1>1. /\ task.at = "persistHistory" /\ persisted' = task.last /\ announced' = announced
      /\ task' = IF task.blocks = <<>> THEN idle ELSE latest(task.blocks, TRUE, task.target)
      /\ UNCHANGED <<node, fresh, stored, handled>>
    BY DEF PersistHistory, Go
<1>2. task # idle /\ ~ final
    BY <1>1 DEF IndexIInv, IndexTypeOK, Task, idle
<1>3. /\ TailFollows(task.last) /\ Agree(LastHandled, canonical, task.last) /\ handled # <<>>
      /\ task.last \in Nat /\ task.last <= Len(task.target) /\ Len(LastHandled) = task.last
    BY <1>1 DEF IndexIInv, HistoryInv
<1>4. /\ canonical' = canonical /\ forks' = forks /\ tip' = tip /\ final' = final /\ restarts' = restarts
      /\ fresh' = fresh /\ stored' = stored /\ handled' = handled /\ LastHandled' = LastHandled
    BY <1>1, <1>3 DEF node, LastHandled, Base
<1>5. /\ Seen(task.target) /\ Len(task.target) <= Len(tip) /\ (fresh => Len(task.target) < Len(tip))
      /\ Len(tip) \in Nat /\ Len(task.target) \in Nat
    BY <1>2, TargetFacts, IndexFacts DEF IndexIInv, TargetInv
<1>6. persisted' \in 0..Len(tip) /\ announced' \in 0..Len(tip) /\ stored' \subseteq Numbers \X Forks
    <2>1. task.last \in 0..Len(tip)
        BY <1>3, <1>5
    <2> QED BY <1>1, <1>4, <2>1, IndexFacts DEF IndexIInv, IndexTypeOK
<1>7. HandledInv'
    BY <1>3, <1>4 DEF IndexIInv, HandledInv, Seen
<1>8. StoreInv'
    <2>1. persisted' <= Len(LastHandled)
        BY <1>1, <1>3
    <2> QED BY <1>4, <2>1 DEF IndexIInv, StoreInv
<1>9. Task' /\ TargetInv' /\ RangeInv' /\ LatestInv' /\ HistoryInv' /\ FinalInv'
    <2>1. CASE task.blocks = <<>>
        BY <1>1, <1>4, <2>1, IdleTask DEF IndexIInv
    <2>2. CASE task.blocks # <<>>
        <3> DEFINE blocks == task.blocks
        <3>1. /\ Branch(blocks, task.last + 1) /\ Len(Last(blocks)) <= Len(task.target)
              /\ Agree(blocks[1], canonical, task.last)
            BY <1>3, <2>2 DEF TailFollows, TailOn, Branch
        <3>2. Len(blocks[1]) = task.last + 1 /\ task.last + 1 \in Nat /\ Len(blocks[1]) - 1 = task.last
              /\ Len(blocks[1]) <= task.last + 1
            <4>1. task.last + 1 \in Nat
                BY <1>3
            <4>2. Len(blocks[1]) = task.last + 1
                BY <3>1, <4>1, BranchFacts
            <4> QED BY <1>3, <4>1, <4>2
        <3>3. FollowsOn(blocks, TRUE, LastHandled', forks', restarts')
            <4>1. Agree(blocks[1], LastHandled, task.last)
                BY <1>3, <3>1 DEF Agree
            <4> QED BY <1>3, <1>4, <3>2, <4>1 DEF FollowsOn
        <3>4. TRUE \in BOOLEAN /\ UNCHANGED node /\ Branch(blocks, Len(blocks[1]))
              /\ task' = latest(blocks, TRUE, task.target) /\ (fresh' => Len(task.target) < Len(tip))
            BY <1>1, <1>4, <1>5, <2>2, <3>1, <3>2
        <3> HIDE DEF blocks
        <3> QED BY <1>2, <1>5, <3>1, <3>3, <3>4, LatestTask
    <2> QED BY <2>1, <2>2
<1> QED BY <1>1, <1>6, <1>7, <1>8, <1>9, WritesStep

LEMMA UpdateLatestBlocksStep == ASSUME IndexIInv, UpdateLatestBlocks PROVE IndexIInv'
<1>1. /\ task.at = "latest" /\ UNCHANGED <<node, fresh, persisted>>
    BY DEF UpdateLatestBlocks
<1>2. task # idle /\ ~ final
    BY <1>1 DEF IndexIInv, IndexTypeOK, Task, idle
<1> DEFINE all == task.blocks
           first == Len(all[1])
<1>3. /\ Branch(all, first) /\ Len(Last(all)) <= Len(task.target)
      /\ FollowsOn(all, task.replace, LastHandled, forks, restarts)
    BY <1>1 DEF IndexIInv, LatestInv, Follows
<1>4. first \in Nat /\ Len(all) \in Nat \ {0}
    <2>1. all \in Seq(Blocks) /\ all # <<>>
        BY <1>3 DEF Branch, BranchOn
    <2>2. Len(all) \in Nat \ {0}
        BY <2>1, EmptySeq
    <2>3. all[1] \in Blocks
        <3>1. 1 \in 1..Len(all)
            BY <2>2
        <3> QED BY <2>1, <3>1, ElementOfSeq
    <2> QED BY <2>2, <2>3, BlockFacts
<1>5. PICK k \in 1..Len(all) :
          LET blocks == SubSeq(all, 1, k)
              last == Len(blocks[k]) IN
          /\ stored' = IF task.replace THEN ReplaceEvents(EventsOf(blocks), Len(blocks[1]), last)
                       ELSE AppendEvents(EventsOf(blocks))
          /\ handled' = Advance(blocks)
          /\ Go(IF Partial(all, k) THEN idle
                ELSE [at |-> "persistLatest", last |-> Len(Last(all)), target |-> task.target])
    BY DEF UpdateLatestBlocks
<1> DEFINE blocks == SubSeq(all, 1, k)
           top == Last(blocks)
           last == Len(top)
           read == EventsOf(blocks)
<1> HIDE DEF all
<1>6. /\ Branch(blocks, first) /\ Len(blocks) = k /\ blocks[1] = all[1] /\ top = all[k]
    <2>1. 1 \in 1..Len(all) /\ k \in 1..Len(all) /\ first + 1 - 1 = first /\ k + 1 - 1 = k
        BY <1>4
    <2> QED BY <1>3, <1>4, <2>1, SubBranch
<1>7. blocks[k] = top
    BY <1>6 DEF Last
<1>8. /\ stored' = IF task.replace THEN ReplaceEvents(read, first, last) ELSE AppendEvents(read)
      /\ handled' = Advance(blocks) /\ announced' = announced
      /\ task' = IF k < Len(all) THEN idle
                 ELSE [at |-> "persistLatest", last |-> Len(Last(all)), target |-> task.target]
    BY <1>5, <1>6, <1>7 DEF Go, Partial
<1> HIDE DEF first, blocks
<1>9. /\ Seen(top) /\ top \in Blocks /\ last \in Nat /\ first <= last /\ last <= Len(task.target)
      /\ Len(blocks[1]) = first
    <2>1. /\ Len(top) = first + Len(blocks) - 1 /\ Len(blocks) \in Nat \ {0} /\ Seen(top) /\ top \in Blocks
          /\ Len(blocks[1]) = first
        BY <1>4, <1>6, BranchFacts DEF Seen, SeenOn
    <2>2. Len(Last(all)) = first + Len(all) - 1
        BY <1>3, <1>4, BranchFacts
    <2>3. Len(task.target) \in Nat
        BY <1>2, TargetFacts
    <2>4. k <= Len(all)
        BY <1>4
    <2> QED BY <1>3, <1>4, <1>6, <2>1, <2>2, <2>3, <2>4
<1>10. read = EventsIn(top, first, last)
    BY <1>4, <1>6, EventsOfBranch
<1> HIDE DEF top, read
<1>11. /\ canonical' = canonical /\ forks' = forks /\ tip' = tip /\ final' = final /\ restarts' = restarts
       /\ fresh' = fresh /\ persisted' = persisted
    BY <1>1 DEF node
<1>12. HandledInv' /\ handled' # <<>> /\ LastHandled' = top
    <2>1. ASSUME restarts = 0, NEW j \in 1..Len(handled), Len(handled[j]) < first, Ancestor(handled[j], canonical)
          PROVE  Ancestor(handled[j], blocks[1])
        <3>1. Len(handled[j]) \in Nat
            BY IndexFacts, BlockFacts
        <3>2. Len(handled[j]) <= first /\ \A n \in 1..Len(handled[j]) : n \in 1..(first - 1)
            BY <1>4, <2>1, <3>1
        <3>3. Agree(all[1], LastHandled, first - 1)
            BY <1>3, <2>1 DEF FollowsOn, first
        <3>4. handled # <<>>
            BY <2>1, EmptySeq
        <3>5. Ancestor(handled[j], LastHandled)
            BY <2>1 DEF IndexIInv, HandledInv
        <3> QED BY <1>6, <1>9, <3>2, <3>3, <3>5 DEF Ancestor, Agree
    <2>2. Len(Last(blocks)) <= Len(task.target) /\ Len(blocks[1]) \in Nat /\ Branch(blocks, Len(blocks[1]))
        BY <1>4, <1>6, <1>9 DEF top
    <2> QED BY <1>1, <1>2, <1>8, <1>9, <2>1, <2>2, AdvanceStep DEF top
<1>13. stored' \subseteq stored \cup read /\ read \subseteq Numbers \X Forks /\ stored \subseteq Numbers \X Forks
    <2>1. first \in Int /\ last \in Int /\ stored \subseteq Numbers \X Forks
        BY <1>4, <1>9, IndexFacts
    <2>2. read \subseteq Numbers \X Forks
        BY <1>9, <1>10, <2>1, EventsWithin
    <2> QED BY <1>8, <2>1, <2>2 DEF ReplaceEvents, AppendEvents
<1>14. StoreInv'
    <2> SUFFICES ASSUME forks = 0 PROVE StoreInv'
        BY <1>11 DEF StoreInv
    <2>1. first = Len(LastHandled) + 1
        BY <1>3 DEF FollowsOn, first
    <2>2. /\ Len(LastHandled) \in Nat /\ first <= last + 1 /\ first <= Len(LastHandled) + 1
          /\ persisted <= last
        <3>1. Len(LastHandled) \in Nat /\ persisted \in Nat /\ persisted <= Len(LastHandled)
            BY LastFacts, IndexFacts DEF IndexIInv, StoreInv
        <3> QED BY <1>4, <1>9, <2>1, <3>1
    <2>3. read = EventsIn(canonical, first, last)
        <3>1. last <= Len(canonical)
            BY <1>9 DEF Seen, SeenOn
        <3>2. Agree(top, canonical, last)
            BY <1>9, <3>1, IndexFacts, OneChain
        <3>3. first \in Int /\ last \in Int /\ last <= last /\ canonical \in Blocks
            BY <1>4, <1>9, IndexFacts
        <3> QED BY <1>9, <1>10, <3>1, <3>2, <3>3, SameEvents
    <2> DEFINE kept == IF task.replace THEN stored \ Deleted(first, last) ELSE stored
    <2>4. kept \subseteq stored /\ \A e \in stored : e[1] < first => e \in kept
        BY <1>4, IndexFacts, KeptFacts
    <2>5. stored' = kept \cup read
        <3>1. CASE task.replace
            BY <1>8, <3>1 DEF ReplaceEvents
        <3>2. CASE ~ task.replace
            <4>1. canonical \in Blocks /\ first \in Int /\ last \in Int
                BY <1>4, <1>9, IndexFacts
            <4>2. read \subseteq EventsIn(canonical, 1, Len(canonical)) /\ stored \subseteq EventsIn(canonical, 1, Len(canonical))
                BY <2>3, <4>1, EventsWithin DEF IndexIInv, StoreInv
            <4>3. AppendEvents(read) = stored \cup read
                BY <4>1, <4>2, AppendFacts
            <4> QED BY <1>8, <3>2, <4>3
        <3> QED BY <3>1, <3>2
    <2> HIDE DEF kept
    <2>6. EventsIn(canonical, 1, last) \subseteq kept \cup EventsIn(canonical, first, last)
          /\ kept \cup EventsIn(canonical, first, last) \subseteq EventsIn(canonical, 1, Len(canonical))
        BY <1>4, <1>9, <2>2, <2>4, StoreGrows
    <2> QED BY <1>11, <1>12, <2>2, <2>3, <2>5, <2>6 DEF StoreInv
<1>15. persisted' \in 0..Len(tip) /\ announced' \in 0..Len(tip)
    BY <1>8, <1>11 DEF IndexIInv, IndexTypeOK
<1>16. Task' /\ TargetInv' /\ RangeInv' /\ LatestInv' /\ HistoryInv' /\ FinalInv'
    <2>1. CASE k < Len(all)
        BY <1>8, <1>11, <2>1, IdleTask DEF IndexIInv
    <2>2. CASE ~ (k < Len(all))
        <3>1. k = Len(all)
            BY <1>4, <2>2
        <3>2. Len(Last(all)) = last
            BY <1>6, <3>1 DEF Last
        <3>3. task'.at = "persistLatest" /\ task'.last = last /\ task'.target = task.target
            BY <1>8, <2>2, <3>2
        <3>4. TargetInv'
            BY <1>2, <1>11, <3>3 DEF IndexIInv, TargetInv, Seen
        <3>5. HistoryInv'
            BY <1>9, <1>12, <3>3 DEF HistoryInv
        <3> QED BY <1>2, <1>11, <3>3, <3>4, <3>5 DEF Task, RangeInv, LatestInv, FinalInv
    <2> QED BY <2>1, <2>2
<1> QED BY <1>1, <1>12, <1>13, <1>14, <1>15, <1>16, WritesStep

LEMMA PersistLatestStep == ASSUME IndexIInv, PersistLatest PROVE IndexIInv'
<1>1. /\ task.at = "persistLatest" /\ persisted' = task.last /\ announced' \in {announced, Len(task.target)}
      /\ task' = idle /\ UNCHANGED <<node, fresh, stored, handled>>
    BY DEF PersistLatest, Go, Finish
<1>2. task # idle
    BY <1>1 DEF idle
<1>3. /\ handled # <<>> /\ task.last \in Nat /\ task.last <= Len(task.target) /\ Len(LastHandled) = task.last
    BY <1>1 DEF IndexIInv, HistoryInv
<1>4. /\ canonical' = canonical /\ forks' = forks /\ tip' = tip /\ final' = final /\ restarts' = restarts
      /\ fresh' = fresh /\ stored' = stored /\ handled' = handled /\ LastHandled' = LastHandled
    BY <1>1, <1>3 DEF node, LastHandled, Base
<1>5. persisted' \in 0..Len(tip) /\ announced' \in 0..Len(tip) /\ stored' \subseteq Numbers \X Forks
    <2>1. /\ Len(task.target) \in Nat /\ Len(task.target) <= Len(tip) /\ Len(tip) \in Nat
          /\ announced \in 0..Len(tip)
        BY <1>2, TargetFacts, IndexFacts DEF IndexIInv, IndexTypeOK
    <2>2. task.last \in 0..Len(tip) /\ Len(task.target) \in 0..Len(tip)
        BY <1>3, <2>1
    <2> QED BY <1>1, <1>4, <2>1, <2>2, IndexFacts
<1>6. HandledInv'
    BY <1>3, <1>4 DEF IndexIInv, HandledInv, Seen
<1>7. StoreInv'
    <2>1. persisted' <= Len(LastHandled)
        BY <1>1, <1>3
    <2> QED BY <1>4, <2>1 DEF IndexIInv, StoreInv
<1>8. Task' /\ TargetInv' /\ RangeInv' /\ LatestInv' /\ HistoryInv' /\ FinalInv'
    BY <1>1, <1>4, IdleTask DEF IndexIInv
<1> QED BY <1>1, <1>5, <1>6, <1>7, <1>8, WritesStep

-----------------------------------------------------------------------------
(* Steps of the deterministic indexer                                      *)

LEMMA BeginFinalStep == ASSUME IndexIInv, BeginFinal PROVE IndexIInv'
<1>1. /\ UNCHANGED <<node, stored, persisted, handled>> /\ fresh' = FALSE /\ final
      /\ FinalInv /\ announced \in 0..Len(tip)
    BY DEF BeginFinal, Take, IndexIInv, IndexTypeOK
<1>2. LastHandled' = LastHandled /\ canonical' = canonical /\ forks' = forks /\ tip' = tip /\ final' = final
    BY <1>1 DEF LastHandled, Base, Block, node
<1>3. Seen(tip) /\ Len(tip) \in Nat /\ Len(tip) \in 0..Len(tip)
    BY IndexFacts
<1>4. CASE Finish(tip)
    BY <1>1, <1>3, <1>4, FinishStep
<1>5. CASE Len(tip) > Len(Last(Base)) /\ Go([at |-> "confirm", last |-> Last(Base), target |-> tip])
    <2>1. task' = [at |-> "confirm", last |-> LastHandled, target |-> tip] /\ announced' = announced
        BY <1>5 DEF Go, LastHandled
    <2>2. task'.at = "confirm" /\ task'.last = LastHandled /\ task'.target = tip
        BY <2>1
    <2>3. Len(LastHandled) < Len(tip)
        BY <1>3, <1>5, LastFacts DEF LastHandled
    <2>4. TargetInv' /\ Task'
        BY <1>1, <1>2, <1>3, <2>2 DEF TargetInv, Seen, Task
    <2>5. FinalInv' /\ RangeInv' /\ LatestInv' /\ HistoryInv'
        BY <1>1, <1>2, <2>2, <2>3 DEF FinalInv, RangeInv, LatestInv, HistoryInv
    <2> QED BY <1>1, <2>1, <2>4, <2>5, ReadsStep
<1> QED BY <1>4, <1>5 DEF BeginFinal

(* A step of the deterministic indexer that goes on with a new task.       *)
LEMMA FinalTask ==
    ASSUME IndexIInv, UNCHANGED <<node, fresh>>, final, task # idle, task'.target = task.target,
           task'.at \in {"range", "fetch", "verify", "persistRange"}
    PROVE  Task' /\ TargetInv' /\ RangeInv' /\ LatestInv' /\ HistoryInv'
<1>1. TargetInv'
    BY DEF IndexIInv, TargetInv, Seen, node
<1>2. Task' /\ RangeInv' /\ LatestInv' /\ HistoryInv'
    BY DEF Task, RangeInv, LatestInv, HistoryInv, node
<1> QED BY <1>1, <1>2

LEMMA ConfirmStep == ASSUME IndexIInv, Confirm PROVE IndexIInv'
<1>1. /\ task.at = "confirm" /\ UNCHANGED <<node, fresh, stored, persisted, handled>> /\ announced' = announced
      /\ \/ task' = idle
         \/ task' = [at |-> "range", last |-> task.last, rounds |-> Rounds, target |-> task.target]
    BY DEF Confirm, Go
<1>2. task # idle /\ final
    BY <1>1 DEF IndexIInv, IndexTypeOK, Task, idle
<1>3. CASE task' = idle
    BY <1>1, <1>3, ReadsFacts, IdleTask, ReadsStep
<1>4. CASE task' = [at |-> "range", last |-> task.last, rounds |-> Rounds, target |-> task.target]
    <2>1. task'.at = "range" /\ task'.last = task.last /\ task'.rounds = Rounds /\ task'.target = task.target
        BY <1>4
    <2>2. Rounds \in Nat \ {0}
        BY IndexBounds
    <2>3. FinalInv'
        BY <1>1, <2>1, <2>2, ReadsFacts DEF IndexIInv, FinalInv
    <2> QED BY <1>1, <1>2, <2>1, <2>3, FinalTask, ReadsFacts, ReadsStep
<1> QED BY <1>1, <1>3, <1>4

LEMMA RangeEndStep == ASSUME IndexIInv, RangeEnd PROVE IndexIInv'
<1> DEFINE end == AtMost(Len(task.target), Len(task.last) + RangeMax)
           checkpoint == IF end = Len(task.target) THEN task.target ELSE Block(end)
<1>1. /\ task.at = "range" /\ UNCHANGED <<node, fresh, stored, persisted, handled>> /\ announced' = announced
      /\ task' = [at |-> "fetch", last |-> task.last, rounds |-> task.rounds, target |-> task.target,
                  checkpoint |-> checkpoint]
    BY DEF RangeEnd, Go
<1>2. task # idle /\ final
    BY <1>1 DEF IndexIInv, IndexTypeOK, Task, idle
<1> HIDE DEF checkpoint
<1>3. /\ task'.at = "fetch" /\ task'.last = task.last /\ task'.rounds = task.rounds
      /\ task'.target = task.target /\ task'.checkpoint = checkpoint
    BY <1>1
<1>4. task.last = LastHandled /\ Len(LastHandled) < Len(task.target) /\ task.rounds \in Nat \ {0}
    BY <1>1 DEF IndexIInv, FinalInv
<1>5. /\ Len(task.target) \in Nat /\ Len(task.target) <= Len(canonical) /\ Seen(task.target)
      /\ Len(LastHandled) \in Nat /\ Len(canonical) \in Nat /\ RangeMax \in Nat \ {0}
    BY <1>2, TargetFacts, LastFacts, IndexFacts, IndexBounds
<1>6. /\ end \in Nat /\ Len(LastHandled) < end /\ end <= Len(task.target) /\ end \in 0..Len(canonical)
    BY <1>4, <1>5 DEF AtMost
<1>7. Seen(checkpoint) /\ Len(checkpoint) = end
    BY <1>5, <1>6, IndexFacts, ShownBlock DEF checkpoint
<1> HIDE DEF end
<1>8. FinalInv'
    BY <1>1, <1>3, <1>4, <1>6, <1>7, ReadsFacts DEF IndexIInv, FinalInv, Seen
<1> QED BY <1>1, <1>2, <1>3, <1>8, FinalTask, ReadsFacts, ReadsStep

LEMMA FetchRangeStep == ASSUME IndexIInv, FetchRange PROVE IndexIInv'
<1> DEFINE events == EventsIn(canonical, Len(task.last) + 1, Len(task.checkpoint))
<1>1. /\ task.at = "fetch" /\ UNCHANGED <<node, fresh, stored, persisted, handled>> /\ announced' = announced
      /\ task' = [at |-> "verify", checkpoint |-> task.checkpoint, rounds |-> task.rounds,
                  target |-> task.target, events |-> events]
    BY DEF FetchRange, Go, RangeStart
<1>2. task # idle /\ final
    BY <1>1 DEF IndexIInv, IndexTypeOK, Task, idle
<1> HIDE DEF events
<1>3. /\ task'.at = "verify" /\ task'.checkpoint = task.checkpoint /\ task'.rounds = task.rounds
      /\ task'.target = task.target /\ task'.events = events
    BY <1>1
<1>4. FinalInv'
    BY <1>1, <1>3, ReadsFacts DEF IndexIInv, FinalInv, Seen, events
<1> QED BY <1>1, <1>2, <1>3, <1>4, FinalTask, ReadsFacts, ReadsStep

LEMMA VerifyRangeStep == ASSUME IndexIInv, VerifyRange PROVE IndexIInv'
<1>1. /\ task.at = "verify" /\ UNCHANGED <<node, fresh, persisted, handled>> /\ announced' = announced
      /\ \/ task' = idle /\ stored' = stored
         \/ /\ stored' = AppendEvents(task.events)
            /\ task' = [at |-> "persistRange", checkpoint |-> task.checkpoint, rounds |-> task.rounds,
                        target |-> task.target]
    BY DEF VerifyRange, Go
<1>2. task # idle /\ final
    BY <1>1 DEF IndexIInv, IndexTypeOK, Task, idle
<1>3. CASE task' = idle /\ stored' = stored
    BY <1>1, <1>3, ReadsFacts, IdleTask, ReadsStep
<1>4. CASE /\ stored' = AppendEvents(task.events)
           /\ task' = [at |-> "persistRange", checkpoint |-> task.checkpoint, rounds |-> task.rounds,
                       target |-> task.target]
    <2>1. /\ task'.at = "persistRange" /\ task'.checkpoint = task.checkpoint /\ task'.rounds = task.rounds
          /\ task'.target = task.target
        BY <1>4
    <2> DEFINE last == Len(task.checkpoint)
               first == Len(LastHandled) + 1
    <2>2. /\ forks = 0 /\ Seen(task.checkpoint) /\ Len(LastHandled) < last /\ last <= Len(task.target)
          /\ task.events = EventsIn(canonical, first, last) /\ task.rounds \in Nat \ {0}
        BY <1>1, <1>2 DEF IndexIInv, FinalInv
    <2>3. canonical \in Blocks /\ last \in Nat /\ Len(LastHandled) \in Nat /\ last <= Len(canonical)
        BY <2>2, IndexFacts, LastFacts, BlockFacts DEF Seen, SeenOn
    <2>4. first \in Nat /\ first \in Int /\ last \in Int /\ first <= last + 1 /\ first <= Len(LastHandled) + 1
          /\ first <= last
        BY <2>2, <2>3
    <2> HIDE DEF first, last
    <2>5. /\ stored \subseteq EventsIn(canonical, 1, Len(canonical)) /\ persisted <= Len(LastHandled)
          /\ EventsIn(canonical, 1, Len(LastHandled)) \subseteq stored
        BY <2>2 DEF IndexIInv, StoreInv
    <2>6. task.events \subseteq EventsIn(canonical, 1, Len(canonical)) /\ task.events \subseteq Numbers \X Forks
        BY <2>2, <2>3, <2>4, EventsWithin
    <2>7. stored' = stored \cup task.events
        BY <1>4, <2>3, <2>5, <2>6, AppendFacts
    <2>8. stored \subseteq stored /\ \A e \in stored : e[1] < first => e \in stored
        OBVIOUS
    <2>9. EventsIn(canonical, 1, last) \subseteq stored \cup task.events
        BY <2>2, <2>3, <2>4, <2>8, StoreGrows
    <2>10. /\ canonical' = canonical /\ forks' = forks /\ tip' = tip /\ final' = final /\ restarts' = restarts
           /\ fresh' = fresh /\ persisted' = persisted /\ handled' = handled /\ LastHandled' = LastHandled
        BY <1>1 DEF node, LastHandled, Base, Block
    <2>11. HandledInv'
        BY <2>10 DEF IndexIInv, HandledInv, Seen
    <2>12. StoreInv'
        BY <2>5, <2>6, <2>7, <2>10 DEF StoreInv
    <2>13. FinalInv'
        BY <1>2, <2>1, <2>2, <2>7, <2>9, <2>10 DEF FinalInv, Seen, last
    <2>14. persisted' \in 0..Len(tip) /\ announced' \in 0..Len(tip) /\ stored' \subseteq Numbers \X Forks
        BY <1>1, <2>6, <2>7, IndexFacts DEF IndexIInv, IndexTypeOK
    <2> QED BY <1>1, <1>2, <2>1, <2>11, <2>12, <2>13, <2>14, FinalTask, WritesStep
<1> QED BY <1>1, <1>3, <1>4

LEMMA PersistRangeStep == ASSUME IndexIInv, PersistRange PROVE IndexIInv'
<1>1. /\ task.at = "persistRange" /\ persisted' = Len(task.checkpoint) /\ handled' = <<task.checkpoint>>
      /\ \/ task' = idle /\ announced' \in {announced, Len(task.target)}
         \/ /\ Len(task.checkpoint) # Len(task.target) /\ task.rounds # 1 /\ announced' = announced
            /\ task' = [at |-> "range", last |-> task.checkpoint, rounds |-> task.rounds - 1, target |-> task.target]
      /\ UNCHANGED <<node, fresh, stored>>
    BY DEF PersistRange, Go, Finish
<1>2. task # idle /\ final
    BY <1>1 DEF IndexIInv, IndexTypeOK, Task, idle
<1>3. /\ forks = 0 /\ Seen(task.checkpoint) /\ Len(LastHandled) < Len(task.checkpoint)
      /\ Len(task.checkpoint) <= Len(task.target) /\ task.rounds \in Nat \ {0}
      /\ EventsIn(canonical, 1, Len(task.checkpoint)) \subseteq stored
    BY <1>1, <1>2 DEF IndexIInv, FinalInv
<1>4. /\ Len(task.target) \in Nat /\ Len(task.target) <= Len(tip) /\ (fresh => Len(task.target) < Len(tip))
      /\ task.checkpoint \in Blocks /\ Len(task.checkpoint) \in Nat /\ Len(tip) \in Nat
      /\ announced \in 0..Len(tip)
    BY <1>2, <1>3, TargetFacts, IndexFacts, BlockFacts DEF IndexIInv, IndexTypeOK, TargetInv, Seen, SeenOn
<1>5. /\ canonical' = canonical /\ forks' = forks /\ tip' = tip /\ final' = final /\ restarts' = restarts
      /\ fresh' = fresh /\ stored' = stored
    BY <1>1 DEF node
<1>6. /\ handled' \in Seq(Blocks) /\ Len(handled') = 1 /\ handled'[1] = task.checkpoint /\ handled' # <<>>
      /\ LastHandled' = task.checkpoint
    BY <1>1, <1>4 DEF LastHandled, Base, Last
<1>7. HandledInv'
    <2>1. Len(handled') <= Depth /\ \A i \in 1..Len(handled') : i = 1
        BY <1>6, IndexBounds
    <2>2. Len(task.checkpoint) <= Len(tip) /\ (fresh => Len(task.checkpoint) < Len(tip))
        BY <1>3, <1>4
    <2>3. \A i, j \in 1..Len(handled') : ~ (i < j)
        BY <2>1
    <2>4. Ancestor(task.checkpoint, task.checkpoint)
        BY <1>4 DEF Ancestor, Agree
    <2>5. \A i \in 1..Len(handled') : handled'[i] = task.checkpoint
        BY <1>6, <2>1
    <2> QED BY <1>3, <1>5, <1>6, <2>1, <2>2, <2>3, <2>4, <2>5 DEF HandledInv, Seen
<1>8. StoreInv'
    <2>1. persisted' <= Len(task.checkpoint)
        BY <1>1, <1>4
    <2> QED BY <1>3, <1>5, <1>6, <2>1 DEF IndexIInv, StoreInv
<1>9. persisted' \in 0..Len(tip) /\ announced' \in 0..Len(tip) /\ stored' \subseteq Numbers \X Forks
    <2>1. Len(task.checkpoint) \in 0..Len(tip) /\ Len(task.target) \in 0..Len(tip)
        BY <1>3, <1>4
    <2> QED BY <1>1, <1>4, <1>5, <2>1, IndexFacts
<1>10. Task' /\ TargetInv' /\ RangeInv' /\ LatestInv' /\ HistoryInv' /\ FinalInv'
    <2>1. CASE task' = idle
        BY <1>5, <2>1, IdleTask DEF IndexIInv
    <2>2. CASE /\ Len(task.checkpoint) # Len(task.target) /\ task.rounds # 1
               /\ task' = [at |-> "range", last |-> task.checkpoint, rounds |-> task.rounds - 1,
                           target |-> task.target]
        <3>1. /\ task'.at = "range" /\ task'.last = task.checkpoint /\ task'.rounds = task.rounds - 1
              /\ task'.target = task.target
            BY <2>2
        <3>2. task.rounds - 1 \in Nat \ {0} /\ Len(task.checkpoint) < Len(task.target)
            BY <1>3, <1>4, <2>2
        <3>3. FinalInv'
            BY <1>3, <1>5, <1>6, <3>1, <3>2 DEF FinalInv
        <3> QED BY <1>1, <1>2, <3>1, <3>3, FinalTask
    <2> QED BY <1>1, <2>1, <2>2
<1> QED BY <1>1, <1>7, <1>8, <1>9, <1>10, WritesStep

-----------------------------------------------------------------------------
(* A restart, the initial state and every step                             *)

LEMMA RestartStep == ASSUME IndexIInv, Restart PROVE IndexIInv'
<1>1. /\ restarts' = restarts + 1 /\ restarts < MaxRestarts /\ tip' = canonical /\ handled' = <<>>
      /\ task' = idle /\ fresh' = TRUE /\ announced' = Len(canonical)
      /\ canonical' = canonical /\ forks' = forks /\ final' = final /\ stored' = stored /\ persisted' = persisted
    BY DEF Restart
<1>2. /\ canonical \in Blocks /\ Len(canonical) \in Nat /\ persisted \in 0..Len(canonical) /\ Seen(canonical)
      /\ persisted \in Nat /\ stored \subseteq Numbers \X Forks
    BY IndexFacts
<1>3. LastHandled' = Block(persisted) /\ Len(LastHandled') = persisted
    <2>1. LastHandled' = Block(persisted)
        BY <1>1 DEF LastHandled, Base, Last, Block
    <2> QED BY <1>2, <2>1, ShownBlock
<1>4. restarts' \in 0..MaxRestarts /\ restarts' # 0
    BY <1>1, IndexBounds DEF IndexIInv, IndexTypeOK
<1>5. Task' /\ TargetInv' /\ RangeInv' /\ LatestInv' /\ HistoryInv' /\ FinalInv'
    BY <1>1, IdleTask DEF IndexIInv
<1>6. handled' \in Seq(Blocks) /\ Len(handled') = 0 /\ 0 <= Depth /\ 1..0 = {}
    BY <1>1, IndexBounds
<1>7. IndexTypeOK'
    <2>1. Len(canonical) \in 0..Len(canonical) /\ Len(canonical) <= Len(canonical)
        BY <1>2
    <2> QED BY <1>1, <1>2, <1>4, <1>5, <1>6, <2>1 DEF IndexIInv, IndexTypeOK
<1>8. HandledInv'
    <2>1. persisted <= Len(canonical)
        BY <1>2
    <2> QED BY <1>1, <1>3, <1>4, <1>6, <2>1 DEF HandledInv
<1>9. StoreInv'
    <2> SUFFICES ASSUME forks = 0 PROVE StoreInv'
        BY <1>1 DEF StoreInv
    <2>1. /\ persisted <= Len(LastHandled) /\ EventsIn(canonical, 1, Len(LastHandled)) \subseteq stored
          /\ stored \subseteq EventsIn(canonical, 1, Len(canonical)) /\ Len(LastHandled) \in Nat
        BY LastFacts DEF IndexIInv, StoreInv
    <2>2. EventsIn(canonical, 1, persisted) \subseteq EventsIn(canonical, 1, Len(LastHandled))
        <3> DEFINE next == persisted + 1
        <3>1. next \in Nat /\ next - 1 = persisted /\ Len(LastHandled) \in Int /\ next <= Len(LastHandled) + 1
            BY <1>2, <2>1
        <3> HIDE DEF next
        <3>2. EventsIn(canonical, 1, next - 1) \subseteq EventsIn(canonical, 1, Len(LastHandled))
            BY <1>2, <3>1, EventsJoin
        <3> QED BY <3>1, <3>2
    <2>3. persisted <= persisted
        BY <1>2
    <2> QED BY <1>1, <1>3, <2>1, <2>2, <2>3 DEF StoreInv
<1> QED BY <1>1, <1>2, <1>5, <1>7, <1>8, <1>9 DEF IndexIInv, Seen

LEMMA InitIndex == ASSUME IndexInit PROVE IndexIInv
<1>1. /\ canonical = <<>> /\ forks = 0 /\ final \in BOOLEAN /\ tip = <<>> /\ stored = {} /\ persisted = 0
      /\ handled = <<>> /\ fresh = TRUE /\ task = idle /\ announced = 0 /\ restarts = 0
    BY DEF IndexInit
<1>2. /\ canonical \in Blocks /\ canonical \in Seq(Forks) /\ Len(canonical) = 0 /\ 1..0 = {} /\ 0 \in Forks
      /\ Depth \in Nat /\ 0 \in 0..MaxRestarts
    <2>1. canonical \in Seq(Forks) /\ Len(canonical) = 0
        BY <1>1
    <2>2. canonical \in Blocks
        <3>1. Len(canonical) <= MaxHeight
            BY <2>1, IndexBounds
        <3> QED BY <2>1, <3>1, IsBlock
    <2> QED BY <2>1, <2>2, IndexBounds DEF Forks
<1>3. Seen(canonical) /\ Seen(tip)
    BY <1>1, <1>2 DEF Seen, SeenOn
<1>4. LastHandled = Block(0) /\ Block(0) \in Blocks /\ Len(Block(0)) = 0
    <2>1. LastHandled = Block(0)
        BY <1>1 DEF LastHandled, Base, Last
    <2>2. 0 \in 0..Len(canonical)
        BY <1>2
    <2> QED BY <1>3, <2>1, <2>2, ShownBlock
<1>5. task.at = "idle" /\ Task
    BY <1>1 DEF idle, Task
<1>6. IndexTypeOK
    BY <1>1, <1>2, <1>5 DEF IndexTypeOK
<1>7. HandledInv
    <2>1. handled \in Seq(Blocks) /\ Len(handled) = 0 /\ 0 <= Depth
        BY <1>1, <1>2
    <2> QED BY <1>1, <1>2, <1>4, <2>1 DEF HandledInv
<1>8. TargetInv /\ RangeInv /\ LatestInv /\ HistoryInv /\ FinalInv
    BY <1>1, <1>5 DEF TargetInv, RangeInv, LatestInv, HistoryInv, FinalInv
<1>9. StoreInv
    <2>1. EventsIn(canonical, 1, 0) = {} /\ 0 <= 0
        <3>1. 1 \in Int /\ 0 \in Int
            OBVIOUS
        <3>2. ASSUME NEW e \in EventsIn(canonical, 1, 0) PROVE FALSE
            BY <1>2, <3>1, <3>2, EventFacts
        <3> QED BY <3>2
    <2> QED BY <1>1, <1>2, <1>4, <2>1 DEF StoreInv
<1> QED BY <1>3, <1>6, <1>7, <1>8, <1>9 DEF IndexIInv

LEMMA NextIndex == ASSUME IndexIInv, [IndexNext]_indexVars PROVE IndexIInv'
<1>1. CASE UNCHANGED indexVars
    <2>1. LastHandled' = LastHandled
        BY <1>1 DEF indexVars, LastHandled, Base, Block
    <2>2. IndexTypeOK' /\ Seen(canonical)' /\ Seen(tip)' /\ HandledInv' /\ StoreInv'
        BY <1>1, <2>1 DEF indexVars, IndexIInv, IndexTypeOK, Task, Seen, HandledInv, StoreInv
    <2>3. TargetInv' /\ RangeInv' /\ LatestInv' /\ HistoryInv' /\ FinalInv'
        BY <1>1, <2>1 DEF indexVars, IndexIInv, Seen, TargetInv, RangeInv, LatestInv, HistoryInv, FinalInv,
           Branch, TailFollows, Follows
    <2> QED BY <2>2, <2>3 DEF IndexIInv
<1>2. CASE Extend \/ Reorganise \/ NoticeHead \/ Fail \/ Restart
    BY <1>2, ChainStep, NoticeStep, FailStep, RestartStep
<1>3. CASE Reorgs
    BY <1>3, CoolDownStep, BeginStep, ProbeStep, SplitStep, CheckpointStep, UpdateOldBlocksStep,
       PersistHistoryStep, UpdateLatestBlocksStep, PersistLatestStep DEF Reorgs
<1>4. CASE Final
    BY <1>4, BeginFinalStep, ConfirmStep, RangeEndStep, FetchRangeStep, VerifyRangeStep, PersistRangeStep DEF Final
<1> QED BY <1>1, <1>2, <1>3, <1>4 DEF IndexNext

-----------------------------------------------------------------------------
(* The store and the handled blocks                                        *)

(* What is written from a number on, over what was kept below it.          *)
LEMMA MirrorJoins ==
    ASSUME Store = "settlements", NEW old \in Blocks, NEW new \in Blocks, NEW first \in Nat, NEW last,
           first <= Len(old) + 1, first <= Len(new) + 1, Agree(new, old, first - 1),
           stored = EventsIn(old, 1, Len(old))
    PROVE  LET read == EventsIn(new, first, Len(new)) IN
           /\ (stored \ Deleted(first, last)) \cup read = EventsIn(new, 1, Len(new))
           /\ first = Len(old) + 1 => AppendEvents(read) = EventsIn(new, 1, Len(new))
<1> DEFINE before == first - 1
           read == EventsIn(new, first, Len(new))
           kept == stored \ Deleted(first, last)
<1>1. /\ 1 \in Int /\ first \in Int /\ before \in Int /\ Len(old) \in Int /\ Len(new) \in Int
      /\ before <= Len(old) /\ before <= Len(new) /\ before + 1 = first
      /\ \A n \in Int : (n < first => n <= before) /\ (n <= before => n < first)
    BY BlockFacts
<1>2. first = Len(old) + 1 => before = Len(old)
    BY <1>1
<1> HIDE DEF before
<1>3. \A e \in stored : e[1] \in Int
    <2>1. \A e \in EventsIn(old, 1, Len(old)) : e[1] \in 1..Len(old)
        BY <1>1, EventFacts
    <2> QED BY <2>1
<1>4. kept = EventsIn(old, 1, before)
    <2>1. ASSUME NEW e \in kept PROVE e \in EventsIn(old, 1, before)
        <3>1. e \in stored /\ ~ (e[1] >= first)
            BY <2>1 DEF Deleted
        <3>2. /\ e[1] \in 1..Len(old) /\ 1 <= e[1] /\ e = <<e[1], old[e[1]]>> /\ old[e[1]] \notin Quiet
            BY <1>1, <3>1, EventFacts
        <3>3. e[1] <= before
            BY <1>1, <1>3, <3>1
        <3> QED BY <1>1, <3>2, <3>3, IsEvent
    <2>2. ASSUME NEW e \in EventsIn(old, 1, before) PROVE e \in kept
        <3>1. first \in Nat /\ Len(old) \in Int /\ first <= Len(old) + 1
            BY <1>1
        <3>2. \A d \in EventsIn(old, 1, first - 1) : d[1] < first /\ d \in EventsIn(old, 1, Len(old))
            BY <3>1, EventsBelow
        <3>3. e[1] < first /\ e \in stored
            BY <2>2, <3>2 DEF before
        <3>4. e \notin Deleted(first, last)
            <4>1. ~ (e[1] >= first)
                BY <1>1, <1>3, <3>3
            <4> QED BY <4>1 DEF Deleted
        <3> QED BY <3>3, <3>4
    <2> QED BY <2>1, <2>2
<1>5. EventsIn(old, 1, before) = EventsIn(new, 1, before)
    <2>1. Agree(new, old, before)
        BY DEF before
    <2> QED BY <1>1, <2>1, SameEvents
<1>6. EventsIn(new, 1, Len(new)) = EventsIn(new, 1, before) \cup read
    BY <1>1, EventsJoin DEF before
<1>7. ASSUME first = Len(old) + 1 PROVE AppendEvents(read) = stored \cup read
    <2>1. ASSUME NEW e \in read, NEW s \in stored PROVE s[1] # e[1]
        <3>1. s[1] \in 1..Len(old) /\ s[1] <= Len(old) /\ s[1] \in Int
            BY <1>1, <1>3, <2>1, EventFacts
        <3>2. first <= e[1]
            BY <1>1, <2>1, EventFacts
        <3> QED BY <1>1, <1>7, <3>1, <3>2
    <2> QED BY <2>1 DEF AppendEvents
<1> QED BY <1>2, <1>4, <1>5, <1>6, <1>7

LEMMA UpdateOldMirror ==
    ASSUME Store = "settlements", IndexIInv, Mirror, UpdateOldBlocks
    PROVE  Mirror'
<1> DEFINE last == Len(task.checkpoint)
           read == EventsIn(canonical, task.first, last)
           blocks == <<task.checkpoint>>
<1>1. /\ task.at = "history" /\ stored' = (stored \ Deleted(task.first, last)) \cup read
      /\ handled' = Advance(blocks) /\ UNCHANGED <<node, fresh, persisted>>
    BY DEF UpdateOldBlocks, ReplaceEvents
<1>2. restarts' = restarts /\ final' = final
    BY <1>1 DEF node
<1> SUFFICES ASSUME restarts = 0, ~ final PROVE stored' = EventsIn(LastHandled', 1, Len(LastHandled'))
    BY <1>2 DEF Mirror
<1>3. /\ Seen(task.checkpoint) /\ Agree(task.checkpoint, canonical, last) /\ task.first <= last
      /\ task.first = Minus(Len(LastHandled), Depth)
    BY <1>1 DEF IndexIInv, HistoryInv
<1>4. /\ task.checkpoint \in Blocks /\ last \in Nat /\ canonical \in Blocks /\ last <= Len(canonical)
      /\ LastHandled \in Blocks /\ Seen(LastHandled) /\ Len(LastHandled) \in Nat /\ Depth \in Nat
    BY <1>3, IndexFacts, LastFacts, BlockFacts, IndexBounds DEF Seen, SeenOn
<1>5. LastHandled' = task.checkpoint
    <2>1. /\ blocks \in Seq(Blocks) /\ Len(blocks) = 1 /\ blocks[1] = task.checkpoint /\ blocks # <<>>
          /\ Last(blocks) = task.checkpoint /\ last = last + 1 - 1 /\ last <= last
        BY <1>4 DEF Last
    <2> HIDE DEF blocks
    <2>2. Branch(blocks, Len(blocks[1])) /\ Len(blocks[1]) \in Nat
        BY <1>3, <1>4, <2>1 DEF Branch, BranchOn, Seen, Ancestor, Agree
    <2>3. handled' # <<>> /\ Last(handled') = task.checkpoint
        BY <1>1, <2>1, <2>2, AdvanceFacts
    <2> QED BY <2>3 DEF LastHandled, Base
<1>6. /\ task.first \in Nat /\ task.first <= Len(LastHandled) + 1 /\ task.first <= last + 1
      /\ \A n \in 1..(task.first - 1) : n \in 1..Len(LastHandled) /\ n + Depth <= Len(LastHandled) /\ n \in 1..last
    BY <1>3, <1>4 DEF Minus
<1>7. Agree(task.checkpoint, LastHandled, task.first - 1)
    BY <1>3, <1>4, <1>6 DEF Agree, Seen, SeenOn
<1>8. read = EventsIn(task.checkpoint, task.first, last)
    <2>1. task.first \in Int /\ last \in Int /\ last <= Len(task.checkpoint)
        BY <1>4, <1>6
    <2> QED BY <1>3, <1>4, <2>1, SameEvents
<1>9. stored = EventsIn(LastHandled, 1, Len(LastHandled))
    BY DEF Mirror
<1>10. /\ task.first \in Nat /\ task.first <= Len(LastHandled) + 1 /\ task.first <= last + 1
       /\ LastHandled \in Blocks /\ task.checkpoint \in Blocks
    BY <1>4, <1>6
<1>11. (stored \ Deleted(task.first, last)) \cup EventsIn(task.checkpoint, task.first, last)
          = EventsIn(task.checkpoint, 1, last)
    BY <1>7, <1>9, <1>10, MirrorJoins
<1> QED BY <1>1, <1>5, <1>8, <1>11

LEMMA UpdateLatestMirror ==
    ASSUME Store = "settlements", IndexIInv, Mirror, UpdateLatestBlocks
    PROVE  Mirror'
<1>1. /\ task.at = "latest" /\ UNCHANGED <<node, fresh, persisted>>
    BY DEF UpdateLatestBlocks
<1>2. restarts' = restarts /\ final' = final
    BY <1>1 DEF node
<1> SUFFICES ASSUME restarts = 0, ~ final PROVE stored' = EventsIn(LastHandled', 1, Len(LastHandled'))
    BY <1>2 DEF Mirror
<1> DEFINE all == task.blocks
           first == Len(all[1])
<1>3. /\ Branch(all, first) /\ FollowsOn(all, task.replace, LastHandled, forks, restarts)
    BY <1>1 DEF IndexIInv, LatestInv, Follows
<1>4. first \in Nat /\ Len(all) \in Nat \ {0}
    <2>1. all \in Seq(Blocks) /\ all # <<>>
        BY <1>3 DEF Branch, BranchOn
    <2>2. Len(all) \in Nat \ {0}
        BY <2>1, EmptySeq
    <2>3. all[1] \in Blocks
        <3>1. 1 \in 1..Len(all)
            BY <2>2
        <3> QED BY <2>1, <3>1, ElementOfSeq
    <2> QED BY <2>2, <2>3, BlockFacts
<1>5. PICK k \in 1..Len(all) :
          LET blocks == SubSeq(all, 1, k)
              last == Len(blocks[k]) IN
          /\ stored' = IF task.replace THEN ReplaceEvents(EventsOf(blocks), Len(blocks[1]), last)
                       ELSE AppendEvents(EventsOf(blocks))
          /\ handled' = Advance(blocks)
    BY DEF UpdateLatestBlocks
<1> DEFINE blocks == SubSeq(all, 1, k)
           top == Last(blocks)
           last == Len(top)
           read == EventsIn(top, first, last)
<1> HIDE DEF all
<1>6. /\ Branch(blocks, first) /\ Len(blocks) = k /\ blocks[1] = all[1] /\ top = all[k]
    <2>1. 1 \in 1..Len(all) /\ k \in 1..Len(all) /\ first + 1 - 1 = first /\ k + 1 - 1 = k
        BY <1>4
    <2> QED BY <1>3, <1>4, <2>1, SubBranch
<1>7. EventsOf(blocks) = read /\ blocks[k] = top
    BY <1>4, <1>6, EventsOfBranch DEF Last
<1>8. /\ stored' = IF task.replace THEN (stored \ Deleted(first, last)) \cup read ELSE AppendEvents(read)
      /\ handled' = Advance(blocks)
    BY <1>5, <1>6, <1>7 DEF ReplaceEvents
<1> HIDE DEF blocks
<1>9. /\ top \in Blocks /\ last \in Nat /\ first <= last + 1 /\ LastHandled \in Blocks
      /\ blocks[1] \in Blocks /\ Ancestor(blocks[1], top) /\ Len(blocks[1]) = first
    <2>1. /\ Len(top) = first + Len(blocks) - 1 /\ Len(blocks) \in Nat \ {0} /\ top \in Blocks
          /\ Len(blocks[1]) = first /\ blocks[1] \in Blocks
        BY <1>4, <1>6, BranchFacts DEF Seen, SeenOn
    <2>2. Ancestor(blocks[1], top)
        <3>1. 1 \in 1..Len(blocks)
            BY <2>1
        <3> QED BY <1>4, <1>6, <3>1, BranchFacts
    <2>3. last \in Nat /\ first <= last + 1
        BY <1>4, <2>1
    <2> QED BY <2>1, <2>2, <2>3, LastFacts
<1>10. LastHandled' = top
    <2>1. handled' # <<>> /\ Last(handled') = top
        BY <1>4, <1>6, <1>8, <1>9, AdvanceFacts
    <2> QED BY <2>1 DEF LastHandled, Base
<1> HIDE DEF top
<1>11. /\ first <= Len(LastHandled) + 1 /\ Agree(all[1], LastHandled, first - 1)
       /\ task.replace \/ first = Len(LastHandled) + 1
    BY <1>3 DEF FollowsOn, first
<1> HIDE DEF first
<1>12. Agree(top, LastHandled, first - 1)
    <2>1. \A n \in 1..(first - 1) : n \in 1..first
        BY <1>4
    <2>2. \A n \in 1..(first - 1) : all[1][n] = top[n]
        BY <1>6, <1>9, <2>1 DEF Ancestor, Agree
    <2> QED BY <1>11, <2>2 DEF Agree
<1>13. stored = EventsIn(LastHandled, 1, Len(LastHandled))
    BY DEF Mirror
<1>14. /\ (stored \ Deleted(first, last)) \cup read = EventsIn(top, 1, Len(top))
       /\ first = Len(LastHandled) + 1 => AppendEvents(read) = EventsIn(top, 1, Len(top))
    BY <1>4, <1>9, <1>11, <1>12, <1>13, MirrorJoins
<1> QED BY <1>8, <1>10, <1>11, <1>14

LEMMA MirrorNext ==
    ASSUME Store = "settlements", IndexIInv, Mirror, [IndexNext]_indexVars
    PROVE  Mirror'
<1>1. ASSUME stored' = stored, final' = final, restarts' = restarts,
             restarts = 0 => LastHandled' = LastHandled
      PROVE  Mirror'
    BY <1>1 DEF Mirror
<1>2. CASE Extend \/ Reorganise
    <2>1. Onward /\ UNCHANGED rest
        BY <1>2, IndexFacts, Extended, Forked DEF IndexIInv, Extend, Reorganise, rest
    <2>2. restarts = 0 => handled # <<>> \/ persisted = 0
        BY DEF IndexIInv, HandledInv
    <2> QED BY <1>1, <2>1, <2>2, LastStays DEF rest
<1>3. CASE UNCHANGED <<canonical, final, stored, persisted, handled, restarts>>
    BY <1>1, <1>3 DEF LastHandled, Base, Block
<1>4. CASE NoticeHead \/ Fail \/ UNCHANGED indexVars
    BY <1>3, <1>4 DEF NoticeHead, Fail, node, indexVars
<1>5. CASE CoolDown \/ Begin \/ Probe \/ Split \/ Checkpoint \/ BeginFinal \/ Confirm \/ RangeEnd \/ FetchRange
    BY <1>3, <1>5 DEF CoolDown, Begin, Probe, Split, Checkpoint, BeginFinal, Confirm, RangeEnd, FetchRange, node
<1>6. CASE PersistHistory \/ PersistLatest
    <2>1. handled # <<>> /\ handled' = handled /\ stored' = stored /\ UNCHANGED node
        BY <1>6 DEF PersistHistory, PersistLatest, IndexIInv, HistoryInv
    <2> QED BY <1>1, <2>1 DEF LastHandled, Base, node
<1>7. CASE UpdateOldBlocks \/ UpdateLatestBlocks
    BY <1>7, UpdateOldMirror, UpdateLatestMirror
<1>8. CASE VerifyRange \/ PersistRange
    <2>1. final /\ final' = final
        BY <1>8 DEF VerifyRange, PersistRange, IndexIInv, IndexTypeOK, Task, idle, node
    <2> QED BY <2>1 DEF Mirror
<1>9. CASE Restart
    <2>1. restarts' # 0
        BY <1>9, IndexBounds DEF IndexIInv, IndexTypeOK, Restart
    <2> QED BY <2>1 DEF Mirror
<1> QED BY <1>2, <1>4, <1>5, <1>6, <1>7, <1>8, <1>9 DEF IndexNext, Reorgs, Final

(* IndexIInv holds in every state.                                         *)
LEMMA IndexInvariant == IndexSpec => []IndexIInv
<1>1. IndexInit => IndexIInv
    BY InitIndex
<1>2. IndexIInv /\ [IndexNext]_indexVars => IndexIInv'
    BY NextIndex
<1> QED BY <1>1, <1>2, PTL DEF IndexSpec

LEMMA CheckpointHolds == ASSUME IndexIInv PROVE IndexTypeOK /\ CheckpointIsStored
<1>1. IndexTypeOK
    BY DEF IndexIInv
<1>2. ASSUME forks = 0
      PROVE  EventsIn(canonical, 1, persisted) \subseteq stored /\ stored \subseteq EventsIn(canonical, 1, Len(canonical))
    <2>1. /\ persisted <= Len(LastHandled) /\ EventsIn(canonical, 1, Len(LastHandled)) \subseteq stored
          /\ stored \subseteq EventsIn(canonical, 1, Len(canonical)) /\ Len(LastHandled) \in Nat
          /\ persisted \in Nat /\ canonical \in Blocks
        BY <1>2, LastFacts, IndexFacts DEF IndexIInv, StoreInv
    <2> DEFINE next == persisted + 1
    <2>2. next \in Nat /\ next - 1 = persisted /\ Len(LastHandled) \in Int /\ next <= Len(LastHandled) + 1
        BY <2>1
    <2> HIDE DEF next
    <2>3. EventsIn(canonical, 1, next - 1) \subseteq EventsIn(canonical, 1, Len(LastHandled))
        <3>1. canonical \in Blocks
            BY <2>1
        <3> QED BY <2>2, <3>1, EventsJoin
    <2> QED BY <2>1, <2>2, <2>3
<1> QED BY <1>1, <1>2 DEF CheckpointIsStored

(* Whatever is stored and whatever fails: where no block was replaced, a   *)
(* stop between a write and its checkpoint loses nothing.                  *)
THEOREM CheckpointLosesNothing == IndexSpec => [](IndexTypeOK /\ CheckpointIsStored)
<1>1. IndexIInv => IndexTypeOK /\ CheckpointIsStored
    BY CheckpointHolds
<1> QED BY <1>1, IndexInvariant, PTL

(* The settlement store holds the events of the last handled block and its *)
(* ancestors, in whatever order the chain reorganises and reads fail.      *)
THEOREM StoreIsConsistent == ASSUME Store = "settlements" PROVE IndexSpec => []IndexInv
<1>1. IndexInit => Mirror
    <2> SUFFICES ASSUME IndexInit PROVE Mirror
        OBVIOUS
    <2>1. IndexIInv /\ stored = {} /\ handled = <<>> /\ persisted = 0
        BY InitIndex DEF IndexInit
    <2>2. Len(LastHandled) = 0 /\ LastHandled \in Blocks
        BY <2>1, LastFacts
    <2>3. ASSUME NEW e \in EventsIn(LastHandled, 1, 0) PROVE FALSE
        <3>1. 1 \in Int /\ 0 \in Int
            OBVIOUS
        <3> QED BY <2>2, <2>3, <3>1, EventFacts
    <2> QED BY <2>1, <2>2, <2>3 DEF Mirror
<1>2. IndexIInv /\ Mirror /\ [IndexNext]_indexVars => Mirror'
    BY MirrorNext
<1>3. IndexIInv /\ Mirror => IndexInv
    <2> SUFFICES ASSUME IndexIInv, Mirror PROVE IndexInv
        OBVIOUS
    <2>1. StoreFollowsHandled
        BY LastFacts DEF Mirror, StoreFollowsHandled
    <2> QED BY <2>1, CheckpointHolds DEF IndexInv
<1>4. IndexSpec => []IndexIInv
    BY IndexInvariant
<1> QED BY <1>1, <1>2, <1>3, <1>4, PTL DEF IndexSpec

-----------------------------------------------------------------------------
(* What is announced                                                       *)

Announced ==
    announced' > announced /\ restarts' = restarts
        => persisted' >= announced' /\ (handled' = <<>> \/ Len(Last(handled')) >= announced')

(* An update that finds nothing to write announces what the checkpoint     *)
(* says, and nothing is on its mind but the checkpoint.                    *)
LEMMA NothingNew ==
    ASSUME IndexIInv, UNCHANGED <<handled, persisted>>, NEW target, Finish(target), handled = <<>>,
           Len(target) = persisted
    PROVE  Announced
<1>1. announced' = announced \/ announced' = persisted
    BY DEF Finish
<1>2. announced \in Nat /\ persisted \in Nat
    BY IndexFacts DEF IndexIInv, IndexTypeOK
<1> QED BY <1>1, <1>2 DEF Announced

LEMMA AnnouncesStep == ASSUME IndexIInv, [IndexNext]_indexVars PROVE Announced
<1>1. announced \in Nat
    BY IndexFacts DEF IndexIInv, IndexTypeOK
<1>2. CASE announced' = announced
    BY <1>1, <1>2 DEF Announced
<1>3. CASE Restart
    <2>1. restarts' # restarts
        BY <1>3, IndexBounds DEF Restart, IndexIInv, IndexTypeOK
    <2> QED BY <2>1 DEF Announced
<1>4. ASSUME fresh, tip = Last(Base), Finish(tip), UNCHANGED <<handled, persisted>> PROVE Announced
    <2>1. handled = <<>>
        BY <1>4, LastFacts DEF IndexIInv, HandledInv, LastHandled
    <2>2. Len(tip) = persisted
        BY <1>4, <2>1, LastFacts DEF LastHandled
    <2> QED BY <1>4, <2>1, <2>2, NothingNew
<1>5. CASE Begin \/ BeginFinal
    <2>1. announced' = announced \/ (fresh /\ tip = Last(Base) /\ Finish(tip) /\ UNCHANGED <<handled, persisted>>)
        BY <1>5 DEF Begin, BeginFinal, Take, Go
    <2> QED BY <1>2, <1>4, <2>1
<1>6. CASE Probe
    <2> DEFINE last == Last(task.base)
               to == Len(task.target)
               new == BlocksIn(Len(last) + 1, AtMost(to, Len(last) + LatestMax))
    <2>1. /\ task.at = "probe" /\ UNCHANGED <<handled, persisted>>
          /\ \/ announced' = announced
             \/ to >= Len(last) /\ new = <<>> /\ Finish(task.target)
        BY <1>6 DEF Probe, Go
    <2>2. CASE to >= Len(last) /\ new = <<>> /\ Finish(task.target)
        <3>1. Len(last) = Len(LastHandled) /\ Len(LastHandled) \in Nat /\ to \in Nat /\ task # idle
            BY <2>1, RangeFacts, LastFacts, TargetFacts
        <3>2. to <= Len(last)
            <4> SUFFICES ASSUME Len(last) < to PROVE FALSE
                BY <3>1
            <4> DEFINE end == AtMost(to, Len(last) + LatestMax)
                       first == Len(last) + 1
            <4>1. to <= Len(canonical) /\ Len(canonical) \in Nat /\ LatestMax \in Nat \ {0} /\ Seen(canonical)
                BY <3>1, TargetFacts, IndexFacts, IndexBounds
            <4>2. first \in Nat /\ end \in Nat /\ first <= end /\ end <= Len(canonical)
                BY <3>1, <4>1 DEF AtMost
            <4>3. Branch(new, first)
                <5> HIDE DEF first, end
                <5> QED BY <4>1, <4>2, BlocksInBranch DEF first, end
            <4> QED BY <2>2, <4>3 DEF Branch, BranchOn
        <3>3. to = Len(LastHandled)
            BY <2>2, <3>1, <3>2
        <3>4. handled = <<>>
            BY <2>1, <3>1, <3>3 DEF IndexIInv, RangeInv
        <3>5. Len(task.target) = persisted
            BY <3>3, <3>4, LastFacts
        <3> QED BY <2>1, <2>2, <3>4, <3>5, NothingNew
    <2> QED BY <1>2, <2>1, <2>2
<1>7. CASE Split
    <2> DEFINE first == Minus(Len(Last(task.base)), Depth)
               to == Len(task.target)
               tail == BlocksIn(first, to)
               path == DetectReorgPath(task.base, tail)
    <2>1. /\ task.at = "split" /\ UNCHANGED <<handled, persisted>> /\ to >= first
          /\ announced' = announced \/ (path.blocks = <<>> /\ Finish(task.target))
        BY <1>7 DEF Split, Go
    <2>2. CASE path.blocks = <<>> /\ Finish(task.target)
        <3>1. /\ task # idle /\ Len(task.base) \in Nat \ {0} /\ Len(Last(task.base)) = Len(LastHandled)
              /\ \A i \in 1..Len(task.base) : Len(task.base[i]) <= Len(LastHandled)
              /\ Len(LastHandled) <= to /\ Len(LastHandled) \in Nat
            BY <2>1, RangeFacts, LastFacts
        <3>2. first \in Nat /\ to \in Nat /\ first <= to /\ to <= Len(canonical) /\ Seen(canonical)
            BY <2>1, <3>1, TargetFacts, IndexFacts, IndexBounds DEF Minus
        <3> HIDE DEF first
        <3>3. Branch(tail, first) /\ Len(Last(tail)) = to /\ tail \in Seq(Blocks) /\ tail # <<>>
            BY <3>2, BlocksInBranch DEF Branch, BranchOn
        <3> HIDE DEF tail, to
        <3>4. ~ \E j \in 1..(Len(tail) - 1) : path.blocks = SubSeq(tail, j + 1, Len(tail))
            <4> SUFFICES ASSUME NEW j \in 1..(Len(tail) - 1), path.blocks = SubSeq(tail, j + 1, Len(tail))
                         PROVE  FALSE
                OBVIOUS
            <4> DEFINE from == j + 1
            <4>1. from \in 1..Len(tail) /\ Len(tail) \in from..Len(tail)
                BY <3>3
            <4> HIDE DEF from
            <4>2. Branch(SubSeq(tail, from, Len(tail)), first + from - 1)
                BY <3>2, <3>3, <4>1, SubBranch
            <4> QED BY <2>2, <4>2 DEF Branch, BranchOn, from
        <3>5. \E i \in 1..Len(task.base) : task.base[i] = Last(tail)
            BY <2>2, <3>1, <3>3, <3>4, ReorgPath
        <3>6. to <= Len(LastHandled)
            BY <3>1, <3>3, <3>5
        <3>7. to = Len(LastHandled)
            BY <3>1, <3>2, <3>6
        <3>8. handled = <<>>
            BY <2>1, <3>1, <3>7 DEF IndexIInv, RangeInv, to
        <3>9. Len(task.target) = persisted
            BY <3>7, <3>8, LastFacts DEF to
        <3> QED BY <2>1, <2>2, <3>8, <3>9, NothingNew
    <2> QED BY <1>2, <2>1, <2>2
<1>8. CASE PersistLatest
    <2>1. /\ task.at = "persistLatest" /\ persisted' = task.last /\ UNCHANGED handled
          /\ announced' = announced \/ (task.last >= Len(task.target) /\ announced' = Len(task.target))
        BY <1>8 DEF PersistLatest, Go, Finish, UpToDate
    <2>2. handled # <<>> /\ task.last \in Nat /\ Len(Last(handled)) = task.last /\ task # idle
        <3>1. handled # <<>> /\ task.last \in Nat /\ Len(LastHandled) = task.last
            BY <2>1 DEF IndexIInv, HistoryInv
        <3> QED BY <2>1, <3>1, LastFacts DEF idle
    <2>3. Len(task.target) \in Nat
        BY <2>2, TargetFacts
    <2>4. announced' = announced \/ (persisted' >= announced' /\ Len(Last(handled')) >= announced')
        BY <2>1, <2>2, <2>3
    <2> QED BY <1>2, <2>4 DEF Announced
<1>9. CASE PersistRange
    <2>1. /\ task.at = "persistRange" /\ persisted' = Len(task.checkpoint) /\ handled' = <<task.checkpoint>>
          /\ announced' = announced \/ (Len(task.checkpoint) = Len(task.target) /\ announced' = Len(task.target))
        BY <1>9 DEF PersistRange, Go, Finish
    <2>2. Last(handled') = task.checkpoint /\ task # idle
        BY <2>1 DEF Last, idle
    <2>3. Len(task.target) \in Nat
        BY <2>2, TargetFacts
    <2>4. announced' = announced \/ (persisted' >= announced' /\ Len(Last(handled')) >= announced')
        BY <2>1, <2>2, <2>3
    <2> QED BY <1>2, <2>4 DEF Announced
<1>10. CASE \/ Extend \/ Reorganise \/ NoticeHead \/ CoolDown \/ Checkpoint \/ UpdateOldBlocks \/ PersistHistory
            \/ UpdateLatestBlocks \/ Confirm \/ RangeEnd \/ FetchRange \/ VerifyRange \/ Fail \/ UNCHANGED indexVars
    <2>1. announced' = announced
        BY <1>10 DEF Extend, Reorganise, NoticeHead, CoolDown, Checkpoint, UpdateOldBlocks, PersistHistory,
           UpdateLatestBlocks, Confirm, RangeEnd, FetchRange, VerifyRange, Fail, Go, indexVars
    <2> QED BY <1>2, <2>1
<1> QED BY <1>3, <1>5, <1>6, <1>7, <1>8, <1>9, <1>10 DEF IndexNext, Reorgs, Final

(* A block is announced only after the indexer handled it or a later one   *)
(* and moved the checkpoint there.                                         *)
THEOREM AnnouncedIsHandled == IndexSpec => AnnouncesHandled
<1>1. IndexIInv /\ [IndexNext]_indexVars => [Announced]_indexVars
    BY AnnouncesStep
<1>2. IndexSpec => [][Announced]_indexVars
    BY <1>1, IndexInvariant, PTL DEF IndexSpec
<1>3. AnnouncesHandled <=> [][Announced]_indexVars
    BY PTL DEF AnnouncesHandled, Announced
<1> QED BY <1>2, <1>3

-----------------------------------------------------------------------------
(* The selection of winners *)

LEMMA SelectionFacts ==
    /\ IsFiniteSet(Solver) /\ IsFiniteSet(Pair)
    /\ {NoScore, Invalid} \cap Int = {} /\ NoScore # Invalid
    /\ max_winners \in Nat \ {0} /\ PairScore \subseteq Nat \cup {NoScore, Invalid}
BY SelectionAssumption

-----------------------------------------------------------------------------
(* Sorting                                                                 *)

Precedes(key, i, j) == key[i] > key[j] \/ (key[i] = key[j] /\ i < j)

(* A place for each of them, in this order.                                *)
Places(S, key, place) ==
    /\ place \in [S -> 1..Cardinality(S)]
    /\ \A i, j \in S : Precedes(key, i, j) => place[i] < place[j]
    /\ \A i, j \in S : place[i] = place[j] => i = j
    /\ \A n \in 1..Cardinality(S) : \E i \in S : place[i] = n

(* Each index comes after those that precede it, so their number is its    *)
(* place, and the places of different indices differ.                      *)
LEMMA PlacesDiffer ==
    ASSUME NEW S, S \subseteq Nat, IsFiniteSet(S), NEW key, \A i \in S : key[i] \in Int
    PROVE  \E place : Places(S, key, place)
<1> DEFINE size == Cardinality(S)
           earlier(i) == {j \in S : Precedes(key, j, i)}
           place == [i \in S |-> 1 + Cardinality(earlier(i))]
<1>1. size \in Nat
    BY FS_CardinalityType
<1>2. ASSUME NEW i \in S
      PROVE  IsFiniteSet(earlier(i)) /\ Cardinality(earlier(i)) \in 0..size - 1
    <2>1. earlier(i) \in SUBSET (S \ {i})
        BY DEF Precedes
    <2>2. IsFiniteSet(S \ {i}) /\ Cardinality(S \ {i}) = size - 1
        BY FS_RemoveElement
    <2>3. IsFiniteSet(earlier(i)) /\ Cardinality(earlier(i)) <= Cardinality(S \ {i})
        BY <2>1, <2>2, FS_Subset
    <2>4. Cardinality(earlier(i)) \in Nat
        BY <2>3, FS_CardinalityType
    <2> HIDE DEF size, earlier
    <2> QED BY <1>1, <2>2, <2>3, <2>4
<1>3. ASSUME NEW i \in S, NEW j \in S, Precedes(key, i, j)
      PROVE  Cardinality(earlier(i)) < Cardinality(earlier(j))
    <2>1. \A k \in S : Precedes(key, k, i) => Precedes(key, k, j)
        BY <1>3 DEF Precedes
    <2>2. i \in earlier(j) /\ earlier(i) \in SUBSET (earlier(j) \ {i})
        <3>1. ~ Precedes(key, i, i)
            BY DEF Precedes
        <3> QED BY <1>3, <2>1, <3>1
    <2>3. IsFiniteSet(earlier(j) \ {i}) /\ Cardinality(earlier(j) \ {i}) = Cardinality(earlier(j)) - 1
        BY <1>2, <2>2, FS_RemoveElement
    <2>4. Cardinality(earlier(i)) <= Cardinality(earlier(j) \ {i})
        BY <2>2, <2>3, FS_Subset
    <2>5. Cardinality(earlier(i)) \in Nat /\ Cardinality(earlier(j)) \in Nat
        BY <1>2
    <2> HIDE DEF earlier
    <2> QED BY <2>3, <2>4, <2>5
<1> HIDE DEF earlier, size
<1>4. place \in [S -> 1..size] /\ \A i \in S : place[i] = 1 + Cardinality(earlier(i))
    BY <1>1, <1>2
<1>5. \A i, j \in S : Precedes(key, i, j) => place[i] < place[j]
    BY <1>2, <1>3, <1>4
<1> HIDE DEF place
<1>6. \A i, j \in S : i = j \/ Precedes(key, i, j) \/ Precedes(key, j, i)
    BY DEF Precedes
<1>7. \A i, j \in S : place[i] = place[j] => i = j
    BY <1>4, <1>5, <1>6
<1>8. place \in Injection(S, 1..size)
    BY <1>4, <1>7 DEF Injection, IsInjective
<1>9. IsFiniteSet(1..size) /\ Cardinality(1..size) = size
    BY <1>1, FS_Interval
<1>10. place \in Surjection(S, 1..size)
    BY <1>8, <1>9, FS_Injection DEF size
<1>11. \A n \in 1..size : \E i \in S : place[i] = n
    BY <1>10 DEF Surjection
<1>12. Places(S, key, place)
    BY <1>4, <1>5, <1>7, <1>11 DEF size, Places
<1> QED BY <1>12

(* Sorting lists each index once, in order.                                *)
LEMMA SortIsListing ==
    ASSUME NEW S, S \subseteq Nat, IsFiniteSet(S), NEW key, \A i \in S : key[i] \in Int
    PROVE  /\ Cardinality(S) \in Nat
           /\ SortByKey(S, key) \in [1..Cardinality(S) -> S]
           /\ \A m, n \in 1..Cardinality(S) :
                 m < n => Precedes(key, SortByKey(S, key)[m], SortByKey(S, key)[n])
           /\ \A m, n \in 1..Cardinality(S) : SortByKey(S, key)[m] = SortByKey(S, key)[n] => m = n
           /\ \A i \in S : \E n \in 1..Cardinality(S) : SortByKey(S, key)[n] = i
<1> DEFINE size == Cardinality(S)
           Sorts(f) == \A m, n \in 1..size : m < n => Precedes(key, f[m], f[n])
           sorted == CHOOSE f \in [1..size -> S] : Sorts(f)
<1>1. size \in Nat
    BY FS_CardinalityType
<1>2. PICK place : Places(S, key, place)
    BY PlacesDiffer
<1>3. /\ place \in [S -> 1..size]
      /\ \A i, j \in S : Precedes(key, i, j) => place[i] < place[j]
      /\ \A i, j \in S : place[i] = place[j] => i = j
      /\ \A n \in 1..size : \E i \in S : place[i] = n
    BY <1>2 DEF Places, size
<1> DEFINE f == [n \in 1..size |-> CHOOSE i \in S : place[i] = n]
<1> HIDE DEF size
<1>4. f \in [1..size -> S] /\ \A n \in 1..size : place[f[n]] = n
    BY <1>3
<1> HIDE DEF f
<1>5. \A i, j \in S : i = j \/ Precedes(key, i, j) \/ Precedes(key, j, i)
    BY DEF Precedes
<1>6. ASSUME NEW m \in 1..size, NEW n \in 1..size, m < n PROVE Precedes(key, f[m], f[n])
    <2>1. f[m] \in S /\ f[n] \in S /\ place[f[m]] = m /\ place[f[n]] = n
        BY <1>4
    <2>2. ~ (n < m) /\ m # n
        BY <1>1, <1>6
    <2>3. f[m] # f[n]
        BY <2>1, <2>2
    <2>4. Precedes(key, f[n], f[m]) => place[f[n]] < place[f[m]]
        BY <1>3, <2>1
    <2> QED BY <1>5, <2>1, <2>2, <2>3, <2>4
<1>7. Sorts(f)
    BY <1>6
<1> HIDE DEF Sorts
<1>8. sorted \in [1..size -> S] /\ Sorts(sorted)
    BY <1>4, <1>7
<1>9. SortByKey(S, key) = sorted
    BY DEF SortByKey, sorted, Sorts, Precedes, size
<1> HIDE DEF sorted
<1>10. \A m, n \in 1..size : m < n => Precedes(key, sorted[m], sorted[n])
    BY <1>8 DEF Sorts
<1>11. \A i \in S : ~ Precedes(key, i, i)
    BY DEF Precedes
<1>12. ASSUME NEW m \in 1..size, NEW n \in 1..size, sorted[m] = sorted[n] PROVE m = n
    <2>1. sorted[m] \in S /\ ~ (m < n) /\ ~ (n < m)
        BY <1>8, <1>10, <1>11, <1>12
    <2> QED BY <1>1, <2>1
<1>13. sorted \in Injection(1..size, S)
    BY <1>8, <1>12 DEF Injection, IsInjective
<1>14. Cardinality(1..size) = size
    BY <1>1, FS_Interval
<1>15. sorted \in Surjection(1..size, S)
    BY <1>13, <1>14, FS_Injection DEF size
<1>16. \A i \in S : \E n \in 1..size : sorted[n] = i
    BY <1>15 DEF Surjection
<1> QED BY <1>1, <1>8, <1>9, <1>10, <1>12, <1>16 DEF size

-----------------------------------------------------------------------------
(* Winners                                                                 *)

(* No pair is the same in both, once the native token is its wrapper.      *)
DisjointOn(s, t, w) == {w[p] : p \in DOMAIN s.trades} \cap {w[p] : p \in DOMAIN t.trades} = {}
Disjoint(s, t) == DisjointOn(s, t, wrapped)

(* What is picked of the first n, one by one.                              *)
Picks(seq, n, won) ==
    /\ won \in SUBSET (1..n)
    /\ \A i \in 1..n : i \in won <=> /\ Cardinality({j \in won : j < i}) < max_winners
                                     /\ \A j \in {k \in won : k < i} : Disjoint(seq[i], seq[j])

(* The next is picked or not, and leaves what was picked before as it is.  *)
LEMMA PicksOneMore ==
    ASSUME NEW seq, NEW n \in Nat, NEW won, Picks(seq, n, won)
    PROVE  \E more : Picks(seq, n + 1, more)
<1> DEFINE last == n + 1
           Takes == Cardinality(won) < max_winners /\ \A j \in won : Disjoint(seq[last], seq[j])
           more == IF Takes THEN won \cup {last} ELSE won
<1>1. won \in SUBSET (1..n) /\ more \in SUBSET (1..last)
    BY DEF Picks
<1>2. {j \in won : j < last} = won /\ {j \in more : j < last} = won
    <2>1. \A j \in won : j < last
        BY <1>1
    <2>2. ~ (last < last)
        OBVIOUS
    <2>3. more = won \/ more = won \cup {last}
        OBVIOUS
    <2> HIDE DEF last, more
    <2> QED BY <2>1, <2>2, <2>3
<1>3. last \in more <=> Takes
    BY <1>1
<1>4. \A i \in 1..n : i \in more <=> i \in won
    OBVIOUS
<1>5. \A i \in 1..n : {j \in more : j < i} = {j \in won : j < i}
    BY <1>1
<1>6. 1..last = 1..n \cup {last}
    OBVIOUS
<1>7. ASSUME NEW i \in 1..last
      PROVE  i \in more <=> /\ Cardinality({j \in more : j < i}) < max_winners
                            /\ \A j \in {k \in more : k < i} : Disjoint(seq[i], seq[j])
    <2>1. CASE i = last
        BY <1>2, <1>3, <2>1
    <2>2. CASE i \in 1..n
        <3> HIDE DEF more
        <3> QED BY <1>4, <1>5, <2>2 DEF Picks
    <2> QED BY <1>6, <2>1, <2>2
<1> HIDE DEF more
<1>8. Picks(seq, last, more)
    BY <1>1, <1>7 DEF Picks
<1> QED BY <1>8

(* There is something to pick of every beginning: a shortest one without   *)
(* would be one longer than one with it.                                   *)
LEMMA PicksExist ==
    ASSUME NEW seq, NEW n \in Nat
    PROVE  \E won : Picks(seq, n, won)
<1> DEFINE bad == {m \in Nat : ~ \E won : Picks(seq, m, won)}
<1>1. SUFFICES ASSUME bad # {} PROVE FALSE
    OBVIOUS
<1>2. PICK m \in bad : \A k \in bad : ~ (<<k, m>> \in OpToRel(<, Nat))
    BY <1>1, WFMin, NatLessThanWellFounded
<1>3. \A k \in Nat : k < m => k \notin bad
    BY <1>2 DEF OpToRel
<1>4. CASE m = 0
    <2>1. Picks(seq, 0, {})
        BY DEF Picks
    <2> QED BY <1>2, <1>4, <2>1
<1>5. CASE m # 0
    <2>1. m - 1 \in Nat /\ m - 1 < m /\ (m - 1) + 1 = m
        <3>1. m \in Nat
            BY <1>2
        <3> QED BY <1>5, <3>1
    <2>2. PICK won : Picks(seq, m - 1, won)
        BY <1>3, <2>1
    <2>3. \E more : Picks(seq, (m - 1) + 1, more)
        BY <2>1, <2>2, PicksOneMore
    <2> QED BY <1>2, <2>1, <2>3
<1> QED BY <1>4, <1>5

(* The winners of a sequence: no more than allowed, with disjoint pairs,   *)
(* and each other one shares a pair with an earlier winner or comes after  *)
(* as many winners as there may be.                                        *)
Selected(seq, n, won) ==
    /\ won \in SUBSET (1..n) /\ IsFiniteSet(won) /\ Cardinality(won) <= max_winners
    /\ \A i, j \in won : i # j => Disjoint(seq[i], seq[j])
    /\ \A i \in 1..n \ won : \/ Cardinality(won) = max_winners /\ \A j \in won : j < i
                             \/ \E j \in won : j < i /\ ~ Disjoint(seq[i], seq[j])

LEMMA PicksSelect ==
    ASSUME NEW seq, NEW n \in Nat, NEW won, Picks(seq, n, won)
    PROVE  Selected(seq, n, won)
<1>1. won \in SUBSET (1..n) /\ won \subseteq Nat /\ max_winners \in Nat
    BY SelectionFacts DEF Picks
<1>2. IsFiniteSet(won) /\ Cardinality(won) \in Nat
    <2>1. IsFiniteSet(1..n)
        BY FS_Interval
    <2>2. IsFiniteSet(won)
        BY <1>1, <2>1, FS_Subset
    <2> QED BY <2>2, FS_CardinalityType
<1>3. Cardinality(won) <= max_winners
    <2>1. CASE won = {}
        BY <1>1, <2>1, FS_EmptySet
    <2>2. CASE won # {}
        <3>1. PICK last \in won : \A j \in won : j <= last
            BY <1>1, <1>2, <2>2, FiniteMax
        <3>2. {j \in won : j < last} = won \ {last}
            <4>1. \A j \in won : j < last <=> j # last
                BY <1>1, <3>1
            <4> QED BY <4>1
        <3>3. Cardinality(won \ {last}) < max_winners
            BY <1>1, <3>1, <3>2 DEF Picks
        <3>4. Cardinality(won \ {last}) = Cardinality(won) - 1
            BY <1>2, <3>1, FS_RemoveElement
        <3> QED BY <1>1, <1>2, <3>3, <3>4
    <2> QED BY <2>1, <2>2
<1>4. ASSUME NEW i \in won, NEW j \in won, i # j PROVE Disjoint(seq[i], seq[j])
    <2>1. i < j \/ j < i
        BY <1>1, <1>4
    <2>2. \A a, b \in won : b < a => Disjoint(seq[a], seq[b])
        BY <1>1 DEF Picks
    <2> QED BY <2>1, <2>2 DEF Disjoint, DisjointOn, Pairs
<1>5. ASSUME NEW i \in 1..n \ won, ~ \E j \in won : j < i /\ ~ Disjoint(seq[i], seq[j])
      PROVE  Cardinality(won) = max_winners /\ \A j \in won : j < i
    <2> DEFINE before == {j \in won : j < i}
    <2>1. ~ (Cardinality(before) < max_winners)
        BY <1>5 DEF Picks
    <2>2. before \in SUBSET won
        OBVIOUS
    <2> HIDE DEF before
    <2>3. /\ IsFiniteSet(before) /\ Cardinality(before) <= Cardinality(won)
          /\ Cardinality(won) = Cardinality(before) => won = before
        BY <1>2, <2>2, FS_Subset
    <2>4. Cardinality(before) \in Nat
        BY <2>3, FS_CardinalityType
    <2>5. Cardinality(won) = max_winners /\ won = before
        BY <1>1, <1>2, <1>3, <2>1, <2>3, <2>4
    <2> QED BY <2>5 DEF before
<1> QED BY <1>1, <1>2, <1>3, <1>4, <1>5 DEF Selected

LEMMA WinnersAreSelected ==
    ASSUME NEW seq, NEW n \in Nat, DOMAIN seq = 1..n
    PROVE  Selected(seq, n, PickWinners(seq))
<1>1. PICK won : Picks(seq, n, won)
    BY PicksExist
<1> DEFINE P(w) == \A i \in 1..n : i \in w <=> /\ Cardinality({j \in w : j < i}) < max_winners
                                               /\ \A j \in {k \in w : k < i} :
                                                     Pairs(seq[i]) \cap Pairs(seq[j]) = {}
           chosen == CHOOSE w \in SUBSET (1..n) : P(w)
<1>2. won \in SUBSET (1..n) /\ P(won)
    BY <1>1 DEF Picks, Disjoint, DisjointOn, Pairs
<1>3. PickWinners(seq) = chosen
    BY DEF PickWinners
<1> HIDE DEF P
<1>4. chosen \in SUBSET (1..n) /\ P(chosen)
    BY <1>2
<1> HIDE DEF chosen
<1>5. Picks(seq, n, chosen)
    BY <1>4 DEF Picks, Disjoint, DisjointOn, Pairs, P
<1> QED BY <1>3, <1>5, PicksSelect

-----------------------------------------------------------------------------
(* Scores and baselines                                                    *)

LEMMA ScoreIsNat ==
    ASSUME NEW s \in Solution, IsScored(s)
    PROVE  /\ IsFiniteSet(DOMAIN Scores(s))
           /\ \A p \in DOMAIN Scores(s) : Scores(s)[p] \in Nat
           /\ Score(s) \in Nat
<1>1. PICK P \in SUBSET Pair : s.trades \in [P -> PairScore]
    BY DEF Solution, Trades
<1> DEFINE D == {p \in P : s.trades[p] # NoScore}
<1>2. DOMAIN Scores(s) = D /\ \A p \in D : Scores(s)[p] = s.trades[p]
    BY <1>1 DEF Scores, Restrict
<1>3. IsFiniteSet(D)
    BY SelectionFacts, FS_Subset
<1>4. \A p \in D : s.trades[p] \in Nat
    <2> SUFFICES ASSUME NEW p \in D PROVE s.trades[p] \in Nat
        OBVIOUS
    <2>1. p \in DOMAIN s.trades /\ s.trades[p] \in PairScore /\ s.trades[p] # NoScore
        BY <1>1
    <2>2. s.trades[p] # Invalid
        BY <2>1 DEF IsScored
    <2> HIDE DEF D
    <2> QED BY <2>1, <2>2, SelectionFacts
<1> HIDE DEF D
<1>5. /\ IsFiniteSet(DOMAIN Scores(s))
      /\ \A p \in DOMAIN Scores(s) : Scores(s)[p] \in Nat
    BY <1>2, <1>3, <1>4
<1> QED BY <1>5, SumIsNat DEF Score

ScoredIn(all) == all \subseteq Solution /\ IsFiniteSet(all) /\ \A s \in all : IsScored(s)
Alone(s, p) == DOMAIN Scores(s) = {p}

(* The best a solver reaches on a pair alone.                              *)
LEMMA BestIsBest ==
    ASSUME NEW all, ScoredIn(all), NEW p, NEW solver
    PROVE  /\ BestAlone(all, p, solver) \in Nat
           /\ \A t \in all : t.solver = solver /\ Alone(t, p) => Scores(t)[p] <= BestAlone(all, p, solver)
           /\ BestAlone(all, p, solver) > 0 =>
                 \E t \in all : /\ t.solver = solver /\ Alone(t, p)
                                /\ Scores(t)[p] = BestAlone(all, p, solver)
<1> DEFINE its == {t \in all : t.solver = solver /\ DOMAIN Scores(t) = {p}}
           f == [t \in its |-> Scores(t)[p]]
           best == {0} \cup {f[t] : t \in its}
<1>1. IsFiniteSet(its)
    BY FS_Subset DEF ScoredIn
<1>2. \A t \in its : f[t] = Scores(t)[p] /\ f[t] \in Nat
    <2> SUFFICES ASSUME NEW t \in its PROVE Scores(t)[p] \in Nat
        OBVIOUS
    <2>1. t \in Solution /\ IsScored(t) /\ p \in DOMAIN Scores(t)
        BY DEF ScoredIn
    <2> QED BY <2>1, ScoreIsNat
<1>3. best = {0} \cup {Scores(t)[p] : t \in {u \in all : u.solver = solver /\ DOMAIN Scores(u) = {p}}}
    BY <1>2
<1>4. BestAlone(all, p, solver) = Max(best)
    BY <1>3 DEF BestAlone
<1> HIDE DEF f
<1>5. IsFiniteSet({f[t] : t \in its})
    BY <1>1, FiniteImage
<1>6. IsFiniteSet(best)
    BY <1>5, FS_Singleton, FS_Union
<1>7. best \subseteq Nat /\ best # {}
    <2> HIDE DEF its
    <2>1. {f[t] : t \in its} \subseteq Nat
        BY <1>2
    <2> QED BY <2>1
<1>8. \A t \in its : f[t] \in best
    OBVIOUS
<1>9. \A x \in best : x > 0 => \E t \in its : f[t] = x
    OBVIOUS
<1> HIDE DEF best
<1>10. Max(best) \in best /\ \A x \in best : Max(best) >= x
    BY <1>6, <1>7, FiniteMax
<1> DEFINE b == Max(best)
<1> HIDE DEF b
<1>11. b \in best /\ b \in Nat /\ \A x \in best : b >= x /\ x \in Nat
    BY <1>7, <1>10 DEF b
<1>12. \A x, y \in Nat : x >= y => y <= x
    OBVIOUS
<1>13. \A t \in its : Scores(t)[p] <= b
    BY <1>2, <1>8, <1>11, <1>12
<1>14. b > 0 => \E t \in its : Scores(t)[p] = b
    BY <1>2, <1>9, <1>11
<1> QED BY <1>4, <1>11, <1>13, <1>14 DEF b, Alone

LEMMA TwoOf ==
    ASSUME NEW S, IsFiniteSet(S)
    PROVE  /\ Cardinality(S) >= 2 <=> \E a, b \in S : a # b
           /\ Cardinality(S) = 2 <=> \E a, b \in S : a # b /\ S = {a, b}
<1>1. Cardinality(S) \in Nat
    BY FS_CardinalityType
<1>2. \A a, b : a # b => IsFiniteSet({a, b}) /\ Cardinality({a, b}) = 2
    <2> SUFFICES ASSUME NEW a, NEW b, a # b PROVE IsFiniteSet({a, b}) /\ Cardinality({a, b}) = 2
        OBVIOUS
    <2>1. {a, b} = {a} \cup {b} /\ b \notin {a}
        OBVIOUS
    <2>2. IsFiniteSet({a}) /\ Cardinality({a}) = 1
        BY FS_Singleton
    <2> QED BY <2>1, <2>2, FS_AddElement
<1>3. ASSUME NEW a \in S, NEW b \in S, a # b PROVE Cardinality(S) >= 2
    <2>1. Cardinality({a, b}) <= Cardinality(S)
        BY FS_Subset
    <2> QED BY <1>1, <1>2, <1>3, <2>1
<1>4. ASSUME Cardinality(S) >= 2 PROVE \E a, b \in S : a # b /\ (Cardinality(S) = 2 => S = {a, b})
    <2>1. PICK a \in S : TRUE
        BY <1>1, <1>4, FS_EmptySet
    <2>2. IsFiniteSet(S \ {a}) /\ Cardinality(S \ {a}) = Cardinality(S) - 1
        BY FS_RemoveElement
    <2>3. Cardinality(S \ {a}) # 0
        BY <1>1, <1>4, <2>2
    <2>4. PICK b \in S \ {a} : TRUE
        BY <2>2, <2>3, FS_EmptySet
    <2>5. ASSUME Cardinality(S) = 2 PROVE S = {a, b}
        <3>1. Cardinality(S \ {a}) = 1
            BY <2>2, <2>5
        <3>2. PICK x : S \ {a} = {x}
            BY <2>2, <3>1, FS_Singleton
        <3> QED BY <2>4, <3>2
    <2> QED BY <2>4, <2>5
<1>5. Cardinality(S) = 2 => Cardinality(S) >= 2
    BY <1>1
<1> QED BY <1>2, <1>3, <1>4, <1>5

Exceeds(t, p, v) == Alone(t, p) /\ Scores(t)[p] > v

(* A score is below the baseline exactly when two solvers each have a      *)
(* better one for the pair alone.                                          *)
LEMMA BaselineIsSecond ==
    ASSUME NEW all, ScoredIn(all), NEW p
    PROVE  /\ Baseline(all, p) \in Int
           /\ \A v \in Nat : v < Baseline(all, p) <=>
                 \E t, u \in all : Exceeds(t, p, v) /\ Exceeds(u, p, v) /\ t.solver # u.solver
<1> DEFINE best(solver) == BestAlone(all, p, solver)
           scoring == {solver \in Solver : best(solver) > 0}
           f == [two \in SUBSET scoring |-> Min({best(solver) : solver \in two})]
           seconds == {f[two] : two \in kSubset(2, scoring)}
<1>1. /\ \A solver : best(solver) \in Nat
      /\ \A t \in all : \A solver : t.solver = solver /\ Alone(t, p) => Scores(t)[p] <= best(solver)
      /\ \A solver : best(solver) > 0 =>
             \E t \in all : t.solver = solver /\ Alone(t, p) /\ Scores(t)[p] = best(solver)
    BY BestIsBest
<1>2. \A t \in all : t.solver \in Solver /\ (Alone(t, p) => Scores(t)[p] \in Nat)
    <2> SUFFICES ASSUME NEW t \in all PROVE t.solver \in Solver /\ (Alone(t, p) => Scores(t)[p] \in Nat)
        OBVIOUS
    <2>1. t \in Solution /\ IsScored(t)
        BY DEF ScoredIn
    <2>2. \A q \in DOMAIN Scores(t) : Scores(t)[q] \in Nat
        BY <2>1, ScoreIsNat
    <2> QED BY <2>1, <2>2 DEF Solution, Alone
<1>3. Baseline(all, p) = IF Cardinality(scoring) < 2 THEN -1
                         ELSE Max({Min({best(solver) : solver \in two}) : two \in kSubset(2, scoring)})
    BY DEF Baseline
<1> HIDE DEF best
<1>4. IsFiniteSet(scoring) /\ Cardinality(scoring) \in Nat
    BY SelectionFacts, FS_Subset, FS_CardinalityType
<1>5. \A two \in kSubset(2, scoring) : /\ two \in SUBSET scoring
                                     /\ f[two] = Min({best(solver) : solver \in two})
    BY DEF kSubset
<1>6. seconds = {Min({best(solver) : solver \in two}) : two \in kSubset(2, scoring)}
    BY <1>5
<1> HIDE DEF f
<1>7. ASSUME NEW a \in scoring, NEW b \in scoring, a # b
      PROVE  /\ {a, b} \in kSubset(2, scoring) /\ f[{a, b}] \in {best(a), best(b)}
             /\ f[{a, b}] <= best(a) /\ f[{a, b}] <= best(b)
    <2>1. IsFiniteSet({a, b})
        BY <1>4, FS_Subset
    <2>2. Cardinality({a, b}) = 2
        BY <1>7, <2>1, TwoOf
    <2>3. {a, b} \in kSubset(2, scoring)
        BY <2>2 DEF kSubset
    <2>4. {best(solver) : solver \in {a, b}} = {best(a), best(b)}
        OBVIOUS
    <2> DEFINE pair == {best(a), best(b)}
    <2>5. f[{a, b}] = Min(pair)
        BY <1>5, <2>3, <2>4
    <2>6. pair \subseteq Nat /\ pair # {} /\ best(a) \in pair /\ best(b) \in pair
        BY <1>1
    <2> HIDE DEF pair
    <2>7. Min(pair) \in pair /\ \A x \in pair : Min(pair) <= x
        BY <2>6, MinIsIn
    <2>8. Min(pair) <= best(a) /\ Min(pair) <= best(b)
        BY <2>6, <2>7
    <2> QED BY <2>3, <2>5, <2>7, <2>8 DEF pair
<1>8. \A two \in kSubset(2, scoring) : \E a, b \in scoring : a # b /\ two = {a, b}
    <2> SUFFICES ASSUME NEW two \in kSubset(2, scoring)
                 PROVE  \E a, b \in scoring : a # b /\ two = {a, b}
        OBVIOUS
    <2>1. two \in SUBSET scoring /\ Cardinality(two) = 2
        BY DEF kSubset
    <2>2. IsFiniteSet(two)
        BY <1>4, <2>1, FS_Subset
    <2> HIDE DEF scoring
    <2>3. \E a, b \in two : a # b /\ two = {a, b}
        BY <2>1, <2>2, TwoOf
    <2> QED BY <2>1, <2>3
<1>9. \A v \in Nat : \A t \in all : Exceeds(t, p, v) => t.solver \in scoring /\ best(t.solver) > v
    <2> SUFFICES ASSUME NEW v \in Nat, NEW t \in all, Exceeds(t, p, v)
                 PROVE  t.solver \in Solver /\ best(t.solver) > 0 /\ best(t.solver) > v
        OBVIOUS
    <2>1. /\ t.solver \in Solver /\ Scores(t)[p] \in Nat /\ Scores(t)[p] > v
          /\ Scores(t)[p] <= best(t.solver) /\ best(t.solver) \in Nat
        BY <1>1, <1>2 DEF Exceeds
    <2> QED BY <2>1
<1>10. \A v \in Nat : \A a \in scoring : best(a) > v => \E t \in all : t.solver = a /\ Exceeds(t, p, v)
    BY <1>1 DEF Exceeds
<1>11. CASE Cardinality(scoring) < 2
    <2>1. Baseline(all, p) = -1
        BY <1>3, <1>11
    <2>2. ~ \E a, b \in scoring : a # b
        BY <1>4, <1>11, TwoOf
    <2> HIDE DEF scoring
    <2>3. \A v \in Nat : ~ \E t, u \in all : Exceeds(t, p, v) /\ Exceeds(u, p, v) /\ t.solver # u.solver
        BY <1>9, <2>2
    <2>4. \A v \in Nat : ~ (v < -1)
        OBVIOUS
    <2> QED BY <2>1, <2>3, <2>4
<1>12. CASE ~ (Cardinality(scoring) < 2)
    <2>1. Baseline(all, p) = Max(seconds)
        BY <1>3, <1>6, <1>12
    <2> HIDE DEF scoring
    <2>2. IsFiniteSet(seconds)
        <3>1. kSubset(2, scoring) \in SUBSET SUBSET scoring
            BY DEF kSubset
        <3>2. IsFiniteSet(kSubset(2, scoring))
            BY <1>4, <3>1, FS_SUBSET, FS_Subset
        <3> QED BY <3>2, FiniteImage
    <2>3. seconds \subseteq Nat
        BY <1>1, <1>7, <1>8
    <2>4. Cardinality(scoring) >= 2
        BY <1>4, <1>12
    <2>5. PICK a \in scoring, b \in scoring : a # b
        BY <1>4, <2>4, TwoOf
    <2>6. seconds # {}
        BY <1>7, <2>5
    <2>7. \A two \in kSubset(2, scoring) : f[two] \in seconds
        OBVIOUS
    <2>8. \A x \in seconds : \E two \in kSubset(2, scoring) : x = f[two]
        OBVIOUS
    <2> HIDE DEF seconds
    <2>9. Max(seconds) \in seconds /\ \A x \in seconds : Max(seconds) >= x
        BY <2>2, <2>3, <2>6, FiniteMax
    <2> DEFINE max == Max(seconds)
    <2> HIDE DEF max
    <2>10. max \in Nat /\ max \in seconds /\ \A x \in seconds : max >= x /\ x \in Nat
        BY <2>3, <2>9 DEF max
    <2>11. ASSUME NEW v \in Nat, NEW t \in all, NEW u \in all,
                  Exceeds(t, p, v), Exceeds(u, p, v), t.solver # u.solver
           PROVE  v < max
        <3>1. /\ t.solver \in scoring /\ u.solver \in scoring
              /\ best(t.solver) > v /\ best(u.solver) > v
            BY <1>9, <2>11
        <3>2. f[{t.solver, u.solver}] > v /\ f[{t.solver, u.solver}] \in seconds
            BY <1>7, <2>7, <2>11, <3>1
        <3>3. \A x, m \in Nat : x > v /\ m >= x => v < m
            OBVIOUS
        <3> QED BY <2>10, <3>2, <3>3
    <2>12. ASSUME NEW v \in Nat, v < max
           PROVE  \E t, u \in all : Exceeds(t, p, v) /\ Exceeds(u, p, v) /\ t.solver # u.solver
        <3>1. PICK two \in kSubset(2, scoring) : max = f[two]
            BY <2>8, <2>10
        <3>2. PICK c \in scoring, d \in scoring : c # d /\ two = {c, d}
            BY <1>8, <3>1
        <3>3. max <= best(c) /\ max <= best(d)
            BY <1>7, <3>1, <3>2
        <3>4. \A x \in Nat : max <= x => x > v
            BY <2>10, <2>12
        <3>5. best(c) > v /\ best(d) > v
            BY <1>1, <3>3, <3>4
        <3> QED BY <1>10, <3>2, <3>5
    <2>13. Baseline(all, p) = max
        BY <2>1 DEF max
    <2> QED BY <2>10, <2>11, <2>12, <2>13
<1> QED BY <1>11, <1>12

Scored(seq) == {s \in ToSet(seq) : IsScored(s)}

LEMMA ScoredIsScored ==
    ASSUME NEW seq \in Seq(Solution)
    PROVE  ScoredIn(Scored(seq)) /\ ToSet(seq) \subseteq Solution
<1>1. DOMAIN seq = 1..Len(seq) /\ Len(seq) \in Nat /\ \A i \in 1..Len(seq) : seq[i] \in Solution
    OBVIOUS
<1>2. ToSet(seq) = {seq[i] : i \in 1..Len(seq)}
    BY <1>1 DEF ToSet
<1>3. IsFiniteSet(1..Len(seq))
    BY <1>1, FS_Interval
<1>4. IsFiniteSet(ToSet(seq))
    BY <1>2, <1>3, FiniteImage
<1>5. IsFiniteSet(Scored(seq))
    BY <1>4, FS_Subset DEF Scored
<1> QED BY <1>1, <1>2, <1>5 DEF ScoredIn, Scored

(* Two solvers are needed to have a solution found unfair.                 *)
Unfair(all, s) ==
    /\ Cardinality(DOMAIN Scores(s)) > 1
    /\ \E p \in DOMAIN Scores(s), t, u \in all :
          Exceeds(t, p, Scores(s)[p]) /\ Exceeds(u, p, Scores(s)[p]) /\ t.solver # u.solver

LEMMA UnfairByTwo ==
    ASSUME NEW all, ScoredIn(all), NEW s \in all
    PROVE  IsFair(all, s) <=> ~ Unfair(all, s)
<1> DEFINE D == DOMAIN Scores(s)
<1>1. s \in Solution /\ IsScored(s)
    BY DEF ScoredIn
<1>2. IsFiniteSet(D) /\ Cardinality(D) \in Nat /\ \A p \in D : Scores(s)[p] \in Nat
    BY <1>1, ScoreIsNat, FS_CardinalityType
<1>3. D # {} => Cardinality(D) # 0
    BY <1>2, FS_EmptySet
<1>4. \A p \in D : /\ Baseline(all, p) \in Int
                   /\ Scores(s)[p] < Baseline(all, p) <=>
                         \E t, u \in all : /\ Exceeds(t, p, Scores(s)[p]) /\ Exceeds(u, p, Scores(s)[p])
                                           /\ t.solver # u.solver
    BY <1>2, BaselineIsSecond
<1>5. \A p \in D : Scores(s)[p] >= Baseline(all, p) <=> ~ (Scores(s)[p] < Baseline(all, p))
    BY <1>2, <1>4
<1>6. IsFair(all, s) <=> Cardinality(D) = 1 \/ \A p \in D : Scores(s)[p] >= Baseline(all, p)
    BY DEF IsFair
<1>7. Unfair(all, s) <=> Cardinality(D) > 1 /\ \E p \in D : Scores(s)[p] < Baseline(all, p)
    BY <1>4 DEF Unfair
<1>8. D # {} => Cardinality(D) = 1 \/ Cardinality(D) > 1
    BY <1>2, <1>3
<1>9. ~ (Cardinality(D) = 1 /\ Cardinality(D) > 1)
    BY <1>2
<1> HIDE DEF D
<1> QED BY <1>5, <1>6, <1>7, <1>8, <1>9

(* What is kept is in order of score.                                      *)
Sorted(kept, n) ==
    /\ n \in Nat /\ DOMAIN kept = 1..n
    /\ \A i \in 1..n : kept[i] \in Solution /\ IsScored(kept[i])
    /\ \A i, j \in 1..n : i < j => Score(kept[i]) >= Score(kept[j])

LEMMA FairIsSorted ==
    ASSUME NEW seq \in Seq(Solution)
    PROVE  /\ \E n : Sorted(Fair(seq), n)
           /\ ToSet(Fair(seq)) = {s \in Scored(seq) : ~ Unfair(Scored(seq), s)}
<1> DEFINE all == Scored(seq)
           fair == {i \in 1..Len(seq) : seq[i] \in all /\ IsFair(all, seq[i])}
           key == [i \in fair |-> Score(seq[i])]
           sorted == SortByKey(fair, key)
           kept == Fair(seq)
           n == Cardinality(fair)
<1>1. DOMAIN seq = 1..Len(seq) /\ Len(seq) \in Nat /\ \A i \in 1..Len(seq) : seq[i] \in Solution
    OBVIOUS
<1>2. ScoredIn(all) /\ all = {s \in ToSet(seq) : IsScored(s)}
    BY ScoredIsScored DEF Scored
<1>3. kept = Pick(seq, sorted)
    BY <1>1, <1>2 DEF Fair
<1>4. fair \subseteq Nat /\ IsFiniteSet(fair)
    <2>1. IsFiniteSet(1..Len(seq)) /\ fair \in SUBSET (1..Len(seq))
        BY <1>1, FS_Interval
    <2> QED BY <2>1, FS_Subset
<1> HIDE DEF all
<1>5. \A i \in fair : /\ i \in 1..Len(seq) /\ seq[i] \in all /\ seq[i] \in Solution /\ IsScored(seq[i])
                      /\ IsFair(all, seq[i])
    BY <1>1, <1>2 DEF ScoredIn
<1>6. \A i \in fair : key[i] = Score(seq[i]) /\ key[i] \in Int /\ key[i] \in Nat
    <2>1. \A i \in fair : Score(seq[i]) \in Nat
        BY <1>5, ScoreIsNat
    <2> QED BY <2>1
<1>7. \A s \in all : IsFair(all, s) => \E i \in fair : seq[i] = s
    BY <1>1, <1>2 DEF ToSet
<1> HIDE DEF fair, key
<1>8. /\ n \in Nat /\ sorted \in [1..n -> fair]
      /\ \A i, j \in 1..n : i < j => Precedes(key, sorted[i], sorted[j])
      /\ \A i \in fair : \E j \in 1..n : sorted[j] = i
    <2>1. \A i \in fair : key[i] \in Int
        BY <1>6
    <2> QED BY <1>4, <2>1, SortIsListing
<1> HIDE DEF sorted, n
<1>9. DOMAIN kept = 1..n /\ \A i \in 1..n : kept[i] = seq[sorted[i]] /\ sorted[i] \in fair
    BY <1>3, <1>8 DEF Pick
<1> HIDE DEF kept
<1>10. ASSUME NEW i \in 1..n, NEW j \in 1..n, i < j PROVE Score(kept[i]) >= Score(kept[j])
    <2>1. key[sorted[i]] \in Nat /\ key[sorted[j]] \in Nat /\ Precedes(key, sorted[i], sorted[j])
        BY <1>6, <1>8, <1>9, <1>10
    <2>2. key[sorted[i]] >= key[sorted[j]]
        BY <2>1 DEF Precedes
    <2> QED BY <1>6, <1>9, <2>2
<1>11. Sorted(kept, n)
    BY <1>5, <1>8, <1>9, <1>10 DEF Sorted
<1>12. ToSet(kept) = {s \in all : IsFair(all, s)}
    <2>1. ToSet(kept) = {kept[i] : i \in 1..n}
        BY <1>9 DEF ToSet
    <2>2. \A i \in 1..n : kept[i] \in all /\ IsFair(all, kept[i])
        BY <1>5, <1>9
    <2>3. ASSUME NEW s \in all, IsFair(all, s) PROVE \E i \in 1..n : kept[i] = s
        <3>1. PICK k \in fair : seq[k] = s
            BY <1>7, <2>3
        <3>2. PICK i \in 1..n : sorted[i] = k
            BY <1>8, <3>1
        <3> QED BY <1>9, <3>1, <3>2
    <2> QED BY <2>1, <2>2, <2>3
<1>13. \A s \in all : IsFair(all, s) <=> ~ Unfair(all, s)
    BY <1>2, UnfairByTwo
<1> QED BY <1>11, <1>12, <1>13 DEF kept, all

-----------------------------------------------------------------------------
(* The ranking                                                             *)

Winning(rk) == {i \in DOMAIN rk : rk[i].winner}
Better(rk, i) == {j \in Winning(rk) : Score(rk[j].solution) >= Score(rk[i].solution)}
JustifiedOn(rk, w) ==
    /\ Cardinality(Winning(rk)) <= max_winners
    /\ \A i, j \in Winning(rk) : i # j => DisjointOn(rk[i].solution, rk[j].solution, w)
    /\ \A i \in DOMAIN rk \ Winning(rk) :
          \/ Cardinality(Better(rk, i)) = max_winners
          \/ \E j \in Better(rk, i) : ~ DisjointOn(rk[i].solution, rk[j].solution, w)
Justified(rk) == JustifiedOn(rk, wrapped)

(* A ranking of a sequence has each element of it once, with what it won.  *)
Ranks(rk, kept, n, g) ==
    /\ g \in [1..n -> 1..n] /\ DOMAIN rk = 1..n
    /\ \A i, j \in 1..n : g[i] = g[j] => i = j
    /\ \A k \in 1..n : \E i \in 1..n : g[i] = k
    /\ \A i \in 1..n : rk[i] = [solution |-> kept[g[i]], winner |-> g[i] \in PickWinners(kept)]

LEMMA RanksSolutions ==
    ASSUME NEW rk, NEW kept, NEW n, NEW g, Ranks(rk, kept, n, g)
    PROVE  \A i \in 1..n : rk[i].solution = kept[g[i]] /\ rk[i].winner = (g[i] \in PickWinners(kept))
BY DEF Ranks

LEMMA RankedRanks ==
    ASSUME NEW kept, NEW n, Sorted(kept, n)
    PROVE  \E g : Ranks(Ranked(kept), kept, n, g)
<1> DEFINE won == PickWinners(kept)
           marked == [i \in 1..n |-> [solution |-> kept[i], winner |-> i \in won]]
           key == [i \in 1..n |-> IF i \in won THEN 1 ELSE 0]
           all == 1..n
           g == SortByKey(all, key)
           rk == Ranked(kept)
<1>1. n \in Nat /\ DOMAIN kept = 1..n
    BY DEF Sorted
<1>2. rk = Pick(marked, g)
    BY <1>1 DEF Ranked
<1>3. all \subseteq Nat /\ IsFiniteSet(all) /\ Cardinality(all) = n
    BY <1>1, FS_Interval
<1>4. \A i \in all : key[i] \in Int
    OBVIOUS
<1> HIDE DEF key
<1>5. /\ g \in [1..n -> 1..n]
      /\ \A i, j \in 1..n : g[i] = g[j] => i = j
      /\ \A k \in 1..n : \E i \in 1..n : g[i] = k
    <2> HIDE DEF all
    <2>1. /\ g \in [1..Cardinality(all) -> all]
          /\ \A i, j \in 1..Cardinality(all) : g[i] = g[j] => i = j
          /\ \A k \in all : \E i \in 1..Cardinality(all) : g[i] = k
        BY <1>3, <1>4, SortIsListing
    <2> QED BY <1>3, <2>1 DEF all
<1> HIDE DEF g, rk
<1>6. DOMAIN rk = 1..n /\ \A i \in 1..n : rk[i] = marked[g[i]]
    BY <1>2, <1>5 DEF Pick
<1>7. \A k \in 1..n : marked[k] = [solution |-> kept[k], winner |-> k \in won]
    OBVIOUS
<1>8. Ranks(rk, kept, n, g)
    <2> HIDE DEF marked
    <2> QED BY <1>5, <1>6, <1>7 DEF Ranks
<1> QED BY <1>8 DEF rk

LEMMA RankingIsJustified ==
    ASSUME NEW kept, NEW n, Sorted(kept, n)
    PROVE  Justified(Ranked(kept))
<1> DEFINE won == PickWinners(kept)
           rk == Ranked(kept)
           S == Winning(rk)
<1>1. n \in Nat /\ DOMAIN kept = 1..n
    BY DEF Sorted
<1>2. /\ won \in SUBSET (1..n) /\ IsFiniteSet(won) /\ Cardinality(won) <= max_winners
      /\ \A i, j \in won : i # j => Disjoint(kept[i], kept[j])
      /\ \A i \in 1..n \ won : \/ Cardinality(won) = max_winners /\ \A j \in won : j < i
                               \/ \E j \in won : j < i /\ ~ Disjoint(kept[i], kept[j])
    BY <1>1, WinnersAreSelected DEF Selected
<1>3. PICK g : Ranks(rk, kept, n, g)
    BY RankedRanks
<1> HIDE DEF won, rk
<1>4. /\ g \in [1..n -> 1..n] /\ DOMAIN rk = 1..n
      /\ \A i, j \in 1..n : g[i] = g[j] => i = j
      /\ \A k \in 1..n : \E i \in 1..n : g[i] = k
      /\ \A i \in 1..n : rk[i].solution = kept[g[i]] /\ rk[i].winner = (g[i] \in won)
    BY <1>3 DEF Ranks, won
<1>5. S = {i \in 1..n : g[i] \in won}
    BY <1>4 DEF Winning
<1> HIDE DEF S
<1>6. Cardinality(S) = Cardinality(won)
    <2> DEFINE h == [i \in S |-> g[i]]
    <2>1. h \in Injection(S, won)
        BY <1>4, <1>5 DEF Injection, IsInjective
    <2>2. h \in Surjection(S, won)
        BY <1>2, <1>4, <1>5 DEF Surjection
    <2> QED BY <1>2, <2>1, <2>2, FS_Injection
<1>7. ASSUME NEW i \in S, NEW j \in S, i # j PROVE Disjoint(rk[i].solution, rk[j].solution)
    <2>1. i \in 1..n /\ j \in 1..n /\ g[i] \in won /\ g[j] \in won /\ g[i] # g[j]
        BY <1>4, <1>5, <1>7
    <2>2. Disjoint(kept[g[i]], kept[g[j]])
        BY <1>2, <2>1
    <2> QED BY <1>4, <2>1, <2>2
<1>8. \A i, j \in 1..n : g[i] < g[j] => Score(rk[i].solution) >= Score(rk[j].solution)
    BY <1>4 DEF Sorted
<1>9. ASSUME NEW i \in 1..n \ S
      PROVE  \/ Cardinality(Better(rk, i)) = max_winners
             \/ \E j \in Better(rk, i) : ~ Disjoint(rk[i].solution, rk[j].solution)
    <2>1. g[i] \in 1..n \ won
        BY <1>4, <1>5
    <2>2. CASE Cardinality(won) = max_winners /\ \A j \in won : j < g[i]
        <3>1. \A j \in S : g[j] < g[i] /\ j \in 1..n
            BY <1>5, <2>2
        <3>2. Better(rk, i) = S
            BY <1>8, <3>1 DEF Better, S
        <3> QED BY <1>6, <2>2, <3>2
    <2>3. CASE \E k \in won : k < g[i] /\ ~ Disjoint(kept[g[i]], kept[k])
        <3>1. PICK k \in won : k < g[i] /\ ~ Disjoint(kept[g[i]], kept[k])
            BY <2>3
        <3>2. PICK j \in 1..n : g[j] = k
            BY <1>2, <1>4, <3>1
        <3>3. j \in S /\ g[j] < g[i]
            BY <1>5, <3>1, <3>2
        <3>4. j \in Better(rk, i)
            BY <1>8, <3>3 DEF Better, S
        <3>5. ~ Disjoint(rk[i].solution, rk[j].solution)
            BY <1>4, <3>1, <3>2
        <3> QED BY <3>4, <3>5
    <2> QED BY <1>2, <2>1, <2>2, <2>3
<1> QED BY <1>2, <1>4, <1>6, <1>7, <1>9 DEF Justified, JustifiedOn, Disjoint, S, rk

-----------------------------------------------------------------------------
(* Reference scores                                                        *)

RankingOf(rk, n) ==
    /\ n \in Nat /\ DOMAIN rk = 1..n
    /\ \A i \in 1..n : rk[i].solution \in Solution /\ IsScored(rk[i].solution)

Others(rk, solver) == {i \in DOMAIN rk : rk[i].solution.solver # solver}
PossibleOn(rk, W, w) ==
    /\ Cardinality(W) <= max_winners
    /\ \A i, j \in W : i # j => DisjointOn(rk[i].solution, rk[j].solution, w)
Possible(rk, W) == PossibleOn(rk, W, wrapped)
OutcomeOn(rk, solver, score, w) ==
    \E W \in SUBSET Others(rk, solver) :
        /\ PossibleOn(rk, W, w) /\ \A i \in Others(rk, solver) \ W : ~ PossibleOn(rk, W \cup {i}, w)
        /\ score = SumFunctionOnSet([i \in Others(rk, solver) |-> Score(rk[i].solution)], W)
Outcome(rk, solver, score) == OutcomeOn(rk, solver, score, wrapped)

(* Picking again among the others gives an outcome to which nothing can be *)
(* added: what it leaves out shares a pair with a winner or is one too     *)
(* many.                                                                   *)
LEMMA ReferenceOutcome ==
    ASSUME NEW n, RankingOf(ranked, n), NEW solver
    PROVE  Outcome(ranked, solver, Reference(solver))
<1> DEFINE S == Others(ranked, solver)
           sols == [i \in 1..n |-> ranked[i].solution]
           key == [i \in S |-> 0]
           f == SortByKey(S, key)
           m == Cardinality(S)
           seq == Without(sols, solver)
           won == PickWinners(seq)
           points == [k \in 1..m |-> Score(seq[k])]
           score == [i \in S |-> Score(ranked[i].solution)]
           W == {f[k] : k \in won}
<1>1. /\ n \in Nat /\ DOMAIN ranked = 1..n
      /\ \A i \in 1..n : sols[i] = ranked[i].solution /\ sols[i] \in Solution /\ IsScored(sols[i])
    BY DEF RankingOf
<1>2. S = {i \in DOMAIN sols : sols[i].solver # solver} /\ S \in SUBSET (1..n) /\ DOMAIN sols = 1..n
    BY <1>1 DEF Others
<1>3. Reference(solver) = TotalScore(seq)
    BY <1>1 DEF Reference
<1>4. seq = Pick(sols, f)
    BY <1>2 DEF Without
<1>5. S \subseteq Nat /\ IsFiniteSet(S)
    <2>1. IsFiniteSet(1..n)
        BY <1>1, FS_Interval
    <2>2. S \in SUBSET (1..n) /\ 1..n \subseteq Nat
        BY <1>2
    <2> HIDE DEF S
    <2> QED BY <2>1, <2>2, FS_Subset
<1>6. \A i \in S : key[i] \in Int
    OBVIOUS
<1>7. \A i \in S : score[i] = Score(sols[i]) /\ score[i] \in Nat
    <2>1. \A i \in 1..n : Score(sols[i]) \in Nat
        BY <1>1, ScoreIsNat
    <2> QED BY <1>1, <1>2, <2>1
<1> HIDE DEF S, key, sols
<1>8. /\ m \in Nat /\ f \in [1..m -> S]
      /\ \A i, j \in 1..m : f[i] = f[j] => i = j
      /\ \A i \in S : \E k \in 1..m : f[k] = i
    BY <1>5, <1>6, SortIsListing
<1> HIDE DEF f, m
<1>9. DOMAIN seq = 1..m /\ \A k \in 1..m : f[k] \in S /\ seq[k] = sols[f[k]]
    BY <1>4, <1>8 DEF Pick
<1> HIDE DEF seq
<1>10. TotalScore(seq) = SumFunctionOnSet(points, won)
    BY <1>9 DEF TotalScore
<1>11. /\ won \in SUBSET (1..m) /\ IsFiniteSet(won) /\ Cardinality(won) <= max_winners
       /\ \A i, j \in won : i # j => Disjoint(seq[i], seq[j])
       /\ \A i \in 1..m \ won : \/ Cardinality(won) = max_winners
                                \/ \E j \in won : ~ Disjoint(seq[i], seq[j])
    BY <1>8, <1>9, WinnersAreSelected DEF Selected
<1> HIDE DEF won
<1> DEFINE h == [k \in won |-> f[k]]
<1>12. /\ W \in SUBSET S /\ h \in [won -> W] /\ \A i, j \in won : h[i] = h[j] => i = j
       /\ \A i \in W : \E k \in won : h[k] = i
       /\ \A k \in won : h[k] = f[k]
    BY <1>8, <1>11
<1>13. IsFiniteSet(W) /\ Cardinality(W) = Cardinality(won)
    <2> HIDE DEF W, h
    <2>1. h \in Bijection(won, W)
        BY <1>12 DEF Bijection, Injection, Surjection, IsInjective
    <2> QED BY <1>11, <2>1, FS_Bijection DEF ExistsBijection
<1>14. \A k \in 1..m : f[k] \in W => k \in won
    BY <1>8, <1>11
<1>15. SumFunctionOnSet(points, won) = SumFunctionOnSet(score, W)
    <2>1. \A k \in won : points[k] = score[h[k]] /\ points[k] \in Nat
        BY <1>7, <1>9, <1>11, <1>12
    <2>2. \A i \in W : score[i] \in Nat
        BY <1>7, <1>12
    <2> HIDE DEF points, score, W, h
    <2>3. /\ \A k \in won : points[k] \in Nat /\ points[k] = score[h[k]]
          /\ IsFiniteSet(won) /\ IsFiniteSet(W)
          /\ h \in [won -> W] /\ \A i, j \in won : h[i] = h[j] => i = j
          /\ \A i \in W : \E k \in won : h[k] = i
        BY <1>11, <1>12, <1>13, <2>1
    <2> QED BY ONLY <2>2, <2>3, SumMatches
<1> HIDE DEF score, points
<1>16. \A i \in S : i \in 1..n /\ sols[i] = ranked[i].solution
    BY <1>1, <1>2
<1>17. \A i, j \in W : i # j => Disjoint(ranked[i].solution, ranked[j].solution)
    <2> SUFFICES ASSUME NEW i \in won, NEW j \in won, f[i] # f[j]
                 PROVE  Disjoint(ranked[f[i]].solution, ranked[f[j]].solution)
        OBVIOUS
    <2>1. i # j /\ i \in 1..m /\ j \in 1..m
        BY <1>11
    <2>2. Disjoint(seq[i], seq[j])
        BY <1>11, <2>1
    <2> QED BY <1>9, <1>16, <2>1, <2>2
<1>18. Possible(ranked, W)
    BY <1>11, <1>13, <1>17 DEF Possible, PossibleOn, Disjoint
<1>19. ASSUME NEW i \in S \ W PROVE ~ Possible(ranked, W \cup {i})
    <2>1. PICK k \in 1..m : f[k] = i
        BY <1>8
    <2>2. k \notin won
        BY <1>19, <2>1
    <2>3. CASE Cardinality(won) = max_winners
        <3>1. Cardinality(W \cup {i}) = Cardinality(W) + 1
            BY <1>13, <1>19, FS_AddElement
        <3>2. ~ (Cardinality(W \cup {i}) <= max_winners)
            BY <1>13, <2>3, <3>1, SelectionFacts
        <3> QED BY <3>2 DEF Possible, PossibleOn, Disjoint
    <2>4. CASE \E j \in won : ~ Disjoint(seq[k], seq[j])
        <3>1. PICK j \in won : ~ Disjoint(seq[k], seq[j])
            BY <2>4
        <3>2. j \in 1..m /\ f[j] \in W /\ f[j] # i
            BY <1>11, <1>19, <3>1
        <3>3. ~ Disjoint(ranked[i].solution, ranked[f[j]].solution)
            BY <1>9, <1>16, <2>1, <3>1, <3>2
        <3> QED BY <3>2, <3>3 DEF Possible, PossibleOn, Disjoint
    <2> QED BY <1>11, <2>2, <2>3, <2>4
<1>20. score = [i \in S |-> Score(ranked[i].solution)]
    BY DEF score
<1> HIDE DEF W
<1> QED BY <1>3, <1>10, <1>12, <1>15, <1>18, <1>19, <1>20 DEF Outcome, OutcomeOn, Possible, S

-----------------------------------------------------------------------------
(* The arbitration                                                         *)

SelectionIInv ==
    /\ SelectionTypeOK
    /\ phase # "done" => reference_scores = <<>>
    /\ phase = "bidding" => filtered_out = {} /\ ranked = <<>>
    /\ phase # "bidding" =>
          filtered_out = {s \in Scored(solutions) : Unfair(Scored(solutions), s)}
    /\ \E n : RankingOf(ranked, n)
    /\ Justified(ranked)
    /\ \A solver \in DOMAIN reference_scores : Outcome(ranked, solver, reference_scores[solver])

LEMMA SelectionHolds == SelectionIInv => SelectionInv /\ ReferenceIsAnOutcome
<1> SUFFICES ASSUME SelectionIInv PROVE SelectionInv /\ ReferenceIsAnOutcome
    OBVIOUS
<1>1. \A i, j \in DOMAIN ranked : Disjoint(ranked[i].solution, ranked[j].solution) <=> ~ Overlap(i, j)
    BY DEF Disjoint, DisjointOn, Pairs, Overlap
<1>2. Winning(ranked) = Winners /\ Winners \subseteq DOMAIN ranked
    BY DEF Winning, Winners
<1>3. WinnersAreJustified
    <2>1. /\ Cardinality(Winners) <= max_winners
          /\ \A i, j \in Winners : i # j => ~ Overlap(i, j)
        BY <1>1, <1>2 DEF SelectionIInv, Justified, JustifiedOn, Disjoint
    <2>2. ASSUME NEW i \in DOMAIN ranked \ Winners
          PROVE  LET better == {j \in Winners : Score(ranked[j].solution) >= Score(ranked[i].solution)}
                 IN  Cardinality(better) = max_winners \/ \E j \in better : Overlap(i, j)
        <3>1. Better(ranked, i) = {j \in Winners : Score(ranked[j].solution) >= Score(ranked[i].solution)}
            BY <1>2 DEF Better
        <3>2. \A j \in Better(ranked, i) : j \in DOMAIN ranked
            BY <1>2, <3>1
        <3>3. \/ Cardinality(Better(ranked, i)) = max_winners
              \/ \E j \in Better(ranked, i) : ~ Disjoint(ranked[i].solution, ranked[j].solution)
            BY <1>2 DEF SelectionIInv, Justified, JustifiedOn, Disjoint
        <3> QED BY <1>1, <3>1, <3>2, <3>3
    <2> QED BY <2>1, <2>2 DEF WinnersAreJustified
<1>4. FilteredByTwo
    <2>1. ASSUME phase # "bidding", NEW s \in {t \in ToSet(solutions) : IsScored(t)}
          PROVE  s \in filtered_out <=>
                    /\ Cardinality(DOMAIN Scores(s)) > 1
                    /\ \E p \in DOMAIN Scores(s), t, u \in ToSet(solutions) :
                          Beats(t, s, p) /\ Beats(u, s, p) /\ t.solver # u.solver
        <3>1. s \in filtered_out <=> Unfair(Scored(solutions), s)
            BY <2>1 DEF SelectionIInv, Scored
        <3>2. \A t, p : /\ t \in Scored(solutions) <=> t \in ToSet(solutions) /\ IsScored(t)
                        /\ Beats(t, s, p) <=> IsScored(t) /\ Exceeds(t, p, Scores(s)[p])
            BY DEF Scored, Beats, Exceeds, Alone
        <3> QED BY <3>1, <3>2 DEF Unfair
    <2> QED BY <2>1 DEF FilteredByTwo
<1>5. ReferenceIsAnOutcome
    <2> SUFFICES ASSUME NEW solver \in DOMAIN reference_scores
                 PROVE  LET others == {i \in DOMAIN ranked : ranked[i].solution.solver # solver}
                            Poss(W) == /\ Cardinality(W) <= max_winners
                                       /\ \A i, j \in W : i # j => ~ Overlap(i, j)
                        IN  \E W \in SUBSET others :
                               /\ Poss(W) /\ \A i \in others \ W : ~ Poss(W \cup {i})
                               /\ reference_scores[solver] =
                                     SumFunctionOnSet([i \in others |-> Score(ranked[i].solution)], W)
        BY DEF ReferenceIsAnOutcome
    <2>1. Outcome(ranked, solver, reference_scores[solver])
        BY DEF SelectionIInv
    <2>2. Others(ranked, solver) = {i \in DOMAIN ranked : ranked[i].solution.solver # solver}
        BY DEF Others
    <2>3. \A W \in SUBSET DOMAIN ranked :
             Possible(ranked, W) <=> /\ Cardinality(W) <= max_winners
                                     /\ \A i, j \in W : i # j => ~ Overlap(i, j)
        BY <1>1 DEF Possible, PossibleOn, Disjoint
    <2>4. \A W \in SUBSET Others(ranked, solver) : \A i \in Others(ranked, solver) :
             W \in SUBSET DOMAIN ranked /\ W \cup {i} \in SUBSET DOMAIN ranked
        BY <2>2
    <2>5. PICK W \in SUBSET Others(ranked, solver) :
             /\ Possible(ranked, W) /\ \A i \in Others(ranked, solver) \ W : ~ Possible(ranked, W \cup {i})
             /\ reference_scores[solver] =
                   SumFunctionOnSet([i \in Others(ranked, solver) |-> Score(ranked[i].solution)], W)
        BY <2>1 DEF Outcome, OutcomeOn, Possible
    <2>6. W \in SUBSET DOMAIN ranked
        BY <2>2
    <2> QED BY <2>2, <2>3, <2>4, <2>5, <2>6
<1> QED BY <1>3, <1>4, <1>5 DEF SelectionInv, SelectionIInv

LEMMA InitSelectionIInv == SelectionInit => SelectionIInv
<1> SUFFICES ASSUME SelectionInit PROVE SelectionIInv
    OBVIOUS
<1>1. /\ phase = "bidding" /\ solutions = <<>> /\ filtered_out = {} /\ ranked = <<>>
      /\ reference_scores = <<>> /\ DOMAIN ranked = {} /\ DOMAIN reference_scores = {}
    BY DEF SelectionInit
<1>2. SelectionTypeOK
    BY <1>1 DEF SelectionTypeOK
<1>3. RankingOf(ranked, 0)
    BY <1>1 DEF RankingOf
<1>4. Justified(ranked)
    <2>1. Winning(ranked) = {}
        BY <1>1 DEF Winning
    <2>2. Cardinality({}) <= max_winners
        BY FS_EmptySet, SelectionFacts
    <2> QED BY <1>1, <2>1, <2>2 DEF Justified, JustifiedOn
<1> QED BY <1>1, <1>2, <1>3, <1>4 DEF SelectionIInv

LEMMA BidKeeps ==
    ASSUME SelectionIInv, Bid
    PROVE  SelectionIInv'
<1>1. /\ phase = "bidding" /\ UNCHANGED <<phase, wrapped, filtered_out, ranked, reference_scores>>
      /\ filtered_out = {} /\ ranked = <<>> /\ reference_scores = <<>>
    BY DEF Bid, SelectionIInv
<1>2. solutions' \in Seq(Solution)
    BY DEF Bid, SelectionIInv, SelectionTypeOK
<1>3. DOMAIN ranked = {} /\ DOMAIN reference_scores = {}
    BY <1>1
<1>4. SelectionTypeOK'
    BY <1>1, <1>2, <1>3 DEF SelectionTypeOK
<1>5. RankingOf(ranked', 0)
    BY <1>1, <1>3 DEF RankingOf
<1>6. Justified(ranked)'
    <2>1. (DOMAIN ranked)' = {} /\ Winning(ranked)' = {}
        BY <1>1, <1>3 DEF Winning
    <2> QED BY <2>1, FS_EmptySet, SelectionFacts DEF Justified, JustifiedOn, Disjoint
<1> QED BY <1>1, <1>3, <1>4, <1>5, <1>6 DEF SelectionIInv

LEMMA ArbitrateKeeps ==
    ASSUME SelectionIInv, Arbitrate
    PROVE  SelectionIInv'
<1> DEFINE kept == Fair(solutions)
           rk == Ranked(kept)
           all == Scored(solutions)
<1>1. /\ phase = "bidding" /\ phase' = "ranked" /\ UNCHANGED <<wrapped, solutions, reference_scores>>
      /\ ranked' = rk /\ filtered_out' = Discarded(solutions, kept) /\ reference_scores = <<>>
    BY DEF Arbitrate, SelectionIInv
<1>2. solutions \in Seq(Solution)
    BY DEF SelectionIInv, SelectionTypeOK
<1>3. PICK n : Sorted(kept, n)
    BY <1>2, FairIsSorted
<1>4. ToSet(kept) = {s \in all : ~ Unfair(all, s)}
    BY <1>2, FairIsSorted
<1>5. PICK g : Ranks(rk, kept, n, g)
    BY <1>3, RankedRanks
<1>6. Justified(rk)
    BY <1>3, RankingIsJustified
<1>7. filtered_out' = {s \in all : Unfair(all, s)}
    BY <1>1, <1>4 DEF Discarded, Scored
<1> HIDE DEF kept, rk
<1>8. /\ n \in Nat /\ DOMAIN rk = 1..n
      /\ \A i \in 1..n : g[i] \in 1..n /\ rk[i].solution = kept[g[i]]
      /\ \A i \in 1..n : kept[i] \in ToSet(kept) /\ kept[i] \in Solution /\ IsScored(kept[i])
    <2>2. \A i \in 1..n : rk[i].solution = kept[g[i]]
        BY <1>5, RanksSolutions
    <2>3. n \in Nat /\ DOMAIN rk = 1..n /\ \A i \in 1..n : g[i] \in 1..n
        BY <1>3, <1>5 DEF Ranks, Sorted
    <2>4. \A i \in 1..n : kept[i] \in ToSet(kept) /\ kept[i] \in Solution /\ IsScored(kept[i])
        BY <1>3 DEF Sorted, ToSet
    <2> QED BY <2>2, <2>3, <2>4
<1>9. RankingOf(rk, n)
    BY <1>8 DEF RankingOf
<1>10. all' = all /\ all \subseteq ToSet(solutions)
    BY <1>1 DEF Scored
<1>11. SelectionTypeOK'
    <2>1. \A i \in DOMAIN rk : rk[i].solution \in ToSet(solutions) \ filtered_out'
        BY <1>4, <1>7, <1>8, <1>10
    <2>2. filtered_out' \subseteq ToSet(solutions)
        BY <1>7, <1>10
    <2> QED BY <1>1, <1>2, <2>1, <2>2 DEF SelectionTypeOK
<1>12. filtered_out' = {s \in all' : Unfair(all', s)}
    BY <1>7, <1>10
<1>13. Justified(ranked)'
    BY <1>1, <1>6 DEF Justified
<1>14. \E k : RankingOf(ranked', k)
    BY <1>1, <1>9
<1>15. DOMAIN reference_scores' = {}
    BY <1>1
<1> QED BY <1>1, <1>11, <1>12, <1>13, <1>14, <1>15 DEF SelectionIInv

LEMMA ReferencesKeep ==
    ASSUME SelectionIInv, ComputeReferenceScores
    PROVE  SelectionIInv'
<1>1. phase = "ranked" /\ phase' = "done" /\ UNCHANGED <<wrapped, solutions, filtered_out, ranked>>
    BY DEF ComputeReferenceScores
<1> DEFINE winning == {ranked[i].solution.solver : i \in {j \in DOMAIN ranked : ranked[j].winner}}
<1>2. reference_scores' = [solver \in winning |-> Reference(solver)]
    BY DEF ComputeReferenceScores
<1>3. PICK n : RankingOf(ranked, n)
    BY DEF SelectionIInv
<1>4. winning \subseteq Solver
    BY <1>3 DEF RankingOf, Solution
<1>5. \A solver : Outcome(ranked, solver, Reference(solver))
    BY <1>3, ReferenceOutcome
<1> HIDE DEF winning
<1>6. /\ DOMAIN reference_scores' = winning
      /\ \A solver \in winning : reference_scores'[solver] = Reference(solver)
    BY <1>2
<1>7. SelectionTypeOK'
    BY <1>1, <1>4, <1>6 DEF SelectionTypeOK, SelectionIInv
<1>8. Justified(ranked)'
    <2>1. Justified(ranked)
        BY DEF SelectionIInv
    <2> QED BY <1>1, <2>1 DEF Justified
<1>9. \A solver \in DOMAIN reference_scores' : Outcome(ranked, solver, reference_scores'[solver])
    BY <1>5, <1>6
<1>10. (\A solver \in DOMAIN reference_scores : Outcome(ranked, solver, reference_scores[solver]))'
    BY <1>1, <1>9 DEF Outcome
<1>11. (filtered_out = {s \in Scored(solutions) : Unfair(Scored(solutions), s)})'
    <2>1. Scored(solutions)' = Scored(solutions)
        BY <1>1 DEF Scored
    <2>2. filtered_out = {s \in Scored(solutions) : Unfair(Scored(solutions), s)}
        BY <1>1 DEF SelectionIInv
    <2> QED BY <1>1, <2>1, <2>2
<1> QED BY <1>1, <1>3, <1>7, <1>8, <1>10, <1>11 DEF SelectionIInv

LEMMA SelectionStutters ==
    ASSUME SelectionIInv, UNCHANGED selectionVars
    PROVE  SelectionIInv'
<1>1. UNCHANGED <<phase, wrapped, solutions, filtered_out, ranked, reference_scores>>
    BY DEF selectionVars
<1>2. SelectionTypeOK'
    BY <1>1 DEF SelectionIInv, SelectionTypeOK
<1>3. Scored(solutions)' = Scored(solutions)
    BY <1>1 DEF Scored
<1> QED BY <1>1, <1>2, <1>3 DEF SelectionIInv, Justified, Outcome

LEMMA SelectionInvariant == SelectionSpec => []SelectionIInv
<1>1. SelectionInit => SelectionIInv
    BY InitSelectionIInv
<1>2. SelectionIInv /\ [SelectionNext]_selectionVars => SelectionIInv'
    BY BidKeeps, ArbitrateKeeps, ReferencesKeep, SelectionStutters DEF SelectionNext
<1> QED BY <1>1, <1>2, PTL DEF SelectionSpec

(* The arbitration is sound for any solvers, pairs, scores and number of   *)
(* winners: winners trade disjoint pairs and are no more than allowed,     *)
(* each other fair solution lost to better ones, and a solution is         *)
(* filtered out exactly when two solvers beat it.                          *)
THEOREM SelectionIsSound == SelectionSpec => []SelectionInv
<1>1. SelectionIInv => SelectionInv
    BY SelectionHolds
<1> QED BY <1>1, SelectionInvariant, PTL

(* The reference score of a winner is the total of an outcome that was     *)
(* possible without its solver: a maximal choice of the others' fair       *)
(* solutions with disjoint pairs.                                          *)
THEOREM ReferenceIsPossible == SelectionSpec => []ReferenceIsAnOutcome
<1>1. SelectionIInv => ReferenceIsAnOutcome
    BY SelectionHolds
<1> QED BY <1>1, SelectionInvariant, PTL
=============================================================================
