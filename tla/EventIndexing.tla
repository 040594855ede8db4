--------------------------- MODULE EventIndexing ---------------------------
(***************************************************************************)
(* The event indexer of the backend (crates/event-indexing), the store of  *)
(* settlement events it writes and the maintenance task that announces     *)
(* indexed blocks to the auction run loop.                                 *)
(*                                                                         *)
(* The chain reorganises while the indexer works.  Every read of the node  *)
(* or of the database is an await, so the chain may change between any two *)
(* of the indexer's steps, any step may fail, and the process may stop     *)
(* between two of them.                                                    *)
(*                                                                         *)
(* A block is the sequence of the forks that mined its ancestors and       *)
(* itself: a block so determines its number (the length), its parent (the  *)
(* front) and its events, and two blocks with one hash are one block.      *)
(***************************************************************************)
EXTENDS Naturals, Sequences, SequencesExt

CONSTANTS
  Depth,         \* MAX_REORG_BLOCK_COUNT: how many blocks a reorg replaces
  Queried,       \* MAX_BLOCKS_QUERIED: the tail that is read by block hash
  HistoryMax,    \* MAX_HISTORY_BLOCKS: blocks of history in one attempt
  LatestMax,     \* MAX_LATEST_BLOCKS: blocks of the tail in one attempt
  RangeMax,      \* blocks in one range of the deterministic indexer
  Rounds,        \* ranges in one attempt of the deterministic indexer
  Store,         \* "settlements" or "refunds": which EventStoring is written
  Quiet,         \* the forks whose blocks hold no event of the contract
  MaxHeight,     \* bound on the chain's height
  MaxReorgs,     \* bound on the number of reorganisations
  MaxRestarts    \* bound on the number of restarts

ASSUME DepthAssumption == Depth \in Nat \ {0} /\ Queried \in Nat /\ 2 * Depth <= Queried
ASSUME LimitsAssumption ==
  /\ HistoryMax \in Nat /\ HistoryMax > Depth + 1 /\ LatestMax \in Nat \ {0}
  /\ RangeMax \in Nat \ {0} /\ Rounds \in Nat \ {0}
ASSUME BoundsAssumption == {MaxHeight, MaxReorgs, MaxRestarts} \subseteq Nat
ASSUME StoreAssumption == Store \in {"settlements", "refunds"}

VARIABLES
  canonical, \* the node's canonical chain
  forks,     \* how many reorganisations happened
  final,     \* with_deterministic_finality: the chain is final at once
  tip,       \* the block the block stream last yielded
  stored,    \* the events in the database: pairs of a number and a fork
  persisted, \* the row of last_indexed_blocks
  handled,   \* last_handled_blocks
  fresh,     \* the maintenance task has not taken the head off the stream yet
  task,      \* where update_events stands, and what it holds on its stack
  announced, \* partially_processed_block
  restarts   \* how often the process was restarted

indexVars == <<canonical, forks, final, tip, stored, persisted, handled, fresh, task, announced, restarts>>
node == <<canonical, forks, final, tip, restarts>>

Forks == 0 .. MaxReorgs
Numbers == 0 .. MaxHeight
Blocks == UNION {[1 .. n -> Forks] : n \in Numbers}
AtMost(a, b) == IF a < b THEN a ELSE b
Minus(a, b) == IF a < b THEN 0 ELSE a - b

Block(n) == SubSeq(canonical, 1, n)
BlocksIn(first, last) == [i \in 1 .. (last + 1 - first) |-> Block(first + i - 1)]
EventsIn(block, first, last) ==
  {<<n, block[n]>> : n \in {m \in 1 .. Len(block) : m \in first .. last /\ block[m] \notin Quiet}}
EventsOf(blocks) == UNION {EventsIn(blocks[i], Len(blocks[i]), Len(blocks[i])) : i \in 1 .. Len(blocks)}

-----------------------------------------------------------------------------
(* The store.  Settlement events are keyed by block and log index and      *)
(* inserted ON CONFLICT DO NOTHING; refunds are keyed by their order.      *)

AppendEvents(events) ==
  IF Store = "settlements"
  THEN stored \union {e \in events : \A s \in stored : s[1] # e[1]}
  ELSE stored \union events

Deleted(first, last) ==
  {e \in stored : e[1] >= first /\ (Store = "refunds" => e[1] <= last)}

ReplaceEvents(events, first, last) == (stored \ Deleted(first, last)) \union events

-----------------------------------------------------------------------------
(* The node: the chain grows and reorganises; the block stream yields a    *)
(* block only when its number is greater than the last one's.              *)

Extend ==
  /\ Len(canonical) < MaxHeight
  /\ canonical' = Append(canonical, forks)
  /\ UNCHANGED <<forks, final, tip, stored, persisted, handled, fresh, task, announced, restarts>>

Reorganise ==
  /\ ~final /\ forks < MaxReorgs
  /\ \E k \in 1 .. AtMost(Depth, Len(canonical)) :
       canonical' = [n \in 1 .. Len(canonical) |-> IF n > Len(canonical) - k THEN forks + 1 ELSE canonical[n]]
  /\ forks' = forks + 1
  /\ UNCHANGED <<final, tip, stored, persisted, handled, fresh, task, announced, restarts>>

NoticeHead ==
  /\ Len(canonical) > Len(tip)
  /\ tip' = canonical
  /\ fresh' = TRUE
  /\ UNCHANGED <<canonical, forks, final, stored, persisted, handled, task, announced, restarts>>

-----------------------------------------------------------------------------
(* update_events: which blocks to read (event_block_range), the history    *)
(* below them and the tail, each with its checkpoint.                      *)

idle == [at |-> "idle"]
latest(blocks, replace, target) ==
  [at |-> "latest", blocks |-> blocks, replace |-> replace, target |-> target]

\* The update returns Ok.  The number is announced when the indexers that ran
\* beside this one succeeded as well.
Finish(target) == task' = idle /\ announced' \in {announced, Len(target)}
Go(next) == task' = next /\ UNCHANGED announced

\* The maintenance task runs the indexer once for each block off the stream.
Take == task = idle /\ fresh /\ fresh' = FALSE

\* It does nothing while a real failure cools down (retry_after) or when its
\* first read fails; either way the next block brings the next attempt.
CoolDown == Take /\ UNCHANGED <<node, stored, persisted, handled, task, announced>>

Base == IF handled = <<>> THEN <<Block(persisted)>> ELSE handled

Begin ==
  /\ ~final /\ Take
  /\ \/ tip # <<>> /\ Front(tip) = Last(Base) /\ Go(latest(<<tip>>, FALSE, tip))
     \/ tip = Last(Base) /\ Finish(tip)
     \/ /\ tip # Last(Base) /\ (tip = <<>> \/ Front(tip) # Last(Base))
        /\ Go([at |-> "probe", base |-> Base, target |-> tip])
  /\ UNCHANGED <<node, stored, persisted, handled>>

\* Several new blocks on top of the last handled one, unless it is orphaned.
Probe ==
  /\ task.at = "probe"
  /\ LET last == Last(task.base)
         to == Len(task.target)
         near == to >= Len(last) /\ to - Len(last) <= 2 * Queried
         new == BlocksIn(Len(last) + 1, AtMost(to, Len(last) + LatestMax))
     IN IF near /\ Block(Len(last)) = last
        THEN IF new = <<>> THEN Finish(task.target) ELSE Go(latest(new, FALSE, task.target))
        ELSE Go([at |-> "split", base |-> task.base, target |-> task.target])
  /\ UNCHANGED <<node, fresh, stored, persisted, handled>>

\* Variation: the head is taken to extend what was handled.
AlwaysExtends(base, newest) == FALSE
\* The handled block that is still canonical is not the last one.
IsReorg(base, newest) == newest # Len(base)

\* detect_reorg_path: what follows the newest handled block still canonical.
DetectReorgPath(base, tail) ==
  LET common == {i \in 1 .. Len(base) : Contains(tail, base[i])}
      newest == Max(common)
      ancestor == CHOOSE i \in 1 .. Len(tail) : tail[i] = base[newest]
  IN IF common = {}
     THEN [blocks |-> tail, replace |-> TRUE]
     ELSE [blocks |-> SubSeq(tail, ancestor + 1, Len(tail)), replace |-> IsReorg(base, newest)]

Split ==
  /\ task.at = "split"
  /\ LET first == Minus(Len(Last(task.base)), Depth)
         to == Len(task.target)
         end == to - Queried
         history(last, tail) == [at |-> "checkpoint", first |-> first, last |-> last,
                                 blocks |-> tail, target |-> task.target]
         path == DetectReorgPath(task.base, BlocksIn(first, to))
     IN /\ to >= first
        /\ \/ /\ to - first > Queried /\ first + HistoryMax - 1 < end
              /\ Go(history(first + HistoryMax - 1, <<>>))
           \/ /\ to - first > Queried /\ first + HistoryMax - 1 >= end
              /\ Go(history(end, BlocksIn(end + 1, AtMost(to, end + LatestMax))))
           \/ /\ to - first <= Queried
              /\ IF path.blocks = <<>> THEN Finish(task.target)
                 ELSE Go(latest(path.blocks, path.replace, task.target))
  /\ UNCHANGED <<node, fresh, stored, persisted, handled>>

Capped(all) == SubSeq(all, Minus(Len(all), Depth) + 1, Len(all))

\* What retain keeps is a prefix: the numbers of the handled blocks increase.
Retained(number) ==
  SubSeq(handled, 1, Max({0} \union {i \in 1 .. Len(handled) : Len(handled[i]) < number}))

\* update_last_handled_blocks
Advance(blocks) ==
  Capped(Retained(Len(blocks[1])) \o blocks)

Checkpoint ==
  /\ task.at = "checkpoint"
  /\ Go([at |-> "history", checkpoint |-> Block(task.last), first |-> task.first,
         blocks |-> task.blocks, target |-> task.target])
  /\ UNCHANGED <<node, fresh, stored, persisted, handled>>

UpdateOldBlocks ==
  /\ task.at = "history"
  /\ LET last == Len(task.checkpoint)
     IN /\ stored' = ReplaceEvents(EventsIn(canonical, task.first, last), task.first, last)
        /\ handled' = Advance(<<task.checkpoint>>)
        /\ Go([at |-> "persistHistory", last |-> last, blocks |-> task.blocks, target |-> task.target])
  /\ UNCHANGED <<node, fresh, persisted>>

PersistHistory ==
  /\ task.at = "persistHistory"
  /\ persisted' = task.last
  /\ Go(IF task.blocks = <<>> THEN idle ELSE latest(task.blocks, TRUE, task.target))
  /\ UNCHANGED <<node, fresh, stored, handled>>

Partial(blocks, k) == k < Len(blocks)

\* The events of the longest prefix whose reads succeeded are written.  A
\* partial update is an error: it does not reach the checkpoint.
UpdateLatestBlocks ==
  /\ task.at = "latest"
  /\ \E k \in 1 .. Len(task.blocks) :
       LET blocks == SubSeq(task.blocks, 1, k)
           last == Len(blocks[k])
       IN /\ stored' = IF task.replace
                       THEN ReplaceEvents(EventsOf(blocks), Len(blocks[1]), last)
                       ELSE AppendEvents(EventsOf(blocks))
          /\ handled' = Advance(blocks)
          /\ Go(IF Partial(task.blocks, k)
                THEN idle
                ELSE [at |-> "persistLatest", last |-> Len(Last(task.blocks)), target |-> task.target])
  /\ UNCHANGED <<node, fresh, persisted>>

\* Variation: any handled block is announced.
AlwaysUpToDate(last, target) == TRUE
UpToDate(last, target) == last >= Len(target)

PersistLatest ==
  /\ task.at = "persistLatest"
  /\ persisted' = task.last
  /\ IF UpToDate(task.last, task.target) THEN Finish(task.target) ELSE Go(idle)
  /\ UNCHANGED <<node, fresh, stored, handled>>

-----------------------------------------------------------------------------
(* update_events_deterministic, for chains whose blocks are final at once. *)

BeginFinal ==
  /\ final /\ Take
  /\ Len(tip) >= Len(Last(Base))
  /\ \/ tip = Last(Base) /\ Finish(tip)
     \/ Len(tip) > Len(Last(Base)) /\ Go([at |-> "confirm", last |-> Last(Base), target |-> tip])
  /\ UNCHANGED <<node, stored, persisted, handled>>

Confirm ==
  /\ task.at = "confirm"
  /\ Go(IF Block(Len(task.last)) = task.last
        THEN [at |-> "range", last |-> task.last, rounds |-> Rounds, target |-> task.target]
        ELSE idle)
  /\ UNCHANGED <<node, fresh, stored, persisted, handled>>

RangeEnd ==
  /\ task.at = "range"
  /\ LET end == AtMost(Len(task.target), Len(task.last) + RangeMax)
     IN Go([at |-> "fetch", last |-> task.last, rounds |-> task.rounds, target |-> task.target,
            checkpoint |-> IF end = Len(task.target) THEN task.target ELSE Block(end)])
  /\ UNCHANGED <<node, fresh, stored, persisted, handled>>

RangeStart(last) == Len(last) + 1

FetchRange ==
  /\ task.at = "fetch"
  /\ Go([at |-> "verify", checkpoint |-> task.checkpoint, rounds |-> task.rounds,
         target |-> task.target,
         events |-> EventsIn(canonical, RangeStart(task.last), Len(task.checkpoint))])
  /\ UNCHANGED <<node, fresh, stored, persisted, handled>>

VerifyRange ==
  /\ task.at = "verify"
  /\ IF Block(Len(task.checkpoint)) = task.checkpoint
     THEN /\ stored' = AppendEvents(task.events)
          /\ Go([at |-> "persistRange", checkpoint |-> task.checkpoint,
                 rounds |-> task.rounds, target |-> task.target])
     ELSE Go(idle) /\ UNCHANGED stored
  /\ UNCHANGED <<node, fresh, persisted, handled>>

PersistRange ==
  /\ task.at = "persistRange"
  /\ persisted' = Len(task.checkpoint)
  /\ handled' = <<task.checkpoint>>
  /\ IF Len(task.checkpoint) = Len(task.target) THEN Finish(task.target)
     ELSE Go(IF task.rounds = 1 THEN idle
             ELSE [at |-> "range", last |-> task.checkpoint, rounds |-> task.rounds - 1,
                   target |-> task.target])
  /\ UNCHANGED <<node, fresh, stored>>

-----------------------------------------------------------------------------
\* A call to the node or to the database fails, and `?` leaves update_events.
Fail ==
  /\ task # idle
  /\ Go(idle)
  /\ UNCHANGED <<node, fresh, stored, persisted, handled>>

\* The process stops at any point and starts again: the block stream starts at
\* the chain's head, and so does the number the maintenance task announces.
Restart ==
  /\ restarts < MaxRestarts
  /\ restarts' = restarts + 1
  /\ tip' = canonical
  /\ handled' = <<>>
  /\ task' = idle /\ fresh' = TRUE
  /\ announced' = Len(canonical)
  /\ UNCHANGED <<canonical, forks, final, stored, persisted>>

IndexInit ==
  /\ canonical = <<>> /\ forks = 0 /\ final \in BOOLEAN /\ tip = <<>>
  /\ stored = {} /\ persisted = 0 /\ handled = <<>>
  /\ fresh = TRUE /\ task = idle /\ announced = 0 /\ restarts = 0

Reorgs == CoolDown \/ Begin \/ Probe \/ Split \/ Checkpoint \/ UpdateOldBlocks \/ PersistHistory
            \/ UpdateLatestBlocks \/ PersistLatest
Final == BeginFinal \/ Confirm \/ RangeEnd \/ FetchRange \/ VerifyRange \/ PersistRange

IndexNext == Extend \/ Reorganise \/ NoticeHead \/ Reorgs \/ Final \/ Fail \/ Restart

IndexSpec == IndexInit /\ [][IndexNext]_indexVars

-----------------------------------------------------------------------------
Task ==
  \/ task = idle
  \/ task.at \in {"latest", "probe", "split", "checkpoint", "history", "persistHistory",
                  "persistLatest"} /\ ~final
  \/ task.at \in {"confirm", "range", "fetch", "verify", "persistRange"} /\ final

\* Every variable has the type the code gives it, the head and the checkpoint
\* never pass the chain, and no more blocks are remembered than can reorganise.
IndexTypeOK ==
  /\ canonical \in Blocks /\ forks \in Forks /\ final \in BOOLEAN
  /\ tip \in Blocks /\ Len(tip) <= Len(canonical)
  /\ stored \subseteq (Numbers \X Forks)
  /\ persisted \in 0 .. Len(tip)
  /\ Len(handled) <= Depth /\ \A i \in 1 .. Len(handled) : handled[i] \in Blocks
  /\ fresh \in BOOLEAN /\ Task
  /\ announced \in 0 .. Len(tip)
  /\ restarts \in 0 .. MaxRestarts

\* As long as the process runs, the database holds the events of the last
\* handled block and of its ancestors: no event is missing, and none is left of
\* a block that a reorganisation removed.  update_events moves the store and
\* last_handled_blocks together, whatever prefix of the tail could be read.
StoreFollowsHandled ==
  ~final /\ restarts = 0 /\ handled # <<>> =>
    stored = EventsIn(Last(handled), 1, Len(Last(handled)))

\* Where no block was replaced, a stop between a write and its checkpoint loses
\* nothing: the events up to last_indexed_blocks are stored, and an event is
\* stored only if its block is on the chain.
CheckpointIsStored ==
  forks = 0 => /\ EventsIn(canonical, 1, persisted) \subseteq stored
               /\ stored \subseteq EventsIn(canonical, 1, Len(canonical))

\* Checked together: what is stored and what is remembered of it.
IndexInv == IndexTypeOK /\ StoreFollowsHandled /\ CheckpointIsStored

\* A step that announces a block does so after the indexer handled that block
\* or a later one and moved its checkpoint there (the ensure! on target_block).
AnnouncesHandled ==
  [][announced' > announced /\ restarts' = restarts
       => persisted' >= announced' /\ (handled' = <<>> \/ Len(Last(handled')) >= announced')]_indexVars

\* Between updates, no event is stored for a block that the last handled block
\* does not descend from: what a reorganisation removed is replaced.
NoOrphans ==
  task = idle /\ handled # <<>> =>
    \A e \in stored : e[1] <= Len(Last(handled)) => Last(handled)[e[1]] = e[2]
=============================================================================
