-------------------------- MODULE MCEventIndexing --------------------------
(***************************************************************************)
(* Small instances of EventIndexing.  Depth 2 and Queried 4 keep the ratio *)
(* of the code, 64 and 128, and HistoryMax exceeds Depth.  A chain of 8    *)
(* blocks with two reorganisations reaches every branch of                 *)
(* event_block_range: the fast path, the probe that finds the last handled *)
(* block orphaned, the common ancestor, the full tail, and history in one  *)
(* and in several parts.  RangeMax 2 does the same for the mode in which a *)
(* block is final when it is announced, which Init chooses freely.         *)
(***************************************************************************)
EXTENDS EventIndexing
=============================================================================
