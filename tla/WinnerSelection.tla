--------------------------- MODULE WinnerSelection -------------------------
(***************************************************************************)
(* The arbitration of one auction: solutions are scored per directed token *)
(* pair, those that treat a pair unfairly are filtered out, winners with   *)
(* disjoint pairs are picked by score, and each winning solver gets a      *)
(* reference score.                                                        *)
(*                                                                         *)
(* A solution gives each pair it trades a score, NoScore when none of the  *)
(* orders on it contributes to the score (orders the solver brought), or   *)
(* Invalid when the score cannot be computed.  How an order's surplus and  *)
(* fees become its score is not modelled.                                  *)
(***************************************************************************)
EXTENDS Integers, Sequences, FiniteSets, SequencesExt, FiniteSetsExt, Functions

CONSTANTS
    Solver, Pair,
    NoScore, Invalid,
    max_winners,
    PairScore,                   \* the scores a pair may have, the two above included
    MaxSolutions,                \* a bound
    Wrappings                    \* what as_erc20 may make of the pairs

ASSUME SelectionAssumption ==
    /\ IsFiniteSet(Solver) /\ IsFiniteSet(Pair)
    /\ {NoScore, Invalid} \cap Int = {} /\ NoScore # Invalid
    /\ max_winners \in Nat \ {0} /\ PairScore \subseteq Nat \cup {NoScore, Invalid} /\ MaxSolutions \in Nat
    /\ Wrappings \subseteq [Pair -> Pair]

Trades == UNION {[P -> PairScore] : P \in SUBSET Pair \ {{}}}
Solution == [solver : Solver, trades : Trades]

VARIABLES
    phase,
    wrapped,            \* Pair -> the pair with the native token as its wrapper
    solutions,          \* what the drivers proposed, in order
    filtered_out,       \* solutions found unfair
    ranked,             \* the fair ones, [solution, winner], best first
    reference_scores    \* solver -> score

selectionVars == <<phase, wrapped, solutions, filtered_out, ranked, reference_scores>>

SelectionInit ==
    /\ phase = "bidding" /\ wrapped \in Wrappings
    /\ solutions = <<>> /\ filtered_out = {} /\ ranked = <<>> /\ reference_scores = <<>>

-----------------------------------------------------------------------------
(* Scores *)

IsScored(s) == \A p \in DOMAIN s.trades : s.trades[p] # Invalid

\* score_by_token_pair: only pairs with a contributing order have an entry.
Scores(s) == Restrict(s.trades, {p \in DOMAIN s.trades : s.trades[p] # NoScore})

Score(s) == SumFunctionOnSet(Scores(s), DOMAIN Scores(s))

\* The indices in S sorted by Reverse(key): sort_by_key leaves equal keys in their order.
SortByKey(S, key) ==
    LET Before(i, j) == key[i] > key[j] \/ (key[i] = key[j] /\ i < j) IN
    CHOOSE f \in [1..Cardinality(S) -> S] : \A m, n \in 1..Cardinality(S) : m < n => Before(f[m], f[n])

\* The elements of a sequence at these indices.
Pick(seq, f) == [n \in DOMAIN f |-> seq[f[n]]]

-----------------------------------------------------------------------------
(* Fairness *)

\* The best score each solver reaches on p alone, 0 for none.
BestAlone(all, p, solver) ==
    Max({0} \cup {Scores(s)[p] : s \in {t \in all : t.solver = solver /\ DOMAIN Scores(t) = {p}}})

\* The second best of at least two solvers with a score, or none (-1).
Baseline(all, p) ==
    LET scoring == {solver \in Solver : BestAlone(all, p, solver) > 0} IN
    IF Cardinality(scoring) < 2 THEN -1
    ELSE Max({Min({BestAlone(all, p, solver) : solver \in two}) : two \in kSubset(2, scoring)})

IsFair(all, s) ==
    LET scores == Scores(s) IN
    \/ Cardinality(DOMAIN scores) = 1
    \/ \A p \in DOMAIN scores : scores[p] >= Baseline(all, p)

-----------------------------------------------------------------------------
(* Winners *)

Pairs(s) == {wrapped[p] : p \in DOMAIN s.trades}

\* Variation: what a winner trades is known by its scores.
PickWinnersScored(seq) ==
    CHOOSE won \in SUBSET DOMAIN seq : \A i \in DOMAIN seq :
        LET before == {j \in won : j < i} IN
        i \in won <=> /\ Cardinality(before) < max_winners
                     /\ \A j \in before : DOMAIN Scores(seq[i]) \cap DOMAIN Scores(seq[j]) = {}

\* One by one, each that trades no pair of a winner before it, max_winners at most.
PickWinners(seq) ==
    CHOOSE won \in SUBSET DOMAIN seq : \A i \in DOMAIN seq :
        LET before == {j \in won : j < i} IN
        i \in won <=> /\ Cardinality(before) < max_winners
                     /\ \A j \in before : Pairs(seq[i]) \cap Pairs(seq[j]) = {}

\* The score of what wins in a sequence.
TotalScore(seq) == SumFunctionOnSet([i \in DOMAIN seq |-> Score(seq[i])], PickWinners(seq))

-----------------------------------------------------------------------------
Bid ==
    /\ phase = "bidding" /\ Len(solutions) < MaxSolutions
    /\ \E s \in Solution : solutions' = Append(solutions, s)
    /\ UNCHANGED <<phase, wrapped, filtered_out, ranked, reference_scores>>

Fair(seq) ==
    LET scored == {s \in ToSet(seq) : IsScored(s)}
        fair == {i \in DOMAIN seq : seq[i] \in scored /\ IsFair(scored, seq[i])} IN
    Pick(seq, SortByKey(fair, [i \in fair |-> Score(seq[i])]))

Discarded(seq, kept) == {s \in ToSet(seq) : IsScored(s)} \ ToSet(kept)

\* mark_winners and the sort: winners first, then by score, in which order they are.
Ranked(kept) ==
    LET winners == PickWinners(kept) IN
    Pick([i \in DOMAIN kept |-> [solution |-> kept[i], winner |-> i \in winners]],
       SortByKey(DOMAIN kept, [i \in DOMAIN kept |-> IF i \in winners THEN 1 ELSE 0]))

\* partition_unfair_solutions, then the ranking of what is kept.
Arbitrate ==
    /\ phase = "bidding"
    /\ ranked' = Ranked(Fair(solutions))
    /\ filtered_out' = Discarded(solutions, Fair(solutions))
    /\ phase' = "ranked"
    /\ UNCHANGED <<wrapped, solutions, reference_scores>>

Without(seq, solver) ==
    LET others == {i \in DOMAIN seq : seq[i].solver # solver} IN
    Pick(seq, SortByKey(others, [i \in others |-> 0]))

\* Variation: only the solver's winning solution is left out.
ReferenceWinnersOnly(solver) ==
    LET others == {i \in DOMAIN ranked : ~(ranked[i].winner /\ ranked[i].solution.solver = solver)} IN
    TotalScore(Pick([i \in DOMAIN ranked |-> ranked[i].solution], SortByKey(others, [i \in others |-> 0])))

Reference(solver) == TotalScore(Without([i \in DOMAIN ranked |-> ranked[i].solution], solver))

ComputeReferenceScores ==
    /\ phase = "ranked"
    /\ LET winning == {ranked[i].solution.solver : i \in {j \in DOMAIN ranked : ranked[j].winner}} IN
       reference_scores' = [solver \in winning |-> Reference(solver)]
    /\ phase' = "done"
    /\ UNCHANGED <<wrapped, solutions, filtered_out, ranked>>

SelectionNext == Bid \/ Arbitrate \/ ComputeReferenceScores

SelectionSpec == SelectionInit /\ [][SelectionNext]_selectionVars

-----------------------------------------------------------------------------
(* Properties *)

SelectionTypeOK ==
    /\ phase \in {"bidding", "ranked", "done"}
    /\ solutions \in Seq(Solution) /\ filtered_out \subseteq ToSet(solutions)
    /\ \A i \in DOMAIN ranked : ranked[i].solution \in ToSet(solutions) \ filtered_out
    /\ DOMAIN reference_scores \subseteq Solver

Winners == {i \in DOMAIN ranked : ranked[i].winner}
Overlap(i, j) == Pairs(ranked[i].solution) \cap Pairs(ranked[j].solution) # {}

(* Uniform directional clearing prices: no two winners trade the same pair,*)
(* native and wrapped token being one, and every other fair solution lost  *)
(* to winners with at least its score, on one of its pairs or by number.   *)
WinnersAreJustified ==
    /\ Cardinality(Winners) <= max_winners
    /\ \A i, j \in Winners : i # j => ~Overlap(i, j)
    /\ phase # "bidding" => \A i \in DOMAIN ranked \ Winners :
         LET better == {j \in Winners : Score(ranked[j].solution) >= Score(ranked[i].solution)} IN
         Cardinality(better) = max_winners \/ \E j \in better : Overlap(i, j)

Beats(t, s, p) == IsScored(t) /\ DOMAIN Scores(t) = {p} /\ Scores(t)[p] > Scores(s)[p]

(* A solution is filtered out exactly when two different solvers each beat *)
(* it on one of its pairs with a solution for that pair alone: one solver  *)
(* cannot have the others' solutions removed.                              *)
FilteredByTwo ==
    phase # "bidding" => \A s \in {t \in ToSet(solutions) : IsScored(t)} :
        s \in filtered_out <=>
            /\ Cardinality(DOMAIN Scores(s)) > 1
            /\ \E p \in DOMAIN Scores(s), t, u \in ToSet(solutions) :
                  Beats(t, s, p) /\ Beats(u, s, p) /\ t.solver # u.solver

(* Checked together: the filter, the ranking and its winners.              *)
SelectionInv == SelectionTypeOK /\ WinnersAreJustified /\ FilteredByTwo

(* A reference score is the total of an outcome that was possible without  *)
(* the solver: fair solutions of others with disjoint pairs, no more than  *)
(* max_winners, to which none could be added.                              *)
ReferenceIsAnOutcome ==
    \A solver \in DOMAIN reference_scores :
        LET others == {i \in DOMAIN ranked : ranked[i].solution.solver # solver}
            Possible(W) == /\ Cardinality(W) <= max_winners
                           /\ \A i, j \in W : i # j => ~Overlap(i, j) IN
        \E W \in SUBSET others :
            /\ Possible(W) /\ \A i \in others \ W : ~Possible(W \cup {i})
            /\ reference_scores[solver] =
                   SumFunctionOnSet([i \in others |-> Score(ranked[i].solution)], W)

(* The documentation of the reference score: "the total score of all       *)
(* winning solutions if the solver S had not participated".                *)
ReferenceWithoutSolver ==
    \A solver \in DOMAIN reference_scores :
        reference_scores[solver] = TotalScore(Fair(Without(solutions, solver)))
=============================================================================
