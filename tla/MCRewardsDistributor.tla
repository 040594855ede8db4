------------------------ MODULE MCRewardsDistributor ------------------------
(***************************************************************************)
(* Two wallets, two keys, one prize of each kind and one replacement of    *)
(* the signer.  Prizes of 1 and 2 tokens let funding fall short of either. *)
(***************************************************************************)
EXTENDS RewardsDistributor, TLC

Symmetry == Permutations(Account) \union Permutations(Signer)
=============================================================================
