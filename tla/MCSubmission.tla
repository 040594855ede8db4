---------------------------- MODULE MCSubmission ----------------------------
(***************************************************************************)
(* Lanes that share one signing account; one mempool mines reverts, the    *)
(* other is private.  One settlement with a failure among two mempools;    *)
(* two settlements with a failure in each mempool; and two settlements     *)
(* that want the signer at the same deadline, in both.                     *)
(***************************************************************************)
EXTENDS Submission, TLC

CONSTANTS t1, t2, eoa, public, private

MCsigner == [t \in Task |-> eoa]

Both == [t \in Task |-> 1]
Apart == t1 :> 1 @@ t2 :> 2
Late == [t \in Task |-> 2]

MCSetups ==
    {[mempools |-> {public, private}, tasks |-> {t1}, deadline |-> Late, faults |-> 1],
     [mempools |-> {public, private}, tasks |-> {t2}, deadline |-> Both, faults |-> 0],
     [mempools |-> {public}, tasks |-> {t1, t2}, deadline |-> Apart, faults |-> 1],
     [mempools |-> {private}, tasks |-> {t1, t2}, deadline |-> Late, faults |-> 1],
     [mempools |-> {public, private}, tasks |-> {t1, t2}, deadline |-> Both, faults |-> 0]}
=============================================================================
