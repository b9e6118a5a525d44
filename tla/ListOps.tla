------------------------------ MODULE ListOps ------------------------------
(***************************************************************************)
(* Two operators on sequences, as recursive functions of the length read   *)
(* so far, and first-order, so that SequenceFacts can prove about them.    *)
(***************************************************************************)
EXTENDS Integers, Sequences

\* The sum of a sequence of integers.
SumOf(q) ==
    LET total[n \in 0..Len(q)] == IF n = 0 THEN 0 ELSE total[n - 1] + q[n]
    IN  total[Len(q)]

\* The elements of q that are in K, in their order: SelectSeq with a set.
Only(q, K) ==
    LET kept[n \in 0..Len(q)] ==
            IF n = 0 THEN << >>
            ELSE IF q[n] \in K THEN Append(kept[n - 1], q[n]) ELSE kept[n - 1]
    IN  kept[Len(q)]
=============================================================================
