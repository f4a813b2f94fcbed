-------------------------------- MODULE Lists --------------------------------
(***************************************************************************)
(* What the code does with arrays, in terms of which the proofs have the   *)
(* definitions: folds over sequences, and choices.                         *)
(***************************************************************************)
EXTENDS Naturals, FiniteSets, Sequences, SequencesExt

(* The elements of s that are in S, in their order.                        *)
Only(s, S) == FoldLeft(LAMBDA kept, x : IF x \in S THEN Append(kept, x) ELSE kept, <<>>, s)

(* The elements of a finite set, sorted; the pairs of before are those in  *)
(* which the first comes before the second.                                *)
Sorted(S, before) ==
    [k \in 1..Cardinality(S) |->
        CHOOSE x \in S : Cardinality({y \in S : <<y, x>> \in before}) = k - 1]
=============================================================================
