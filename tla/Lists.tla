-------------------------------- MODULE Lists --------------------------------
(***************************************************************************)
(* What the code does with slices wherever it keeps some of their          *)
(* elements: a loop that appends those, or a deletion of the others.       *)
(***************************************************************************)
EXTENDS Integers, Sequences, SequencesExt

(* The elements of a sequence that are in a set, in their order.           *)
Keep(seq, kept) ==
    FoldLeft(LAMBDA rest, x : IF x \in kept THEN Append(rest, x) ELSE rest, <<>>, seq)
=============================================================================
