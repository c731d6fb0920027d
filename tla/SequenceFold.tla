---------------------------- MODULE SequenceFold ----------------------------
(***************************************************************************)
(* FoldLeft of SequencesExt, without the sets of indices.                  *)
(***************************************************************************)
EXTENDS Integers, Sequences

Fold(op(_, _), base, s) ==
    LET upto[i \in 0..Len(s)] == IF i = 0 THEN base ELSE op(upto[i - 1], s[i])
    IN  upto[Len(s)]
=============================================================================
