------------------------------ MODULE SeqFilter ------------------------------
(***************************************************************************)
(* What is left of a sequence when the elements outside of a set are       *)
(* removed: SelectSeq with a set for its test.                             *)
(***************************************************************************)
EXTENDS Naturals, Sequences

Kept(s, T) ==
  LET kept[i \in 0 .. Len(s)] ==
        IF i = 0 THEN <<>>
        ELSE IF s[i] \in T THEN Append(kept[i - 1], s[i]) ELSE kept[i - 1]
  IN kept[Len(s)]
=============================================================================
