------------------------- MODULE MCArbitrationRound -------------------------
(* Instances of ArbitrationRound: b is a child of a, c is unrelated. *)
EXTENDS ArbitrationRound

CONSTANTS a, b, c

Nested == [s \in Seqs |-> IF s = b THEN a ELSE NULL]

ItemPriorities == {-1, 1}

MixedPriority == [s \in Seqs |-> CASE s = a -> 2 [] s = b -> 3 [] s = c -> 0]
=============================================================================
