---------------------------- MODULE MCSequencer ----------------------------
(* Instances of Sequencer for TLC: the families of sequences and priorities. *)
EXTENDS Sequencer, TLC

CONSTANTS a, b, c

\* Unrelated sequences.
Flat == [s \in Seqs |-> NULL]

\* b is a child of a, c is unrelated.
Nested == [s \in Seqs |-> IF s = b THEN a ELSE NULL]

EqualPriority == [s \in Seqs |-> 100]

\* b is more important than the others.
BFirst == [s \in Seqs |-> IF s = b THEN 200 ELSE 100]

\* Unrelated sequences of equal priority are interchangeable.
Symmetry == Permutations(Seqs)

=============================================================================
