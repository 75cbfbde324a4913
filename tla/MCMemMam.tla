------------------------------ MODULE MCMemMam ------------------------------
(* Instances of MemMam for TLC: address ranges of a few locations. *)
EXTENDS MemMam

\* One address space and two smaller ones to reconfigure it to.
Spaces == {[start |-> 0, end |-> 5], [start |-> 1, end |-> 4], [start |-> 2, end |-> 5]}

Addresses == Permutations(Ptrs)

=============================================================================
