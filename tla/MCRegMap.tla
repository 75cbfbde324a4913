------------------------------ MODULE MCRegMap ------------------------------
(* Instances of RegMap for TLC: registers that can be read, written, or both,
   in the two maps, and a memory in each map. *)
EXTENDS RegMap

CONSTANTS status, command, command2, control, data, ram, buffer

FieldPolicies ==
  [r \in Regs |-> CASE r = status -> {"RO", "RC"} [] r \in {control, data} -> {"RW"}
                    [] r \in {command, command2} -> {"WO"}]
Sizes     == [m \in Mems |-> 2]
Homes     == [e \in Elements |-> IF e \in {data, buffer} THEN "sub" ELSE "top"]
InOrder   == SelectSeq(<<command, status, control, data, command2, ram, buffer>>,
                       LAMBDA e : e \in Elements)

=============================================================================
