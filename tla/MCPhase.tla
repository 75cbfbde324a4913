------------------------------ MODULE MCPhase ------------------------------
(* Instances of Phase for TLC: the schedule of a domain has two phases in    *)
(* series and one beside them that is synchronised with the second.          *)
EXTENDS Phase

CONSTANTS sos, uvm, pre, main, other, uvm_end, extract, end

Graph == [p \in Phases |->
  CASE p = sos -> {uvm} [] p = uvm -> {pre, other} [] p = pre -> {main}
    [] p \in {main, other} -> {uvm_end} [] p = uvm_end -> {extract}
    [] p = extract -> {end} [] p = end -> {}]
Kinds == [p \in Phases |-> IF p \in {sos, extract} THEN "function"
                           ELSE IF p \in {uvm, uvm_end, end} THEN "link" ELSE "process"]
Synced == [p \in Phases |->
  CASE p = main -> {other} [] p = other -> {main} [] OTHER -> {}]
Addresses == <<sos, uvm, pre, main, other, uvm_end, extract, end>>

\* The first phase may be restarted, and left for the end of the test; the
\* domain may be sent to the end of the test.
Jumps == [p \in Phases |-> CASE p = pre -> {pre, extract} [] p = uvm -> {extract}
                             [] OTHER -> {}]

=============================================================================
