---------------------------- MODULE MCObjection ----------------------------
(* Instances of Objection for TLC: two components x and y. *)
EXTENDS Objection

CONSTANTS env, x, y

\* Both below an env.
Tree == [o \in Objs |-> CASE o = top -> NULL [] o = env -> top [] OTHER -> env]

\* Both below the root.
Flat == [o \in Objs |-> IF o = top THEN NULL ELSE top]

=============================================================================
