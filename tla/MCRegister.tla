----------------------------- MODULE MCRegister -----------------------------
(* A register with a field of each policy beside a read-write field, and two
   processes.  A field has one bit: no policy looks at two bits of a field. *)
EXTENDS Register, TLC

CONSTANTS f, g

Value(x, y) == [h \in Fields |-> IF h = f THEN x ELSE y]

Written     == {Value({0}, {}), Value({0}, {0}), Value({}, {0})}
ResetValues == [HARD |-> Value({0}, {}), SOFT |-> Value({}, {0})]

Setup(policy, r, o) == [m_access |-> Value(policy, "RW"), rights |-> r, ops |-> o]

\* One access at a time, with each thing that may happen beside.
Sequential ==
  {Setup(policy, "RW", {o}) : o \in {"set", "kill", "change", "fail"},
     policy \in {"RO", "RW", "WRC", "WCRS", "WS", "W1C", "W1T", "W0S", "W0T",
                 "W1SRC", "WO", "WO1", "W1"}}
  \cup {Setup(policy, "RW", {"backdoor_read"}) : policy \in {"RO", "W1C", "W1"}}
  \cup {Setup(policy, "RO", {}) : policy \in {"RW", "W1SRC", "W0CRS", "W1"}}
  \cup {Setup(policy, "WO", {}) : policy \in {"RW", "WO"}}

\* Accesses at any time, too.
Overlapping == {Setup("W1SRC", "RW", {"overlap"})}
AllSetups   == Sequential \cup Overlapping

Symmetric == Permutations(Procs)

=============================================================================
