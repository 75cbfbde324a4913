------------------------------ MODULE RegField ------------------------------
(***************************************************************************)
(* The access policies of a register field (uvm_reg_field): what a write   *)
(* and a read make of its value, as the model predicts it and as the       *)
(* hardware does it.  The value of a field is the set of its bits that are *)
(* 1.  Fields are narrower than an int: (1 << m_size) - 1, in the code, is *)
(* the set of all bits up to 31 of them.                                   *)
(***************************************************************************)
EXTENDS Integers

CONSTANT Bits   \* the bits of a field

Values == SUBSET Bits

ReadOnly  == {"RO", "RC", "RS"}
WriteOnly == {"WO", "WOC", "WOS", "WO1"}
Once      == {"W1", "WO1"}

ClearedByRead == {"RC", "WRC", "WSRC", "W1SRC", "W0SRC"}
SetByRead     == {"RS", "WRS", "WCRS", "W1CRS", "W0CRS"}

Policies ==
  ReadOnly \cup WriteOnly \cup Once \cup ClearedByRead \cup SetByRead \cup
  {"RW", "WC", "WS", "W1C", "W1S", "W1T", "W0C", "W0S", "W0T"}

\* get_access: the policy in a map that gives the register these rights.
get_access(m_access, rights) ==
  CASE rights = "RW" -> m_access
    [] rights = "RO" /\ m_access \in ClearedByRead -> "RC"
    [] rights = "RO" /\ m_access \in SetByRead -> "RS"
    [] rights = "RO" /\ m_access \in WriteOnly -> m_access  \* an error is reported
    [] rights = "RO" /\ m_access \notin ClearedByRead \cup SetByRead \cup WriteOnly -> "RO"
    [] rights = "WO" -> IF m_access = "RW" THEN "WO" ELSE m_access

-----------------------------------------------------------------------------
(* The model's predictions *)

Toggled(x, y) == (x \ y) \cup (y \ x)

\* Mutant of m_predict: a field that is written once takes every write.
m_predict_Always(access, cur_val, wr_val, m_written) ==
  IF access \in ReadOnly THEN cur_val ELSE wr_val

\* Mutant of m_predict: the inverted value is not masked to the field.
m_predict_Unmasked(access, cur_val, wr_val, m_written) ==
  IF access \in {"W0S", "W0SRC", "W0T"} THEN cur_val \cup (0 .. 31 \ wr_val) ELSE cur_val

m_predict(access, cur_val, wr_val, m_written) ==
  CASE access \in ReadOnly -> cur_val
    [] access \in {"RW", "WRC", "WRS", "WO"} -> wr_val
    [] access \in {"WC", "WCRS", "WOC"} -> {}
    [] access \in {"WS", "WSRC", "WOS"} -> Bits
    [] access \in {"W1C", "W1CRS"} -> cur_val \ wr_val
    [] access \in {"W1S", "W1SRC"} -> cur_val \cup wr_val
    [] access = "W1T" -> Toggled(cur_val, wr_val)
    [] access \in {"W0C", "W0CRS"} -> cur_val \cap wr_val
    [] access \in {"W0S", "W0SRC"} -> cur_val \cup (Bits \ wr_val)
    [] access = "W0T" -> Toggled(cur_val, Bits \ wr_val)
    [] access \in Once -> IF m_written THEN cur_val ELSE wr_val

\* Mutant of PredictRead: a field that the read sets keeps what was read.
PredictRead_Unset(access, cur_val, rd_val) ==
  IF access \in ClearedByRead THEN {} ELSE rd_val

\* do_predict with UVM_PREDICT_READ, rd_val having been read on the bus.
PredictRead(access, cur_val, rd_val) ==
  CASE access \in ClearedByRead -> {}
    [] access \in SetByRead -> Bits
    [] access \in WriteOnly -> cur_val
    [] access \notin ClearedByRead \cup SetByRead \cup WriteOnly -> rd_val

\* set and m_update go through the policies and then, by their last line, take
\* the value as it is.
set(m_access, m_desired, value) == value

m_update(m_access, m_desired, m_mirrored) == m_desired

\* Mutant of value_adjust: the neighbours are written as zeros.
value_adjust_Zero(access, m_mirrored) == {}

\* What a write of another field of the register writes to this one: its mirror
\* is or'ed in for every policy.
value_adjust(access, m_mirrored) ==
  IF access \in {"W0C", "W0S", "W0T", "W0SRC", "W0CRS"} THEN Bits ELSE m_mirrored

-----------------------------------------------------------------------------
(* The hardware, bit by bit: the table of the predefined policies *)

\* Is a bit that is cur set after x was written to it? once: was it written before?
BitAfterWrite(access, cur, x, once) ==
  \/ access \in ReadOnly /\ cur
  \/ access \in {"RW", "WRC", "WRS", "WO"} /\ x
  \/ access \in {"WS", "WSRC", "WOS"}
  \/ access \in {"W1C", "W1CRS"} /\ cur /\ ~x
  \/ access \in {"W1S", "W1SRC"} /\ (cur \/ x)
  \/ access = "W1T" /\ cur # x
  \/ access \in {"W0C", "W0CRS"} /\ cur /\ x
  \/ access \in {"W0S", "W0SRC"} /\ (cur \/ ~x)
  \/ access = "W0T" /\ cur = x
  \/ access \in Once /\ (IF once THEN cur ELSE x)

HwWrite(access, cur, value, once) ==
  {b \in Bits : BitAfterWrite(access, b \in cur, b \in value, once)}

HwRead(access, cur) ==
  CASE access \in ClearedByRead -> {}
    [] access \in SetByRead -> Bits
    [] access \notin ClearedByRead \cup SetByRead -> cur

=============================================================================
