------------------------------ MODULE Register ------------------------------
(***************************************************************************)
(* A register (uvm_reg) with its fields, the register of the design that   *)
(* it mirrors, and the processes of the testbench that access it.  The     *)
(* register is mapped in one address map, whose bus is as wide as the      *)
(* register: an access takes one bus transfer, which may fail, and the     *)
(* process waits for it.  Backdoor accesses take no time.                  *)
(*                                                                         *)
(* m_atomic is a mutex of the operating system, while the processes are    *)
(* coroutines of one thread: a process that finds it locked stops them all *)
(* (halted = "blocked").                                                   *)
(***************************************************************************)
EXTENDS RegField, FiniteSets

CONSTANTS Procs,     \* the processes
          Fields,    \* the fields of the register
          NULL,
          Data,      \* bound: register values that are written
          Resets,    \* the kinds of reset, each with its value
          Setups     \* the policies of the fields, the rights of the register and
                     \* what may happen in a behaviour, apart from accesses

AllOps == {"overlap", "set", "kill", "change", "fail", "backdoor_read"}

VARIABLES m_access,     \* the policy of each field
          rights,       \* the rights of the register in its map
          auto_predict, \* does the map predict, or a uvm_reg_predictor?
          ops,          \* what may happen in this behaviour
          m_mirrored, m_desired, m_written,
          m_atomic,     \* is the mutex locked?
          m_process,    \* the process that locked it last
          m_is_busy,
          access,       \* what each process is doing
          hw,           \* the register of the design
          hw_written,   \* its write-once fields that were written since the hard reset
          suspect,      \* fields that changed by themselves or by a failed access
          wanted,       \* what a write instead of the last set would have left
          halted

fields == <<m_mirrored, m_desired, m_written>>
lock   == <<m_atomic, m_process>>
design == <<hw, hw_written>>
config == <<m_access, rights, auto_predict, ops>>
vars   == <<config, fields, lock, m_is_busy, access, design, suspect, wanted, halted>>

RegValues == [Fields -> Values]

ASSUME RegisterAssumption ==
  /\ NULL \notin Procs \cup RegValues
  /\ Data \subseteq RegValues
  /\ Resets \in [DOMAIN Resets -> RegValues] /\ "HARD" \in DOMAIN Resets
  /\ Setups \subseteq [m_access : [Fields -> Policies], rights : {"RW", "RO", "WO"},
                       ops : SUBSET AllOps]

\* Backdoor reads are made of fields that a read does not change and that can be
\* read: of others the backdoor predicts what it should not.
ASSUME BackdoorAssumption ==
  \A setup \in Setups, f \in Fields :
    "backdoor_read" \in setup.ops =>
      setup.m_access[f] \notin ClearedByRead \cup SetByRead \cup WriteOnly

Zero == [f \in Fields |-> {}]
Idle == [kind |-> "none", fields |-> {}, meant |-> {}, value |-> Zero, exp |-> Zero,
         stage |-> "none"]

Accesses ==
  [kind : {"none", "write", "read", "mirror"}, fields : SUBSET Fields, meant : SUBSET Fields,
   value : RegValues, exp : RegValues, stage : {"none", "bus", "back", "failed"}]

Access(f) == get_access(m_access[f], rights)

Init ==
  /\ \E setup \in Setups : /\ m_access = setup.m_access /\ rights = setup.rights
                            /\ ops = setup.ops
  /\ auto_predict \in BOOLEAN
  /\ m_mirrored = Resets.HARD /\ m_desired = Resets.HARD
  /\ m_written = [f \in Fields |-> FALSE]
  /\ m_atomic = FALSE /\ m_process = NULL /\ m_is_busy = FALSE
  /\ access = [p \in Procs |-> Idle]
  /\ hw = Resets.HARD /\ hw_written = [f \in Fields |-> FALSE]
  /\ suspect = {} /\ wanted = NULL
  /\ halted = "no"

-----------------------------------------------------------------------------
(* The lock *)

\* m_atomic_check_lock(true) returns at once to the process that locked last,
\* even if that was in an earlier access.
Enters(p) == m_process = p \/ ~m_atomic

Lock(p) ==
  /\ m_atomic' = (m_atomic \/ m_process # p)
  /\ m_process' = p

\* m_atomic_check_lock(false): whoever has locked it.
Unlock == m_atomic' = FALSE /\ UNCHANGED m_process

Quiet == \A p \in Procs : access[p] = Idle

\* Without "overlap" the testbench makes one access at a time, and a reset after
\* it has killed a process in its access.
MayStart(p) == /\ halted = "no" /\ access[p] = Idle
               /\ Quiet \/ "overlap" \in ops

\* An access whose process cannot take the lock.
Block(p) ==
  /\ MayStart(p) /\ ~Enters(p)
  /\ halted' = "blocked"
  /\ UNCHANGED <<config, fields, lock, m_is_busy, access, design, suspect, wanted>>

-----------------------------------------------------------------------------
(* Accesses through the map *)

\* The transfer of the fields fs is requested, for the sake of those meant.
Request(p, kind, fs, meant, value) ==
  /\ MayStart(p) /\ Enters(p)
  /\ Lock(p) /\ m_is_busy' = TRUE
  /\ access' = [access EXCEPT ![p] =
       [kind |-> kind, fields |-> fs, meant |-> meant, value |-> value,
        exp |-> IF kind = "mirror" THEN m_mirrored ELSE Zero, stage |-> "bus"]]
  /\ UNCHANGED <<config, m_mirrored, m_written, design, suspect, halted>>

\* write sets the desired value before the access.
write(p, value) ==
  /\ Request(p, "write", Fields, Fields, value)
  /\ m_desired' = [f \in Fields |-> set(m_access[f], m_desired[f], value[f])]
  /\ wanted' = NULL

needs_update == \E f \in Fields : m_mirrored[f] # m_desired[f]

\* update writes what m_update says; the set it completes is remembered.
update(p) ==
  LET value == [f \in Fields |-> m_update(m_access[f], m_desired[f], m_mirrored[f])] IN
  /\ needs_update
  /\ Request(p, "write", Fields, Fields, value)
  /\ m_desired' = [f \in Fields |-> set(m_access[f], m_desired[f], value[f])]
  /\ UNCHANGED wanted

\* write of field f: the bus enables the bytes of f alone, or the other fields
\* are written as well.
field_write(p, f, value, individually) ==
  LET adjusted == [g \in Fields |-> IF g = f THEN value
                                    ELSE value_adjust(Access(g), m_mirrored[g])]
  IN  /\ Request(p, "write", IF individually THEN {f} ELSE Fields, {f}, adjusted)
      /\ wanted' = NULL
      /\ UNCHANGED m_desired

\* read, or mirror with UVM_CHECK, which remembers the mirror before it reads.
read(p, kind, fs) ==
  /\ Request(p, kind, fs, fs, Zero)
  /\ wanted' = NULL
  /\ UNCHANGED m_desired

\* do_predict for the fields of an access.
Predict(kind, fs, value) ==
  LET after == [f \in Fields |->
        IF f \notin fs THEN m_mirrored[f]
        ELSE IF kind = "write" THEN m_predict(Access(f), m_mirrored[f], value[f], m_written[f])
        ELSE PredictRead(Access(f), m_mirrored[f], value[f])]
      kept(f) == f \notin fs \/ (kind # "write" /\ Access(f) \in WriteOnly)
  IN  /\ m_mirrored' = after
      /\ m_desired' = [f \in Fields |-> IF kept(f) THEN m_desired[f] ELSE after[f]]
      /\ m_written' = [f \in Fields |-> m_written[f] \/ (kind = "write" /\ f \in fs)]

\* The transfer of p takes place, and a uvm_reg_predictor sees it on the bus.
Transferred(p, value, stage) ==
  /\ access' = [access EXCEPT ![p] = [@ EXCEPT !.value = value, !.stage = stage]]
  /\ IF auto_predict THEN UNCHANGED fields
     ELSE Predict(access[p].kind, access[p].fields, value)
  /\ UNCHANGED <<config, lock, m_is_busy, wanted, halted>>

\* A field that takes one write, of which model and design disagree whether it
\* was (a poke counts for the model only), is not predicted well.
Disagree == {f \in Fields : Access(f) \in Once /\ m_written[f] # hw_written[f]}

BusWrite(p) ==
  LET fs == access[p].fields IN
  /\ halted = "no" /\ access[p].stage = "bus" /\ access[p].kind = "write"
  /\ Transferred(p, access[p].value, "back")
  /\ hw' = [f \in Fields |->
       IF f \in fs THEN HwWrite(Access(f), hw[f], access[p].value[f], hw_written[f])
       ELSE hw[f]]
  /\ hw_written' = [f \in Fields |-> hw_written[f] \/ (f \in fs /\ Access(f) \in Once)]
  /\ suspect' = suspect \cup Disagree

\* A write-only field reads as zero. What was read is right again in the mirror.
BusRead(p) ==
  LET fs == access[p].fields IN
  /\ halted = "no" /\ access[p].stage = "bus" /\ access[p].kind # "write"
  /\ Transferred(p, [f \in Fields |->
       IF f \in fs /\ Access(f) \notin WriteOnly THEN hw[f] ELSE {}], "back")
  /\ hw' = [f \in Fields |-> IF f \in fs THEN HwRead(Access(f), hw[f]) ELSE hw[f]]
  /\ suspect' = suspect \ {f \in fs : Access(f) \notin WriteOnly}
  /\ UNCHANGED hw_written

\* The transfer fails and does nothing; the prediction is made all the same.
BusFail(p) ==
  /\ "fail" \in ops /\ halted = "no" /\ access[p].stage = "bus"
  /\ Transferred(p, IF access[p].kind = "write" THEN access[p].value ELSE Zero, "failed")
  /\ suspect' = suspect \cup access[p].fields
  /\ UNCHANGED design

\* Mutant of Finish: the lock is kept.
Finish_Locked(p) ==
  /\ halted = "no" /\ access[p].stage \in {"back", "failed"}
  /\ access' = [access EXCEPT ![p] = Idle] /\ m_is_busy' = FALSE
  /\ IF auto_predict THEN Predict(access[p].kind, access[p].fields, access[p].value)
     ELSE UNCHANGED fields
  /\ UNCHANGED <<config, lock, design, suspect, wanted, halted>>

\* The process goes on after its transfer.
Finish(p) ==
  /\ halted = "no" /\ access[p].stage \in {"back", "failed"}
  /\ access' = [access EXCEPT ![p] = Idle] /\ m_is_busy' = FALSE
  /\ IF auto_predict THEN Predict(access[p].kind, access[p].fields, access[p].value)
     ELSE UNCHANGED fields
  /\ Unlock
  /\ UNCHANGED <<config, design, suspect, wanted, halted>>

-----------------------------------------------------------------------------
(* Accesses through the backdoor *)

Backdoor(p) ==
  /\ MayStart(p) /\ Enters(p)
  /\ m_process' = p /\ m_atomic' = FALSE
  /\ wanted' = NULL
  /\ UNCHANGED <<config, m_is_busy, access, hw_written, halted>>

\* What was found or left in the design is predicted as it is.
Deposited(value) == m_mirrored' = value /\ m_desired' = value

poke(p, value) ==
  /\ Backdoor(p) /\ Deposited(value)
  /\ hw' = value /\ suspect' = {}
  /\ m_written' = [f \in Fields |-> TRUE]

\* Peeks, changes one field and pokes.
field_poke(p, f, value) == poke(p, [hw EXCEPT ![f] = value])

peek(p) ==
  /\ Backdoor(p) /\ Deposited(hw)
  /\ suspect' = {}
  /\ UNCHANGED <<hw, m_written>>

\* write with UVM_BACKDOOR mimics a write through the map.
backdoor_write(p, value) ==
  poke(p, [f \in Fields |-> m_predict(Access(f), hw[f], value[f], m_written[f])])

\* read with UVM_BACKDOOR mimics a read, but the value it predicts is the one
\* from before its effect.
backdoor_read(p) ==
  /\ "backdoor_read" \in ops
  /\ Backdoor(p)
  /\ Deposited([f \in Fields |-> IF m_access[f] \in WriteOnly THEN {} ELSE hw[f]])
  /\ hw' = [f \in Fields |-> HwRead(m_access[f], hw[f])]
  /\ suspect' = {}
  /\ UNCHANGED m_written

-----------------------------------------------------------------------------
(* Without the design, and the design without the model *)

\* set of the register or of a field: a warning while the register is busy.
set_desired(value) ==
  /\ "set" \in ops /\ halted = "no" /\ Quiet /\ ~needs_update
  /\ m_desired' = [f \in Fields |-> set(m_access[f], m_desired[f], value[f])]
  /\ wanted' = [f \in Fields |-> HwWrite(Access(f), hw[f], value[f], hw_written[f])]
  /\ UNCHANGED <<config, m_mirrored, m_written, lock, m_is_busy, access, design,
                 suspect, halted>>

\* reset, together with the reset of the design. It unlocks, but does not end
\* that the register is busy.
reset(kind) ==
  /\ halted = "no" /\ Quiet
  /\ m_mirrored' = Resets[kind] /\ m_desired' = Resets[kind] /\ hw' = Resets[kind]
  /\ m_written' = [f \in Fields |-> m_written[f] /\ kind # "HARD"]
  /\ hw_written' = [f \in Fields |-> hw_written[f] /\ kind # "HARD"]
  /\ Unlock
  /\ suspect' = {} /\ wanted' = NULL
  /\ UNCHANGED <<config, m_is_busy, access, halted>>

\* A process is killed in its access, and the testbench resets the register.
Kill(p) ==
  /\ "kill" \in ops /\ halted = "no" /\ access[p] # Idle
  /\ access' = [access EXCEPT ![p] = Idle]
  /\ m_mirrored' = Resets.HARD /\ m_desired' = Resets.HARD /\ hw' = Resets.HARD
  /\ m_written' = [f \in Fields |-> FALSE] /\ hw_written' = [f \in Fields |-> FALSE]
  /\ Unlock
  /\ suspect' = {} /\ wanted' = NULL
  /\ UNCHANGED <<config, m_is_busy, halted>>

\* The design changes a field by itself.
Change(f) ==
  /\ "change" \in ops /\ halted = "no" /\ f \notin suspect
  /\ \E value \in Values \ {hw[f]} : hw' = [hw EXCEPT ![f] = value]
  /\ suspect' = suspect \cup {f} /\ wanted' = NULL
  /\ UNCHANGED <<config, fields, lock, m_is_busy, access, hw_written, halted>>

\* predict with UVM_PREDICT_DIRECT: refused while the register is busy.
predict(value) ==
  /\ halted = "no" /\ Quiet /\ ~m_is_busy
  /\ Deposited(value) /\ hw' = value
  /\ suspect' = {} /\ wanted' = NULL
  /\ UNCHANGED <<config, m_written, lock, m_is_busy, access, hw_written, halted>>

Calls(p) ==
  \/ \E value \in Data : write(p, value)
  \/ update(p)
  \/ \E f \in Fields, value \in Values, individually \in BOOLEAN :
       field_write(p, f, value, individually)
  \/ \E kind \in {"read", "mirror"} : read(p, kind, Fields)
  \/ \E f \in Fields : read(p, "read", {f})
  \/ \E value \in Data : poke(p, value) \/ backdoor_write(p, value)
  \/ \E f \in Fields, value \in Values : field_poke(p, f, value)
  \/ peek(p) \/ backdoor_read(p)

Next ==
  \/ \E p \in Procs : \/ Block(p) \/ Calls(p)
                      \/ BusWrite(p) \/ BusRead(p) \/ BusFail(p) \/ Finish(p)
                      \/ Kill(p)
  \/ \E value \in Data : set_desired(value) \/ predict(value)
  \/ \E kind \in DOMAIN Resets : reset(kind)
  \/ \E f \in Fields : Change(f)

Spec == Init /\ [][Next]_vars

-----------------------------------------------------------------------------
(* Properties *)

\* The register, its lock, the accesses and the design have their types: no
\* prediction leaves the values of a field.
TypeOK ==
  /\ m_access \in [Fields -> Policies] /\ rights \in {"RW", "RO", "WO"}
  /\ auto_predict \in BOOLEAN /\ ops \subseteq AllOps
  /\ m_mirrored \in RegValues /\ m_desired \in RegValues /\ hw \in RegValues
  /\ m_written \in [Fields -> BOOLEAN] /\ hw_written \in [Fields -> BOOLEAN]
  /\ m_atomic \in BOOLEAN /\ m_process \in Procs \cup {NULL} /\ m_is_busy \in BOOLEAN
  /\ access \in [Procs -> Accesses]
  /\ suspect \subseteq Fields
  /\ wanted \in RegValues \cup {NULL}
  /\ halted \in {"no", "blocked"}

\* The mirror of a field is what the design holds, for every policy and every
\* way of access, unless the design changed it by itself or an access failed, and
\* nothing was read since (do_predict against the design).  So it is at any time
\* with a uvm_reg_predictor, and between accesses, if they are made one at a time,
\* with the prediction of the map.
MirrorIsDut ==
  ~auto_predict \/ (Quiet /\ "overlap" \notin ops) =>
    \A f \in Fields \ suspect : m_mirrored[f] = hw[f]

\* Who makes its accesses one at a time never finds the register locked, and a
\* reset after a kill is enough to go on (m_atomic_check_lock, reset).
NeverBlocked == halted = "blocked" => "overlap" \in ops

\* The policies whose fields are disturbed by a write of their neighbours: the
\* code warns of the first, and or's the mirror of the second where a comment
\* says "Use all 0's".
Disturbed == {"WC", "WS", "WCRS", "WSRC", "WOC", "WOS"} \cup {"W1C", "W1T", "W1CRS"}

\* A write of one field, with no other access under way, leaves the others of its
\* register as they are, although they are written as well (value_adjust in
\* uvm_reg_field::do_write).
NeighboursKept ==
  [][\A p \in Procs, f \in Fields :
       /\ access[p].stage = "bus" /\ access'[p].stage = "back"
       /\ access[p].kind = "write" /\ f \notin access[p].meant
       /\ f \notin suspect /\ Access(f) \notin Disturbed /\ "overlap" \notin ops
       => hw'[f] = hw[f]]_vars

\* mirror with UVM_CHECK, with no other access under way, finds a difference only
\* in fields that did change, the write-only ones excepted, whose mirror cannot be
\* read (do_check).
ChecksAreRight ==
  [][\A p \in Procs, f \in Fields :
       /\ access[p].stage = "bus" /\ access'[p].stage = "back"
       /\ access[p].kind = "mirror" /\ Access(f) \notin WriteOnly
       /\ access'[p].value[f] # access[p].exp[f] /\ "overlap" \notin ops
       => f \in suspect]_vars

\* The desired value, once nothing is left to update, is in the design as if it
\* had been written (set followed by update, against write).
SetReplacesWrite ==
  Quiet /\ wanted # NULL /\ ~needs_update => hw = wanted

\* The accesses of two processes do not overlap (m_atomic).
OneAccess == Cardinality({p \in Procs : access[p] # Idle}) <= 1

=============================================================================
