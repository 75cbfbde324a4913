--------------------------- MODULE RegisterProofs ---------------------------
(***************************************************************************)
(* Proofs about Register and the policies of RegField, for all fields,     *)
(* widths, policies and processes.                                         *)
(***************************************************************************)
EXTENDS Register, TLAPS

(***************************************************************************)
(* The policies of RegField                                                *)
(***************************************************************************)

\* Each policy predicts each bit of a field as the hardware writes it.
LEMMA BitsOfWrite ==
  ASSUME NEW policy \in Policies, NEW cur \in Values, NEW value \in Values,
         NEW once \in BOOLEAN, NEW b \in Bits
  PROVE  b \in m_predict(policy, cur, value, once)
           <=> BitAfterWrite(policy, b \in cur, b \in value, once)
<1>1. CASE policy \in ReadOnly
  BY <1>1 DEF m_predict, BitAfterWrite, ReadOnly, Values, Once, Toggled
<1>2. CASE policy \in {"RW", "WRC", "WRS", "WO"}
  BY <1>2 DEF m_predict, BitAfterWrite, ReadOnly, Values, Once, Toggled
<1>3. CASE policy \in {"WC", "WCRS", "WOC"}
  BY <1>3 DEF m_predict, BitAfterWrite, ReadOnly, Values, Once, Toggled
<1>4. CASE policy \in {"WS", "WSRC", "WOS"}
  BY <1>4 DEF m_predict, BitAfterWrite, ReadOnly, Values, Once, Toggled
<1>5. CASE policy \in {"W1C", "W1CRS"}
  BY <1>5 DEF m_predict, BitAfterWrite, ReadOnly, Values, Once, Toggled
<1>6. CASE policy \in {"W1S", "W1SRC"}
  BY <1>6 DEF m_predict, BitAfterWrite, ReadOnly, Values, Once, Toggled
<1>7. CASE policy = "W1T"
  BY <1>7 DEF m_predict, BitAfterWrite, ReadOnly, Values, Once, Toggled
<1>8. CASE policy \in {"W0C", "W0CRS"}
  BY <1>8 DEF m_predict, BitAfterWrite, ReadOnly, Values, Once, Toggled
<1>9. CASE policy \in {"W0S", "W0SRC"}
  BY <1>9 DEF m_predict, BitAfterWrite, ReadOnly, Values, Once, Toggled
<1>10. CASE policy = "W0T"
  BY <1>10 DEF m_predict, BitAfterWrite, ReadOnly, Values, Once, Toggled
<1>11. CASE policy \in Once
  BY <1>11 DEF m_predict, BitAfterWrite, ReadOnly, Values, Once, Toggled
<1>12. QED
  BY <1>1, <1>2, <1>3, <1>4, <1>5, <1>6, <1>7, <1>8, <1>9, <1>10, <1>11
     DEF Policies, ReadOnly, WriteOnly, Once, ClearedByRead, SetByRead

\* What the model predicts of a write is what the hardware makes of it, for every
\* policy, whether or not the field was written before (m_predict).
THEOREM PredictsWrites ==
  ASSUME NEW policy \in Policies, NEW cur \in Values, NEW value \in Values,
         NEW once \in BOOLEAN
  PROVE  m_predict(policy, cur, value, once) = HwWrite(policy, cur, value, once)
<1>1. m_predict(policy, cur, value, once) \subseteq Bits
  BY DEF m_predict, Values, Toggled, Policies, ReadOnly, WriteOnly, Once,
         ClearedByRead, SetByRead
<1>2. HwWrite(policy, cur, value, once) \subseteq Bits
  BY DEF HwWrite
<1>3. \A b \in Bits : b \in HwWrite(policy, cur, value, once)
                       <=> BitAfterWrite(policy, b \in cur, b \in value, once)
  BY DEF HwWrite
<1>4. QED
  BY <1>1, <1>2, <1>3, BitsOfWrite

\* What a read leaves in the mirror is what it leaves in the hardware, if the
\* field can be read and the mirror was up to date or not: it takes what was read.
THEOREM PredictsReads ==
  ASSUME NEW policy \in Policies \ WriteOnly, NEW cur \in Values, NEW hw_cur \in Values
  PROVE  PredictRead(policy, cur, hw_cur) = HwRead(policy, hw_cur)
BY DEF PredictRead, HwRead, ClearedByRead, SetByRead

\* A read of a write-only field changes neither.
LEMMA WriteOnlyReads ==
  ASSUME NEW policy \in WriteOnly, NEW cur \in Values, NEW value \in Values
  PROVE  PredictRead(policy, cur, value) = cur /\ HwRead(policy, cur) = cur
BY DEF PredictRead, HwRead, ClearedByRead, SetByRead, WriteOnly

\* Predicted and real values are values of the field.
LEMMA ValuesKept ==
  ASSUME NEW policy \in Policies, NEW cur \in Values, NEW value \in Values,
         NEW once \in BOOLEAN
  PROVE  /\ m_predict(policy, cur, value, once) \in Values
         /\ HwWrite(policy, cur, value, once) \in Values
         /\ PredictRead(policy, cur, value) \in Values
         /\ HwRead(policy, cur) \in Values
         /\ value_adjust(policy, cur) \in Values
         /\ set(policy, cur, value) \in Values
         /\ m_update(policy, cur, value) \in Values
<1>1. HwWrite(policy, cur, value, once) \in Values
  BY DEF HwWrite, Values
<1>2. PredictRead(policy, cur, value) \in Values
  BY DEF PredictRead, Values, Policies
<1>3. HwRead(policy, cur) \in Values
  BY DEF HwRead, Values
<1>4. value_adjust(policy, cur) \in Values
  BY DEF value_adjust, Values
<1>5. QED
  BY <1>1, <1>2, <1>3, <1>4, PredictsWrites DEF set, m_update

\* The policy a map gives to a field is one of the policies.
LEMMA AccessIsPolicy ==
  ASSUME NEW given \in Policies, NEW right \in {"RW", "RO", "WO"}
  PROVE  get_access(given, right) \in Policies
<1>1. CASE right = "RW"
  BY <1>1 DEF get_access
<1>2. CASE right = "RO"
  BY <1>2 DEF get_access, Policies, ReadOnly
<1>3. CASE right = "WO"
  BY <1>3 DEF get_access, Policies, WriteOnly
<1>4. QED
  BY <1>1, <1>2, <1>3

(***************************************************************************)
(* The inductive invariant                                                 *)
(***************************************************************************)

\* Backdoor reads are made of fields that a read leaves alone.
Tied ==
  "backdoor_read" \in ops =>
    \A f \in Fields : m_access[f] \notin ClearedByRead \cup SetByRead \cup WriteOnly

\* An access that is under way has a stage.
Staged == \A p \in Procs : access[p] # Idle => access[p].stage # "none"

\* Accesses made one at a time are alone, are not blocked, and leave the lock free.
OneAtATime ==
  "overlap" \notin ops =>
    /\ halted = "no"
    /\ \A p, q \in Procs : access[p] # Idle /\ access[q] # Idle => p = q
    /\ Quiet => ~m_atomic

\* With a uvm_reg_predictor the mirror is right at any time.
MirrorSeen == ~auto_predict => \A f \in Fields \ suspect : m_mirrored[f] = hw[f]

\* What the map is going to predict for f when p goes on.
Expected(p, f) ==
  IF access[p].kind = "write"
  THEN m_predict(Access(f), m_mirrored[f], access[p].value[f], m_written[f])
  ELSE PredictRead(Access(f), m_mirrored[f], access[p].value[f])

\* f was accessed in the design, and the map has not predicted it yet.
Late(p, f) == access[p].stage = "back" /\ f \in access[p].fields

\* With the prediction of the map, made one at a time, it is right or about to be.
MirrorLate ==
  auto_predict /\ "overlap" \notin ops =>
    \A f \in Fields \ suspect :
      /\ (\A p \in Procs : ~Late(p, f)) => m_mirrored[f] = hw[f]
      /\ \A p \in Procs : Late(p, f) => Expected(p, f) = hw[f]
      /\ \A p \in Procs : access[p].stage = "failed" => f \notin access[p].fields

IInv == TypeOK /\ Tied /\ Staged /\ OneAtATime /\ MirrorSeen /\ MirrorLate

(***************************************************************************)
(* Types                                                                   *)
(***************************************************************************)

\* The values that the actions start from have their types.
LEMMA Constants == /\ Zero \in RegValues /\ Idle \in Accesses
                   /\ \A kind \in DOMAIN Resets : Resets[kind] \in RegValues
                   /\ Resets.HARD \in RegValues
BY RegisterAssumption DEF Zero, Idle, Accesses, RegValues, Values

\* The rights of the register leave each field with one of the policies (get_access).
LEMMA Rights == TypeOK => \A f \in Fields : Access(f) \in Policies
BY AccessIsPolicy DEF TypeOK, Access

\* A prediction stays within the values of the fields (do_predict).
LEMMA PredictTypes ==
  ASSUME TypeOK, NEW kind, NEW fs \in SUBSET Fields, NEW value \in RegValues,
         Predict(kind, fs, value)
  PROVE  /\ m_mirrored' \in RegValues /\ m_desired' \in RegValues
         /\ m_written' \in [Fields -> BOOLEAN]
<1> DEFINE after(f) ==
      IF f \notin fs THEN m_mirrored[f]
      ELSE IF kind = "write" THEN m_predict(Access(f), m_mirrored[f], value[f], m_written[f])
      ELSE PredictRead(Access(f), m_mirrored[f], value[f])
<1>1. \A f \in Fields : after(f) \in Values
  BY ValuesKept, Rights DEF TypeOK, RegValues
<1>2. m_mirrored' = [f \in Fields |-> after(f)]
  BY DEF Predict
<1>3. m_mirrored' \in RegValues
  BY <1>1, <1>2 DEF RegValues
<1>4. m_desired' \in RegValues
  <2>1. \A f \in Fields : m_desired'[f] = m_desired[f] \/ m_desired'[f] = after(f)
    BY DEF Predict
  <2>2. m_desired' = [f \in Fields |-> m_desired'[f]]
    BY DEF Predict
  <2>3. QED
    BY <1>1, <2>1, <2>2 DEF TypeOK, RegValues
<1>5. m_written' \in [Fields -> BOOLEAN]
  BY DEF Predict, TypeOK
<1>6. QED
  BY <1>3, <1>4, <1>5

\* An access that starts keeps the types.
LEMMA RequestTypes ==
  ASSUME TypeOK, NEW p \in Procs, NEW kind \in {"write", "read", "mirror"},
         NEW fs \in SUBSET Fields, NEW meant \in SUBSET Fields, NEW value \in RegValues,
         Request(p, kind, fs, meant, value),
         m_desired' \in RegValues, wanted' \in RegValues \cup {NULL}
  PROVE  TypeOK'
<1> DEFINE made == [kind |-> kind, fields |-> fs, meant |-> meant, value |-> value,
                    exp |-> IF kind = "mirror" THEN m_mirrored ELSE Zero, stage |-> "bus"]
<1>1. access' \in [Procs -> Accesses]
  <2>1. (IF kind = "mirror" THEN m_mirrored ELSE Zero) \in RegValues
    BY Constants DEF TypeOK
  <2>2. made \in Accesses
    BY <2>1 DEF Accesses
  <2>3. access' = [access EXCEPT ![p] = made]
    BY DEF Request
  <2> HIDE DEF made
  <2>4. QED
    BY <2>2, <2>3 DEF TypeOK
<1>2. m_atomic' \in BOOLEAN /\ m_process' \in Procs \cup {NULL} /\ m_is_busy' \in BOOLEAN
  BY DEF TypeOK, Request, Lock
<1>3. QED
  BY <1>1, <1>2 DEF TypeOK, Request, config, design, fields

\* The transfer of an access keeps the types, if what it does to the design does.
LEMMA TransferTypes ==
  ASSUME TypeOK, NEW p \in Procs, NEW value \in RegValues, NEW stage \in {"back", "failed"},
         Transferred(p, value, stage),
         hw' \in RegValues, hw_written' \in [Fields -> BOOLEAN], suspect' \subseteq Fields
  PROVE  TypeOK'
<1>1. access' \in [Procs -> Accesses]
  <2>1. [access[p] EXCEPT !.value = value, !.stage = stage] \in Accesses
    BY DEF TypeOK, Accesses
  <2>2. QED
    BY <2>1 DEF TypeOK, Transferred
<1>2. access[p].fields \in SUBSET Fields
  BY DEF TypeOK, Accesses
<1>3. m_mirrored' \in RegValues /\ m_desired' \in RegValues /\ m_written' \in [Fields -> BOOLEAN]
  <2>1. CASE auto_predict
    BY <2>1 DEF TypeOK, Transferred, fields
  <2>2. CASE ~auto_predict
    BY <2>2, <1>2, PredictTypes DEF Transferred
  <2>3. QED
    BY <2>1, <2>2 DEF TypeOK
<1>4. QED
  BY <1>1, <1>3 DEF TypeOK, Transferred, config, lock

\* A poke keeps the types.
LEMMA PokeTypes ==
  ASSUME TypeOK, NEW p \in Procs, NEW value \in RegValues, poke(p, value)
  PROVE  TypeOK'
BY DEF TypeOK, poke, Backdoor, Deposited, config

\* Whatever an action makes of the value of a field is a value of the field.
LEMMA FieldValues ==
  ASSUME TypeOK, NEW f \in Fields
  PROVE  /\ m_mirrored[f] \in Values /\ m_desired[f] \in Values /\ hw[f] \in Values
         /\ {} \in Values
         /\ HwRead(Access(f), hw[f]) \in Values /\ HwRead(m_access[f], hw[f]) \in Values
         /\ value_adjust(Access(f), m_mirrored[f]) \in Values
         /\ m_update(m_access[f], m_desired[f], m_mirrored[f]) \in Values
         /\ \A x \in Values :
              /\ m_predict(Access(f), hw[f], x, m_written[f]) \in Values
              /\ HwWrite(Access(f), hw[f], x, hw_written[f]) \in Values
              /\ set(m_access[f], m_desired[f], x) \in Values
<1>1. Access(f) \in Policies /\ m_access[f] \in Policies
  BY Rights DEF TypeOK
<1>2. m_mirrored[f] \in Values /\ m_desired[f] \in Values /\ hw[f] \in Values
  BY DEF TypeOK, RegValues
<1>3. m_written[f] \in BOOLEAN /\ hw_written[f] \in BOOLEAN
  BY DEF TypeOK
<1>4. {} \in Values
  BY DEF Values
<1>5. QED
  BY <1>1, <1>2, <1>3, <1>4, ValuesKept

\* Every step keeps the types.
LEMMA TypesKept == TypeOK /\ [Next]_vars => TypeOK'
<1> SUFFICES ASSUME TypeOK, [Next]_vars PROVE TypeOK'
  OBVIOUS
<1>1. ASSUME NEW p \in Procs, Block(p) PROVE TypeOK'
  BY <1>1 DEF TypeOK, Block, config, fields, lock, design
<1>2. ASSUME NEW p \in Procs, NEW value \in Data, write(p, value) PROVE TypeOK'
  <2>1. value \in RegValues
    BY RegisterAssumption
  <2>2. m_desired' \in RegValues
    BY <1>2, <2>1, FieldValues DEF write, RegValues
  <2>3. QED
    BY <1>2, <2>1, <2>2, RequestTypes DEF write
<1>3. ASSUME NEW p \in Procs, update(p) PROVE TypeOK'
  <2> DEFINE value == [f \in Fields |-> m_update(m_access[f], m_desired[f], m_mirrored[f])]
  <2>1. value \in RegValues
    BY FieldValues DEF RegValues
  <2>2. m_desired' \in RegValues
    BY <1>3, <2>1, FieldValues DEF update, RegValues
  <2>3. Request(p, "write", Fields, Fields, value) /\ wanted' \in RegValues \cup {NULL}
    BY <1>3 DEF update, TypeOK
  <2>4. QED
    BY <2>1, <2>2, <2>3, RequestTypes
<1>4. ASSUME NEW p \in Procs, NEW f \in Fields, NEW value \in Values,
             NEW individually \in BOOLEAN, field_write(p, f, value, individually)
      PROVE  TypeOK'
  <2> DEFINE adjusted == [g \in Fields |-> IF g = f THEN value
                                           ELSE value_adjust(Access(g), m_mirrored[g])]
             fs == IF individually THEN {f} ELSE Fields
  <2>1. adjusted \in RegValues
    BY FieldValues DEF RegValues
  <2>2. Request(p, "write", fs, {f}, adjusted)
        /\ wanted' = NULL /\ m_desired' = m_desired
    BY <1>4 DEF field_write
  <2>3. QED
    BY <2>1, <2>2, RequestTypes DEF TypeOK
<1>5. ASSUME NEW p \in Procs, NEW kind \in {"read", "mirror"}, NEW fs \in SUBSET Fields,
             read(p, kind, fs)
      PROVE  TypeOK'
  BY <1>5, Constants, RequestTypes DEF read, TypeOK
<1>6. ASSUME NEW p \in Procs, NEW value \in Data, poke(p, value) PROVE TypeOK'
  BY <1>6, PokeTypes, RegisterAssumption
<1>7. ASSUME NEW p \in Procs, NEW value \in Data, backdoor_write(p, value) PROVE TypeOK'
  <2> DEFINE effect == [f \in Fields |-> m_predict(Access(f), hw[f], value[f], m_written[f])]
  <2>1. effect \in RegValues
    BY FieldValues, RegisterAssumption DEF RegValues
  <2>2. QED
    BY <1>7, <2>1, PokeTypes DEF backdoor_write
<1>8. ASSUME NEW p \in Procs, NEW f \in Fields, NEW value \in Values, field_poke(p, f, value)
      PROVE  TypeOK'
  <2>1. [hw EXCEPT ![f] = value] \in RegValues
    BY DEF TypeOK, RegValues
  <2>2. QED
    BY <1>8, <2>1, PokeTypes DEF field_poke
<1>9. ASSUME NEW p \in Procs, peek(p) PROVE TypeOK'
  BY <1>9 DEF TypeOK, peek, Backdoor, Deposited, config
<1>10. ASSUME NEW p \in Procs, backdoor_read(p) PROVE TypeOK'
  <2>1. m_mirrored' \in RegValues /\ m_desired' \in RegValues /\ hw' \in RegValues
    BY <1>10, FieldValues DEF backdoor_read, Deposited, RegValues
  <2>2. QED
    BY <1>10, <2>1 DEF TypeOK, backdoor_read, Backdoor, config
<1>11. ASSUME NEW p \in Procs, BusWrite(p) PROVE TypeOK'
  <2> DEFINE fs == access[p].fields
  <2>1. access[p].value \in RegValues /\ fs \in SUBSET Fields
    BY DEF TypeOK, Accesses
  <2>2. hw' \in RegValues
    BY <1>11, <2>1, FieldValues DEF BusWrite, RegValues
  <2>3. hw_written' \in [Fields -> BOOLEAN] /\ suspect' \subseteq Fields
    BY <1>11, <2>1 DEF BusWrite, TypeOK, Disagree
  <2>4. QED
    BY <1>11, <2>1, <2>2, <2>3, TransferTypes DEF BusWrite
<1>12. ASSUME NEW p \in Procs, BusRead(p) PROVE TypeOK'
  <2> DEFINE fs == access[p].fields
             value == [f \in Fields |->
                         IF f \in fs /\ Access(f) \notin WriteOnly THEN hw[f] ELSE {}]
  <2>1. access[p].fields \in SUBSET Fields
    BY DEF TypeOK, Accesses
  <2>2. value \in RegValues /\ hw' \in RegValues
    BY <1>12, <2>1, FieldValues DEF BusRead, RegValues
  <2>3. hw_written' \in [Fields -> BOOLEAN] /\ suspect' \subseteq Fields
    BY <1>12 DEF BusRead, TypeOK
  <2>4. Transferred(p, value, "back")
    BY <1>12 DEF BusRead
  <2>5. QED
    BY <2>2, <2>3, <2>4, TransferTypes
<1>13. ASSUME NEW p \in Procs, BusFail(p) PROVE TypeOK'
  <2> DEFINE value == IF access[p].kind = "write" THEN access[p].value ELSE Zero
  <2>1. value \in RegValues
    BY Constants DEF TypeOK, Accesses
  <2>2. hw' \in RegValues /\ hw_written' \in [Fields -> BOOLEAN] /\ suspect' \subseteq Fields
    BY <1>13 DEF BusFail, TypeOK, design, Accesses
  <2>3. Transferred(p, value, "failed")
    BY <1>13 DEF BusFail
  <2>4. QED
    BY <2>1, <2>2, <2>3, TransferTypes
<1>14. ASSUME NEW p \in Procs, Finish(p) PROVE TypeOK'
  <2>1. m_mirrored' \in RegValues /\ m_desired' \in RegValues /\ m_written' \in [Fields -> BOOLEAN]
    <3>1. access[p].value \in RegValues /\ access[p].fields \in SUBSET Fields
      BY DEF TypeOK, Accesses
    <3>2. CASE auto_predict
      BY <1>14, <3>1, <3>2, PredictTypes DEF Finish
    <3>3. CASE ~auto_predict
      BY <1>14, <3>3 DEF Finish, TypeOK, fields
    <3>4. QED
      BY <3>2, <3>3 DEF TypeOK
  <2>2. QED
    BY <1>14, <2>1, Constants DEF TypeOK, Finish, Unlock, config, design
<1>15. ASSUME NEW p \in Procs, Kill(p) PROVE TypeOK'
  BY <1>15, Constants DEF TypeOK, Kill, Unlock, config
<1>16. ASSUME NEW value \in Data, set_desired(value) PROVE TypeOK'
  <2>1. value \in RegValues
    BY RegisterAssumption
  <2>2. m_desired' \in RegValues /\ wanted' \in RegValues
    BY <1>16, <2>1, FieldValues DEF set_desired, RegValues
  <2>3. QED
    BY <1>16, <2>2 DEF TypeOK, set_desired, config, lock, design
<1>17. ASSUME NEW value \in Data, predict(value) PROVE TypeOK'
  BY <1>17, RegisterAssumption DEF TypeOK, predict, Deposited, config, lock
<1>18. ASSUME NEW kind \in DOMAIN Resets, reset(kind) PROVE TypeOK'
  BY <1>18, Constants DEF TypeOK, reset, Unlock, config
<1>19. ASSUME NEW f \in Fields, Change(f) PROVE TypeOK'
  BY <1>19 DEF TypeOK, Change, RegValues, config, fields, lock
<1>20. CASE UNCHANGED vars
  BY <1>20 DEF TypeOK, vars, config, fields, lock, design
<1>21. QED
  BY <1>1, <1>2, <1>3, <1>4, <1>5, <1>6, <1>7, <1>8, <1>9, <1>10, <1>11, <1>12, <1>13,
     <1>14, <1>15, <1>16, <1>17, <1>18, <1>19, <1>20 DEF Next, Calls

\* The types are right after construction.
LEMMA TypesFirst == Init => TypeOK
BY RegisterAssumption, Constants DEF Init, TypeOK

(***************************************************************************)
(* The lock                                                                *)
(***************************************************************************)

\* Policies, rights and the manner of prediction are settled before the accesses.
LEMMA ConfigKept == [Next]_vars => UNCHANGED config
BY DEF Next, Calls, vars, Block, write, update, field_write, read, Request, poke, backdoor_write,
       field_poke, peek, backdoor_read, Backdoor, BusWrite, BusRead, BusFail, Transferred,
       Finish, Kill, set_desired, predict, reset, Change

\* An access that starts is made by one process, which is the only one but for
\* overlaps.
LEMMA RequestLocks ==
  ASSUME IInv, NEW p \in Procs, NEW kind, NEW fs, NEW meant, NEW value,
         Request(p, kind, fs, meant, value)
  PROVE  Staged' /\ OneAtATime'
<1> DEFINE made == [kind |-> kind, fields |-> fs, meant |-> meant, value |-> value,
                    exp |-> IF kind = "mirror" THEN m_mirrored ELSE Zero, stage |-> "bus"]
<1>1. made.stage = "bus" /\ made # Idle
  BY DEF Idle
<1>2. access' = [access EXCEPT ![p] = made]
  BY DEF Request
<1> HIDE DEF made
<1>3. \A q \in Procs : access'[q] = IF q = p THEN made ELSE access[q]
  BY <1>2 DEF IInv, TypeOK
<1>4. ops' = ops /\ halted' = halted /\ (Quiet \/ "overlap" \in ops)
  BY DEF Request, MayStart, config
<1>5. Staged'
  BY <1>1, <1>3 DEF IInv, Staged
<1>6. OneAtATime'
  BY <1>1, <1>3, <1>4 DEF IInv, OneAtATime, Quiet
<1>7. QED
  BY <1>5, <1>6

\* A transfer neither starts nor ends an access, nor does it touch the lock.
LEMMA TransferLocks ==
  ASSUME IInv, NEW p \in Procs, NEW value, NEW stage \in {"back", "failed"},
         access[p].stage = "bus", Transferred(p, value, stage)
  PROVE  Staged' /\ OneAtATime'
<1>1. access[p] # Idle
  BY DEF Idle
<1>2. access'[p].stage = stage /\ \A q \in Procs \ {p} : access'[q] = access[q]
  BY DEF IInv, TypeOK, Accesses, Transferred
<1>3. access'[p] # Idle
  BY <1>2 DEF Idle
<1>4. ops' = ops /\ halted' = halted
  BY DEF Transferred, config
<1>5. QED
  BY <1>1, <1>2, <1>3, <1>4 DEF IInv, Staged, OneAtATime, Quiet

\* Every step leaves one access at a time, and the lock free when there is none.
LEMMA LockKept == IInv /\ [Next]_vars => Staged' /\ OneAtATime'
<1> SUFFICES ASSUME IInv, [Next]_vars PROVE Staged' /\ OneAtATime'
  OBVIOUS
<1>1. ASSUME NEW p \in Procs, Block(p) PROVE Staged' /\ OneAtATime'
  BY <1>1 DEF IInv, Staged, OneAtATime, Quiet, Block, MayStart, Enters, config
<1>2. ASSUME NEW p \in Procs,
             \/ \E value \in Data : write(p, value)
             \/ update(p)
             \/ \E f \in Fields, value \in Values, individually \in BOOLEAN :
                  field_write(p, f, value, individually)
             \/ \E kind \in {"read", "mirror"} : read(p, kind, Fields)
             \/ \E f \in Fields : read(p, "read", {f})
      PROVE  Staged' /\ OneAtATime'
  BY <1>2, RequestLocks DEF write, update, field_write, read
<1>3. ASSUME NEW p \in Procs, Backdoor(p) PROVE Staged' /\ OneAtATime'
  BY <1>3 DEF Backdoor, IInv, Staged, OneAtATime, Quiet, config
<1>4. ASSUME NEW p \in Procs, BusWrite(p) \/ BusRead(p) \/ BusFail(p)
      PROVE  Staged' /\ OneAtATime'
  BY <1>4, TransferLocks DEF BusWrite, BusRead, BusFail
<1>5. ASSUME NEW p \in Procs, Finish(p) \/ Kill(p) PROVE Staged' /\ OneAtATime'
  <2>1. /\ access' = [access EXCEPT ![p] = Idle] /\ m_atomic' = FALSE
        /\ ops' = ops /\ halted' = halted
    BY <1>5 DEF Finish, Kill, Unlock, config
  <2>2. QED
    BY <2>1 DEF IInv, TypeOK, Staged, OneAtATime, Quiet
<1>6. ASSUME NEW value, set_desired(value) \/ predict(value) PROVE Staged' /\ OneAtATime'
  BY <1>6 DEF set_desired, predict, lock, config, IInv, Staged, OneAtATime, Quiet
<1>7. ASSUME NEW kind, reset(kind) PROVE Staged' /\ OneAtATime'
  BY <1>7 DEF reset, Unlock, config, IInv, Staged, OneAtATime, Quiet
<1>8. ASSUME NEW f \in Fields, Change(f) PROVE Staged' /\ OneAtATime'
  BY <1>8 DEF Change, lock, config, IInv, Staged, OneAtATime, Quiet
<1>9. CASE UNCHANGED vars
  BY <1>9 DEF vars, lock, config, IInv, Staged, OneAtATime, Quiet
<1>10. QED
  BY <1>1, <1>2, <1>3, <1>4, <1>5, <1>6, <1>7, <1>8, <1>9
     DEF Next, Calls, poke, backdoor_write, field_poke, peek, backdoor_read

(***************************************************************************)
(* The mirror                                                              *)
(***************************************************************************)

\* What the model predicts of a write of a field whose mirror is right.
LEMMA WriteMirrored ==
  ASSUME TypeOK, NEW f \in Fields, f \notin Disagree, m_mirrored[f] = hw[f], NEW x \in Values
  PROVE  m_predict(Access(f), m_mirrored[f], x, m_written[f])
           = HwWrite(Access(f), hw[f], x, hw_written[f])
<1>1. Access(f) \in Policies /\ hw[f] \in Values /\ hw_written[f] \in BOOLEAN
      /\ m_written[f] \in BOOLEAN
  BY Rights, FieldValues DEF TypeOK
<1>2. CASE Access(f) \in Once
  BY <1>1, <1>2, PredictsWrites DEF Disagree
<1>3. CASE Access(f) \notin Once
  <2>1. m_predict(Access(f), hw[f], x, m_written[f]) = HwWrite(Access(f), hw[f], x, m_written[f])
    BY <1>1, PredictsWrites
  <2>2. HwWrite(Access(f), hw[f], x, m_written[f]) = HwWrite(Access(f), hw[f], x, hw_written[f])
    BY <1>3 DEF HwWrite, BitAfterWrite
  <2>3. QED
    BY <2>1, <2>2
<1>4. QED
  BY <1>2, <1>3

\* What it predicts of a read, whose mirror need not be right if it can be read.
LEMMA ReadMirrored ==
  ASSUME TypeOK, NEW f \in Fields, Access(f) \in WriteOnly => m_mirrored[f] = hw[f]
  PROVE  PredictRead(Access(f), m_mirrored[f], IF Access(f) \notin WriteOnly THEN hw[f] ELSE {})
           = HwRead(Access(f), hw[f])
<1>1. Access(f) \in Policies /\ hw[f] \in Values /\ m_mirrored[f] \in Values /\ {} \in Values
  BY Rights, FieldValues
<1>2. CASE Access(f) \in WriteOnly
  BY <1>1, <1>2, WriteOnlyReads
<1>3. CASE Access(f) \notin WriteOnly
  BY <1>1, <1>3, PredictsReads
<1>4. QED
  BY <1>2, <1>3

\* What a prediction leaves in the mirror of one field.
LEMMA Predicted ==
  ASSUME NEW kind, NEW fs, NEW value, Predict(kind, fs, value), NEW f \in Fields
  PROVE  m_mirrored'[f] =
           IF f \notin fs THEN m_mirrored[f]
           ELSE IF kind = "write" THEN m_predict(Access(f), m_mirrored[f], value[f], m_written[f])
           ELSE PredictRead(Access(f), m_mirrored[f], value[f])
BY DEF Predict

\* Where no access is half done, the mirror is right after a step if it is so
\* for each field.
LEMMA MirrorIfNoneLate ==
  ASSUME \A f \in Fields \ suspect' : m_mirrored'[f] = hw'[f],
         auto_predict' /\ "overlap" \notin ops' =>
           \A p \in Procs : access'[p].stage \notin {"back", "failed"}
  PROVE  MirrorSeen' /\ MirrorLate'
BY DEF MirrorSeen, MirrorLate, Late

\* Nor is anything late before an access starts.
LEMMA NoneLate ==
  ASSUME IInv, Quiet, NEW f \in Fields \ suspect,
         ~auto_predict \/ "overlap" \notin ops
  PROVE  m_mirrored[f] = hw[f]
<1>1. \A p \in Procs : access[p].stage = "none"
  BY DEF Quiet, Idle
<1>2. QED
  BY <1>1 DEF IInv, MirrorSeen, MirrorLate, Late, TypeOK

\* The start of an access leaves the mirror as it is.
LEMMA RequestMirror ==
  ASSUME IInv, NEW p \in Procs, NEW kind, NEW fs, NEW meant, NEW value,
         Request(p, kind, fs, meant, value)
  PROVE  MirrorSeen' /\ MirrorLate'
<1>1. UNCHANGED <<m_mirrored, hw, suspect, auto_predict, ops>>
  BY DEF Request, config, design
<1>2. MirrorSeen'
  BY <1>1 DEF IInv, MirrorSeen
<1>3. ASSUME auto_predict, "overlap" \notin ops PROVE MirrorSeen' /\ MirrorLate'
  <2>1. Quiet
    BY <1>3 DEF Request, MayStart
  <2>2. \A q \in Procs : access[q].stage = "none"
    BY <2>1 DEF Quiet, Idle
  <2>3. \A q \in Procs : access'[q].stage \in {"none", "bus"}
    BY <2>2 DEF Request, IInv, TypeOK
  <2>4. \A f \in Fields \ suspect : m_mirrored[f] = hw[f]
    BY <1>3, <2>1, NoneLate
  <2>5. QED
    BY <1>1, <2>3, <2>4, MirrorIfNoneLate
<1>4. QED
  BY <1>1, <1>2, <1>3 DEF MirrorLate

\* While a transfer is on the bus, no other is late where accesses do not overlap.
LEMMA OnTheBus ==
  ASSUME IInv, NEW p \in Procs, access[p].stage \in {"bus", "back", "failed"},
         "overlap" \notin ops
  PROVE  \A q \in Procs \ {p} : access[q].stage = "none"
BY DEF IInv, OneAtATime, Idle

\* A write in the design is predicted at once, or the prediction to come is right.
LEMMA BusWriteMirror ==
  ASSUME IInv, NEW p \in Procs, BusWrite(p)
  PROVE  MirrorSeen' /\ MirrorLate'
<1> DEFINE fs == access[p].fields
           value == access[p].value
<1>1. /\ access[p].stage = "bus" /\ access[p].kind = "write"
      /\ UNCHANGED <<config, m_is_busy>> /\ suspect' = suspect \cup Disagree
  BY DEF BusWrite, Transferred
<1>2. \A f \in Fields : value[f] \in Values
  BY DEF IInv, TypeOK, Accesses, RegValues
<1>3. \A f \in Fields : hw'[f] = IF f \in fs
                               THEN HwWrite(Access(f), hw[f], value[f], hw_written[f])
                               ELSE hw[f]
  BY DEF BusWrite
<1>4. access' = [access EXCEPT ![p] = [@ EXCEPT !.value = value, !.stage = "back"]]
  BY DEF BusWrite, Transferred
<1>5. /\ access'[p].kind = "write" /\ access'[p].stage = "back"
      /\ access'[p].fields = fs /\ access'[p].value = value
      /\ \A q \in Procs \ {p} : access'[q] = access[q]
  BY <1>1, <1>4 DEF IInv, TypeOK, Accesses
<1>6. CASE ~auto_predict
  <2>1. Predict("write", fs, value)
    BY <1>1, <1>6 DEF BusWrite, Transferred
  <2>2. ASSUME NEW f \in Fields \ suspect' PROVE m_mirrored'[f] = hw'[f]
    <3>1. m_mirrored[f] = hw[f] /\ f \notin Disagree
      BY <1>1, <1>6, <2>2 DEF IInv, MirrorSeen
    <3>2. QED
      BY <1>2, <1>3, <2>1, <2>2, <3>1, Predicted, WriteMirrored DEF IInv
  <2>3. QED
    BY <1>1, <1>6, <2>2, MirrorIfNoneLate DEF config
<1>7. CASE auto_predict
  <2>1. UNCHANGED <<m_mirrored, m_written>>
    BY <1>7 DEF BusWrite, Transferred, fields
  <2>2. ASSUME "overlap" \notin ops, NEW f \in Fields \ suspect'
        PROVE  /\ m_mirrored[f] = hw[f] /\ f \notin Disagree
               /\ \A q \in Procs \ {p} : access'[q].stage = "none"
    <3>1. \A q \in Procs \ {p} : access[q].stage = "none"
      BY <1>1, <2>2, OnTheBus
    <3>2. QED
      BY <1>1, <1>5, <1>7, <2>2, <3>1 DEF IInv, MirrorLate, Late
  <2>3. ASSUME "overlap" \notin ops, NEW f \in Fields \ suspect', f \in fs
        PROVE  m_predict(Access(f), m_mirrored[f], value[f], m_written[f]) = hw'[f]
    BY <1>2, <1>3, <2>2, <2>3, WriteMirrored DEF IInv
  <2>4. UNCHANGED <<m_access, rights, auto_predict, ops>>
    BY <1>1 DEF config
  <2>5. MirrorSeen'
    BY <1>7, <2>4 DEF MirrorSeen
  <2>6. ASSUME "overlap" \notin ops, NEW f \in Fields \ suspect'
        PROVE  /\ (\A q \in Procs : ~Late(q, f)') => m_mirrored'[f] = hw'[f]
               /\ \A q \in Procs : Late(q, f)' => Expected(q, f)' = hw'[f]
               /\ \A q \in Procs : access'[q].stage = "failed" => f \notin access'[q].fields
    <3>1. CASE f \in fs
      BY <1>5, <2>1, <2>2, <2>3, <2>4, <2>6, <3>1 DEF Late, Expected, Access
    <3>2. CASE f \notin fs
      BY <1>3, <1>5, <2>1, <2>2, <2>6, <3>2 DEF Late
    <3>3. QED
      BY <3>1, <3>2
  <2>7. MirrorLate'
    BY <2>4, <2>6 DEF MirrorLate
  <2>8. QED
    BY <2>5, <2>7
<1>8. QED
  BY <1>6, <1>7

\* A read in the design is predicted at once, or the prediction to come is right.
LEMMA BusReadMirror ==
  ASSUME IInv, NEW p \in Procs, BusRead(p)
  PROVE  MirrorSeen' /\ MirrorLate'
<1> DEFINE fs == access[p].fields
           value == [f \in Fields |->
                       IF f \in fs /\ Access(f) \notin WriteOnly THEN hw[f] ELSE {}]
<1>1. /\ access[p].stage = "bus" /\ access[p].kind # "write" /\ UNCHANGED config
      /\ suspect' = suspect \ {f \in fs : Access(f) \notin WriteOnly}
  BY DEF BusRead, Transferred
<1>2. \A f \in Fields : hw'[f] = IF f \in fs THEN HwRead(Access(f), hw[f]) ELSE hw[f]
  BY DEF BusRead
<1>3. \A f \in fs : f \in Fields /\ value[f] = IF Access(f) \notin WriteOnly THEN hw[f] ELSE {}
  BY DEF IInv, TypeOK, Accesses
<1>4. access' = [access EXCEPT ![p] = [@ EXCEPT !.value = value, !.stage = "back"]]
  BY DEF BusRead, Transferred
<1>5. ~auto_predict => Predict(access[p].kind, fs, value)
  BY DEF BusRead, Transferred
<1>6. auto_predict => UNCHANGED fields
  BY DEF BusRead, Transferred
<1> HIDE DEF value
<1>7. /\ access'[p].kind # "write" /\ access'[p].stage = "back"
      /\ access'[p].fields = fs /\ access'[p].value = value
      /\ \A q \in Procs \ {p} : access'[q] = access[q]
  BY <1>1, <1>4 DEF IInv, TypeOK, Accesses
\* Once the mirror of f was right, unless f is read now and can be read.
<1>8. ASSUME NEW f \in fs, f \in Fields \ suspect', f \notin suspect => m_mirrored[f] = hw[f]
      PROVE  PredictRead(Access(f), m_mirrored[f], value[f]) = hw'[f]
  <2>1. Access(f) \in WriteOnly => m_mirrored[f] = hw[f]
    BY <1>1, <1>8
  <2>2. QED
    BY <1>2, <1>3, <1>8, <2>1, ReadMirrored DEF IInv
<1>9. CASE ~auto_predict
  <2>1. ASSUME NEW f \in Fields \ suspect' PROVE m_mirrored'[f] = hw'[f]
    <3>1. f \notin suspect => m_mirrored[f] = hw[f]
      BY <1>9 DEF IInv, MirrorSeen
    <3>2. CASE f \in fs
      BY <1>1, <1>5, <1>8, <1>9, <3>1, <3>2, Predicted
    <3>3. CASE f \notin fs
      BY <1>1, <1>2, <1>5, <1>9, <2>1, <3>1, <3>3, Predicted
    <3>4. QED
      BY <3>2, <3>3
  <2>2. QED
    BY <1>1, <1>9, <2>1, MirrorIfNoneLate DEF config
<1>10. CASE auto_predict
  <2>1. UNCHANGED <<m_mirrored, m_written>>
    BY <1>6, <1>10 DEF fields
  <2>2. UNCHANGED <<m_access, rights, auto_predict, ops>>
    BY <1>1 DEF config
  <2>3. MirrorSeen'
    BY <1>10, <2>2 DEF MirrorSeen
  <2>4. ASSUME "overlap" \notin ops, NEW f \in Fields \ suspect'
        PROVE  /\ (\A q \in Procs : ~Late(q, f)') => m_mirrored'[f] = hw'[f]
               /\ \A q \in Procs : Late(q, f)' => Expected(q, f)' = hw'[f]
               /\ \A q \in Procs : access'[q].stage = "failed" => f \notin access'[q].fields
    <3>1. \A q \in Procs \ {p} : access[q].stage = "none"
      BY <1>1, <2>4, OnTheBus
    <3>2. f \notin suspect => m_mirrored[f] = hw[f]
      BY <1>1, <1>10, <2>4, <3>1 DEF IInv, MirrorLate, Late
    <3>3. CASE f \in fs
      <4>1. PredictRead(Access(f), m_mirrored[f], value[f]) = hw'[f]
        BY <1>8, <3>2, <3>3
      <4>2. QED
        BY <1>7, <2>1, <2>2, <3>1, <3>3, <4>1 DEF Late, Expected, Access
    <3>4. CASE f \notin fs
      BY <1>1, <1>2, <1>7, <2>1, <2>4, <3>1, <3>2, <3>4 DEF Late
    <3>5. QED
      BY <3>3, <3>4
  <2>5. MirrorLate'
    BY <2>2, <2>4 DEF MirrorLate
  <2>6. QED
    BY <2>3, <2>5
<1>11. QED
  BY <1>9, <1>10

\* A failed transfer makes its fields suspect.
LEMMA BusFailMirror ==
  ASSUME IInv, NEW p \in Procs, BusFail(p)
  PROVE  MirrorSeen' /\ MirrorLate'
<1> DEFINE fs == access[p].fields
           value == IF access[p].kind = "write" THEN access[p].value ELSE Zero
<1>1. /\ access[p].stage = "bus" /\ UNCHANGED hw /\ suspect' = suspect \cup fs
      /\ Transferred(p, value, "failed")
  BY DEF BusFail, design
<1> HIDE DEF value
<1>2. /\ access'[p].stage = "failed" /\ access'[p].fields = fs
      /\ \A q \in Procs \ {p} : access'[q] = access[q]
  BY <1>1 DEF IInv, TypeOK, Accesses, Transferred
<1>3. UNCHANGED <<auto_predict, ops>>
  BY <1>1 DEF Transferred, config
<1>4. CASE ~auto_predict
  <2>1. Predict(access[p].kind, fs, value)
    BY <1>1, <1>4 DEF Transferred
  <2>2. \A f \in Fields \ suspect' : m_mirrored'[f] = hw'[f]
    BY <1>1, <1>4, <2>1, Predicted DEF IInv, MirrorSeen
  <2>3. QED
    BY <1>3, <1>4, <2>2, MirrorIfNoneLate
<1>5. CASE auto_predict
  <2>1. UNCHANGED m_mirrored
    BY <1>1, <1>5 DEF Transferred, fields
  <2>2. ASSUME "overlap" \notin ops, NEW f \in Fields \ suspect'
        PROVE  /\ m_mirrored'[f] = hw'[f]
               /\ \A q \in Procs : ~Late(q, f)'
               /\ \A q \in Procs : access'[q].stage = "failed" => f \notin access'[q].fields
    <3>1. \A q \in Procs \ {p} : access[q].stage = "none"
      BY <1>1, <2>2, OnTheBus
    <3>2. QED
      BY <1>1, <1>2, <1>5, <2>1, <2>2, <3>1 DEF IInv, MirrorLate, Late
  <2>3. QED
    BY <1>3, <1>5, <2>2 DEF MirrorSeen, MirrorLate
<1>6. QED
  BY <1>4, <1>5

\* The prediction of the map makes up for the transfer.
LEMMA FinishMirror ==
  ASSUME IInv, NEW p \in Procs, Finish(p)
  PROVE  MirrorSeen' /\ MirrorLate'
<1> DEFINE fs == access[p].fields
<1>1. /\ access[p].stage \in {"back", "failed"} /\ access' = [access EXCEPT ![p] = Idle]
      /\ UNCHANGED <<config, hw, suspect>>
  BY DEF Finish, design
<1>2. UNCHANGED <<auto_predict, ops>>
  BY <1>1 DEF config
<1>3. CASE ~auto_predict
  BY <1>1, <1>2, <1>3 DEF Finish, fields, IInv, MirrorSeen, MirrorLate
<1>4. CASE auto_predict
  <2>1. Predict(access[p].kind, fs, access[p].value)
    BY <1>4 DEF Finish
  <2>2. ASSUME "overlap" \notin ops
        PROVE  /\ \A f \in Fields \ suspect' : m_mirrored'[f] = hw'[f]
               /\ \A q \in Procs : access'[q].stage = "none"
    <3>1. \A q \in Procs \ {p} : access[q].stage = "none"
      BY <1>1, <2>2, OnTheBus
    <3>2. \A q \in Procs : access'[q].stage = "none"
      BY <1>1, <3>1 DEF IInv, TypeOK, Idle
    <3>3. ASSUME NEW f \in Fields \ suspect PROVE m_mirrored'[f] = hw[f]
      <4>1. CASE Late(p, f)
        <5>1. Expected(p, f) = hw[f]
          BY <1>4, <2>2, <3>3, <4>1 DEF IInv, MirrorLate
        <5>2. m_mirrored'[f] = Expected(p, f)
          BY <2>1, <3>3, <4>1, Predicted DEF Late, Expected
        <5>3. QED
          BY <5>1, <5>2
      <4>2. CASE ~Late(p, f)
        <5>1. f \notin fs
          BY <1>1, <1>4, <2>2, <3>3, <4>2 DEF IInv, MirrorLate, Late
        <5>2. m_mirrored[f] = hw[f]
          BY <1>4, <2>2, <3>1, <3>3, <4>2 DEF IInv, MirrorLate, Late
        <5>3. QED
          BY <2>1, <3>3, <5>1, <5>2, Predicted
      <4>3. QED
        BY <4>1, <4>2
    <3>4. QED
      BY <1>1, <3>2, <3>3
  <2>3. MirrorSeen'
    BY <1>2, <1>4 DEF MirrorSeen
  <2>4. QED
    BY <1>2, <2>2, <2>3 DEF MirrorLate, Late
<1>5. QED
  BY <1>3, <1>4

\* A backdoor access leaves the mirror right where it writes or finds a value.
LEMMA BackdoorMirror ==
  ASSUME IInv, NEW p \in Procs, Backdoor(p), m_mirrored' = hw'
  PROVE  MirrorSeen' /\ MirrorLate'
<1>1. UNCHANGED <<config, access>> /\ (Quiet \/ "overlap" \in ops)
  BY DEF Backdoor, MayStart
<1>2. Quiet => \A q \in Procs : access[q].stage = "none"
  BY DEF Quiet, Idle
<1>3. QED
  BY <1>1, <1>2, MirrorIfNoneLate DEF config

\* Likewise where all is set to the same value between accesses.
LEMMA SetMirror ==
  ASSUME IInv, m_mirrored' = hw', UNCHANGED <<auto_predict, ops>>,
         "overlap" \notin ops => \A q \in Procs : access'[q].stage = "none"
  PROVE  MirrorSeen' /\ MirrorLate'
BY MirrorIfNoneLate

\* Every step keeps the mirror right, or late by one prediction.
LEMMA MirrorKept == IInv /\ [Next]_vars => MirrorSeen' /\ MirrorLate'
<1> SUFFICES ASSUME IInv, [Next]_vars PROVE MirrorSeen' /\ MirrorLate'
  OBVIOUS
<1>1. UNCHANGED <<m_access, rights, auto_predict, ops>>
  BY ConfigKept DEF config
<1>2. ASSUME NEW p \in Procs, Block(p) PROVE MirrorSeen' /\ MirrorLate'
  BY <1>2 DEF Block, IInv, MirrorSeen, MirrorLate, Late, Expected, Access, config, fields, design
<1>3. ASSUME NEW p \in Procs,
             \/ \E value \in Data : write(p, value)
             \/ update(p)
             \/ \E f \in Fields, value \in Values, individually \in BOOLEAN :
                  field_write(p, f, value, individually)
             \/ \E kind \in {"read", "mirror"} : read(p, kind, Fields)
             \/ \E f \in Fields : read(p, "read", {f})
      PROVE  MirrorSeen' /\ MirrorLate'
  BY <1>3, RequestMirror DEF write, update, field_write, read
<1>4. ASSUME NEW p \in Procs,
             \/ \E value \in Data : poke(p, value) \/ backdoor_write(p, value)
             \/ \E f \in Fields, value \in Values : field_poke(p, f, value)
             \/ peek(p)
      PROVE  MirrorSeen' /\ MirrorLate'
  BY <1>4, BackdoorMirror DEF backdoor_write, field_poke, poke, peek, Deposited
<1>5. ASSUME NEW p \in Procs, backdoor_read(p) PROVE MirrorSeen' /\ MirrorLate'
  <2>1. \A f \in Fields : m_access[f] \notin ClearedByRead \cup SetByRead \cup WriteOnly
    BY <1>5 DEF backdoor_read, IInv, Tied
  <2>2. m_mirrored' = hw'
    BY <1>5, <2>1 DEF backdoor_read, Deposited, HwRead
  <2>3. QED
    BY <1>5, <2>2, BackdoorMirror DEF backdoor_read
<1>6. ASSUME NEW p \in Procs, BusWrite(p) \/ BusRead(p) \/ BusFail(p) \/ Finish(p)
      PROVE  MirrorSeen' /\ MirrorLate'
  BY <1>6, BusWriteMirror, BusReadMirror, BusFailMirror, FinishMirror
<1>7. ASSUME NEW p \in Procs, Kill(p) PROVE MirrorSeen' /\ MirrorLate'
  <2>1. access[p].stage # "none"
    BY <1>7 DEF Kill, IInv, Staged
  <2>2. "overlap" \notin ops => \A q \in Procs \ {p} : access[q].stage = "none"
    BY <1>7, <2>1, OnTheBus DEF IInv, TypeOK, Accesses
  <2>3. "overlap" \notin ops => \A q \in Procs : access'[q].stage = "none"
    BY <1>7, <2>2 DEF Kill, IInv, TypeOK, Idle
  <2>4. QED
    BY <1>1, <1>7, <2>3, SetMirror DEF Kill
<1>8. ASSUME NEW value \in Data, predict(value) PROVE MirrorSeen' /\ MirrorLate'
  BY <1>1, <1>8, SetMirror DEF predict, Deposited, Quiet, Idle
<1>9. ASSUME NEW kind \in DOMAIN Resets, reset(kind) PROVE MirrorSeen' /\ MirrorLate'
  BY <1>1, <1>9, SetMirror DEF reset, Quiet, Idle
<1>10. ASSUME NEW value \in Data, set_desired(value) PROVE MirrorSeen' /\ MirrorLate'
  BY <1>1, <1>10 DEF set_desired, IInv, MirrorSeen, MirrorLate, Late, Expected, Access, design
<1>11. ASSUME NEW f \in Fields, Change(f) PROVE MirrorSeen' /\ MirrorLate'
  <2>1. /\ UNCHANGED <<m_mirrored, m_written, access>> /\ suspect' = suspect \cup {f}
        /\ \A g \in Fields \ {f} : hw'[g] = hw[g]
    BY <1>11 DEF Change, fields
  <2>2. QED
    BY <1>1, <2>1 DEF IInv, MirrorSeen, MirrorLate, Late, Expected, Access
<1>12. CASE UNCHANGED vars
  BY <1>1, <1>12 DEF vars, IInv, MirrorSeen, MirrorLate, Late, Expected, Access, fields, design
<1>13. QED
  BY <1>2, <1>3, <1>4, <1>5, <1>6, <1>7, <1>8, <1>9, <1>10, <1>11, <1>12 DEF Next, Calls

(***************************************************************************)
(* The theorems                                                            *)
(***************************************************************************)

\* The invariant holds after construction.
LEMMA InvFirst == Init => IInv
<1> SUFFICES ASSUME Init PROVE IInv
  OBVIOUS
<1>1. Tied
  BY BackdoorAssumption DEF Init, Tied
<1>2. Staged /\ OneAtATime
  BY DEF Init, Staged, OneAtATime
<1>3. MirrorSeen /\ MirrorLate
  BY DEF Init, MirrorSeen, MirrorLate, Late, Idle
<1>4. QED
  BY <1>1, <1>2, <1>3, TypesFirst DEF IInv

\* The invariant is inductive.
LEMMA InvKept == IInv /\ [Next]_vars => IInv'
<1> SUFFICES ASSUME IInv, [Next]_vars PROVE IInv'
  OBVIOUS
<1>1. Tied'
  BY ConfigKept DEF config, IInv, Tied
<1>2. QED
  BY <1>1, TypesKept, LockKept, MirrorKept DEF IInv

\* The invariant holds in every reachable state.
LEMMA InvAlways == Spec => []IInv
BY InvFirst, InvKept, PTL DEF Spec

\* The types of a register and of all that accesses it (uvm_reg, uvm_reg_field).
THEOREM TypesCorrect == Spec => []TypeOK
<1>1. IInv => TypeOK
  BY DEF IInv
<1>2. QED
  BY <1>1, InvAlways, PTL

\* Accesses that are made one at a time never find the register locked: each one,
\* and each reset, gives the lock back (m_atomic_check_lock).
THEOREM LockIsFree == Spec => []NeverBlocked
<1>1. IInv => NeverBlocked
  BY DEF IInv, OneAtATime, NeverBlocked
<1>2. QED
  BY <1>1, InvAlways, PTL

\* The mirror of a register is what the design holds, for every policy, width and
\* number of fields, through the map and through the backdoor (do_predict).
THEOREM MirrorIsRight == Spec => []MirrorIsDut
<1>1. ASSUME IInv, ~auto_predict \/ (Quiet /\ "overlap" \notin ops), NEW f \in Fields \ suspect
      PROVE  m_mirrored[f] = hw[f]
  <2>1. CASE ~auto_predict
    BY <1>1, <2>1 DEF IInv, MirrorSeen
  <2>2. CASE auto_predict
    BY <1>1, <2>2, NoneLate DEF IInv, TypeOK
  <2>3. QED
    BY <1>1, <2>1, <2>2 DEF IInv, TypeOK
<1>2. IInv => MirrorIsDut
  BY <1>1 DEF MirrorIsDut
<1>3. QED
  BY <1>2, InvAlways, PTL

(***************************************************************************)
(* The neighbours of a field that is written                               *)
(***************************************************************************)

\* What is on its way to the neighbours is still made of their mirrors.
Adjusted ==
  "overlap" \notin ops =>
    \A p \in Procs, f \in Fields :
      access[p].stage = "bus" /\ access[p].kind = "write" /\ f \notin access[p].meant
        => access[p].value[f] = value_adjust(Access(f), m_mirrored[f])

\* Written back as it is adjusted, a field keeps its value, for each policy that a
\* write of a neighbour does not disturb.
LEMMA AdjustedIsHarmless ==
  ASSUME TypeOK, NEW f \in Fields, Access(f) \notin Disturbed
  PROVE  HwWrite(Access(f), hw[f], value_adjust(Access(f), hw[f]), hw_written[f]) = hw[f]
<1> DEFINE policy == Access(f)
           adjusted == value_adjust(policy, hw[f])
<1>1. policy \in Policies /\ hw[f] \subseteq Bits
  BY Rights, FieldValues DEF Values
<1>2. ASSUME NEW b \in Bits
      PROVE  BitAfterWrite(policy, b \in hw[f], b \in adjusted, hw_written[f]) <=> b \in hw[f]
  <2>1. CASE policy \in {"W0C", "W0S", "W0T", "W0SRC", "W0CRS"}
    BY <2>1 DEF BitAfterWrite, value_adjust, ReadOnly, Once
  <2>2. CASE policy \notin {"W0C", "W0S", "W0T", "W0SRC", "W0CRS"}
    <3>1. adjusted = hw[f]
      BY <2>2 DEF value_adjust
    <3>2. policy \in ReadOnly \cup {"RW", "WRC", "WRS", "WO"} \cup {"W1S", "W1SRC"} \cup Once
      BY <1>1, <2>2 DEF Disturbed, Policies, ReadOnly, WriteOnly, Once, ClearedByRead, SetByRead
    <3>3. QED
      BY <3>1, <3>2 DEF BitAfterWrite, ReadOnly, Once
  <2>3. QED
    BY <2>1, <2>2
<1>3. QED
  BY <1>1, <1>2 DEF HwWrite

\* A write of one field starts with the neighbours taken from the mirror (value_adjust).
LEMMA RequestAdjusted ==
  ASSUME IInv, NEW p \in Procs, NEW kind, NEW fs, NEW meant, NEW value,
         Request(p, kind, fs, meant, value),
         kind = "write" => \A f \in Fields \ meant : value[f] = value_adjust(Access(f), m_mirrored[f])
  PROVE  Adjusted'
<1> DEFINE made == [kind |-> kind, fields |-> fs, meant |-> meant, value |-> value,
                    exp |-> IF kind = "mirror" THEN m_mirrored ELSE Zero, stage |-> "bus"]
<1>1. made.kind = kind /\ made.meant = meant /\ made.value = value
  OBVIOUS
<1>2. access' = [access EXCEPT ![p] = made]
  BY DEF Request
<1> HIDE DEF made
<1>3. UNCHANGED <<m_access, rights, m_mirrored, ops>> /\ (Quiet \/ "overlap" \in ops)
  BY DEF Request, MayStart, config
<1>4. Quiet => \A q \in Procs : access[q].stage = "none"
  BY DEF Quiet, Idle
<1>5. \A q \in Procs : access'[q] = IF q = p THEN made ELSE access[q]
  BY <1>2 DEF IInv, TypeOK
<1>6. QED
  BY <1>1, <1>3, <1>4, <1>5 DEF Adjusted, Access

\* With the transfer of an access made alone, or its end, nothing is left on the bus.
LEMMA LastOnTheBus ==
  ASSUME IInv, "overlap" \notin ops, NEW p \in Procs,
         BusWrite(p) \/ BusRead(p) \/ BusFail(p) \/ Finish(p) \/ Kill(p)
  PROVE  \A q \in Procs : access'[q].stage # "bus"
<1>1. access[p].stage \in {"bus", "back", "failed"}
  BY DEF BusWrite, BusRead, BusFail, Finish, Kill, IInv, Staged, TypeOK, Accesses
<1>2. \A q \in Procs \ {p} : access[q].stage = "none"
  BY <1>1, OnTheBus
<1>3. /\ access'[p].stage \in {"none", "back", "failed"}
      /\ \A q \in Procs \ {p} : access'[q] = access[q]
  <2>1. ASSUME NEW value, NEW stage \in {"back", "failed"}, Transferred(p, value, stage)
        PROVE  /\ access'[p].stage = stage
               /\ \A q \in Procs \ {p} : access'[q] = access[q]
    BY <2>1 DEF Transferred, IInv, TypeOK, Accesses
  <2>2. CASE BusWrite(p) \/ BusRead(p) \/ BusFail(p)
    BY <2>1, <2>2 DEF BusWrite, BusRead, BusFail
  <2>3. CASE Finish(p) \/ Kill(p)
    BY <2>3 DEF Finish, Kill, Idle, IInv, TypeOK
  <2>4. QED
    BY <2>2, <2>3
<1>4. QED
  BY <1>2, <1>3

\* Until its transfer, a write of one field holds what the mirror holds of the neighbours.
LEMMA AdjustedKept == IInv /\ Adjusted /\ [Next]_vars => Adjusted'
<1> SUFFICES ASSUME IInv, Adjusted, [Next]_vars PROVE Adjusted'
  OBVIOUS
<1>1. UNCHANGED <<m_access, rights, ops>>
  BY ConfigKept DEF config
<1>2. ASSUME UNCHANGED <<access, m_mirrored>> PROVE Adjusted'
  BY <1>1, <1>2 DEF Adjusted, Access
<1>3. ASSUME "overlap" \notin ops => \A p \in Procs : access'[p].stage # "bus" PROVE Adjusted'
  BY <1>1, <1>3 DEF Adjusted
<1>4. ASSUME NEW p \in Procs, NEW value \in Data, write(p, value) PROVE Adjusted'
  BY <1>4, RequestAdjusted DEF write
<1>5. ASSUME NEW p \in Procs, update(p) PROVE Adjusted'
  BY <1>5, RequestAdjusted DEF update
<1>6. ASSUME NEW p \in Procs, NEW f \in Fields, NEW value \in Values,
             NEW individually \in BOOLEAN, field_write(p, f, value, individually)
      PROVE  Adjusted'
  <2> DEFINE adjusted == [g \in Fields |-> IF g = f THEN value
                                           ELSE value_adjust(Access(g), m_mirrored[g])]
  <2>1. Request(p, "write", IF individually THEN {f} ELSE Fields, {f}, adjusted)
    BY <1>6 DEF field_write
  <2>2. \A g \in Fields \ {f} : adjusted[g] = value_adjust(Access(g), m_mirrored[g])
    OBVIOUS
  <2> HIDE DEF adjusted
  <2>3. QED
    BY <2>1, <2>2, RequestAdjusted
<1>7. ASSUME NEW p \in Procs, NEW kind \in {"read", "mirror"}, NEW fs, read(p, kind, fs)
      PROVE  Adjusted'
  BY <1>7, RequestAdjusted DEF read
<1>8. ASSUME NEW p \in Procs, Backdoor(p) PROVE Adjusted'
  BY <1>3, <1>8 DEF Backdoor, MayStart, Quiet, Idle
<1>9. ASSUME NEW p \in Procs, BusWrite(p) \/ BusRead(p) \/ BusFail(p) \/ Finish(p) \/ Kill(p)
      PROVE  Adjusted'
  BY <1>3, <1>9, LastOnTheBus
<1>10. ASSUME NEW kind, reset(kind) PROVE Adjusted'
  BY <1>3, <1>10 DEF reset, Quiet, Idle
<1>11. ASSUME NEW value, predict(value) PROVE Adjusted'
  BY <1>3, <1>11 DEF predict, Quiet, Idle
<1>12. ASSUME \/ \E p \in Procs : Block(p)
              \/ \E value \in Data : set_desired(value)
              \/ \E f \in Fields : Change(f)
              \/ UNCHANGED vars
       PROVE  Adjusted'
  BY <1>2, <1>12 DEF Block, set_desired, Change, vars, fields
<1>13. QED
  BY <1>4, <1>5, <1>6, <1>7, <1>8, <1>9, <1>10, <1>11, <1>12
     DEF Next, Calls, poke, backdoor_write, field_poke, peek, backdoor_read

\* Whoever writes one field of a register leaves the others as they are, for
\* every width and number of fields (uvm_reg_field::do_write).
THEOREM NeighboursAreKept == Spec => NeighboursKept
<1> DEFINE Kept ==
      \A p \in Procs, f \in Fields :
        /\ access[p].stage = "bus" /\ access'[p].stage = "back"
        /\ access[p].kind = "write" /\ f \notin access[p].meant
        /\ f \notin suspect /\ Access(f) \notin Disturbed /\ "overlap" \notin ops
        => hw'[f] = hw[f]
<1>1. ASSUME IInv, Adjusted, [Next]_vars PROVE Kept
  <2> SUFFICES ASSUME NEW p \in Procs, NEW f \in Fields,
                      access[p].stage = "bus", access'[p].stage = "back",
                      access[p].kind = "write", f \notin access[p].meant,
                      f \notin suspect, Access(f) \notin Disturbed, "overlap" \notin ops
               PROVE  hw'[f] = hw[f]
    BY DEF Kept
  <2>1. access[p].value[f] = value_adjust(Access(f), m_mirrored[f])
    BY <1>1 DEF Adjusted
  <2>2. m_mirrored[f] = hw[f]
    <3>1. \A q \in Procs : access[q].stage \in {"none", "bus"}
      BY <1>1, OnTheBus
    <3>2. QED
      BY <1>1, <3>1 DEF IInv, MirrorSeen, MirrorLate, Late, TypeOK
  <2>3. BusWrite(p) \/ UNCHANGED hw
    <3>1. access[p] # Idle
      BY DEF Idle
    <3>2. ~Quiet
      BY <3>1 DEF Quiet
    <3>3. ASSUME NEW q \in Procs, BusWrite(q) \/ BusRead(q) \/ BusFail(q) \/ Finish(q) \/ Kill(q)
          PROVE  BusWrite(p) \/ UNCHANGED hw
      <4>1. access[q].stage # "none"
        BY <1>1, <3>3 DEF BusWrite, BusRead, BusFail, Finish, Kill, IInv, Staged
      <4>2. q = p
        BY <1>1, <4>1, OnTheBus
      <4>3. ~Kill(p)
        BY <1>1 DEF Kill, IInv, TypeOK, Idle
      <4>4. QED
        BY <3>3, <4>2, <4>3 DEF BusRead, BusFail, Finish, design
    <3>4. ASSUME NEW g \in Fields, Change(g) PROVE UNCHANGED hw
      BY <1>1, <3>4 DEF Change, IInv, TypeOK
    <3>5. QED
      BY <1>1, <3>2, <3>3, <3>4
         DEF Next, Calls, Block, write, update, field_write, read, Request, MayStart, poke,
             backdoor_write, field_poke, peek, backdoor_read, Backdoor, set_desired, predict,
             reset, vars, design
  <2>4. CASE BusWrite(p)
    <3>1. hw'[f] = HwWrite(Access(f), hw[f], access[p].value[f], hw_written[f]) \/ hw'[f] = hw[f]
      BY <2>4 DEF BusWrite
    <3>2. QED
      BY <1>1, <2>1, <2>2, <3>1, AdjustedIsHarmless DEF IInv
  <2>5. QED
    BY <2>3, <2>4
<1>2. Init => Adjusted
  BY DEF Init, Adjusted, Idle
<1>3. Kept => [Kept]_vars
  OBVIOUS
<1>4. Spec => [][Kept]_vars
  BY <1>1, <1>2, InvFirst, InvKept, AdjustedKept, PTL DEF Spec
<1>5. QED
  BY <1>4 DEF NeighboursKept

(***************************************************************************)
(* Checks                                                                  *)
(***************************************************************************)

\* Until its transfer, a mirror made alone looks at all fields and expects of them
\* what the model holds: nothing is predicted in the meantime.
Remembered ==
  "overlap" \notin ops =>
    \A p \in Procs : access[p].stage = "bus" /\ access[p].kind = "mirror" =>
      access[p].fields = Fields /\ access[p].exp = m_mirrored

\* A mirror starts with all fields.
LEMMA RequestRemembered ==
  ASSUME IInv, NEW p \in Procs, NEW kind, NEW fs, NEW meant, NEW value,
         Request(p, kind, fs, meant, value), kind = "mirror" => fs = Fields
  PROVE  Remembered'
<1> DEFINE made == [kind |-> kind, fields |-> fs, meant |-> meant, value |-> value,
                    exp |-> IF kind = "mirror" THEN m_mirrored ELSE Zero, stage |-> "bus"]
<1>1. made.kind = kind /\ made.fields = fs /\ (kind = "mirror" => made.exp = m_mirrored)
  OBVIOUS
<1>2. access' = [access EXCEPT ![p] = made]
  BY DEF Request
<1> HIDE DEF made
<1>3. UNCHANGED <<m_mirrored, ops>> /\ (Quiet \/ "overlap" \in ops)
  BY DEF Request, MayStart, config
<1>4. Quiet => \A q \in Procs : access[q].stage = "none"
  BY DEF Quiet, Idle
<1>5. \A q \in Procs : access'[q] = IF q = p THEN made ELSE access[q]
  BY <1>2 DEF IInv, TypeOK
<1>6. QED
  BY <1>1, <1>3, <1>4, <1>5 DEF Remembered

\* What a mirror expects stays what the model holds until its transfer.
LEMMA RememberedKept == IInv /\ Remembered /\ [Next]_vars => Remembered'
<1> SUFFICES ASSUME IInv, Remembered, [Next]_vars PROVE Remembered'
  OBVIOUS
<1>1. UNCHANGED ops
  BY ConfigKept DEF config
<1>2. ASSUME UNCHANGED <<access, m_mirrored>> PROVE Remembered'
  BY <1>1, <1>2 DEF Remembered
<1>3. ASSUME "overlap" \notin ops => \A p \in Procs : access'[p].stage # "bus" PROVE Remembered'
  BY <1>1, <1>3 DEF Remembered
<1>4. ASSUME NEW p \in Procs, NEW value \in Data, write(p, value) PROVE Remembered'
  BY <1>4, RequestRemembered DEF write
<1>5. ASSUME NEW p \in Procs, update(p) PROVE Remembered'
  BY <1>5, RequestRemembered DEF update
<1>6. ASSUME NEW p \in Procs, NEW f \in Fields, NEW value \in Values,
             NEW individually \in BOOLEAN, field_write(p, f, value, individually)
      PROVE  Remembered'
  <2>1. PICK fs, adjusted : Request(p, "write", fs, {f}, adjusted)
    BY <1>6 DEF field_write
  <2>2. QED
    BY <2>1, RequestRemembered
<1>7. ASSUME NEW p \in Procs, NEW kind \in {"read", "mirror"}, read(p, kind, Fields)
      PROVE  Remembered'
  BY <1>7, RequestRemembered DEF read
<1>8. ASSUME NEW p \in Procs, NEW fs, read(p, "read", fs) PROVE Remembered'
  BY <1>8, RequestRemembered DEF read
<1>9. ASSUME NEW p \in Procs, Backdoor(p) PROVE Remembered'
  BY <1>3, <1>9 DEF Backdoor, MayStart, Quiet, Idle
<1>10. ASSUME NEW p \in Procs, BusWrite(p) \/ BusRead(p) \/ BusFail(p) \/ Finish(p) \/ Kill(p)
       PROVE  Remembered'
  BY <1>3, <1>10, LastOnTheBus
<1>11. ASSUME NEW kind, reset(kind) PROVE Remembered'
  BY <1>3, <1>11 DEF reset, Quiet, Idle
<1>12. ASSUME NEW value, predict(value) PROVE Remembered'
  BY <1>3, <1>12 DEF predict, Quiet, Idle
<1>13. ASSUME \/ \E p \in Procs : Block(p)
              \/ \E value \in Data : set_desired(value)
              \/ \E f \in Fields : Change(f)
              \/ UNCHANGED vars
       PROVE  Remembered'
  BY <1>2, <1>13 DEF Block, set_desired, Change, vars, fields
<1>14. QED
  BY <1>4, <1>5, <1>6, <1>7, <1>8, <1>9, <1>10, <1>11, <1>12, <1>13
     DEF Next, Calls, poke, backdoor_write, field_poke, peek, backdoor_read

\* mirror with UVM_CHECK, made alone, reports no field that did not change by itself,
\* for all policies, widths and fields (do_check).
THEOREM ChecksAreTrue == Spec => ChecksAreRight
<1> DEFINE Right ==
      \A p \in Procs, f \in Fields :
        /\ access[p].stage = "bus" /\ access'[p].stage = "back"
        /\ access[p].kind = "mirror" /\ Access(f) \notin WriteOnly
        /\ access'[p].value[f] # access[p].exp[f] /\ "overlap" \notin ops
        => f \in suspect
<1>1. ASSUME IInv, Remembered, [Next]_vars PROVE Right
  <2> SUFFICES ASSUME NEW p \in Procs, NEW f \in Fields,
                      access[p].stage = "bus", access'[p].stage = "back",
                      access[p].kind = "mirror", Access(f) \notin WriteOnly,
                      "overlap" \notin ops, f \notin suspect
               PROVE  access'[p].value[f] = access[p].exp[f]
    BY DEF Right
  <2>1. access[p].fields = Fields /\ access[p].exp[f] = m_mirrored[f]
    BY <1>1 DEF Remembered
  <2>2. m_mirrored[f] = hw[f]
    <3>1. \A q \in Procs : access[q].stage \in {"none", "bus"}
      BY <1>1, OnTheBus
    <3>2. QED
      BY <1>1, <3>1 DEF IInv, MirrorSeen, MirrorLate, Late, TypeOK
  <2>3. BusRead(p)
    <3>1. access[p] # Idle /\ access'[p] # access[p]
      BY DEF Idle
    <3>2. ~Quiet
      BY <3>1 DEF Quiet
    <3>3. ASSUME NEW q \in Procs, BusWrite(q) \/ BusRead(q) \/ BusFail(q) \/ Finish(q) \/ Kill(q)
          PROVE  BusRead(p)
      <4>1. access[q].stage # "none"
        BY <1>1, <3>3 DEF BusWrite, BusRead, BusFail, Finish, Kill, IInv, Staged
      <4>2. q = p
        BY <1>1, <4>1, OnTheBus
      <4>3. ~BusFail(p)
        BY <1>1 DEF BusFail, Transferred, IInv, TypeOK, Accesses
      <4>4. ~Finish(p) /\ ~Kill(p)
        BY <1>1 DEF Kill, Finish, IInv, TypeOK, Idle
      <4>5. ~BusWrite(p)
        BY DEF BusWrite
      <4>6. QED
        BY <3>3, <4>2, <4>3, <4>4, <4>5
    <3>4. QED
      BY <1>1, <3>1, <3>2, <3>3
         DEF Next, Calls, Block, write, update, field_write, read, Request, MayStart, poke,
             backdoor_write, field_poke, peek, backdoor_read, Backdoor, set_desired, predict,
             reset, Change, vars
  <2>4. access'[p].value[f] = hw[f]
    <3> DEFINE value == [g \in Fields |->
                 IF g \in access[p].fields /\ Access(g) \notin WriteOnly THEN hw[g] ELSE {}]
    <3>1. Transferred(p, value, "back")
      BY <2>3 DEF BusRead
    <3>2. value[f] = hw[f]
      BY <2>1
    <3> HIDE DEF value
    <3>3. access'[p].value = value
      BY <1>1, <3>1 DEF Transferred, IInv, TypeOK, Accesses
    <3>4. QED
      BY <3>2, <3>3
  <2>5. QED
    BY <2>1, <2>2, <2>4
<1>2. Init => Remembered
  BY DEF Init, Remembered, Idle
<1>3. Right => [Right]_vars
  OBVIOUS
<1>4. Spec => [][Right]_vars
  BY <1>1, <1>2, InvFirst, InvKept, RememberedKept, PTL DEF Spec
<1>5. QED
  BY <1>4 DEF ChecksAreRight

=============================================================================
