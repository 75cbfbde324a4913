----------------------------- MODULE PhaseProofs -----------------------------
(***************************************************************************)
(* The phases of any graph: objections are used as they may be, and, if    *)
(* nothing jumps or nothing is parallel, a phase is executed by one        *)
(* process, whose components live as long as it executes and which ends    *)
(* when nothing objects.                                                   *)
(***************************************************************************)
EXTENDS Phase, FiniteSetTheorems, SequenceTheorems, WellFoundedInduction, TLAPS

-----------------------------------------------------------------------------
(* The order of the nodes *)

\* Every node has a place of its own in a map of nodes.
LEMMA Places ==
  /\ Len(Order) \in Nat
  /\ \A q \in Phases : Place[q] \in 1 .. Len(Order) /\ Order[Place[q]] = q
<1>1. Len(Order) \in Nat /\ DOMAIN Order = 1 .. Len(Order)
  BY GraphAssumption
<1>2. \A q \in Phases : \E i \in DOMAIN Order : Order[i] = q
  BY GraphAssumption DEF ToSet
<1> QED BY <1>1, <1>2 DEF Place

\* There are finitely many phases: they have places.
LEMMA PhasesFinite == IsFiniteSet(Phases)
<1>1. Len(Order) \in Nat /\ Order \in [1 .. Len(Order) -> Phases]
  BY GraphAssumption
<1>2. Order \in Surjection(1 .. Len(Order), Phases)
  BY <1>1, Places DEF Surjection
<1> QED BY <1>1, <1>2, FS_Interval, FS_Surjection

\* A set of numbers has a least one.
LEMMA LeastOf ==
  ASSUME NEW T \in SUBSET Nat, T # {}
  PROVE  \E m \in T : \A n \in T : m <= n
<1>1. PICK m \in T : \A n \in T : <<n, m>> \notin OpToRel(<, Nat)
  BY NatLessThanWellFounded, WFMin
<1>2. \A n \in T : ~(n < m)
  BY <1>1 DEF OpToRel
<1> QED BY <1>2

\* Nodes that are left have a first one.
LEMMA LeastNode ==
  ASSUME NEW p \in Phases, NEW S \in SUBSET Phases, S # {}
  PROVE  \E q \in S : \A r \in S : NoLater(p, q, r)
<1> DEFINE Rank(q) == IF q = p THEN 0 ELSE Place[q]
           T == {Rank(q) : q \in S}
<1>1. \A q \in Phases : Rank(q) \in Nat /\ Place[q] > 0
  BY Places
<1>2. T \in SUBSET Nat /\ T # {}
  BY <1>1
<1>3. PICK m \in T : \A n \in T : m <= n
  BY <1>2, LeastOf
<1>4. PICK q \in S : \A r \in S : Rank(q) <= Rank(r)
  BY <1>3
<1>5. \A r \in S : NoLater(p, q, r)
  BY <1>1, <1>4 DEF NoLater
<1> QED BY <1>5

\* The first of some nodes is one of them.
LEMMA FirstExists ==
  ASSUME NEW p \in Phases, NEW S \in SUBSET Phases, S # {}
  PROVE  First(p, S) \in S
BY LeastNode DEF First

\* What is left are some of the nodes, among them all that are late.
LEMMA FromIs ==
  ASSUME NEW p \in Phases, NEW S \in SUBSET Phases, NEW late
  PROVE  From(p, S, late) \in SUBSET S /\ S \cap late \subseteq From(p, S, late)
<1>1. \A q \in S : NoLater(p, q, q)
  BY Places DEF NoLater
<1> QED BY <1>1 DEF From

\* Some nodes can be listed in their order.
LEMMA ListedIs ==
  ASSUME NEW S \in SUBSET Phases
  PROVE  /\ Cardinality(S) \in Nat
         /\ Listed(S) \in [1 .. Cardinality(S) -> S]
         /\ \A i, j \in 1 .. Cardinality(S) :
              i < j => Place[Listed(S)[i]] < Place[Listed(S)[j]]
<1> DEFINE Ordered(U, s) == \A i, j \in 1 .. Cardinality(U) : i < j => Place[s[i]] < Place[s[j]]
           Bad == {U \in SUBSET Phases :
                     ~ \E s \in [1 .. Cardinality(U) -> U] : Ordered(U, s)}
           Sizes == {Cardinality(U) : U \in Bad}
<1>1. \A U \in SUBSET Phases : IsFiniteSet(U) /\ Cardinality(U) \in Nat
  BY PhasesFinite, FS_Subset, FS_CardinalityType
<1>2. Bad = {}
  <2> SUFFICES ASSUME Bad # {} PROVE FALSE
    OBVIOUS
  <2>1. Sizes \in SUBSET Nat /\ Sizes # {}
    BY <1>1
  <2>2. PICK n \in Sizes : \A k \in Sizes : n <= k
    BY <2>1, LeastOf
  <2>3. PICK U \in Bad : Cardinality(U) = n
    BY <2>2
  <2>4. U \in SUBSET Phases /\ n \in Nat
    BY <1>1, <2>3
  <2>5. U # {}
    <3> SUFFICES ASSUME U = {} PROVE FALSE
      OBVIOUS
    <3>1. n = 0
      BY <2>3, FS_EmptySet
    <3>2. [i \in 1 .. 0 |-> i] \in [1 .. 0 -> {}]
      OBVIOUS
    <3>3. Ordered({}, [i \in 1 .. 0 |-> i])
      BY FS_EmptySet
    <3> QED BY <2>3, <3>1, <3>2, <3>3
  <2>6. PICK m \in U : \A q \in U : Place[q] <= Place[m]
    <3> DEFINE T == {Len(Order) - Place[q] : q \in U}
    <3>1. T \in SUBSET Nat /\ T # {}
      BY <2>4, <2>5, Places
    <3>2. PICK k \in T : \A l \in T : k <= l
      BY <3>1, LeastOf
    <3>3. PICK q \in U : k = Len(Order) - Place[q]
      BY <3>2
    <3>4. \A r \in U : Len(Order) - Place[q] <= Len(Order) - Place[r]
      BY <3>2, <3>3
    <3>5. Len(Order) \in Int /\ \A r \in U : Place[r] \in Int
      BY <2>4, Places
    <3>6. ASSUME NEW r \in U PROVE Place[r] <= Place[q]
      BY <3>4, <3>5
    <3> QED BY <3>6
  <2> DEFINE V == U \ {m}
  <2>7. V \in SUBSET Phases /\ Cardinality(V) = n - 1 /\ n - 1 \in Nat
    <3>1. Cardinality(V) = Cardinality(U) - 1
      BY <1>1, <2>4, FS_RemoveElement
    <3> QED BY <1>1, <2>3, <2>4, <3>1
  <2>8. V \notin Bad
    <3> SUFFICES ASSUME V \in Bad PROVE FALSE
      OBVIOUS
    <3>1. n - 1 \in Sizes
      BY <2>7
    <3>2. n <= n - 1
      BY <2>2, <3>1
    <3> QED BY <2>4, <3>2
  <2>9. PICK s \in [1 .. n - 1 -> V] : \A i, j \in 1 .. n - 1 : i < j => Place[s[i]] < Place[s[j]]
    BY <2>7, <2>8
  <2> DEFINE t == [i \in 1 .. n |-> IF i = n THEN m ELSE s[i]]
  <2>10. t \in [1 .. n -> U]
    BY <2>4, <2>9
  <2>11. ASSUME NEW i \in 1 .. n, NEW j \in 1 .. n, i < j PROVE Place[t[i]] < Place[t[j]]
    <3>1. i \in 1 .. n - 1 /\ t[i] = s[i] /\ s[i] \in V
      BY <2>4, <2>9, <2>11
    <3>2. CASE j = n
      <4>1. t[j] = m
        BY <3>2
      <4>2. Place[s[i]] # Place[m] /\ Place[s[i]] <= Place[m]
        BY <2>4, <2>6, <3>1, Places
      <4>3. Place[s[i]] \in Int /\ Place[m] \in Int
        BY <2>4, <3>1, Places
      <4> QED BY <3>1, <4>1, <4>2, <4>3
    <3>3. CASE j # n
      BY <2>4, <2>9, <2>11, <3>1, <3>3
    <3> QED BY <3>2, <3>3
  <2> QED BY <2>3, <2>10, <2>11
<1>3. \E s \in [1 .. Cardinality(S) -> S] : Ordered(S, s)
  BY <1>2
<1> QED BY <1>1, <1>3 DEF Listed

\* The list is a sequence of phases, each once.
LEMMA ListedSeq ==
  ASSUME NEW S \in SUBSET Phases
  PROVE  /\ Listed(S) \in Seq(Phases) /\ Len(Listed(S)) = Cardinality(S)
         /\ \A i \in 1 .. Len(Listed(S)) : Listed(S)[i] \in S
         /\ \A i, j \in 1 .. Len(Listed(S)) : Listed(S)[i] = Listed(S)[j] => i = j
<1>1. Listed(S) \in Seq(Phases) /\ Len(Listed(S)) = Cardinality(S)
  BY ListedIs
<1>2. \A i \in 1 .. Cardinality(S) : Listed(S)[i] \in S
  BY ListedIs
<1>3. \A i, j \in 1 .. Cardinality(S) : Listed(S)[i] = Listed(S)[j] => i = j
  <2> SUFFICES ASSUME NEW i \in 1 .. Cardinality(S), NEW j \in 1 .. Cardinality(S),
                      Listed(S)[i] = Listed(S)[j], i # j
               PROVE  FALSE
    OBVIOUS
  <2>1. Cardinality(S) \in Nat /\ (i < j \/ j < i)
    BY ListedIs
  <2>2. Place[Listed(S)[i]] < Place[Listed(S)[i]]
    BY <2>1, ListedIs
  <2>3. Place[Listed(S)[i]] \in Int
    BY <1>2, Places
  <2> QED BY <2>2, <2>3
<1> QED BY <1>1, <1>2, <1>3

-----------------------------------------------------------------------------
(* Types *)

\* Where a process waits says what it holds: the target of its jump, the successors
\* it has not scheduled yet.
Held ==
  \A p \in Phases :
    /\ Jumping(p) => m_jump_phase[p] \in Phases
    /\ pc[p] \in {"jumps", "jumping"} => Jumping(p)
    /\ pc[p] = "schedule" => todo[p] # {} /\ todo[p] \subseteq Succ[p]

Typed == TypeOK /\ Held

Ats == {"idle", "pred", "sync", "started", "executing", "waiting", "waited", "ended",
        "cleanup", "done", "schedule", "jumps", "jumping"}

\* The nodes of the graph are phases.
LEMMA Nodes ==
  ASSUME NEW p \in Phases
  PROVE  /\ Succ[p] \in SUBSET Phases /\ Sync[p] \in SUBSET Phases
         /\ Targets[p] \in SUBSET Phases /\ Pred[p] \in SUBSET Phases
         /\ Watched(p) \in SUBSET Phases
BY GraphAssumption DEF Pred, Watched, Siblings, get_predecessors_for_successors

\* A cleared objection has a type.
LEMMA ClearedTypes ==
  ASSUME TypeOK, NEW S, Cleared(S)
  PROVE  /\ obj' \in [Phases -> {"none", "raised", "draining", "told"}]
         /\ on' \in [Phases -> Phases \cup {NULL}]
BY DEF TypeOK, Cleared

\* A phase of functions leaves every variable its type.
LEMMA FunctionTypes ==
  ASSUME Typed, NEW p \in Phases, m_phase_hopper # <<>>, p = Head(m_phase_hopper),
         ExecuteFunction(p)
  PROVE  /\ m_state' \in [Phases -> DORMANT .. JUMPING]
         /\ m_phase_hopper' \in Seq(Phases)
         /\ obj' \in [Phases -> {"none", "raised", "draining", "told"}]
         /\ on' \in [Phases -> Phases \cup {NULL}]
<1>1. Tail(m_phase_hopper) \in Seq(Phases)
  BY DEF Typed, TypeOK
<1>2. CASE m_state[p] = DONE
  BY <1>1, <1>2 DEF ExecuteFunction, Typed, TypeOK
<1>3. CASE m_state[p] # DONE
  <2> DEFINE next == {q \in Succ[p] : Schedulable(m_state[q])}
  <2>1. next \in SUBSET Phases
    BY Nodes
  <2>2. Listed(next) \in Seq(Phases)
    BY <2>1, ListedSeq
  <2>3. /\ m_state' = [q \in Phases |-> IF q = p THEN DONE
                                      ELSE IF q \in next THEN SCHEDULED
                                      ELSE m_state[q]]
        /\ m_phase_hopper' = Tail(m_phase_hopper) \o Listed(next)
        /\ Cleared({p})
    BY <1>3 DEF ExecuteFunction
  <2> HIDE DEF next
  <2>4. m_state' \in [Phases -> DORMANT .. JUMPING]
    BY <2>3 DEF Typed, TypeOK, DORMANT, SCHEDULED, DONE, JUMPING
  <2> QED BY <1>1, <2>2, <2>3, <2>4, ClearedTypes DEF Typed
<1> QED BY <1>2, <1>3

\* So does m_run_phases.
LEMMA HopperTypes ==
  ASSUME Typed, m_run_phases
  PROVE  Typed'
<1> DEFINE p == Head(m_phase_hopper)
<1>1. p \in Phases /\ Tail(m_phase_hopper) \in Seq(Phases)
  BY DEF m_run_phases, Typed, TypeOK
<1>2. UNCHANGED <<jumpVars, alive, helper, left, need_to_check_all,
                  m_ready_to_end_count, m_phase_all_done, raises, jumps>>
  BY DEF m_run_phases
<1>3. runs' \in {"on", "over", "clash"}
  BY DEF m_run_phases
<1>4. CASE Kind[p] = "function"
  <2>1. ExecuteFunction(p) /\ UNCHANGED <<pc, todo>> /\ m_phase_hopper # <<>>
    BY <1>4 DEF m_run_phases
  <2> HIDE DEF p
  <2>2. /\ m_state' \in [Phases -> DORMANT .. JUMPING]
        /\ m_phase_hopper' \in Seq(Phases)
        /\ obj' \in [Phases -> {"none", "raised", "draining", "told"}]
        /\ on' \in [Phases -> Phases \cup {NULL}]
    BY <1>1, <2>1, FunctionTypes DEF p
  <2> QED BY <1>2, <1>3, <2>1, <2>2 DEF Typed, TypeOK, Held, Jumping, jumpVars
<1>5. CASE Kind[p] # "function"
  <2>1. /\ m_phase_hopper' = Tail(m_phase_hopper)
        /\ pc' = [pc EXCEPT ![p] = IF @ = "idle" THEN "pred" ELSE @]
        /\ todo' = [todo EXCEPT ![p] = IF pc[p] = "idle" THEN Pred[p] ELSE @]
        /\ UNCHANGED <<m_state, obj, on>>
    BY <1>5 DEF m_run_phases
  <2> HIDE DEF p
  <2>2. TypeOK'
    BY <1>1, <1>2, <1>3, <2>1, Nodes DEF Typed, TypeOK, jumpVars
  <2>3. Held'
    BY <1>1, <1>2, <2>1 DEF Typed, TypeOK, Held, Jumping, jumpVars
  <2> QED BY <2>2, <2>3 DEF Typed
<1> QED BY <1>4, <1>5

\* Every state is one of the states.
LEMMA StateTypes ==
  /\ DORMANT \in DORMANT .. JUMPING /\ SCHEDULED \in DORMANT .. JUMPING
  /\ SYNCING \in DORMANT .. JUMPING /\ STARTED \in DORMANT .. JUMPING
  /\ EXECUTING \in DORMANT .. JUMPING /\ READY_TO_END \in DORMANT .. JUMPING
  /\ ENDED \in DORMANT .. JUMPING /\ CLEANUP \in DORMANT .. JUMPING
  /\ DONE \in DORMANT .. JUMPING /\ JUMPING \in DORMANT .. JUMPING
BY DEF DORMANT, SCHEDULED, SYNCING, STARTED, EXECUTING, READY_TO_END, ENDED, CLEANUP,
       DONE, JUMPING

\* A phase starts, or waits for those it is synchronised with.
LEMMA SyncFromTypes ==
  ASSUME Typed, NEW p \in Phases, NEW state \in [Phases -> DORMANT .. JUMPING],
         NEW nodes \in SUBSET Phases, SyncFrom(p, state, nodes), pc[p] \in {"pred", "sync"},
         state = m_state \/ state = [m_state EXCEPT ![p] = SYNCING]
  PROVE  /\ m_state' \in [Phases -> DORMANT .. JUMPING]
         /\ \E at \in {"started", "sync"} : pc' = [pc EXCEPT ![p] = at]
         /\ todo' \in [Phases -> SUBSET Phases]
         /\ \A q \in Phases \ {p} : todo'[q] = todo[q]
         /\ m_ready_to_end_count' \in [Phases -> Nat]
<1> DEFINE rest == From(p, nodes, {q \in Phases : state[q] < SYNCING})
<1>1. rest \in SUBSET Phases
  BY FromIs
<1>2. CASE rest = {}
  <2>1. Starts(p)
    BY <1>2 DEF SyncFrom
  <2> QED BY <2>1, StateTypes DEF Starts, Goto, Typed, TypeOK
<1>3. CASE rest # {}
  <2>1. m_state' = state /\ Goto(p, "sync") /\ todo' = [todo EXCEPT ![p] = rest]
        /\ UNCHANGED m_ready_to_end_count
    BY <1>3 DEF SyncFrom
  <2> HIDE DEF rest
  <2> QED BY <1>1, <2>1 DEF Goto, Typed, TypeOK
<1> QED BY <1>2, <1>3

\* So does the wait for synchronised phases.
LEMMA SyncTypes ==
  ASSUME Typed, NEW p \in Phases, pc[p] \in {"pred", "sync"},
         NEW state \in [Phases -> DORMANT .. JUMPING], NEW nodes \in SUBSET Phases,
         state = m_state \/ state = [m_state EXCEPT ![p] = SYNCING],
         Starts(p) \/ SyncFrom(p, state, nodes),
         UNCHANGED <<jumpVars, obj, alive, helper, left, need_to_check_all, on, Waiting>>
  PROVE  Typed'
<1>1. /\ m_state' \in [Phases -> DORMANT .. JUMPING]
      /\ \E at \in {"started", "sync"} : pc' = [pc EXCEPT ![p] = at]
      /\ todo' \in [Phases -> SUBSET Phases]
      /\ \A q \in Phases \ {p} : todo'[q] = todo[q]
      /\ m_ready_to_end_count' \in [Phases -> Nat]
  <2>1. CASE Starts(p)
    BY <2>1, StateTypes DEF Starts, Goto, Typed, TypeOK
  <2>2. CASE SyncFrom(p, state, nodes)
    BY <2>2, SyncFromTypes
  <2> QED BY <2>1, <2>2
<1>2. TypeOK'
  <2>1. pc' \in [Phases -> Ats]
    BY <1>1 DEF Typed, TypeOK, Ats
  <2>2. UNCHANGED <<m_jump_phase, m_jump_fwd, m_jump_bkwd, obj, alive, helper, left,
                    need_to_check_all, on, m_phase_hopper, runs, m_phase_all_done, raises,
                    jumps>>
    BY DEF jumpVars, Waiting
  <2> QED BY <1>1, <2>1, <2>2 DEF Typed, TypeOK, Ats
<1>3. Held'
  <2> SUFFICES ASSUME NEW q \in Phases
               PROVE  Held!(q)'
    BY DEF Held
  <2>1. CASE q = p
    BY <1>1, <2>1 DEF Typed, TypeOK, Held, Jumping, jumpVars
  <2>2. CASE q # p
    <3>1. pc'[q] = pc[q] /\ todo'[q] = todo[q]
      BY <1>1, <2>2 DEF Typed, TypeOK
    <3> QED BY <3>1 DEF Typed, Held, Jumping, jumpVars
  <2> QED BY <2>1, <2>2
<1> QED BY <1>2, <1>3 DEF Typed

\* The first of the nodes that can be scheduled is scheduled, if there is one.
LEMMA ScheduleNextTypes ==
  ASSUME Typed, NEW p \in Phases, NEW nodes \in SUBSET Succ[p], ScheduleNext(p, nodes),
         UNCHANGED <<jumpVars, obj, alive, helperVars, runs, raises, jumps>>,
         m_phase_hopper' \in Seq(Phases), m_phase_all_done' \in BOOLEAN
  PROVE  Typed'
<1> DEFINE rest == From(p, nodes, {q \in Phases : Schedulable(m_state[q])})
<1>1. nodes \in SUBSET Phases /\ rest \in SUBSET nodes
  BY Nodes, FromIs
<1>2. /\ todo' = [todo EXCEPT ![p] = rest]
      /\ IF rest = {} THEN Goto(p, "idle") /\ UNCHANGED m_state
         ELSE /\ Goto(p, "schedule")
              /\ m_state' = [m_state EXCEPT ![First(p, rest)] = SCHEDULED]
  BY DEF ScheduleNext
<1>3. rest # {} => First(p, rest) \in Phases
  BY <1>1, FirstExists
<1> HIDE DEF rest
<1>4. TypeOK'
  <2>1. /\ m_state' \in [Phases -> DORMANT .. JUMPING]
        /\ pc' \in [Phases -> Ats] /\ todo' \in [Phases -> SUBSET Phases]
    <3>1. todo' \in [Phases -> SUBSET Phases]
      BY <1>1, <1>2 DEF Typed, TypeOK
    <3>2. pc' \in [Phases -> Ats]
      BY <1>2 DEF Goto, Typed, TypeOK, Ats
    <3>3. m_state' \in [Phases -> DORMANT .. JUMPING]
      BY <1>2, <1>3, StateTypes DEF Typed, TypeOK
    <3> QED BY <3>1, <3>2, <3>3
  <2>2. UNCHANGED <<m_jump_phase, m_jump_fwd, m_jump_bkwd, obj, alive, helper, left,
                    need_to_check_all, on, m_ready_to_end_count, runs, raises, jumps>>
    BY DEF jumpVars, helperVars
  <2> QED BY <2>1, <2>2 DEF Typed, TypeOK, Ats
<1>5. Held'
  BY <1>1, <1>2 DEF Goto, Typed, TypeOK, Held, Jumping, jumpVars
<1> QED BY <1>4, <1>5 DEF Typed

\* A process that goes on holds what it held.
LEMMA HeldKept ==
  ASSUME Typed, NEW p \in Phases, NEW at \in Ats \ {"schedule"},
         pc' = [pc EXCEPT ![p] = at], at \in {"jumps", "jumping"} => Jumping(p),
         UNCHANGED <<m_jump_phase, m_jump_fwd, m_jump_bkwd, todo>>
  PROVE  Held'
<1> SUFFICES ASSUME NEW q \in Phases PROVE Held!(q)'
  BY DEF Held
<1>1. pc'[q] = IF q = p THEN at ELSE pc[q]
  BY DEF Typed, TypeOK
<1> QED BY <1>1 DEF Typed, Held, Jumping

\* So does every step of execute_phase.
LEMMA ProcessTypes ==
  ASSUME Typed, NEW p \in Phases, execute_phase(p)
  PROVE  Typed'
<1> USE StateTypes
<1> DEFINE rest == From(p, todo[p], Uncompleted)
<1>1. rest \in SUBSET Phases
  BY FromIs DEF Typed, TypeOK
<1>2. CASE WaitForPredecessors(p)
  <2>1. CASE rest # {} /\ rest # todo[p]
    <3>1. todo' = [todo EXCEPT ![p] = rest] /\ pc[p] = "pred"
      BY <1>2, <2>1 DEF WaitForPredecessors, At
    <3>2. UNCHANGED <<m_state, pc, m_ready_to_end_count, m_jump_phase, m_jump_fwd,
                      m_jump_bkwd, obj, alive, helper, left, need_to_check_all, on,
                      m_phase_hopper, runs, m_phase_all_done, raises, jumps>>
      BY <1>2, <2>1 DEF WaitForPredecessors, jumpVars, Waiting
    <3> HIDE DEF rest
    <3>3. TypeOK'
      BY <1>1, <3>1, <3>2 DEF Typed, TypeOK
    <3>4. ASSUME NEW q \in Phases PROVE Held!(q)'
      <4>1. pc[q] = "schedule" => todo'[q] = todo[q]
        BY <3>1 DEF Typed, TypeOK
      <4> QED BY <3>2, <4>1 DEF Typed, Held, Jumping
    <3> QED BY <3>3, <3>4 DEF Typed, Held
  <2>2. CASE rest = {} /\ m_state[p] = DONE
    <3>1. todo' = [todo EXCEPT ![p] = {}] /\ pc' = [pc EXCEPT ![p] = "idle"]
      BY <1>2, <2>2 DEF WaitForPredecessors, Goto
    <3>2. UNCHANGED <<m_state, m_ready_to_end_count, m_jump_phase, m_jump_fwd,
                      m_jump_bkwd, obj, alive, helper, left, need_to_check_all, on,
                      m_phase_hopper, runs, m_phase_all_done, raises, jumps>>
      BY <1>2, <2>2 DEF WaitForPredecessors, jumpVars, Waiting
    <3>3. pc' \in [Phases -> Ats]
      BY <3>1 DEF Typed, TypeOK, Ats
    <3>4. todo' \in [Phases -> SUBSET Phases]
      BY <3>1 DEF Typed, TypeOK
    <3>5. TypeOK'
      BY <3>2, <3>3, <3>4 DEF Typed, TypeOK, Ats
    <3>6. ASSUME NEW q \in Phases PROVE Held!(q)'
      <4>1. pc'[q] = pc[q] \/ pc'[q] = "idle"
        BY <3>1 DEF Typed, TypeOK
      <4>2. pc'[q] = "schedule" => todo'[q] = todo[q]
        BY <3>1 DEF Typed, TypeOK
      <4> QED BY <3>2, <4>1, <4>2 DEF Typed, Held, Jumping
    <3> QED BY <3>5, <3>6 DEF Typed, Held
  <2>3. CASE rest = {} /\ m_state[p] # DONE
    <3>1. /\ IF Sync[p] = {} THEN Starts(p)
             ELSE SyncFrom(p, [m_state EXCEPT ![p] = SYNCING], Sync[p])
          /\ UNCHANGED <<jumpVars, obj, alive, helper, left, need_to_check_all, on, Waiting>>
          /\ pc[p] = "pred"
      BY <1>2, <2>3 DEF WaitForPredecessors, At
    <3>2. [m_state EXCEPT ![p] = SYNCING] \in [Phases -> DORMANT .. JUMPING]
      BY DEF Typed, TypeOK
    <3> QED BY <3>1, <3>2, SyncTypes, Nodes
  <2> QED BY <1>2, <2>1, <2>2, <2>3 DEF WaitForPredecessors
<1>3. CASE WaitForSync(p)
  <2>1. /\ SyncFrom(p, m_state, todo[p]) /\ pc[p] = "sync"
        /\ UNCHANGED <<jumpVars, obj, alive, helper, left, need_to_check_all, on, Waiting>>
    BY <1>3 DEF WaitForSync, At
  <2>2. m_state \in [Phases -> DORMANT .. JUMPING] /\ todo[p] \in SUBSET Phases
    BY DEF Typed, TypeOK
  <2> QED BY <2>1, <2>2, SyncTypes
<1>4. CASE ExecuteLink(p) \/ m_master_phase_process(p)
  <2>1. /\ m_state' \in [Phases -> DORMANT .. JUMPING] /\ alive' \subseteq Phases
        /\ \E at \in {"executing", "done"} : pc' = [pc EXCEPT ![p] = at]
    <3>1. m_state' \in [Phases -> DORMANT .. JUMPING]
      BY <1>4 DEF ExecuteLink, m_master_phase_process, Typed, TypeOK
    <3>2. alive' \subseteq Phases
      BY <1>4 DEF ExecuteLink, m_master_phase_process, Typed, TypeOK
    <3> QED BY <1>4, <3>1, <3>2 DEF ExecuteLink, m_master_phase_process, Goto
  <2>2. UNCHANGED <<m_jump_phase, m_jump_fwd, m_jump_bkwd, obj, todo, helper, left,
                    need_to_check_all, on, m_ready_to_end_count, m_phase_hopper, runs,
                    m_phase_all_done, raises, jumps>>
    BY <1>4 DEF ExecuteLink, m_master_phase_process, jumpVars, helperVars, Waiting
  <2>3. pc' \in [Phases -> Ats]
    BY <2>1 DEF Typed, TypeOK, Ats
  <2>4. Held'
    BY <2>1, <2>2, HeldKept DEF Ats
  <2> QED BY <2>1, <2>2, <2>3, <2>4 DEF Typed, TypeOK, Ats
<1>5. CASE SpawnWaits(p) \/ KillWaits(p)
  <2>1. /\ \E at \in {"waiting", "waited"} : pc' = [pc EXCEPT ![p] = at]
        /\ helper' \in [Phases -> {"none", "spawned", "drop", "nba", "ready", "last", "over"}]
        /\ left' \in [Phases -> SUBSET Phases] /\ need_to_check_all' \in [Phases -> BOOLEAN]
        /\ on' \in [Phases -> Phases \cup {NULL}]
    <3>1. helper' \in [Phases -> {"none", "spawned", "drop", "nba", "ready", "last", "over"}]
      <4>1. \E h \in {"spawned", "none"} : helper' = [helper EXCEPT ![p] = h]
        BY <1>5 DEF SpawnWaits, KillWaits
      <4> QED BY <4>1 DEF Typed, TypeOK
    <3>2. left' \in [Phases -> SUBSET Phases] /\ need_to_check_all' \in [Phases -> BOOLEAN]
      <4>1. left' \in {left, [left EXCEPT ![p] = {}]}
        BY <1>5 DEF SpawnWaits, KillWaits
      <4>2. need_to_check_all' \in {need_to_check_all, [need_to_check_all EXCEPT ![p] = FALSE]}
        BY <1>5 DEF SpawnWaits, KillWaits
      <4> QED BY <4>1, <4>2 DEF Typed, TypeOK
    <3>3. on' \in [Phases -> Phases \cup {NULL}]
      BY <1>5 DEF SpawnWaits, KillWaits, Typed, TypeOK
    <3> QED BY <1>5, <3>1, <3>2, <3>3 DEF SpawnWaits, KillWaits, Goto
  <2>2. UNCHANGED <<m_state, m_jump_phase, m_jump_fwd, m_jump_bkwd, obj, alive, todo,
                    m_ready_to_end_count, m_phase_hopper, runs, m_phase_all_done, raises,
                    jumps>>
    BY <1>5 DEF SpawnWaits, KillWaits, jumpVars, Waiting
  <2>3. pc' \in [Phases -> Ats]
    BY <2>1 DEF Typed, TypeOK, Ats
  <2>4. Held'
    BY <2>1, <2>2, HeldKept DEF Ats
  <2> QED BY <2>1, <2>2, <2>3, <2>4 DEF Typed, TypeOK, Ats
<1>6. CASE End(p) \/ CleanUp(p)
  <2>1. /\ m_state' \in [Phases -> DORMANT .. JUMPING] /\ alive' \subseteq Phases
        /\ \E at \in {"ended", "cleanup", "jumps", "jumping"} :
             pc' = [pc EXCEPT ![p] = at] /\ (at \in {"jumps", "jumping"} => Jumping(p))
    <3>1. m_state' \in [Phases -> DORMANT .. JUMPING] /\ alive' \subseteq Phases
      <4>1. alive' \subseteq alive
        BY <1>6 DEF End, CleanUp, Killed
      <4>2. \E s \in {ENDED, CLEANUP, JUMPING} : m_state' = [m_state EXCEPT ![p] = s]
        BY <1>6 DEF End, CleanUp
      <4> QED BY <4>1, <4>2 DEF Typed, TypeOK
    <3>2. pc[p] = "jumps" => Jumping(p)
      BY DEF Typed, Held
    <3> QED BY <1>6, <3>1, <3>2 DEF End, CleanUp, At, Goto
  <2>2. UNCHANGED <<m_jump_phase, m_jump_fwd, m_jump_bkwd, obj, todo, helper, left,
                    need_to_check_all, on, m_ready_to_end_count, m_phase_hopper, runs,
                    m_phase_all_done, raises, jumps>>
    BY <1>6 DEF End, CleanUp, jumpVars, helperVars, Waiting
  <2>3. pc' \in [Phases -> Ats]
    BY <2>1 DEF Typed, TypeOK, Ats
  <2>4. Held'
    BY <2>1, <2>2, HeldKept DEF Ats
  <2> QED BY <2>1, <2>2, <2>3, <2>4 DEF Typed, TypeOK, Ats
<1>7. CASE Complete(p)
  <2>1. Cleared({p})
    BY <1>7 DEF Complete
  <2>2. TypeOK'
    BY <1>7, <2>1, ClearedTypes DEF Complete, Goto, Waiting, Typed, TypeOK, jumpVars
  <2>3. /\ pc' = [pc EXCEPT ![p] = "done"]
        /\ UNCHANGED <<todo, m_jump_phase, m_jump_fwd, m_jump_bkwd>>
    BY <1>7 DEF Complete, Goto, jumpVars
  <2>4. Held'
    BY <2>3, HeldKept DEF Ats
  <2> QED BY <2>2, <2>4 DEF Typed
<1>8. CASE ScheduleSuccessors(p)
  <2>1. CASE At(p, "done")
    BY <1>8, <2>1, ScheduleNextTypes DEF ScheduleSuccessors, At, Typed, TypeOK
  <2>2. CASE At(p, "schedule")
    <3> DEFINE q == First(p, todo[p])
    <3>1. todo[p] # {} /\ todo[p] \subseteq Succ[p] /\ q \in Phases
      BY <2>2, FirstExists, Nodes DEF At, Typed, Held
    <3>2. ScheduleNext(p, todo[p] \ {q}) /\ m_phase_hopper' = Append(m_phase_hopper, q)
          /\ UNCHANGED m_phase_all_done
          /\ UNCHANGED <<jumpVars, obj, alive, helperVars, runs, raises, jumps>>
      BY <1>8, <2>2 DEF ScheduleSuccessors, At
    <3> HIDE DEF q
    <3>3. m_phase_hopper' \in Seq(Phases) /\ m_phase_all_done' \in BOOLEAN
      BY <3>1, <3>2 DEF Typed, TypeOK
    <3> QED BY <3>1, <3>2, <3>3, ScheduleNextTypes
  <2> QED BY <1>8, <2>1, <2>2 DEF ScheduleSuccessors
<1>9. CASE JumpTo(p)
  <2> DEFINE t == m_jump_phase[p]
             passed == IF m_jump_fwd[p] THEN Following(p, t) ELSE {}
             again == Following(t, NULL)
  <2>1. t \in Phases
    BY <1>9 DEF JumpTo, At, Typed, Held
  <2>2. Cleared({p} \cup passed \cup again)
    BY <1>9 DEF JumpTo
  <2>3. m_state' = [q \in Phases |-> IF q \in again THEN DORMANT
                                    ELSE IF q \in passed THEN DONE ELSE m_state[q]]
    BY <1>9 DEF JumpTo
  <2>4. m_phase_hopper' = Append(m_phase_hopper, t)
    BY <1>9 DEF JumpTo
  <2> HIDE DEF t, passed, again
  <2>5. m_state' \in [Phases -> DORMANT .. JUMPING]
    BY <2>3 DEF Typed, TypeOK
  <2>6. /\ obj' \in [Phases -> {"none", "raised", "draining", "told"}]
        /\ on' \in [Phases -> Phases \cup {NULL}]
    BY <2>2, ClearedTypes DEF Typed
  <2>7. /\ pc' = [pc EXCEPT ![p] = "idle"]
        /\ m_jump_fwd' = [m_jump_fwd EXCEPT ![p] = FALSE]
        /\ m_jump_bkwd' = [m_jump_bkwd EXCEPT ![p] = FALSE]
        /\ m_jump_phase' = [m_jump_phase EXCEPT ![p] = NULL]
        /\ UNCHANGED <<alive, todo, helper, left, need_to_check_all, m_ready_to_end_count,
                       runs, m_phase_all_done, raises, jumps>>
    BY <1>9 DEF JumpTo, Goto
  <2>8. TypeOK'
    <3>1. pc' \in [Phases -> Ats] /\ m_phase_hopper' \in Seq(Phases)
      BY <2>1, <2>4, <2>7 DEF Typed, TypeOK, Ats
    <3>2. /\ m_jump_fwd' \in [Phases -> BOOLEAN] /\ m_jump_bkwd' \in [Phases -> BOOLEAN]
          /\ m_jump_phase' \in [Phases -> Phases \cup {NULL}]
      BY <2>7 DEF Typed, TypeOK
    <3> QED BY <2>5, <2>6, <2>7, <3>1, <3>2 DEF Typed, TypeOK, Ats
  <2>9. Held'
    <3> SUFFICES ASSUME NEW q \in Phases PROVE Held!(q)'
      BY DEF Held
    <3>1. CASE q = p
      BY <2>7, <3>1 DEF Typed, TypeOK, Held, Jumping
    <3>2. CASE q # p
      <4>1. /\ pc'[q] = pc[q] /\ m_jump_phase'[q] = m_jump_phase[q] /\ todo' = todo
            /\ m_jump_fwd'[q] = m_jump_fwd[q] /\ m_jump_bkwd'[q] = m_jump_bkwd[q]
        BY <2>7, <3>2 DEF Typed, TypeOK
      <4> QED BY <4>1 DEF Typed, Held, Jumping
    <3> QED BY <3>1, <3>2
  <2> QED BY <2>8, <2>9 DEF Typed
<1> QED BY <1>2, <1>3, <1>4, <1>5, <1>6, <1>7, <1>8, <1>9 DEF execute_phase

\* What Look changes, whatever it sees.
LEMMA LookTypes ==
  ASSUME Typed, NEW p \in Phases, NEW nodes \in SUBSET Phases, NEW again \in BOOLEAN,
         NEW then \in {"drop", "last"}, Look(p, nodes, again, then)
  PROVE  /\ left' \in [Phases -> SUBSET Phases] /\ need_to_check_all' \in [Phases -> BOOLEAN]
         /\ on' \in [Phases -> Phases \cup {NULL}]
         /\ m_state' \in [Phases -> DORMANT .. JUMPING]
         /\ helper' \in [Phases -> {"none", "spawned", "drop", "nba", "ready", "last", "over"}]
<1> DEFINE goOn(some) == From(p, some, Holding(p))
           restart == Restarts(goOn(nodes), again)
           rest    == IF restart THEN goOn(Watched(p)) ELSE goOn(nodes)
           next    == First(p, rest)
           waits   == rest # {} /\ ~NotYet(p, next)
<1>1. rest \in SUBSET Phases
  BY FromIs, Nodes
<1>2. rest # {} => next \in Phases
  BY <1>1, FirstExists
<1>3. /\ left' = [left EXCEPT ![p] = IF waits THEN rest \ {next} ELSE rest]
      /\ need_to_check_all' = [need_to_check_all EXCEPT
           ![p] = rest # {} /\ (waits \/ (again /\ ~restart))]
      /\ on' = [on EXCEPT ![p] = IF waits THEN next ELSE NULL]
      /\ m_state' = [m_state EXCEPT ![p] = IF waits THEN EXECUTING ELSE @]
      /\ helper' = [helper EXCEPT ![p] =
           IF rest # {} THEN then
           ELSE IF then = "last" /\ ~OnceMore(p) THEN "over" ELSE "nba"]
  BY DEF Look
<1>4. waits \in BOOLEAN /\ restart \in BOOLEAN
  BY DEF Restarts
<1>5. waits => rest # {}
  OBVIOUS
<1> HIDE DEF goOn, restart, rest, next, waits
<1>6. left' \in [Phases -> SUBSET Phases]
  BY <1>1, <1>3 DEF Typed, TypeOK
<1>7. need_to_check_all' \in [Phases -> BOOLEAN]
  <2>1. (rest # {} /\ (waits \/ (again /\ ~restart))) \in BOOLEAN
    OBVIOUS
  <2> QED BY <1>3, <2>1 DEF Typed, TypeOK
<1>8. on' \in [Phases -> Phases \cup {NULL}]
  BY <1>2, <1>3, <1>5 DEF Typed, TypeOK
<1>9. m_state' \in [Phases -> DORMANT .. JUMPING]
  BY <1>3, StateTypes DEF Typed, TypeOK
<1>10. helper' \in [Phases -> {"none", "spawned", "drop", "nba", "ready", "last", "over"}]
  <2>1. \E h \in {"drop", "last", "nba", "over"} : helper' = [helper EXCEPT ![p] = h]
    BY <1>3
  <2> QED BY <2>1 DEF Typed, TypeOK
<1> QED BY <1>6, <1>7, <1>8, <1>9, <1>10

\* So does every step of the wait for the drops.
LEMMA HelperTypes ==
  ASSUME Typed, NEW p \in Phases, Helper(p)
  PROVE  Typed'
<1>1. CASE m_wait_for_all_dropped(p) \/ wait_for_self_and_siblings_to_drop(p) \/ LookAgain(p)
  <2>1. UNCHANGED <<m_ready_to_end_count, m_jump_phase, m_jump_fwd, m_jump_bkwd, obj, alive,
                    pc, todo, m_phase_hopper, runs, m_phase_all_done, raises, jumps>>
    BY <1>1 DEF m_wait_for_all_dropped, wait_for_self_and_siblings_to_drop, LookAgain,
                jumpVars, Waiting
  <2>2. /\ left' \in [Phases -> SUBSET Phases] /\ need_to_check_all' \in [Phases -> BOOLEAN]
        /\ on' \in [Phases -> Phases \cup {NULL}]
        /\ m_state' \in [Phases -> DORMANT .. JUMPING]
        /\ helper' \in [Phases -> {"none", "spawned", "drop", "nba", "ready", "last", "over"}]
    <3>1. CASE m_wait_for_all_dropped(p) /\ obj[p] = "raised"
      <4>1. /\ on' = [on EXCEPT ![p] = p] /\ helper' = [helper EXCEPT ![p] = "drop"]
            /\ need_to_check_all' = [need_to_check_all EXCEPT ![p] = TRUE]
            /\ UNCHANGED <<m_state, left>>
        BY <3>1 DEF m_wait_for_all_dropped
      <4> QED BY <4>1 DEF Typed, TypeOK
    <3>2. CASE m_wait_for_all_dropped(p) /\ obj[p] # "raised"
      <4>1. Look(p, Watched(p), FALSE, "drop")
        BY <3>2 DEF m_wait_for_all_dropped
      <4> QED BY <4>1, LookTypes, Nodes
    <3>3. CASE wait_for_self_and_siblings_to_drop(p)
      <4>1. Look(p, left[p], need_to_check_all[p], helper[p]) /\ helper[p] \in {"drop", "last"}
        BY <3>3 DEF wait_for_self_and_siblings_to_drop, HelperAt
      <4>2. left[p] \in SUBSET Phases /\ need_to_check_all[p] \in BOOLEAN
        BY DEF Typed, TypeOK
      <4> QED BY <4>1, <4>2, LookTypes
    <3>4. CASE LookAgain(p)
      <4>1. Look(p, Watched(p), FALSE, "last")
        BY <3>4 DEF LookAgain
      <4> QED BY <4>1, LookTypes, Nodes
    <3> QED BY <1>1, <3>1, <3>2, <3>3, <3>4
  <2>3. TypeOK'
    BY <2>1, <2>2 DEF Typed, TypeOK
  <2>4. Held'
    BY <2>1 DEF Typed, Held, Jumping
  <2> QED BY <2>3, <2>4 DEF Typed
<1>2. CASE ready_to_end(p)
  <2>1. /\ helper' = [helper EXCEPT ![p] = "ready"]
        /\ m_ready_to_end_count' = [m_ready_to_end_count EXCEPT ![p] = @ + 1]
        /\ m_state' = [m_state EXCEPT ![p] = READY_TO_END]
        /\ \/ UNCHANGED <<obj, raises>>
           \/ /\ raises + jumps < MaxEvents /\ raises' = raises + 1
              /\ obj' = [obj EXCEPT ![p] = "raised"]
    BY <1>2 DEF ready_to_end
  <2>2. UNCHANGED <<left, need_to_check_all, on, m_jump_phase, m_jump_fwd, m_jump_bkwd, alive,
                    pc, todo, m_phase_hopper, runs, m_phase_all_done, jumps>>
    BY <1>2 DEF ready_to_end, jumpVars
  <2>3. m_state' \in [Phases -> DORMANT .. JUMPING]
    BY <2>1, StateTypes DEF Typed, TypeOK
  <2>4. /\ helper' \in [Phases -> {"none", "spawned", "drop", "nba", "ready", "last", "over"}]
        /\ m_ready_to_end_count' \in [Phases -> Nat]
    BY <2>1 DEF Typed, TypeOK
  <2>5. /\ obj' \in [Phases -> {"none", "raised", "draining", "told"}]
        /\ raises' \in 0 .. MaxEvents
    <3>1. MaxEvents \in Nat /\ raises \in 0 .. MaxEvents /\ jumps \in Nat
      BY BoundsAssumption DEF Typed, TypeOK
    <3>2. raises' \in 0 .. MaxEvents
      BY <2>1, <3>1
    <3> QED BY <2>1, <3>2 DEF Typed, TypeOK
  <2>6. TypeOK'
    BY <2>2, <2>3, <2>4, <2>5 DEF Typed, TypeOK
  <2>7. Held'
    BY <2>2 DEF Typed, Held, Jumping
  <2> QED BY <2>6, <2>7 DEF Typed
<1> QED BY <1>1, <1>2 DEF Helper

\* So does what is done to an objection.
LEMMA ObjectionTypes ==
  ASSUME Typed, NEW p \in Phases, raise_objection(p) \/ drop_objection(p) \/ all_dropped(p)
  PROVE  Typed'
<1>1. /\ \E o \in {"raised", "draining", "told"} : obj' = [obj EXCEPT ![p] = o]
      /\ raises' = raises \/ (raises' = raises + 1 /\ raises + jumps < MaxEvents)
  BY DEF raise_objection, drop_objection, all_dropped
<1>2. on' = on \/ on' = [q \in Phases |-> IF on[q] = p THEN NULL ELSE on[q]]
  BY DEF raise_objection, drop_objection, all_dropped, helperVars
<1>3. UNCHANGED <<m_state, m_jump_phase, m_jump_fwd, m_jump_bkwd, m_phase_hopper, alive, pc, todo,
                  helper, left, need_to_check_all, m_ready_to_end_count, runs,
                  m_phase_all_done, jumps>>
  BY DEF raise_objection, drop_objection, all_dropped, helperVars, jumpVars
<1>4. /\ obj' \in [Phases -> {"none", "raised", "draining", "told"}]
      /\ raises' \in 0 .. MaxEvents
  BY <1>1, BoundsAssumption DEF Typed, TypeOK
<1>5. on' \in [Phases -> Phases \cup {NULL}]
  BY <1>2 DEF Typed, TypeOK
<1>6. TypeOK'
  BY <1>3, <1>4, <1>5 DEF Typed, TypeOK
<1>7. Held'
  BY <1>3 DEF Typed, Held, Jumping
<1> QED BY <1>6, <1>7 DEF Typed

\* So does the request to jump, which names its target.
LEMMA JumpTypes ==
  ASSUME Typed, NEW p \in Phases, NEW t \in Targets[p], jump(p, t) \/ domain_jump(p, t)
  PROVE  Typed'
<1>1. t \in Phases
  BY Nodes
<1>2. PICK S : JumpAll(S, t)
  BY DEF jump, domain_jump
<1>3. jumps' = jumps + 1 /\ jumps < MaxJumps
  BY DEF jump, domain_jump
<1>4. PICK fwd :
      /\ m_jump_fwd' = [q \in Phases |-> m_jump_fwd[q] \/ q \in fwd]
      /\ m_jump_bkwd' = [q \in Phases |-> m_jump_bkwd[q] \/ q \in S \ fwd]
      /\ m_jump_phase' = [q \in Phases |-> IF q \in S THEN t ELSE m_jump_phase[q]]
      /\ fwd \subseteq S
  BY <1>2 DEF JumpAll
<1>5. UNCHANGED <<m_state, m_phase_hopper, obj, alive, pc, todo, helper, left,
                  need_to_check_all, on, m_ready_to_end_count, runs, m_phase_all_done, raises>>
  BY <1>2 DEF JumpAll, helperVars
<1>6. m_jump_fwd' \in [Phases -> BOOLEAN] /\ m_jump_bkwd' \in [Phases -> BOOLEAN]
  BY <1>4 DEF Typed, TypeOK
<1>7. m_jump_phase' \in [Phases -> Phases \cup {NULL}]
  BY <1>1, <1>4 DEF Typed, TypeOK
<1>8. jumps' \in 0 .. MaxJumps
  BY <1>3, BoundsAssumption DEF Typed, TypeOK
<1>9. TypeOK'
  BY <1>5, <1>6, <1>7, <1>8 DEF Typed, TypeOK
<1>10. Held'
  BY <1>1, <1>4, <1>5 DEF Typed, TypeOK, Held, Jumping
<1> QED BY <1>9, <1>10 DEF Typed

\* Every step keeps the types.
LEMMA TypesInductive == Typed /\ [Next]_vars => Typed'
<1> SUFFICES ASSUME Typed, [Next]_vars PROVE Typed'
  OBVIOUS
<1>1. CASE UNCHANGED vars
  BY <1>1 DEF vars, jumpVars, helperVars, Typed, TypeOK, Held, Jumping
<1>2. CASE Next
  BY <1>2, HopperTypes, ProcessTypes, HelperTypes, ObjectionTypes, JumpTypes DEF Next
<1> QED BY <1>1, <1>2

\* The types hold at first.
LEMMA TypesInit == Init => Typed
<1> SUFFICES ASSUME Init PROVE Typed
  OBVIOUS
<1>1. TypeOK
  <2>1. m_state \in [Phases -> DORMANT .. JUMPING] /\ m_phase_hopper \in Seq(Phases)
    BY GraphAssumption, StateTypes DEF Init
  <2>2. raises \in 0 .. MaxEvents /\ jumps \in 0 .. MaxJumps
    BY BoundsAssumption DEF Init
  <2> QED BY <2>1, <2>2 DEF Init, TypeOK
<1>2. Held
  BY DEF Init, Held, Jumping
<1> QED BY <1>1, <1>2 DEF Typed

\* The types hold always.
LEMMA TypedAlways == Spec => []Typed
BY TypesInit, TypesInductive, PTL DEF Spec

\* TypeOK: every variable has its type, in any graph.
THEOREM PhaseTypes == Spec => []TypeOK
<1>1. Typed => TypeOK
  BY DEF Typed
<1> QED BY <1>1, TypedAlways, PTL

-----------------------------------------------------------------------------
(* What is done to an objection *)

\* clear, or nothing, is done to every objection.
LEMMA ClearedUses ==
  ASSUME TypeOK, NEW S, Cleared(S), NEW q \in Phases, obj'[q] # obj[q]
  PROVE  RootOf(q)!Next
<1>1. obj'[q] = "none"
  BY DEF Cleared
<1> QED BY <1>1 DEF RootOf!Next, RootOf!Clear

\* An objection is raised, dropped while it is raised, found to be dropped after the
\* drain, and cleared.
LEMMA StepUses ==
  ASSUME TypeOK, Next, NEW q \in Phases, obj'[q] # obj[q]
  PROVE  RootOf(q)!Next
<1> USE DEF RootOf!Next, RootOf!Raise, RootOf!Drop, RootOf!AllDropped, RootOf!Clear
<1>1. CASE m_run_phases
  <2>1. obj' = obj \/ Cleared({Head(m_phase_hopper)})
    BY <1>1 DEF m_run_phases, ExecuteFunction
  <2> QED BY <2>1, ClearedUses
<1> SUFFICES ASSUME NEW p \in Phases,
                    \/ execute_phase(p) \/ Helper(p) \/ raise_objection(p)
                    \/ drop_objection(p) \/ all_dropped(p)
                    \/ \E t \in Targets[p] : jump(p, t) \/ domain_jump(p, t)
             PROVE  RootOf(q)!Next
  BY <1>1 DEF Next
<1>2. CASE execute_phase(p)
  <2>1. obj' = obj \/ \E S : Cleared(S)
    BY <1>2 DEF execute_phase, WaitForPredecessors, WaitForSync, ExecuteLink,
                m_master_phase_process, SpawnWaits, KillWaits, End, CleanUp, Complete,
                ScheduleSuccessors, JumpTo
  <2> QED BY <2>1, ClearedUses
<1>3. CASE Helper(p)
  <2>1. obj' = obj \/ obj' = [obj EXCEPT ![p] = "raised"]
    BY <1>3 DEF Helper, m_wait_for_all_dropped, wait_for_self_and_siblings_to_drop,
                ready_to_end, LookAgain
  <2> QED BY <2>1 DEF TypeOK
<1>4. CASE raise_objection(p)
  BY <1>4 DEF raise_objection, TypeOK
<1>5. CASE drop_objection(p)
  BY <1>5 DEF drop_objection, TypeOK
<1>6. CASE all_dropped(p)
  BY <1>6 DEF all_dropped, TypeOK
<1>7. CASE \E t \in Targets[p] : jump(p, t) \/ domain_jump(p, t)
  BY <1>7 DEF jump, domain_jump, JumpAll
<1> QED BY <1>2, <1>3, <1>4, <1>5, <1>6, <1>7

\* UsesObjections: whatever the graph, and whoever jumps, a phase does to its objection
\* only what RootObjection allows.
THEOREM ObjectionsUsed == Spec => UsesObjections
<1>1. TypeOK /\ [Next]_vars
        => [\A p \in Phases : obj'[p] # obj[p] => RootOf(p)!Next]_vars
  BY StepUses
<1> QED BY <1>1, PhaseTypes, PTL DEF Spec, UsesObjections

-----------------------------------------------------------------------------
(* One process *)

\* No phase is followed by two others.
Straight == \A p \in Phases : \A q, r \in Succ[p] : q = r

NoJump == \A p \in Phases : ~Jumping(p)

\* What is to be executed next waits for it once: in the hopper, or at the head of
\* what one process schedules.
Due(q) == \E i \in DOMAIN m_phase_hopper : m_phase_hopper[i] = q

DueOnce ==
  /\ \A q \in Phases : Due(q) => m_state[q] = SCHEDULED /\ pc[q] = "idle"
  /\ \A i, j \in DOMAIN m_phase_hopper : m_phase_hopper[i] = m_phase_hopper[j] => i = j

HeadsOnce ==
  \A p \in Phases : pc[p] = "schedule" =>
    /\ m_state[First(p, todo[p])] = SCHEDULED /\ pc[First(p, todo[p])] = "idle"
    /\ ~Due(First(p, todo[p]))
    /\ \A r \in Phases \ {p} : pc[r] = "schedule" => First(r, todo[r]) # First(p, todo[p])

Underway ==
  \A p \in Phases :
    /\ pc[p] # "idle" => m_state[p] >= SCHEDULED
    /\ pc[p] \in {"pred", "sync"} => m_state[p] < STARTED

Scheduled == DueOnce /\ HeadsOnce /\ Underway

\* One phase is in the hopper, or one process executes.
OneToken ==
  /\ Len(m_phase_hopper) <= 1
  /\ \A p \in Phases : pc[p] # "idle" => m_phase_hopper = <<>>
  /\ \A p, q \in Phases : pc[p] # "idle" /\ pc[q] # "idle" => p = q

\* The first of what is left is one of those that are late.
LEMMA FirstIsLate ==
  ASSUME NEW p \in Phases, NEW S \in SUBSET Phases, NEW late, From(p, S, late) # {}
  PROVE  First(p, From(p, S, late)) \in S \cap late
<1> DEFINE rest == From(p, S, late)
           f == First(p, rest)
<1>1. rest \in SUBSET Phases /\ rest \in SUBSET S /\ f \in rest
  BY FromIs, FirstExists
<1>2. PICK q \in S \cap late : NoLater(p, q, f)
  BY <1>1 DEF From
<1>3. q \in rest
  BY <1>2, FromIs
<1>4. \A a, b \in Phases : NoLater(p, a, b) \/ NoLater(p, b, a)
  BY Places DEF NoLater
<1>5. \E m \in rest : \A r \in rest : NoLater(p, m, r)
  BY <1>1, LeastNode
<1>6. NoLater(p, f, q)
  BY <1>3, <1>5 DEF First
<1>7. Place[q] = Place[f] => q = f
  BY <1>1, <1>2, Places
<1>8. q = f
  BY <1>1, <1>2, <1>6, <1>7, Places DEF NoLater
<1> QED BY <1>2, <1>8

\* A part of the successors has no two phases either.
LEMMA OneSuccessor ==
  ASSUME Straight, NEW p \in Phases, NEW S \in SUBSET Succ[p]
  PROVE  Cardinality(S) \in {0, 1}
<1>1. CASE S = {}
  BY <1>1, FS_EmptySet
<1>2. CASE S # {}
  <2>1. PICK q \in S : S = {q}
    BY <1>2 DEF Straight
  <2> QED BY <2>1, FS_Singleton
<1> QED BY <1>1, <1>2

\* The hopper hands the token to one process, or to one phase.
LEMMA TokenInHopper ==
  ASSUME Straight, Typed, OneToken, m_run_phases
  PROVE  OneToken'
<1> DEFINE p == Head(m_phase_hopper)
<1>1. /\ m_phase_hopper \in Seq(Phases) /\ Len(m_phase_hopper) = 1
      /\ p \in Phases /\ Tail(m_phase_hopper) = <<>>
  <2>1. m_phase_hopper \in Seq(Phases) /\ m_phase_hopper # <<>> /\ Len(m_phase_hopper) <= 1
    BY DEF m_run_phases, Typed, TypeOK, OneToken
  <2>2. Len(m_phase_hopper) \in Nat \ {0}
    BY <2>1, EmptySeq
  <2>3. Len(m_phase_hopper) = 1
    <3>1. \A n \in Nat \ {0} : n <= 1 => n = 1
      OBVIOUS
    <3> QED BY <2>1, <2>2, <3>1
  <2>4. p \in Phases
    BY <2>1
  <2>5. Tail(m_phase_hopper) \in Seq(Phases) /\ Len(Tail(m_phase_hopper)) = 0
    BY <2>1, <2>3
  <2>6. Tail(m_phase_hopper) = <<>>
    BY <2>5, EmptySeq
  <2> QED BY <2>1, <2>3, <2>4, <2>6
<1>2. \A q \in Phases : pc[q] = "idle"
  BY DEF m_run_phases, OneToken
<1>3. CASE Kind[p] = "function"
  <2>1. ExecuteFunction(p) /\ UNCHANGED <<pc, todo>>
    BY <1>3 DEF m_run_phases
  <2>2. CASE m_phase_hopper' = <<>>
    BY <1>2, <2>1, <2>2 DEF OneToken
  <2>3. CASE m_phase_hopper' # <<>>
    <3> DEFINE next == {q \in Succ[p] : Schedulable(m_state[q])}
    <3>1. m_phase_hopper' = Tail(m_phase_hopper) \o Listed(next)
      BY <1>1, <2>1, <2>3 DEF ExecuteFunction
    <3>2. next \in SUBSET Succ[p] /\ next \in SUBSET Phases
      BY <1>1, Nodes
    <3> HIDE DEF next
    <3>3. Listed(next) \in Seq(Phases) /\ Len(Listed(next)) = Cardinality(next)
      BY <3>2, ListedSeq
    <3>4. Cardinality(next) \in {0, 1}
      BY <1>1, <3>2, OneSuccessor
    <3>5. Len(m_phase_hopper') <= 1
      BY <1>1, <3>1, <3>3, <3>4
    <3> QED BY <1>2, <2>1, <3>5 DEF OneToken
  <2> QED BY <2>2, <2>3
<1>4. CASE Kind[p] # "function"
  <2>1. m_phase_hopper' = <<>> /\ pc' = [pc EXCEPT ![p] = IF @ = "idle" THEN "pred" ELSE @]
    BY <1>1, <1>4 DEF m_run_phases
  <2> HIDE DEF p
  <2>2. \A q \in Phases : pc'[q] # "idle" => q = p
    BY <1>1, <1>2, <2>1 DEF Typed, TypeOK
  <2> QED BY <2>1, <2>2 DEF OneToken
<1> QED BY <1>3, <1>4

\* A process that is at something has the token.
LEMMA TokenKept ==
  ASSUME Typed, OneToken, NEW p \in Phases, pc[p] # "idle",
         NEW at, pc' = [pc EXCEPT ![p] = at],
         \/ m_phase_hopper' = <<>>
         \/ at = "idle" /\ \E t \in Phases : m_phase_hopper' = <<t>>
  PROVE  OneToken'
<1>1. \A q \in Phases : pc'[q] # "idle" => q = p
  BY DEF OneToken, Typed, TypeOK
<1>2. pc'[p] = at
  BY DEF Typed, TypeOK
<1>3. Len(m_phase_hopper') <= 1
  <2>1. CASE m_phase_hopper' = <<>>
    BY <2>1
  <2>2. ASSUME NEW t \in Phases, m_phase_hopper' = <<t>> PROVE Len(m_phase_hopper') <= 1
    BY <2>2
  <2> QED BY <2>1, <2>2
<1>4. ASSUME NEW q \in Phases, pc'[q] # "idle" PROVE m_phase_hopper' = <<>>
  BY <1>1, <1>2, <1>4
<1> QED BY <1>1, <1>3, <1>4 DEF OneToken

\* A process hands it to the phase it schedules, or jumps to.
LEMMA TokenOfProcess ==
  ASSUME Straight, Typed, OneToken, NEW p \in Phases, execute_phase(p)
  PROVE  OneToken'
<1>1. pc[p] # "idle"
  BY DEF execute_phase, WaitForPredecessors, WaitForSync, ExecuteLink,
         m_master_phase_process, SpawnWaits, KillWaits, End, CleanUp, Complete,
         ScheduleSuccessors, JumpTo, At
<1>2. m_phase_hopper = <<>>
  BY <1>1 DEF OneToken
<1>3. CASE ScheduleSuccessors(p)
  <2>1. CASE At(p, "done")
    <3>1. m_phase_hopper' = <<>> /\ ScheduleNext(p, Succ[p])
      BY <1>2, <1>3, <2>1 DEF ScheduleSuccessors, At
    <3>2. \E at : pc' = [pc EXCEPT ![p] = at]
      BY <3>1 DEF ScheduleNext, Goto
    <3> QED BY <1>1, <3>1, <3>2, TokenKept
  <2>2. CASE At(p, "schedule")
    <3> DEFINE q == First(p, todo[p])
               rest == From(p, todo[p] \ {q}, {r \in Phases : Schedulable(m_state[r])})
    <3>1. todo[p] # {} /\ todo[p] \in SUBSET Succ[p] /\ todo[p] \in SUBSET Phases
      BY <2>2, Nodes DEF At, Typed, Held
    <3>2. q \in todo[p] /\ q \in Phases
      BY <3>1, FirstExists
    <3>3. todo[p] \ {q} = {}
      BY <3>1, <3>2 DEF Straight
    <3>4. ScheduleNext(p, todo[p] \ {q}) /\ m_phase_hopper' = <<q>>
      BY <1>2, <1>3, <2>2 DEF ScheduleSuccessors, At
    <3>5. rest = {}
      BY <3>3 DEF From
    <3>6. pc' = [pc EXCEPT ![p] = "idle"]
      BY <3>4, <3>5 DEF ScheduleNext, Goto
    <3> QED BY <1>1, <3>2, <3>4, <3>6, TokenKept
  <2> QED BY <1>3, <2>1, <2>2 DEF ScheduleSuccessors
<1>4. CASE JumpTo(p)
  <2>1. m_jump_phase[p] \in Phases
    BY <1>4 DEF JumpTo, At, Typed, Held
  <2>2. m_phase_hopper' = <<m_jump_phase[p]>> /\ pc' = [pc EXCEPT ![p] = "idle"]
    BY <1>2, <1>4 DEF JumpTo, Goto
  <2> QED BY <1>1, <2>1, <2>2, TokenKept
<1>5. CASE ~ScheduleSuccessors(p) /\ ~JumpTo(p)
  <2>1. m_phase_hopper' = <<>>
    BY <1>2, <1>5 DEF execute_phase, WaitForPredecessors, WaitForSync, ExecuteLink,
           m_master_phase_process, SpawnWaits, KillWaits, End, CleanUp, Complete, Waiting
  <2>2. pc' = pc \/ \E at : pc' = [pc EXCEPT ![p] = at]
    BY <1>5 DEF execute_phase, WaitForPredecessors, WaitForSync, SyncFrom, Starts, ExecuteLink,
           m_master_phase_process, SpawnWaits, KillWaits, End, CleanUp, Complete, Goto
  <2>3. CASE pc' = pc
    BY <1>2, <2>1, <2>3 DEF OneToken
  <2> QED BY <1>1, <2>1, <2>2, <2>3, TokenKept
<1> QED BY <1>3, <1>4, <1>5

\* In a line of phases there is one token.
LEMMA TokenInductive == Straight /\ Typed /\ OneToken /\ [Next]_vars => OneToken'
<1> SUFFICES ASSUME Straight, Typed, OneToken, [Next]_vars PROVE OneToken'
  OBVIOUS
<1>1. CASE UNCHANGED <<pc, m_phase_hopper>>
  BY <1>1 DEF OneToken
<1>2. CASE m_run_phases
  BY <1>2, TokenInHopper
<1>3. ASSUME NEW p \in Phases, execute_phase(p) PROVE OneToken'
  BY <1>3, TokenOfProcess
<1>4. ASSUME NEW p \in Phases, Helper(p) PROVE UNCHANGED <<pc, m_phase_hopper>>
  BY <1>4 DEF Helper, m_wait_for_all_dropped, wait_for_self_and_siblings_to_drop,
              ready_to_end, LookAgain, Waiting
<1>5. ASSUME NEW p \in Phases,
             \/ raise_objection(p) \/ drop_objection(p) \/ all_dropped(p)
             \/ \E t \in Targets[p] : jump(p, t) \/ domain_jump(p, t)
      PROVE  UNCHANGED <<pc, m_phase_hopper>>
  BY <1>5 DEF raise_objection, drop_objection, all_dropped, jump, domain_jump, JumpAll
<1>6. UNCHANGED vars => UNCHANGED <<pc, m_phase_hopper>>
  BY DEF vars
<1> QED BY <1>1, <1>2, <1>3, <1>4, <1>5, <1>6 DEF Next

\* Straight: one phase after the other, whoever jumps.
LEMMA OneTokenAlways == Straight => (Spec => [](Typed /\ OneToken))
<1> SUFFICES ASSUME Straight PROVE Spec => [](Typed /\ OneToken)
  OBVIOUS
<1>1. Init => OneToken
  <2> SUFFICES ASSUME Init PROVE OneToken
    OBVIOUS
  <2>1. \A q \in Phases : pc[q] = "idle"
    BY DEF Init
  <2>2. Len(m_phase_hopper) <= 1
    BY DEF Init
  <2> QED BY <2>1, <2>2 DEF OneToken
<1> QED BY <1>1, TypesInit, TypesInductive, TokenInductive, PTL DEF Spec

-----------------------------------------------------------------------------
(* A graph with forks, without jumps *)

\* Where jumps are bounded by 0 nobody is asked to jump.
LEMMA NoJumpInductive == MaxJumps = 0 /\ Typed /\ NoJump /\ [Next]_vars => NoJump'
<1> SUFFICES ASSUME MaxJumps = 0, Typed, NoJump, [Next]_vars PROVE NoJump'
  OBVIOUS
<1>1. CASE UNCHANGED jumpVars
  BY <1>1 DEF jumpVars, NoJump, Jumping
<1>2. m_run_phases => UNCHANGED jumpVars
  BY DEF m_run_phases
<1>3. ASSUME NEW p \in Phases, execute_phase(p) PROVE UNCHANGED jumpVars
  <2>1. ~JumpTo(p)
    BY DEF JumpTo, At, Typed, Held, NoJump
  <2> QED BY <1>3, <2>1
     DEF execute_phase, WaitForPredecessors, WaitForSync, ExecuteLink, m_master_phase_process,
         SpawnWaits, KillWaits, End, CleanUp, Complete, ScheduleSuccessors
<1>4. ASSUME NEW p \in Phases,
             Helper(p) \/ raise_objection(p) \/ drop_objection(p) \/ all_dropped(p)
      PROVE  UNCHANGED jumpVars
  BY <1>4 DEF Helper, m_wait_for_all_dropped, wait_for_self_and_siblings_to_drop,
              ready_to_end, LookAgain, raise_objection, drop_objection, all_dropped
<1>5. ASSUME NEW p \in Phases, NEW t \in Targets[p], jump(p, t) \/ domain_jump(p, t)
      PROVE  FALSE
  <2>1. jumps < MaxJumps /\ jumps \in 0 .. MaxJumps
    BY <1>5 DEF jump, domain_jump, Typed, TypeOK
  <2> QED BY <2>1
<1>6. UNCHANGED vars => UNCHANGED jumpVars
  BY DEF vars
<1> QED BY <1>1, <1>2, <1>3, <1>4, <1>5, <1>6 DEF Next

\* The head of what a process schedules is a phase.
LEMMA HeadIs ==
  ASSUME Typed, NEW p \in Phases, pc[p] = "schedule"
  PROVE  /\ todo[p] \in SUBSET Succ[p] /\ todo[p] \in SUBSET Phases
         /\ First(p, todo[p]) \in todo[p] /\ First(p, todo[p]) \in Phases
<1>1. todo[p] # {} /\ todo[p] \in SUBSET Succ[p] /\ todo[p] \in SUBSET Phases
  BY Nodes DEF Typed, Held
<1> QED BY <1>1, FirstExists

\* What changes only the state of a process leaves what is scheduled alone.
LEMMA OwnState ==
  ASSUME Typed, Scheduled, NEW p \in Phases, pc[p] \notin {"idle", "schedule"},
         UNCHANGED m_phase_hopper, pc'[p] # "schedule",
         \A r \in Phases \ {p} : pc'[r] = pc[r] /\ m_state'[r] = m_state[r] /\ todo'[r] = todo[r],
         pc'[p] # "idle" => m_state'[p] >= SCHEDULED,
         pc'[p] \in {"pred", "sync"} => m_state'[p] < STARTED
  PROVE  Scheduled'
<1>1. \A q : Due(q)' <=> Due(q)
  BY DEF Due
<1>2. \A q \in Phases : Due(q) => q # p
  BY DEF Scheduled, DueOnce
<1>3. DueOnce'
  BY <1>1, <1>2 DEF Scheduled, DueOnce
<1>4. \A r \in Phases : pc'[r] = "schedule" => r # p /\ pc[r] = "schedule" /\ todo'[r] = todo[r]
  OBVIOUS
<1>5. \A r \in Phases : pc[r] = "schedule" =>
        First(r, todo[r]) \in Phases /\ First(r, todo[r]) # p
  BY HeadIs DEF Scheduled, HeadsOnce
<1>6. HeadsOnce'
  BY <1>1, <1>4, <1>5 DEF Scheduled, HeadsOnce
<1>7. Underway'
  BY DEF Scheduled, Underway
<1> QED BY <1>3, <1>6, <1>7 DEF Scheduled

\* The head of the hopper is taken, and phases that are not in it are put behind it.
LEMMA HopperMoves ==
  ASSUME Typed, DueOnce, m_phase_hopper # <<>>, NEW new \in Seq(Phases),
         \A i, j \in 1 .. Len(new) : new[i] = new[j] => i = j,
         \A i \in 1 .. Len(new) : ~Due(new[i]),
         m_phase_hopper' = Tail(m_phase_hopper) \o new
  PROVE  /\ \A i, j \in DOMAIN m_phase_hopper' : m_phase_hopper'[i] = m_phase_hopper'[j] => i = j
         /\ \A q \in Phases : Due(q)' =>
              (Due(q) /\ q # Head(m_phase_hopper)) \/ \E i \in 1 .. Len(new) : new[i] = q
<1> DEFINE h == m_phase_hopper
           n == Len(h) - 1
<1>1. h \in Seq(Phases) /\ n \in Nat /\ Head(h) = h[1] /\ DOMAIN h = 1 .. n + 1
  <2>1. h \in Seq(Phases) /\ Len(h) \in Nat \ {0}
    BY EmptySeq DEF Typed, TypeOK
  <2> QED BY <2>1
<1>2. /\ Tail(h) \in Seq(Phases) /\ Len(Tail(h)) = n
      /\ \A i \in 1 .. n : Tail(h)[i] = h[i + 1]
  BY <1>1
<1>3. Len(new) \in Nat
  OBVIOUS
<1>4. /\ DOMAIN h' = 1 .. n + Len(new)
      /\ \A i \in 1 .. n : h'[i] = h[i + 1]
      /\ \A i \in (n + 1) .. (n + Len(new)) : h'[i] = new[i - n]
  <2>1. /\ h' \in Seq(Phases) /\ Len(h') = n + Len(new)
        /\ \A i \in 1 .. n + Len(new) : h'[i] = IF i <= n THEN Tail(h)[i] ELSE new[i - n]
    BY <1>2, ConcatProperties
  <2>2. DOMAIN h' = 1 .. n + Len(new)
    BY <2>1
  <2> HIDE DEF h, n
  <2>3. ASSUME NEW i \in 1 .. n PROVE h'[i] = h[i + 1]
    BY <1>1, <1>2, <1>3, <2>1, <2>3
  <2>4. ASSUME NEW i \in (n + 1) .. (n + Len(new)) PROVE h'[i] = new[i - n]
    BY <1>1, <1>3, <2>1, <2>4
  <2> QED BY <2>2, <2>3, <2>4
<1>5. \A i, j \in 1 .. n + 1 : h[i] = h[j] => i = j
  BY <1>1 DEF DueOnce
<1>6. \A i \in 1 .. n + 1 : Due(h[i])
  BY <1>1 DEF Due
<1>7. ASSUME NEW i \in 1 .. n + Len(new), i \notin 1 .. n
      PROVE  i - n \in 1 .. Len(new) /\ i \in (n + 1) .. (n + Len(new))
  BY <1>1, <1>3, <1>7
<1>8. ASSUME NEW i \in DOMAIN h', NEW j \in DOMAIN h', h'[i] = h'[j] PROVE i = j
  <2>1. CASE i \in 1 .. n /\ j \in 1 .. n
    <3>1. h[i + 1] = h[j + 1] /\ i + 1 \in 1 .. n + 1 /\ j + 1 \in 1 .. n + 1
      BY <1>1, <1>4, <1>8, <2>1
    <3>2. i + 1 = j + 1
      BY <1>5, <3>1
    <3> QED BY <2>1, <3>2
  <2>2. CASE i \in 1 .. n /\ j \notin 1 .. n
    <3>1. i + 1 \in 1 .. n + 1 /\ h'[i] = h[i + 1]
      BY <1>1, <1>4, <2>2
    <3>2. j - n \in 1 .. Len(new) /\ h'[j] = new[j - n]
      BY <1>4, <1>7, <1>8, <2>2
    <3> QED BY <1>6, <1>8, <3>1, <3>2
  <2>3. CASE j \in 1 .. n /\ i \notin 1 .. n
    <3>1. j + 1 \in 1 .. n + 1 /\ h'[j] = h[j + 1]
      BY <1>1, <1>4, <2>3
    <3>2. i - n \in 1 .. Len(new) /\ h'[i] = new[i - n]
      BY <1>4, <1>7, <1>8, <2>3
    <3> QED BY <1>6, <1>8, <3>1, <3>2
  <2>4. CASE i \notin 1 .. n /\ j \notin 1 .. n
    <3>1. i - n \in 1 .. Len(new) /\ h'[i] = new[i - n]
      BY <1>4, <1>7, <1>8, <2>4
    <3>2. j - n \in 1 .. Len(new) /\ h'[j] = new[j - n]
      BY <1>4, <1>7, <1>8, <2>4
    <3>3. i - n = j - n
      BY <1>8, <3>1, <3>2
    <3> QED BY <1>1, <1>4, <1>8, <3>3
  <2> QED BY <2>1, <2>2, <2>3, <2>4
<1>9. ASSUME NEW q \in Phases, Due(q)'
      PROVE  (Due(q) /\ q # Head(h)) \/ \E i \in 1 .. Len(new) : new[i] = q
  <2>1. PICK i \in DOMAIN h' : h'[i] = q
    BY <1>9 DEF Due
  <2>2. CASE i \in 1 .. n
    <3>1. i + 1 \in 1 .. n + 1 /\ q = h[i + 1] /\ i + 1 # 1 /\ 1 \in 1 .. n + 1
      BY <1>1, <1>4, <2>1, <2>2
    <3>2. h[i + 1] # h[1]
      BY <1>5, <3>1
    <3> QED BY <1>1, <1>6, <3>1, <3>2
  <2>3. CASE i \notin 1 .. n
    BY <1>4, <1>7, <2>1, <2>3
  <2> QED BY <2>2, <2>3
<1> QED BY <1>8, <1>9

\* A phase that is not in the hopper is put behind it.
LEMMA HopperGrows ==
  ASSUME Typed, DueOnce, NEW t \in Phases, ~Due(t),
         m_phase_hopper' = Append(m_phase_hopper, t)
  PROVE  /\ \A i, j \in DOMAIN m_phase_hopper' : m_phase_hopper'[i] = m_phase_hopper'[j] => i = j
         /\ \A q \in Phases : Due(q)' => Due(q) \/ q = t
<1> DEFINE h == m_phase_hopper
           n == Len(h)
<1>1. h \in Seq(Phases) /\ n \in Nat /\ DOMAIN h = 1 .. n
  BY DEF Typed, TypeOK
<1>2. /\ DOMAIN h' = 1 .. n + 1 /\ h'[n + 1] = t
      /\ \A i \in 1 .. n : h'[i] = h[i]
  BY <1>1
<1>3. \A i \in 1 .. n : h[i] # t
  BY <1>1 DEF Due
<1>4. \A i, j \in 1 .. n : h[i] = h[j] => i = j
  BY <1>1 DEF DueOnce
<1>5. \A i \in 1 .. n + 1 : i \in 1 .. n \/ i = n + 1
  BY <1>1
<1> QED BY <1>1, <1>2, <1>3, <1>4, <1>5 DEF Due

\* The heads of what is scheduled stay when the states, the processes and the lists of
\* others change.
LEMMA HeadsKept ==
  ASSUME Typed, HeadsOnce, NEW S \in SUBSET Phases,
         UNCHANGED todo, \A q \in Phases : pc'[q] = "schedule" <=> pc[q] = "schedule",
         \A q \in S : m_state[q] < SCHEDULED \/ Due(q),
         \A q \in Phases \ S : m_state'[q] = m_state[q] /\ pc'[q] = pc[q],
         \A q \in Phases : Due(q)' => Due(q) \/ m_state[q] < SCHEDULED
  PROVE  HeadsOnce'
<1> SUFFICES ASSUME NEW p \in Phases, pc'[p] = "schedule" PROVE HeadsOnce!(p)'
  BY DEF HeadsOnce
<1> DEFINE h == First(p, todo[p])
<1>1. pc[p] = "schedule" /\ h \in Phases /\ First(p, todo'[p]) = h
  BY HeadIs
<1>2. m_state[h] = SCHEDULED /\ pc[h] = "idle" /\ ~Due(h)
  BY <1>1 DEF HeadsOnce
<1>3. h \notin S
  BY <1>2 DEF SCHEDULED
<1>4. m_state'[h] = SCHEDULED /\ pc'[h] = "idle" /\ ~Due(h)'
  BY <1>1, <1>2, <1>3 DEF SCHEDULED
<1>5. \A r \in Phases \ {p} : pc'[r] = "schedule" => First(r, todo'[r]) # h
  BY <1>1 DEF HeadsOnce
<1> QED BY <1>1, <1>4, <1>5

\* A state is a number.
LEMMA StateNumbers ==
  ASSUME Typed
  PROVE  \A q \in Phases : m_state[q] \in Int
<1>1. m_state \in [Phases -> DORMANT .. JUMPING]
  BY DEF Typed, TypeOK
<1>2. DORMANT .. JUMPING \subseteq Int
  BY DEF DORMANT, JUMPING
<1> QED BY <1>1, <1>2

\* m_run_phases finds no process in the phase it takes, and schedules no phase twice.
LEMMA HopperSchedules ==
  ASSUME Typed, Scheduled, m_run_phases
  PROVE  Scheduled' /\ runs' # "clash"
<1> DEFINE p == Head(m_phase_hopper)
<1>1. p \in Phases /\ Tail(m_phase_hopper) \in Seq(Phases) /\ m_phase_hopper # <<>>
      /\ m_phase_hopper \in Seq(Phases)
  BY DEF m_run_phases, Typed, TypeOK
<1>2. Due(p)
  <2>1. Len(m_phase_hopper) \in Nat \ {0} /\ p = m_phase_hopper[1]
    BY <1>1, EmptySeq
  <2>2. 1 \in DOMAIN m_phase_hopper
    BY <1>1, <2>1
  <2> QED BY <2>1, <2>2 DEF Due
<1>3. m_state[p] = SCHEDULED /\ pc[p] = "idle"
  BY <1>1, <1>2 DEF Scheduled, DueOnce
<1>4. \A q \in Phases : m_state[q] < SCHEDULED => ~Due(q) /\ pc[q] = "idle" /\ m_state[q] # SCHEDULED
  <2>1. \A q \in Phases : m_state[q] \in Int
    BY StateNumbers
  <2> QED BY <2>1 DEF Scheduled, DueOnce, Underway, SCHEDULED
<1>5. runs' # "clash"
  BY <1>3 DEF m_run_phases
<1>6. CASE Kind[p] = "function"
  <2> DEFINE next == {q \in Succ[p] : Schedulable(m_state[q])}
  <2>1. ExecuteFunction(p) /\ UNCHANGED <<pc, todo>>
    BY <1>6 DEF m_run_phases
  <2>2. m_state[p] # DONE
    BY <1>3 DEF SCHEDULED, DONE
  <2>3. /\ m_state' = [q \in Phases |-> IF q = p THEN DONE
                                      ELSE IF q \in next THEN SCHEDULED
                                      ELSE m_state[q]]
        /\ m_phase_hopper' = Tail(m_phase_hopper) \o Listed(next)
    BY <2>1, <2>2 DEF ExecuteFunction
  <2>4. next \in SUBSET Phases /\ \A q \in next : m_state[q] < SCHEDULED
    BY <1>1, Nodes DEF Schedulable
  <2> HIDE DEF next, p
  <2>5. /\ Listed(next) \in Seq(Phases)
        /\ \A i \in 1 .. Len(Listed(next)) : Listed(next)[i] \in next
        /\ \A i, j \in 1 .. Len(Listed(next)) : Listed(next)[i] = Listed(next)[j] => i = j
    BY <2>4, ListedSeq
  <2>6. \A i \in 1 .. Len(Listed(next)) : ~Due(Listed(next)[i])
    BY <1>4, <2>4, <2>5
  <2>7. /\ \A i, j \in DOMAIN m_phase_hopper' : m_phase_hopper'[i] = m_phase_hopper'[j] => i = j
        /\ \A q \in Phases : Due(q)' =>
             (Due(q) /\ q # p) \/ \E i \in 1 .. Len(Listed(next)) : Listed(next)[i] = q
    BY <1>1, <2>3, <2>5, <2>6, HopperMoves DEF Scheduled, p
  <2>8. \A q \in Phases : Due(q)' => (Due(q) /\ q # p) \/ q \in next
    BY <2>5, <2>7
  <2>9. p \notin next
    BY <1>1, <1>2, <1>4, <2>4
  <2>10. ASSUME NEW q \in Phases, Due(q)' PROVE m_state'[q] = SCHEDULED /\ pc'[q] = "idle"
    <3>1. CASE q \in next
      BY <1>4, <2>1, <2>3, <2>4, <2>9, <3>1
    <3>2. CASE Due(q) /\ q # p /\ q \notin next
      BY <2>1, <2>3, <3>2 DEF Scheduled, DueOnce
    <3> QED BY <2>8, <2>10, <3>1, <3>2
  <2>11. DueOnce'
    BY <2>7, <2>10 DEF DueOnce
  <2>12. HeadsOnce'
    <3> DEFINE S == next \cup {p}
    <3>1. S \in SUBSET Phases /\ \A q \in S : m_state[q] < SCHEDULED \/ Due(q)
      BY <1>1, <1>2, <2>4
    <3>2. \A q \in Phases \ S : m_state'[q] = m_state[q] /\ pc'[q] = pc[q]
      BY <2>1, <2>3
    <3>3. \A q \in Phases : Due(q)' => Due(q) \/ m_state[q] < SCHEDULED
      BY <2>4, <2>8
    <3> HIDE DEF S
    <3> QED BY <2>1, <3>1, <3>2, <3>3, HeadsKept DEF Scheduled
  <2>13. Underway'
    BY <1>3, <1>4, <2>1, <2>3, <2>4 DEF Scheduled, Underway
  <2> QED BY <1>5, <2>11, <2>12, <2>13 DEF Scheduled
<1>7. CASE Kind[p] # "function"
  <2>1. /\ m_phase_hopper' = Tail(m_phase_hopper) /\ UNCHANGED m_state
        /\ pc' = [pc EXCEPT ![p] = IF @ = "idle" THEN "pred" ELSE @]
        /\ todo' = [todo EXCEPT ![p] = IF pc[p] = "idle" THEN Pred[p] ELSE @]
    BY <1>7 DEF m_run_phases
  <2> HIDE DEF p
  <2>2. m_phase_hopper' = Tail(m_phase_hopper) \o <<>>
    BY <1>1, <2>1, ConcatEmptySeq
  <2>3. <<>> \in Seq(Phases) /\ 1 .. Len(<<>>) = {}
    OBVIOUS
  <2>4. /\ \A i, j \in DOMAIN m_phase_hopper' : m_phase_hopper'[i] = m_phase_hopper'[j] => i = j
        /\ \A q \in Phases : Due(q)' => Due(q) /\ q # p
    BY <1>1, <2>2, <2>3, HopperMoves DEF Scheduled, p
  <2>5. \A q \in Phases : pc'[q] = IF q = p THEN "pred" ELSE pc[q]
    BY <1>3, <2>1 DEF Typed, TypeOK
  <2>6. \A q \in Phases : q # p => todo'[q] = todo[q]
    BY <2>1 DEF Typed, TypeOK
  <2>7. DueOnce'
    BY <2>1, <2>4, <2>5 DEF Scheduled, DueOnce
  <2>8. HeadsOnce'
    <3>1. \A q \in Phases : pc[q] = "schedule" => First(q, todo[q]) \in Phases \ {p}
      BY <1>2, HeadIs DEF Scheduled, HeadsOnce
    <3>2. \A q \in Phases : pc'[q] = "schedule" => pc[q] = "schedule" /\ todo'[q] = todo[q]
      BY <2>5, <2>6
    <3> QED BY <2>1, <2>4, <2>5, <3>1, <3>2 DEF Scheduled, HeadsOnce
  <2>9. Underway'
    BY <1>3, <2>1, <2>5 DEF Scheduled, Underway, SCHEDULED, STARTED
  <2> QED BY <1>5, <2>7, <2>8, <2>9 DEF Scheduled
<1> QED BY <1>6, <1>7

\* The first successor that can be scheduled is nobody else's.
LEMMA NextScheduled ==
  ASSUME Typed, Scheduled, NEW p \in Phases, pc[p] \in {"done", "schedule"},
         NEW nodes \in SUBSET Succ[p], ScheduleNext(p, nodes),
         \A i, j \in DOMAIN m_phase_hopper' : m_phase_hopper'[i] = m_phase_hopper'[j] => i = j,
         \A q \in Phases : Due(q)' =>
           Due(q) \/ (pc[p] = "schedule" /\ q = First(p, todo[p]))
  PROVE  Scheduled'
<1> DEFINE rest == From(p, nodes, {q \in Phases : Schedulable(m_state[q])})
           f == First(p, rest)
           h == First(p, todo[p])
<1>1. /\ todo' = [todo EXCEPT ![p] = rest]
      /\ IF rest = {} THEN Goto(p, "idle") /\ UNCHANGED m_state
         ELSE Goto(p, "schedule") /\ m_state' = [m_state EXCEPT ![f] = SCHEDULED]
  BY DEF ScheduleNext
<1>2. nodes \in SUBSET Phases
  BY Nodes
<1>3. rest # {} => f \in Phases /\ m_state[f] < SCHEDULED
  BY <1>2, FirstIsLate DEF Schedulable
<1>4. pc[p] = "schedule" =>
        /\ h \in Phases /\ m_state[h] = SCHEDULED /\ pc[h] = "idle" /\ ~Due(h)
        /\ \A r \in Phases \ {p} : pc[r] = "schedule" => First(r, todo[r]) # h
  BY HeadIs DEF Scheduled, HeadsOnce
<1>5. \A q \in Phases : m_state[q] < SCHEDULED => ~Due(q)' /\ pc[q] = "idle"
  BY <1>4, StateNumbers DEF Scheduled, DueOnce, Underway, SCHEDULED
<1>6. \A q \in Phases : Due(q)' => m_state[q] = SCHEDULED /\ pc[q] = "idle"
  BY <1>4 DEF Scheduled, DueOnce
<1>7. ASSUME NEW r \in Phases \ {p}, pc[r] = "schedule"
      PROVE  \E q \in Phases : /\ q = First(r, todo[r])
                              /\ m_state[q] = SCHEDULED /\ pc[q] = "idle" /\ ~Due(q)'
  <2>1. PICK q \in Phases : q = First(r, todo[r])
    BY <1>7, HeadIs
  <2>2. m_state[q] = SCHEDULED /\ pc[q] = "idle" /\ ~Due(q)
    BY <1>7, <2>1 DEF Scheduled, HeadsOnce
  <2>3. pc[p] = "schedule" => q # h
    BY <1>4, <1>7, <2>1
  <2> QED BY <2>1, <2>2, <2>3
<1>8. \A r \in Phases : r # p => todo'[r] = todo[r]
  BY <1>1 DEF Typed, TypeOK
<1>9. todo'[p] = rest
  BY <1>1 DEF Typed, TypeOK
<1> HIDE DEF rest, f, h
<1>10. CASE rest = {}
  <2>1. m_state' = m_state /\ \A r \in Phases : pc'[r] = IF r = p THEN "idle" ELSE pc[r]
    BY <1>1, <1>10 DEF Goto, Typed, TypeOK
  <2>2. DueOnce'
    BY <1>6, <2>1 DEF DueOnce
  <2>3. HeadsOnce'
    <3> SUFFICES ASSUME NEW r \in Phases, pc'[r] = "schedule" PROVE HeadsOnce!(r)'
      BY DEF HeadsOnce
    <3>1. r # p /\ pc[r] = "schedule" /\ todo'[r] = todo[r]
      BY <1>8, <2>1
    <3>2. PICK q \in Phases : /\ q = First(r, todo[r])
                             /\ m_state[q] = SCHEDULED /\ pc[q] = "idle" /\ ~Due(q)'
      BY <1>7, <3>1
    <3>3. First(r, todo'[r]) = q
      BY <3>1, <3>2
    <3>4. m_state'[q] = SCHEDULED /\ pc'[q] = "idle"
      BY <2>1, <3>2
    <3>5. \A s \in Phases \ {r} : pc'[s] = "schedule" => First(s, todo'[s]) # q
      BY <1>8, <2>1, <3>1, <3>2 DEF Scheduled, HeadsOnce
    <3> QED BY <3>2, <3>3, <3>4, <3>5
  <2>4. Underway'
    BY <2>1 DEF Scheduled, Underway
  <2> QED BY <2>2, <2>3, <2>4 DEF Scheduled
<1>11. CASE rest # {}
  <2>1. PICK g \in Phases : g = f
    BY <1>3, <1>11
  <2>2. /\ \A r \in Phases : pc'[r] = IF r = p THEN "schedule" ELSE pc[r]
        /\ \A r \in Phases : m_state'[r] = IF r = g THEN SCHEDULED ELSE m_state[r]
    BY <1>1, <1>11, <2>1 DEF Goto, Typed, TypeOK
  <2>3. ~Due(g)' /\ pc[g] = "idle" /\ g # p
    BY <1>3, <1>5, <1>11, <2>1
  <2>4. DueOnce'
    BY <1>6, <2>2, <2>3 DEF DueOnce
  <2>5. m_state[g] # SCHEDULED
    BY <1>3, <1>11, <2>1, StateNumbers DEF SCHEDULED
  <2>6. First(p, todo'[p]) = g
    BY <1>9, <2>1 DEF f
  <2>7. ASSUME NEW r \in Phases, r # p, pc'[r] = "schedule"
        PROVE  \E q \in Phases \ {g, p} :
                 /\ q = First(r, todo'[r]) /\ q = First(r, todo[r]) /\ pc[r] = "schedule"
                 /\ m_state'[q] = SCHEDULED /\ pc'[q] = "idle" /\ ~Due(q)'
    <3>1. pc[r] = "schedule" /\ todo'[r] = todo[r]
      BY <1>8, <2>2, <2>7
    <3>2. PICK q \in Phases : /\ q = First(r, todo[r])
                             /\ m_state[q] = SCHEDULED /\ pc[q] = "idle" /\ ~Due(q)'
      BY <1>7, <2>7, <3>1
    <3>3. q \notin {g, p}
      BY <2>5, <3>2
    <3> QED BY <2>2, <3>1, <3>2, <3>3
  <2>8. HeadsOnce'
    <3> SUFFICES ASSUME NEW r \in Phases, pc'[r] = "schedule" PROVE HeadsOnce!(r)'
      BY DEF HeadsOnce
    <3>1. CASE r = p
      <4>1. \A s \in Phases \ {p} : pc'[s] = "schedule" => First(s, todo'[s]) # g
        BY <2>7
      <4> QED BY <2>2, <2>3, <2>6, <3>1, <4>1
    <3>2. CASE r # p
      <4>1. PICK q \in Phases \ {g, p} :
              /\ q = First(r, todo'[r]) /\ q = First(r, todo[r]) /\ pc[r] = "schedule"
              /\ m_state'[q] = SCHEDULED /\ pc'[q] = "idle" /\ ~Due(q)'
        BY <2>7, <3>2
      <4>2. ASSUME NEW s \in Phases \ {r}, pc'[s] = "schedule" PROVE First(s, todo'[s]) # q
        <5>1. CASE s = p
          BY <2>6, <4>1, <5>1
        <5>2. CASE s # p
          <6>1. pc[s] = "schedule" /\ First(s, todo'[s]) = First(s, todo[s])
            BY <2>7, <4>2, <5>2
          <6> QED BY <4>1, <4>2, <6>1 DEF Scheduled, HeadsOnce
        <5> QED BY <5>1, <5>2
      <4> QED BY <4>1, <4>2
    <3> QED BY <3>1, <3>2
  <2>9. Underway'
    BY <2>2, <2>3 DEF Scheduled, Underway, SCHEDULED
  <2> QED BY <2>4, <2>8, <2>9 DEF Scheduled
<1> QED BY <1>10, <1>11

\* A step of a process schedules no phase twice.
LEMMA ProcessSchedules ==
  ASSUME MaxJumps = 0, Typed, NoJump, Scheduled, NEW p \in Phases, execute_phase(p)
  PROVE  Scheduled'
<1> USE DEF SCHEDULED, SYNCING, STARTED, EXECUTING, ENDED, CLEANUP, DONE
<1>1. m_state[p] \in Int /\ (pc[p] # "idle" => m_state[p] >= SCHEDULED)
  BY StateNumbers DEF Scheduled, Underway
<1>2. CASE ScheduleSuccessors(p)
  <2>1. CASE At(p, "done")
    <3>1. ScheduleNext(p, Succ[p]) /\ UNCHANGED m_phase_hopper /\ pc[p] = "done"
      BY <1>2, <2>1 DEF ScheduleSuccessors, At
    <3>2. \A q \in Phases : Due(q)' => Due(q)
      BY <3>1 DEF Due
    <3> QED BY <3>1, <3>2, NextScheduled DEF Scheduled, DueOnce
  <2>2. CASE At(p, "schedule")
    <3> DEFINE q == First(p, todo[p])
    <3>1. /\ ScheduleNext(p, todo[p] \ {q}) /\ m_phase_hopper' = Append(m_phase_hopper, q)
          /\ pc[p] = "schedule"
      BY <1>2, <2>2 DEF ScheduleSuccessors, At
    <3>2. q \in Phases /\ ~Due(q) /\ todo[p] \ {q} \in SUBSET Succ[p]
      BY <3>1, HeadIs DEF Scheduled, HeadsOnce
    <3> QED BY <3>1, <3>2, HopperGrows, NextScheduled DEF Scheduled
  <2> QED BY <1>2, <2>1, <2>2 DEF ScheduleSuccessors
<1>3. ~JumpTo(p)
  BY DEF JumpTo, At, Typed, Held, NoJump
<1>4. CASE ~ScheduleSuccessors(p)
  <2>1. pc[p] \notin {"idle", "schedule"} /\ UNCHANGED m_phase_hopper
    BY <1>3, <1>4
       DEF execute_phase, WaitForPredecessors, WaitForSync, ExecuteLink,
           m_master_phase_process, SpawnWaits, KillWaits, End, CleanUp, Complete, At, Waiting
  <2>2. /\ m_state' = m_state \/ \E s : m_state' = [m_state EXCEPT ![p] = s]
        /\ pc' = pc \/ \E at : pc' = [pc EXCEPT ![p] = at]
        /\ todo' = todo \/ \E left_ : todo' = [todo EXCEPT ![p] = left_]
    <3>1. WaitForPredecessors(p) \/ WaitForSync(p) \/ UNCHANGED todo
      BY <1>3, <1>4 DEF execute_phase, ExecuteLink, m_master_phase_process, SpawnWaits,
                        KillWaits, End, CleanUp, Complete
    <3>2. CASE WaitForPredecessors(p) \/ WaitForSync(p)
      BY <3>2 DEF WaitForPredecessors, WaitForSync, SyncFrom, Starts, Goto
    <3>3. CASE ~WaitForPredecessors(p) /\ ~WaitForSync(p)
      BY <1>3, <1>4, <3>1, <3>3
         DEF execute_phase, ExecuteLink, m_master_phase_process, SpawnWaits, KillWaits, End,
             CleanUp, Complete, Goto
    <3> QED BY <3>2, <3>3
  <2>3. \A r \in Phases \ {p} : pc'[r] = pc[r] /\ m_state'[r] = m_state[r] /\ todo'[r] = todo[r]
    BY <2>2 DEF Typed, TypeOK
  <2>4. /\ pc'[p] # "schedule" /\ (pc'[p] # "idle" => m_state'[p] >= SCHEDULED)
        /\ pc'[p] \in {"pred", "sync"} => m_state'[p] < STARTED
    <3>1. CASE WaitForPredecessors(p)
      <4>1. pc[p] = "pred" /\ m_state[p] < STARTED
        BY <3>1 DEF WaitForPredecessors, At, Scheduled, Underway
      <4>2. \/ UNCHANGED <<m_state, pc>>
            \/ pc' = [pc EXCEPT ![p] = "idle"]
            \/ m_state' = [m_state EXCEPT ![p] = STARTED] /\ pc' = [pc EXCEPT ![p] = "started"]
            \/ m_state' = [m_state EXCEPT ![p] = SYNCING] /\ pc' = [pc EXCEPT ![p] = "sync"]
        BY <3>1 DEF WaitForPredecessors, SyncFrom, Starts, Goto
      <4>3. \/ m_state'[p] = m_state[p] /\ pc'[p] = "pred"
            \/ pc'[p] = "idle"
            \/ m_state'[p] = STARTED /\ pc'[p] = "started"
            \/ m_state'[p] = SYNCING /\ pc'[p] = "sync"
        BY <4>1, <4>2 DEF Typed, TypeOK
      <4> QED BY <1>1, <4>1, <4>3
    <3>2. CASE WaitForSync(p)
      <4>1. pc[p] = "sync" /\ m_state[p] < STARTED
        BY <3>2 DEF WaitForSync, At, Scheduled, Underway
      <4>2. \/ m_state' = [m_state EXCEPT ![p] = STARTED] /\ pc' = [pc EXCEPT ![p] = "started"]
            \/ m_state' = m_state /\ pc' = [pc EXCEPT ![p] = "sync"]
        BY <3>2 DEF WaitForSync, SyncFrom, Starts, Goto
      <4>3. \/ m_state'[p] = STARTED /\ pc'[p] = "started"
            \/ m_state'[p] = m_state[p] /\ pc'[p] = "sync"
        BY <4>2 DEF Typed, TypeOK
      <4> QED BY <1>1, <4>1, <4>3
    <3>3. CASE ExecuteLink(p) \/ m_master_phase_process(p) \/ End(p) \/ CleanUp(p) \/ Complete(p)
      <4>1. \E s \in {EXECUTING, DONE, ENDED, CLEANUP, JUMPING} : m_state' = [m_state EXCEPT ![p] = s]
        BY <3>3 DEF ExecuteLink, m_master_phase_process, End, CleanUp, Complete
      <4>2. \E at \in {"executing", "done", "jumps", "ended", "cleanup", "jumping"} :
              pc' = [pc EXCEPT ![p] = at]
        BY <3>3 DEF ExecuteLink, m_master_phase_process, End, CleanUp, Complete, Goto
      <4>3. m_state'[p] \in {EXECUTING, DONE, ENDED, CLEANUP, JUMPING}
        BY <4>1 DEF Typed, TypeOK
      <4>4. pc'[p] \in {"executing", "done", "jumps", "ended", "cleanup", "jumping"}
        BY <4>2 DEF Typed, TypeOK
      <4> QED BY <4>3, <4>4 DEF JUMPING
    <3>4. CASE SpawnWaits(p) \/ KillWaits(p)
      <4>1. pc'[p] \in {"waiting", "waited"} /\ m_state' = m_state /\ pc[p] # "idle"
        BY <3>4 DEF SpawnWaits, KillWaits, Goto, At, Typed, TypeOK
      <4> QED BY <1>1, <4>1
    <3> QED BY <1>3, <1>4, <3>1, <3>2, <3>3, <3>4 DEF execute_phase
  <2> QED BY <2>1, <2>3, <2>4, OwnState
<1> QED BY <1>2, <1>4

\* Without jumps no step schedules a phase twice.
LEMMA SchedulingInductive ==
  MaxJumps = 0 /\ Typed /\ NoJump /\ Scheduled /\ [Next]_vars => Scheduled'
<1> SUFFICES ASSUME MaxJumps = 0, Typed, NoJump, Scheduled, [Next]_vars PROVE Scheduled'
  OBVIOUS
<1>1. CASE UNCHANGED <<m_state, pc, todo, m_phase_hopper>>
  BY <1>1 DEF Scheduled, DueOnce, HeadsOnce, Underway, Due
<1>2. m_run_phases => Scheduled'
  BY HopperSchedules
<1>3. ASSUME NEW p \in Phases, execute_phase(p) PROVE Scheduled'
  BY <1>3, ProcessSchedules
<1>4. ASSUME NEW p \in Phases, Helper(p) PROVE Scheduled'
  <2>1. pc[p] = "waiting" /\ UNCHANGED <<pc, todo, m_phase_hopper>>
    BY <1>4 DEF Helper, m_wait_for_all_dropped, wait_for_self_and_siblings_to_drop,
                ready_to_end, LookAgain, HelperAt, At, Waiting
  <2>2. \E s \in {EXECUTING, READY_TO_END, m_state[p]} : m_state' = [m_state EXCEPT ![p] = s]
    <3>1. m_state' = m_state => m_state' = [m_state EXCEPT ![p] = m_state[p]]
      BY DEF Typed, TypeOK
    <3>2. ASSUME NEW nodes, NEW again, NEW then, Look(p, nodes, again, then)
          PROVE  \E s \in {EXECUTING, m_state[p]} : m_state' = [m_state EXCEPT ![p] = s]
      BY <3>2 DEF Look
    <3> QED BY <1>4, <3>1, <3>2 DEF Helper, m_wait_for_all_dropped,
              wait_for_self_and_siblings_to_drop, ready_to_end, LookAgain
  <2>3. /\ \A r \in Phases \ {p} : m_state'[r] = m_state[r]
        /\ m_state'[p] \in {EXECUTING, READY_TO_END, m_state[p]}
    BY <2>2 DEF Typed, TypeOK
  <2>4. m_state'[p] >= SCHEDULED
    BY <2>1, <2>3 DEF Scheduled, Underway, SCHEDULED, EXECUTING, READY_TO_END
  <2> QED BY <2>1, <2>3, <2>4, OwnState
<1>5. ASSUME NEW p \in Phases,
             \/ raise_objection(p) \/ drop_objection(p) \/ all_dropped(p)
             \/ \E t \in Targets[p] : jump(p, t) \/ domain_jump(p, t)
      PROVE  UNCHANGED <<m_state, pc, todo, m_phase_hopper>>
  BY <1>5 DEF raise_objection, drop_objection, all_dropped, jump, domain_jump, JumpAll
<1>6. UNCHANGED vars => UNCHANGED <<m_state, pc, todo, m_phase_hopper>>
  BY DEF vars
<1> QED BY <1>1, <1>2, <1>3, <1>4, <1>5, <1>6 DEF Next

\* Without jumps nothing is scheduled twice, however the graph forks and joins.
LEMMA ScheduledAlways == MaxJumps = 0 => (Spec => [](Typed /\ NoJump /\ Scheduled))
<1> SUFFICES ASSUME MaxJumps = 0 PROVE Spec => [](Typed /\ NoJump /\ Scheduled)
  OBVIOUS
<1>1. Init => NoJump /\ Scheduled
  <2> SUFFICES ASSUME Init PROVE NoJump /\ Scheduled
    OBVIOUS
  <2>1. /\ \A q \in Phases : pc[q] = "idle" /\ ~Jumping(q)
        /\ m_phase_hopper = <<first>> /\ first \in Phases /\ m_state[first] = SCHEDULED
    BY GraphAssumption DEF Init, Jumping
  <2>2. DOMAIN m_phase_hopper = {1} /\ m_phase_hopper[1] = first
    BY <2>1
  <2>3. DueOnce
    BY <2>1, <2>2 DEF DueOnce, Due
  <2> QED BY <2>1, <2>3 DEF NoJump, Scheduled, HeadsOnce, Underway
<1> QED BY <1>1, TypesInit, TypesInductive, NoJumpInductive, SchedulingInductive, PTL DEF Spec

\* What lets a phase be executed by one process at a time: nothing jumps, or nothing is
\* parallel.
Calm == MaxJumps = 0 \/ Straight

Orderly ==
  /\ Typed
  /\ (MaxJumps = 0 /\ NoJump /\ Scheduled) \/ (Straight /\ OneToken)

\* One of the two reasons for order holds always.
LEMMA OrderlyAlways == Calm => (Spec => []Orderly)
<1>1. CASE MaxJumps = 0
  <2>1. Typed /\ NoJump /\ Scheduled => Orderly
    BY <1>1 DEF Orderly
  <2>2. Spec => [](Typed /\ NoJump /\ Scheduled)
    BY <1>1, ScheduledAlways
  <2> QED BY <2>1, <2>2, PTL
<1>2. CASE Straight
  <2>1. Typed /\ OneToken => Orderly
    BY <1>2 DEF Orderly
  <2>2. Spec => [](Typed /\ OneToken)
    BY <1>2, OneTokenAlways
  <2> QED BY <2>1, <2>2, PTL
<1> QED BY <1>1, <1>2 DEF Calm

\* OneExecution: a phase of the hopper finds no process that executes it.
LEMMA NoClash == Orderly /\ OneExecution /\ [Next]_vars => OneExecution'
<1> SUFFICES ASSUME Orderly, OneExecution, [Next]_vars PROVE OneExecution'
  OBVIOUS
<1>1. CASE UNCHANGED runs
  BY <1>1 DEF OneExecution
<1>2. CASE m_run_phases
  <2>1. CASE MaxJumps = 0 /\ NoJump /\ Scheduled
    BY <1>2, <2>1, HopperSchedules DEF Orderly, OneExecution
  <2>2. CASE Straight /\ OneToken
    <3>1. Head(m_phase_hopper) \in Phases /\ m_phase_hopper # <<>>
      BY <1>2 DEF m_run_phases, Orderly, Typed, TypeOK
    <3>2. pc[Head(m_phase_hopper)] = "idle"
      BY <2>2, <3>1 DEF OneToken
    <3> QED BY <1>2, <3>2 DEF m_run_phases, OneExecution
  <2> QED BY <2>1, <2>2 DEF Orderly
<1>3. ASSUME NEW p \in Phases, execute_phase(p) PROVE UNCHANGED runs
  BY <1>3 DEF execute_phase, WaitForPredecessors, WaitForSync, ExecuteLink,
              m_master_phase_process, SpawnWaits, KillWaits, End, CleanUp, Complete,
              ScheduleSuccessors, JumpTo, Waiting
<1>4. ASSUME NEW p \in Phases,
             \/ Helper(p) \/ raise_objection(p) \/ drop_objection(p) \/ all_dropped(p)
             \/ \E t \in Targets[p] : jump(p, t) \/ domain_jump(p, t)
      PROVE  UNCHANGED runs
  BY <1>4 DEF Helper, m_wait_for_all_dropped, wait_for_self_and_siblings_to_drop,
              ready_to_end, LookAgain, raise_objection, drop_objection, all_dropped,
              jump, domain_jump, JumpAll, Waiting
<1>5. UNCHANGED vars => UNCHANGED runs
  BY DEF vars
<1> QED BY <1>1, <1>2, <1>3, <1>4, <1>5 DEF Next

\* OneExecution: two processes never execute the same phase, in a graph with forks and
\* joins where nothing jumps and in a line of phases whoever jumps.
THEOREM OneProcess == Calm => (Spec => []OneExecution)
<1> SUFFICES ASSUME Calm PROVE Spec => []OneExecution
  OBVIOUS
<1>1. Init => OneExecution
  BY DEF Init, OneExecution
<1>2. Spec => []Orderly
  BY OrderlyAlways
<1> QED BY <1>1, <1>2, NoClash, PTL DEF Spec

-----------------------------------------------------------------------------
(* The processes of the components, and the end of a phase *)

\* The processes of the components live from the EXECUTING traversal to the ENDED one.
Living(p) ==
  p \in alive =>
    /\ Kind[p] = "process" /\ pc[p] \in {"executing", "waiting", "waited"}
    /\ m_state[p] \in {EXECUTING, READY_TO_END}

Begun(q) == m_state[q] >= EXECUTING

\* A process that waits for its siblings has seen those begin that it has passed.
Watching(p) ==
  /\ left[p] \subseteq Watched(p)
  /\ helper[p] # "none" => pc[p] = "waiting"
  /\ helper[p] = "drop" =>
       need_to_check_all[p] \/ \A q \in Siblings(p) \ (left[p] \cup {p}) : Begun(q)
  /\ helper[p] \in {"nba", "ready", "last"} => \A q \in Siblings(p) \ {p} : Begun(q)
  /\ helper[p] = "last" => m_state[p] = EXECUTING

Attended == \A p \in Phases : Living(p) /\ Watching(p)

\* What is done by one process leaves another one alone, and no phase before EXECUTING
\* that was behind it.
LEMMA Undisturbed ==
  ASSUME Orderly, NEW q \in Phases, pc[q] # "idle",
         m_run_phases \/ \E p \in Phases \ {q} : execute_phase(p)
  PROVE  /\ m_state'[q] = m_state[q] /\ pc'[q] = pc[q]
         /\ \A r \in Phases : Begun(r) => Begun(r)'
<1> USE DEF SCHEDULED, SYNCING, STARTED, EXECUTING, ENDED, CLEANUP, DONE, JUMPING
<1>1. Typed
  BY DEF Orderly
<1>2. ASSUME NEW p \in Phases, execute_phase(p) PROVE pc[p] # "idle"
  BY <1>2 DEF execute_phase, WaitForPredecessors, WaitForSync, ExecuteLink,
              m_master_phase_process, SpawnWaits, KillWaits, End, CleanUp, Complete,
              ScheduleSuccessors, JumpTo, At
<1>3. CASE Straight /\ OneToken
  BY <1>2, <1>3 DEF OneToken, m_run_phases
<1>4. CASE MaxJumps = 0 /\ NoJump /\ Scheduled
  <2>1. \A r \in Phases : m_state[r] \in Int /\ (pc[r] # "idle" => m_state[r] >= SCHEDULED)
    BY <1>1, <1>4, StateNumbers DEF Scheduled, Underway
  <2>2. CASE m_run_phases
    <3> DEFINE p == Head(m_phase_hopper)
    <3>1. p \in Phases /\ m_phase_hopper # <<>>
      BY <1>1, <2>2 DEF m_run_phases, Typed, TypeOK
    <3>2. m_state[p] = SCHEDULED /\ pc[p] = "idle"
      <4>1. m_phase_hopper \in Seq(Phases)
        BY <1>1 DEF Typed, TypeOK
      <4>2. Len(m_phase_hopper) \in Nat \ {0} /\ p = m_phase_hopper[1]
        BY <3>1, <4>1, EmptySeq
      <4>3. Due(p)
        BY <4>1, <4>2 DEF Due
      <4> QED BY <1>4, <3>1, <4>3 DEF Scheduled, DueOnce
    <3>3. CASE Kind[p] = "function"
      <4> DEFINE next == {r \in Succ[p] : Schedulable(m_state[r])}
      <4>1. ExecuteFunction(p) /\ UNCHANGED pc
        BY <2>2, <3>3 DEF m_run_phases
      <4>2. m_state' = [r \in Phases |-> IF r = p THEN DONE
                                        ELSE IF r \in next THEN SCHEDULED
                                        ELSE m_state[r]]
        BY <3>2, <4>1 DEF ExecuteFunction
      <4>3. \A r \in next : m_state[r] < SCHEDULED
        BY DEF Schedulable
      <4> HIDE DEF p, next
      <4> QED BY <2>1, <3>2, <4>1, <4>2, <4>3 DEF Begun
    <3>4. CASE Kind[p] # "function"
      <4>1. UNCHANGED m_state /\ pc' = [pc EXCEPT ![p] = IF @ = "idle" THEN "pred" ELSE @]
        BY <2>2, <3>4 DEF m_run_phases
      <4> HIDE DEF p
      <4> QED BY <1>1, <3>2, <4>1 DEF Begun, Typed, TypeOK
    <3> QED BY <3>3, <3>4
  <2>3. ASSUME NEW p \in Phases \ {q}, execute_phase(p)
        PROVE  /\ m_state'[q] = m_state[q] /\ pc'[q] = pc[q]
               /\ \A r \in Phases : Begun(r) => Begun(r)'
    <3>1. ~JumpTo(p)
      BY <1>1, <1>4 DEF JumpTo, At, Typed, Held, NoJump
    <3>2. CASE ScheduleSuccessors(p)
      <4>1. PICK nodes \in SUBSET Succ[p] : ScheduleNext(p, nodes)
        <5>1. CASE At(p, "done")
          BY <3>2, <5>1 DEF ScheduleSuccessors, At
        <5>2. CASE At(p, "schedule")
          <6>1. ScheduleNext(p, todo[p] \ {First(p, todo[p])})
            BY <3>2, <5>2 DEF ScheduleSuccessors, At
          <6>2. todo[p] \ {First(p, todo[p])} \in SUBSET Succ[p]
            BY <1>1, <5>2 DEF At, Typed, Held
          <6> QED BY <6>1, <6>2
        <5> QED BY <3>2, <5>1, <5>2 DEF ScheduleSuccessors
      <4> DEFINE rest == From(p, nodes, {r \in Phases : Schedulable(m_state[r])})
                 f == First(p, rest)
      <4>2. IF rest = {} THEN Goto(p, "idle") /\ UNCHANGED m_state
            ELSE Goto(p, "schedule") /\ m_state' = [m_state EXCEPT ![f] = SCHEDULED]
        BY <4>1 DEF ScheduleNext
      <4>3. nodes \in SUBSET Phases
        BY <4>1, Nodes
      <4>4. rest # {} => f \in Phases /\ m_state[f] < SCHEDULED
        BY <4>3, FirstIsLate DEF Schedulable
      <4> HIDE DEF rest, f
      <4>5. \E at : Goto(p, at)
        BY <4>2
      <4>6. pc'[q] = pc[q]
        BY <1>1, <4>5 DEF Goto, Typed, TypeOK
      <4>7. CASE rest = {}
        BY <4>2, <4>6, <4>7 DEF Begun
      <4>8. CASE rest # {}
        <5>1. \A r \in Phases : m_state'[r] = IF r = f THEN SCHEDULED ELSE m_state[r]
          BY <1>1, <4>2, <4>8 DEF Typed, TypeOK
        <5>2. f # q
          BY <2>1, <4>4, <4>8
        <5>3. ~Begun(f)
          BY <2>1, <4>4, <4>8 DEF Begun
        <5> QED BY <4>6, <5>1, <5>2, <5>3 DEF Begun
      <4> QED BY <4>7, <4>8
    <3>3. CASE ~ScheduleSuccessors(p)
      <4>1. /\ \E at : pc' = [pc EXCEPT ![p] = at]
            /\ \/ m_state' = m_state
               \/ \E s \in {EXECUTING, DONE, ENDED, CLEANUP, JUMPING} :
                    m_state' = [m_state EXCEPT ![p] = s]
               \/ /\ pc[p] \in {"pred", "sync"}
                  /\ \E s \in {STARTED, SYNCING} : m_state' = [m_state EXCEPT ![p] = s]
        <5>1. pc' = pc => pc' = [pc EXCEPT ![p] = pc[p]]
          BY <1>1 DEF Typed, TypeOK
        <5>2. CASE WaitForPredecessors(p) \/ WaitForSync(p)
          BY <5>1, <5>2 DEF WaitForPredecessors, WaitForSync, SyncFrom, Starts, Goto, At
        <5>3. CASE ~WaitForPredecessors(p) /\ ~WaitForSync(p)
          BY <2>3, <3>1, <3>3, <5>3 DEF execute_phase, ExecuteLink, m_master_phase_process,
               SpawnWaits, KillWaits, End, CleanUp, Complete, Goto
        <5> QED BY <5>2, <5>3
      <4>2. pc'[q] = pc[q] /\ \A r \in Phases \ {p} : m_state'[r] = m_state[r]
        BY <1>1, <4>1 DEF Typed, TypeOK
      <4>3. \/ m_state'[p] = m_state[p]
            \/ m_state'[p] \in {EXECUTING, DONE, ENDED, CLEANUP, JUMPING}
            \/ pc[p] \in {"pred", "sync"}
        BY <1>1, <4>1 DEF Typed, TypeOK
      <4>4. pc[p] \in {"pred", "sync"} => ~Begun(p)
        BY <1>4, <2>1 DEF Begun, Scheduled, Underway
      <4>5. Begun(p) => Begun(p)'
        BY <4>3, <4>4 DEF Begun
      <4> QED BY <4>2, <4>5 DEF Begun
    <3> QED BY <3>2, <3>3
  <2> QED BY <2>2, <2>3
<1> QED BY <1>3, <1>4 DEF Orderly

\* A phase that nothing touches stays attended when others only go on.
LEMMA StaysAttended ==
  ASSUME NEW q \in Phases, Living(q), Watching(q),
         q \in alive' => q \in alive, m_state'[q] = m_state[q], pc'[q] = pc[q],
         helper'[q] = helper[q], left'[q] = left[q],
         need_to_check_all'[q] = need_to_check_all[q],
         \A r \in Phases : Begun(r) => Begun(r)'
  PROVE  Living(q)' /\ Watching(q)'
<1>1. Living(q)'
  BY DEF Living
<1>2. Siblings(q) \in SUBSET Phases
  BY Nodes DEF Watched
<1>3. Watching(q)'
  BY <1>2 DEF Watching
<1> QED BY <1>1, <1>3

\* What Look sees in one go, or has seen before.
LEMMA LookWatches ==
  ASSUME Typed, NEW p \in Phases, NEW nodes \in SUBSET Watched(p), NEW again \in BOOLEAN,
         NEW then \in {"drop", "last"}, Look(p, nodes, again, then),
         again \/ \A q \in Siblings(p) \ (nodes \cup {p}) : Begun(q),
         then = "last" => \A q \in Siblings(p) \ {p} : Begun(q),
         pc[p] = "waiting", UNCHANGED pc
  PROVE  /\ Watching(p)'
         /\ m_state'[p] \in {EXECUTING, m_state[p]}
         /\ \A r \in Phases \ {p} :
              /\ m_state'[r] = m_state[r] /\ helper'[r] = helper[r] /\ left'[r] = left[r]
              /\ need_to_check_all'[r] = need_to_check_all[r]
<1> DEFINE goOn(some) == From(p, some, Holding(p))
           restart == Restarts(goOn(nodes), again)
           base    == IF restart THEN Watched(p) ELSE nodes
           rest    == IF restart THEN goOn(Watched(p)) ELSE goOn(nodes)
           next    == First(p, rest)
           waits   == rest # {} /\ ~NotYet(p, next)
<1>1. /\ left' = [left EXCEPT ![p] = IF waits THEN rest \ {next} ELSE rest]
      /\ need_to_check_all' = [need_to_check_all EXCEPT
           ![p] = rest # {} /\ (waits \/ (again /\ ~restart))]
      /\ m_state' = [m_state EXCEPT ![p] = IF waits THEN EXECUTING ELSE @]
      /\ helper' = [helper EXCEPT ![p] =
           IF rest # {} THEN then
           ELSE IF then = "last" /\ ~OnceMore(p) THEN "over" ELSE "nba"]
  BY DEF Look
<1>2. /\ left'[p] = IF waits THEN rest \ {next} ELSE rest
      /\ need_to_check_all'[p] = (rest # {} /\ (waits \/ (again /\ ~restart)))
      /\ m_state'[p] = IF waits THEN EXECUTING ELSE m_state[p]
      /\ helper'[p] = IF rest # {} THEN then
                      ELSE IF then = "last" /\ ~OnceMore(p) THEN "over" ELSE "nba"
  BY <1>1 DEF Typed, TypeOK
<1>3. \A r \in Phases \ {p} :
        /\ m_state'[r] = m_state[r] /\ helper'[r] = helper[r] /\ left'[r] = left[r]
        /\ need_to_check_all'[r] = need_to_check_all[r]
  BY <1>1 DEF Typed, TypeOK
<1>4. Watched(p) \in SUBSET Phases /\ Siblings(p) \subseteq Watched(p)
  BY Nodes DEF Watched
<1>5. rest \in SUBSET base /\ base \cap Holding(p) \subseteq rest /\ base \in SUBSET Watched(p)
  BY <1>4, FromIs
<1>6. rest # {} => next \in rest /\ next \in Phases
  BY <1>4, <1>5, FirstExists
<1>7. \A q \in Phases : q # p /\ ~NotYet(p, q) => Begun(q)
  BY StateNumbers DEF NotYet, Begun, EXECUTING
<1>8. \A q \in base \ rest : q # p => Begun(q)
  BY <1>4, <1>5, <1>7 DEF Holding
<1>9. ASSUME NEW q \in Siblings(p) \ {p}, q \notin base, ~need_to_check_all'[p] PROVE Begun(q)
  <2>1. ~restart /\ base = nodes
    BY <1>4, <1>9
  <2>2. ~again
    BY <1>2, <1>9, <2>1 DEF Restarts
  <2> QED BY <1>9, <2>1, <2>2
<1>10. waits => rest # {} /\ ~NotYet(p, next)
  OBVIOUS
<1>11. then = "last" => (rest # {} => waits)
  <2> SUFFICES ASSUME then = "last", rest # {} PROVE ~NotYet(p, next)
    OBVIOUS
  <2>1. next \in Watched(p) /\ next \in Phases
    BY <1>5, <1>6
  <2> HIDE DEF next
  <2>2. next = p \/ Begun(next)
    BY <2>1 DEF Watched
  <2> QED BY <2>1, <2>2, StateNumbers DEF NotYet, Begun, EXECUTING
<1> HIDE DEF goOn, restart, base, rest, next, waits
<1>12. left'[p] \subseteq Watched(p)
  BY <1>2, <1>5
<1>13. \A q \in Siblings(p) \ {p} : Begun(q) => Begun(q)'
  BY <1>3, <1>4 DEF Begun
<1>14. ASSUME helper'[p] = "drop", ~need_to_check_all'[p],
              NEW q \in Siblings(p) \ (left'[p] \cup {p})
       PROVE  Begun(q)'
  <2>1. q \in Phases /\ q # p
    BY <1>4
  <2>2. CASE q \notin base
    BY <1>9, <1>13, <1>14, <2>2
  <2>3. CASE q \in base /\ q \notin rest
    BY <1>8, <1>13, <2>1, <2>3
  <2>4. CASE q \in rest
    BY <1>2, <1>7, <1>10, <1>13, <1>14, <2>1, <2>4
  <2> QED BY <2>2, <2>3, <2>4
<1>15. ASSUME helper'[p] \in {"nba", "ready", "last"}, NEW q \in Siblings(p) \ {p}
       PROVE  Begun(q)'
  <2>1. CASE then = "last"
    BY <1>13, <2>1
  <2>2. CASE then = "drop"
    <3>1. rest = {} /\ ~need_to_check_all'[p]
      BY <1>2, <1>15, <2>2
    <3> QED BY <1>8, <1>9, <1>13, <3>1
  <2> QED BY <2>1, <2>2
<1>16. helper'[p] = "last" => m_state'[p] = EXECUTING
  BY <1>2, <1>11
<1>17. Watching(p)'
  BY <1>12, <1>14, <1>15, <1>16 DEF Watching
<1> QED BY <1>2, <1>3, <1>17

\* A step of the wait for the drops passes no sibling that has not begun.
LEMMA HelperAttends ==
  ASSUME Typed, Attended, NEW p \in Phases, Helper(p)
  PROVE  Attended'
<1> USE DEF EXECUTING, READY_TO_END
<1>1. pc[p] = "waiting" /\ UNCHANGED <<pc, alive>>
  BY DEF Helper, m_wait_for_all_dropped, wait_for_self_and_siblings_to_drop, ready_to_end,
         LookAgain, HelperAt, At, Waiting
<1>2. Living(p) /\ Watching(p) /\ Siblings(p) \in SUBSET Phases
      /\ Watched(p) \in SUBSET Watched(p) /\ Siblings(p) \subseteq Watched(p)
  BY Nodes DEF Attended, Watched
<1>3. /\ Watching(p)' /\ m_state'[p] \in {EXECUTING, READY_TO_END, m_state[p]}
      /\ \A r \in Phases \ {p} :
           /\ m_state'[r] = m_state[r] /\ helper'[r] = helper[r] /\ left'[r] = left[r]
           /\ need_to_check_all'[r] = need_to_check_all[r]
  <2>1. CASE m_wait_for_all_dropped(p) /\ obj[p] = "raised"
    <3>1. /\ helper' = [helper EXCEPT ![p] = "drop"]
          /\ need_to_check_all' = [need_to_check_all EXCEPT ![p] = TRUE]
          /\ UNCHANGED <<m_state, left>>
      BY <2>1 DEF m_wait_for_all_dropped
    <3>2. /\ helper'[p] = "drop" /\ need_to_check_all'[p] /\ left'[p] = left[p]
          /\ \A r \in Phases \ {p} : helper'[r] = helper[r]
                                     /\ need_to_check_all'[r] = need_to_check_all[r]
      BY <3>1 DEF Typed, TypeOK
    <3>3. Watching(p)'
      BY <1>1, <1>2, <3>2 DEF Watching
    <3> QED BY <3>1, <3>2, <3>3
  <2>2. CASE m_wait_for_all_dropped(p) /\ obj[p] # "raised"
    <3>1. Look(p, Watched(p), FALSE, "drop")
      BY <2>2 DEF m_wait_for_all_dropped
    <3> QED BY <1>1, <1>2, <3>1, LookWatches
  <2>3. CASE wait_for_self_and_siblings_to_drop(p)
    <3>1. Look(p, left[p], need_to_check_all[p], helper[p]) /\ helper[p] \in {"drop", "last"}
      BY <2>3 DEF wait_for_self_and_siblings_to_drop, HelperAt
    <3>2. left[p] \in SUBSET Watched(p) /\ need_to_check_all[p] \in BOOLEAN
      BY <1>2 DEF Typed, TypeOK, Watching
    <3>3. /\ need_to_check_all[p] \/ \A q \in Siblings(p) \ (left[p] \cup {p}) : Begun(q)
          /\ helper[p] = "last" => \A q \in Siblings(p) \ {p} : Begun(q)
      BY <1>2, <3>1 DEF Watching
    <3> QED BY <1>1, <3>1, <3>2, <3>3, LookWatches
  <2>4. CASE LookAgain(p)
    <3>1. Look(p, Watched(p), FALSE, "last") /\ helper[p] = "ready"
      BY <2>4 DEF LookAgain, HelperAt
    <3>2. \A q \in Siblings(p) \ {p} : Begun(q)
      BY <1>2, <3>1 DEF Watching
    <3> QED BY <1>1, <1>2, <3>1, <3>2, LookWatches
  <2>5. CASE ready_to_end(p)
    <3>1. /\ helper[p] = "nba" /\ helper' = [helper EXCEPT ![p] = "ready"]
          /\ m_state' = [m_state EXCEPT ![p] = READY_TO_END]
          /\ UNCHANGED <<left, need_to_check_all>>
      BY <2>5 DEF ready_to_end, HelperAt
    <3>2. /\ helper'[p] = "ready" /\ m_state'[p] = READY_TO_END
          /\ \A r \in Phases \ {p} : helper'[r] = helper[r] /\ m_state'[r] = m_state[r]
      BY <3>1 DEF Typed, TypeOK
    <3>3. \A q \in Siblings(p) \ {p} : Begun(q)'
      BY <1>2, <3>1, <3>2 DEF Watching, Begun
    <3>4. Watching(p)'
      BY <1>1, <1>2, <3>1, <3>2, <3>3 DEF Watching
    <3> QED BY <3>1, <3>2, <3>4
  <2> QED BY <2>1, <2>2, <2>3, <2>4, <2>5 DEF Helper
<1>4. Living(p)'
  BY <1>1, <1>2, <1>3 DEF Living
<1>5. \A r \in Phases : Begun(r) => Begun(r)'
  BY <1>3 DEF Begun
<1>6. ASSUME NEW q \in Phases, q # p PROVE Living(q)' /\ Watching(q)'
  <2>1. Living(q) /\ Watching(q)
    BY DEF Attended
  <2> QED BY <1>1, <1>3, <1>5, <1>6, <2>1, StaysAttended
<1> QED BY <1>3, <1>4, <1>6 DEF Attended

\* A process attends its own phase.
LEMMA OwnAttends ==
  ASSUME Typed, Attended, NEW p \in Phases, execute_phase(p)
  PROVE  Living(p)' /\ Watching(p)'
<1> USE DEF EXECUTING, READY_TO_END
<1>1. Living(p) /\ Watching(p)
  BY DEF Attended
<1>2. CASE SpawnWaits(p)
  <2>1. /\ pc[p] = "executing" /\ pc' = [pc EXCEPT ![p] = "waiting"]
        /\ helper' = [helper EXCEPT ![p] = "spawned"]
        /\ UNCHANGED <<m_state, alive, left, need_to_check_all>>
    BY <1>2 DEF SpawnWaits, At, Goto
  <2>2. pc'[p] = "waiting" /\ helper'[p] = "spawned"
    BY <2>1 DEF Typed, TypeOK
  <2> QED BY <1>1, <2>1, <2>2 DEF Living, Watching
<1>3. CASE KillWaits(p)
  <2>1. /\ pc[p] = "waiting" /\ pc' = [pc EXCEPT ![p] = "waited"]
        /\ helper' = [helper EXCEPT ![p] = "none"] /\ left' = [left EXCEPT ![p] = {}]
        /\ UNCHANGED <<m_state, alive>>
    BY <1>3 DEF KillWaits, At, Goto
  <2>2. pc'[p] = "waited" /\ helper'[p] = "none" /\ left'[p] = {}
    BY <2>1 DEF Typed, TypeOK
  <2> QED BY <1>1, <2>1, <2>2 DEF Living, Watching
<1>4. CASE ~SpawnWaits(p) /\ ~KillWaits(p)
  <2>1. pc[p] # "waiting" /\ UNCHANGED <<helper, left>>
    BY <1>4 DEF execute_phase, WaitForPredecessors, WaitForSync, ExecuteLink,
         m_master_phase_process, End, CleanUp, Complete, ScheduleSuccessors, JumpTo, At, helperVars
  <2>2. helper'[p] = "none" /\ left'[p] \subseteq Watched(p)
    BY <1>1, <2>1 DEF Watching
  <2>3. Watching(p)'
    BY <2>2 DEF Watching
  <2>4. CASE m_master_phase_process(p)
    <3>1. /\ Kind[p] = "process" /\ pc' = [pc EXCEPT ![p] = "executing"]
          /\ m_state' = [m_state EXCEPT ![p] = EXECUTING]
      BY <2>4 DEF m_master_phase_process, Goto
    <3>2. pc'[p] = "executing" /\ m_state'[p] = EXECUTING
      BY <3>1 DEF Typed, TypeOK
    <3> QED BY <2>3, <3>1, <3>2 DEF Living
  <2>5. CASE ~m_master_phase_process(p)
    <3>1. p \notin alive'
      <4>1. CASE End(p)
        BY <4>1 DEF End, Killed
      <4>2. CASE ExecuteLink(p)
        BY <1>1, <4>2 DEF ExecuteLink, Living
      <4>3. CASE ~End(p) /\ ~ExecuteLink(p)
        <5>1. UNCHANGED alive /\ pc[p] \notin {"executing", "waiting", "waited"}
          BY <1>4, <2>5, <4>3
             DEF execute_phase, WaitForPredecessors, WaitForSync, CleanUp, Complete,
                 ScheduleSuccessors, JumpTo, At
        <5> QED BY <1>1, <5>1 DEF Living
      <4> QED BY <4>1, <4>2, <4>3
    <3> QED BY <2>3, <3>1 DEF Living
  <2> QED BY <2>4, <2>5
<1> QED BY <1>2, <1>3, <1>4

\* Every step keeps the phases attended.
LEMMA AttendedInductive == Orderly /\ Attended /\ [Next]_vars => Attended'
<1> SUFFICES ASSUME Orderly, Attended, [Next]_vars PROVE Attended'
  OBVIOUS
<1>1. Typed
  BY DEF Orderly
<1>2. CASE UNCHANGED <<m_state, pc, alive, helper, left, need_to_check_all>>
  <2> SUFFICES ASSUME NEW q \in Phases PROVE Living(q)' /\ Watching(q)'
    BY DEF Attended
  <2>1. Living(q) /\ Watching(q)
    BY DEF Attended
  <2> QED BY <1>2, <2>1, StaysAttended DEF Begun
<1>3. ASSUME NEW p \in Phases, Helper(p) PROVE Attended'
  BY <1>1, <1>3, HelperAttends
\* A step of p, or of the hopper, for a phase other than p.
<1>4. ASSUME NEW q \in Phases,
             m_run_phases \/ \E p \in Phases \ {q} : execute_phase(p)
      PROVE  Living(q)' /\ Watching(q)'
  <2>1. Living(q) /\ Watching(q)
    BY DEF Attended
  <2>2. /\ q \in alive' => q \in alive
        /\ helper'[q] = helper[q] /\ left'[q] = left[q]
        /\ need_to_check_all'[q] = need_to_check_all[q]
    <3>1. CASE m_run_phases
      BY <3>1 DEF m_run_phases
    <3>2. ASSUME NEW p \in Phases \ {q}, execute_phase(p)
          PROVE  /\ q \in alive' => q \in alive
                 /\ helper'[q] = helper[q] /\ left'[q] = left[q]
                 /\ need_to_check_all'[q] = need_to_check_all[q]
      <4>1. \/ UNCHANGED <<helper, left, need_to_check_all>>
            \/ \E h : /\ helper' = [helper EXCEPT ![p] = h]
                      /\ left' = left \/ left' = [left EXCEPT ![p] = {}]
                      /\ \/ need_to_check_all' = need_to_check_all
                         \/ need_to_check_all' = [need_to_check_all EXCEPT ![p] = FALSE]
        BY <3>2 DEF execute_phase, WaitForPredecessors, WaitForSync, ExecuteLink,
             m_master_phase_process, SpawnWaits, KillWaits, End, CleanUp, Complete,
             ScheduleSuccessors, JumpTo, helperVars
      <4>2. alive' \subseteq alive \cup {p}
        BY <3>2 DEF execute_phase, WaitForPredecessors, WaitForSync, ExecuteLink,
             m_master_phase_process, SpawnWaits, KillWaits, End, Killed, CleanUp, Complete,
             ScheduleSuccessors, JumpTo
      <4> QED BY <1>1, <3>2, <4>1, <4>2 DEF Typed, TypeOK
    <3> QED BY <1>4, <3>1, <3>2
  <2>3. CASE pc[q] = "idle"
    <3>1. q \notin alive /\ helper[q] = "none"
      BY <2>1, <2>3 DEF Living, Watching
    <3> QED BY <2>1, <2>2, <3>1 DEF Living, Watching
  <2>4. CASE pc[q] # "idle"
    BY <1>4, <2>1, <2>2, <2>4, Undisturbed, StaysAttended
  <2> QED BY <2>3, <2>4
<1>5. ASSUME NEW p \in Phases, execute_phase(p) PROVE Attended'
  <2>1. Living(p)' /\ Watching(p)'
    BY <1>1, <1>5, OwnAttends
  <2>2. \A q \in Phases \ {p} : Living(q)' /\ Watching(q)'
    BY <1>4, <1>5
  <2> QED BY <2>1, <2>2 DEF Attended
<1>6. CASE m_run_phases
  BY <1>4, <1>6 DEF Attended
<1>7. ASSUME NEW p \in Phases,
             \/ raise_objection(p) \/ drop_objection(p) \/ all_dropped(p)
             \/ \E t \in Targets[p] : jump(p, t) \/ domain_jump(p, t)
      PROVE  UNCHANGED <<m_state, pc, alive, helper, left, need_to_check_all>>
  BY <1>7 DEF raise_objection, drop_objection, all_dropped, jump, domain_jump, JumpAll, helperVars
<1>8. UNCHANGED vars => UNCHANGED <<m_state, pc, alive, helper, left, need_to_check_all>>
  BY DEF vars, helperVars
<1> QED BY <1>2, <1>3, <1>5, <1>6, <1>7, <1>8 DEF Next

\* The phases are attended always.
LEMMA AttendedAlways == Calm => (Spec => [](Orderly /\ Attended))
<1> SUFFICES ASSUME Calm PROVE Spec => [](Orderly /\ Attended)
  OBVIOUS
<1>1. Init => Attended
  BY DEF Init, Attended, Living, Watching
<1>2. Spec => []Orderly
  BY OrderlyAlways
<1> QED BY <1>1, <1>2, AttendedInductive, PTL DEF Spec

\* AliveExecutes: the processes of the components live only while their phase executes,
\* in a graph with forks where nothing jumps and in a line of phases whoever jumps.
THEOREM ComponentsLive == Calm => (Spec => []AliveExecutes)
<1> SUFFICES ASSUME Calm PROVE Spec => []AliveExecutes
  OBVIOUS
<1>1. Typed /\ Attended => AliveExecutes
  BY DEF Typed, TypeOK, Attended, Living, AliveExecutes
<1>2. Orderly => Typed
  BY DEF Orderly
<1> QED BY <1>1, <1>2, AttendedAlways, PTL

\* Look lets a phase end, before ready_to_end was called as often as it may be, only after
\* it has gone through all of them, and found none that holds it.
LEMMA LookEndsQuiet ==
  ASSUME Typed, NEW p \in Phases, NEW nodes \in SUBSET Phases, NEW again, NEW then,
         Look(p, nodes, again, then), helper'[p] = "over", then # "over"
  PROVE  /\ then = "last" /\ ~OnceMore(p)
         /\ ~again => \A q \in nodes : obj[q] # "raised"
<1> DEFINE goOn(some) == From(p, some, Holding(p))
           restart == Restarts(goOn(nodes), again)
           rest    == IF restart THEN goOn(Watched(p)) ELSE goOn(nodes)
<1>1. helper' = [helper EXCEPT ![p] =
           IF rest # {} THEN then
           ELSE IF then = "last" /\ ~OnceMore(p) THEN "over" ELSE "nba"]
  BY DEF Look
<1> HIDE DEF restart, rest
<1>2. rest = {} /\ then = "last" /\ ~OnceMore(p)
  BY <1>1 DEF Typed, TypeOK
<1>3. ~again => From(p, nodes, Holding(p)) = {}
  BY <1>2 DEF Restarts, restart, rest
<1>4. nodes \cap Holding(p) \subseteq From(p, nodes, Holding(p))
  BY FromIs
<1>5. \A q \in Phases : obj[q] = "raised" => q \in Holding(p)
  BY DEF Holding
<1> QED BY <1>2, <1>3, <1>4, <1>5

\* The step that lets a phase end is LookAgain, which has seen all of them.
LEMMA StepEndsQuiet ==
  ASSUME Typed, Attended, [Next]_vars, NEW p \in Phases, helper[p] # "over", helper'[p] = "over",
         m_ready_to_end_count[p] < max_ready_to_end_iter, NEW q \in {p} \cup Siblings(p)
  PROVE  obj[q] # "raised"
<1>1. Helper(p)
  <2>1. ASSUME NEW r \in Phases, execute_phase(r) PROVE helper'[p] = helper[p] \/ helper'[p] # "over"
    <3>1. UNCHANGED helper \/ \E h \in {"none", "spawned"} : helper' = [helper EXCEPT ![r] = h]
      BY <2>1 DEF execute_phase, WaitForPredecessors, WaitForSync, ExecuteLink,
           m_master_phase_process, SpawnWaits, KillWaits, End, CleanUp, Complete,
           ScheduleSuccessors, JumpTo, helperVars
    <3> QED BY <3>1 DEF Typed, TypeOK
  <2>2. ASSUME NEW r \in Phases, Helper(r), r # p PROVE helper'[p] = helper[p]
    <3>1. \E h : helper' = [helper EXCEPT ![r] = h]
      BY <2>2 DEF Helper, m_wait_for_all_dropped, wait_for_self_and_siblings_to_drop,
                  ready_to_end, LookAgain, Look
    <3> QED BY <2>2, <3>1 DEF Typed, TypeOK
  <2>3. ASSUME NEW r \in Phases,
               \/ raise_objection(r) \/ drop_objection(r) \/ all_dropped(r)
               \/ \E t \in Targets[r] : jump(r, t) \/ domain_jump(r, t)
        PROVE  UNCHANGED helper
    BY <2>3 DEF raise_objection, drop_objection, all_dropped, jump, domain_jump, JumpAll,
                helperVars
  <2>4. (m_run_phases \/ UNCHANGED vars) => UNCHANGED helper
    BY DEF m_run_phases, vars, helperVars
  <2> QED BY <2>1, <2>2, <2>3, <2>4 DEF Next
<1>2. Watching(p) /\ Watched(p) \in SUBSET Phases
  BY Nodes DEF Attended
<1>3. ~OnceMore(p) => m_state[p] # EXECUTING
  BY DEF OnceMore
<1>4. CASE m_wait_for_all_dropped(p)
  <2>1. CASE obj[p] = "raised"
    <3>1. helper' = [helper EXCEPT ![p] = "drop"]
      BY <1>4, <2>1 DEF m_wait_for_all_dropped
    <3> QED BY <3>1 DEF Typed, TypeOK
  <2>2. CASE obj[p] # "raised"
    <3>1. Look(p, Watched(p), FALSE, "drop")
      BY <1>4, <2>2 DEF m_wait_for_all_dropped
    <3>2. "drop" # "over" /\ "drop" # "last"
      OBVIOUS
    <3>3. "drop" = "last"
      BY <1>2, <3>1, <3>2, LookEndsQuiet
    <3> QED BY <3>2, <3>3
  <2> QED BY <2>1, <2>2
<1>5. CASE wait_for_self_and_siblings_to_drop(p)
  <2>1. Look(p, left[p], need_to_check_all[p], helper[p]) /\ helper[p] \in {"drop", "last"}
    BY <1>5 DEF wait_for_self_and_siblings_to_drop, HelperAt
  <2>2. left[p] \in SUBSET Phases
    BY DEF Typed, TypeOK
  <2>3. helper[p] = "last" /\ ~OnceMore(p)
    BY <2>1, <2>2, LookEndsQuiet
  <2> QED BY <1>2, <1>3, <2>3 DEF Watching
<1>6. CASE ready_to_end(p)
  <2>1. helper' = [helper EXCEPT ![p] = "ready"]
    BY <1>6 DEF ready_to_end
  <2> QED BY <2>1 DEF Typed, TypeOK
<1>7. CASE LookAgain(p)
  <2>1. Look(p, Watched(p), FALSE, "last")
    BY <1>7 DEF LookAgain
  <2>2. q \in Watched(p)
    BY DEF Watched
  <2> QED BY <1>2, <2>1, <2>2, LookEndsQuiet
<1> QED BY <1>1, <1>4, <1>5, <1>6, <1>7 DEF Helper

\* EndsQuiet: as long as ready_to_end may be called once more, no phase ends at a moment
\* at which an objection to it, or to a sibling, is raised, in a graph with forks where
\* nothing jumps and in a line of phases whoever jumps.
THEOREM PhasesEndQuiet == Calm => (Spec => EndsQuiet)
<1> SUFFICES ASSUME Calm PROVE Spec => EndsQuiet
  OBVIOUS
<1>1. Typed /\ Attended /\ [Next]_vars =>
        [\A p \in Phases :
           helper[p] # "over" /\ helper'[p] = "over"
             /\ m_ready_to_end_count[p] < max_ready_to_end_iter
             => \A q \in {p} \cup Siblings(p) : obj[q] # "raised"]_vars
  BY StepEndsQuiet
<1>2. Orderly => Typed
  BY DEF Orderly
<1> QED BY <1>1, <1>2, AttendedAlways, PTL DEF Spec, EndsQuiet

=============================================================================
