------------------------------- MODULE Phase -------------------------------
(***************************************************************************)
(* uvm_phase: the phases of a test form a graph.  m_run_phases takes the   *)
(* phases of the hopper; a phase of functions is executed at once, any     *)
(* other one by a process of its own, which waits for the predecessors,    *)
(* starts the processes of the components, waits until nothing is objected *)
(* to its end, in it and in its siblings, or until a jump, and schedules   *)
(* the successors.                                                         *)
(*                                                                         *)
(* An action is the code one process runs between two waits. The maps of   *)
(* nodes are ordered by address: Order; what a loop over one of them has   *)
(* left is the set of its last nodes.  The objection of a phase is that of *)
(* RootObjection.                                                          *)
(***************************************************************************)
EXTENDS Integers, FiniteSets, SequencesExt

CONSTANTS Phases,
          NULL,
          Kind,      \* "process", "function", or "link": a begin or an end
          Succ,      \* m_successors
          Sync,      \* m_sync
          Order,     \* the phases in the order of their addresses
          Targets,   \* the phases each phase, or a domain, may be asked to jump to
          first,     \* start_of_simulation
          max_ready_to_end_iter,
          MaxEvents, \* bound: objections raised and jumps in a run
          MaxJumps   \* bound: jumps in a run

ASSUME GraphAssumption ==
  /\ first \in Phases /\ NULL \notin Phases
  /\ Order \in Seq(Phases) /\ ToSet(Order) = Phases /\ Len(Order) = Cardinality(Phases)
  /\ Kind \in [Phases -> {"process", "function", "link"}]
  /\ {Succ, Sync, Targets} \subseteq [Phases -> SUBSET Phases]
  /\ \A p \in Phases : Kind[p] # "process" => Sync[p] = {}
ASSUME BoundsAssumption == {max_ready_to_end_iter, MaxEvents, MaxJumps} \subseteq Nat

VARIABLES
  m_state,
  m_jump_phase, m_jump_fwd, m_jump_bkwd,
  m_ready_to_end_count,
  m_phase_hopper,
  obj,       \* phase_done, seen from the root
  alive,     \* the phases whose component processes run
  pc,        \* where the process in execute_phase is, or "idle"
  todo,      \* the nodes its loop has left
  helper,    \* where the process in m_wait_for_all_dropped is, or "none"
  left,      \* the nodes wait_for_self_and_siblings_to_drop has left
  need_to_check_all,
  on,        \* the phase whose all_dropped it waits for, or NULL
  runs,      \* "on": m_run_phases goes on, or why it does not
  m_phase_all_done,
  raises, jumps

jumpVars == <<m_jump_phase, m_jump_fwd, m_jump_bkwd>>
helperVars == <<helper, left, need_to_check_all, on, m_ready_to_end_count>>
vars == <<m_state, jumpVars, m_phase_hopper, obj, alive, pc, todo, helperVars,
          runs, m_phase_all_done, raises, jumps>>

\* uvm_phase_state
DORMANT == 0
SCHEDULED == 1
SYNCING == 2
STARTED == 3
EXECUTING == 4
READY_TO_END == 5
ENDED == 6
CLEANUP == 7
DONE == 8
JUMPING == 9

-----------------------------------------------------------------------------
(* The graph *)

Pred == [p \in Phases |-> {q \in Phases : p \in Succ[q]}]

Place == [q \in Phases |-> CHOOSE i \in DOMAIN Order : Order[i] = q]

\* The nodes of S in their order.
Listed(S) ==
  CHOOSE s \in [1 .. Cardinality(S) -> S] :
    \A i, j \in DOMAIN s : i < j => Place[s[i]] < Place[s[j]]

\* Process p comes to q before r, and to its own phase first.
NoLater(p, q, r) == q = p \/ (r # p /\ Place[q] <= Place[r])

First(p, nodes) == CHOOSE q \in nodes : \A r \in nodes : NoLater(p, q, r)

\* What is left of nodes from the first of those in late.
From(p, nodes, late) == {r \in nodes : \E q \in nodes \cap late : NoLater(p, q, r)}

\* The nodes next to p, those behind a begin or an end in the place of it.
NodesAfter[p \in Phases] ==
  UNION {IF Kind[q] = "link" THEN NodesAfter[q] ELSE {q} : q \in Succ[p]}
NodesBefore[p \in Phases] ==
  UNION {IF Kind[q] = "link" THEN NodesBefore[q] ELSE {q} : q \in Pred[p]}

get_predecessors_for_successors(p) ==
  {q \in Phases \ {p} : \E r \in NodesAfter[p] : q \in NodesBefore[r]}

Siblings(p) == get_predecessors_for_successors(p) \cup Sync[p]

\* p and what follows it, up to end.
Following(p, end) ==
  LET f[q \in Phases] == IF q = end THEN {} ELSE {q} \cup UNION {f[r] : r \in Succ[q]}
  IN  f[p]

ASSUME FunctionsAlone ==
  \A p \in Phases : Kind[p] = "function" => get_predecessors_for_successors(p) = {}

Init ==
  /\ m_state = [p \in Phases |-> IF p = first THEN SCHEDULED ELSE DORMANT]
  /\ m_jump_phase = [p \in Phases |-> NULL]
  /\ m_jump_fwd = [p \in Phases |-> FALSE] /\ m_jump_bkwd = [p \in Phases |-> FALSE]
  /\ m_ready_to_end_count = [p \in Phases |-> 0]
  /\ m_phase_hopper = <<first>>
  /\ obj = [p \in Phases |-> "none"] /\ alive = {}
  /\ pc = [p \in Phases |-> "idle"] /\ todo = [p \in Phases |-> {}]
  /\ helper = [p \in Phases |-> "none"] /\ left = [p \in Phases |-> {}]
  /\ need_to_check_all = [p \in Phases |-> FALSE] /\ on = [p \in Phases |-> NULL]
  /\ runs = "on" /\ m_phase_all_done = FALSE
  /\ raises = 0 /\ jumps = 0

-----------------------------------------------------------------------------
(* The objection of a phase *)

\* Mutant of Cleared: whoever waits for the drop is not told.
Cleared_Silently(S) ==
  /\ obj' = [p \in Phases |-> IF p \in S THEN "none" ELSE obj[p]] /\ UNCHANGED on

\* clear: whoever waits for the drop is told.
Cleared(S) ==
  /\ obj' = [p \in Phases |-> IF p \in S THEN "none" ELSE obj[p]]
  /\ on' = [p \in Phases |-> IF on[p] \in S THEN NULL ELSE on[p]]

\* Mutant of drop_objection: the drain is over at once.
drop_objection_NoDrain(p) ==
  /\ runs # "clash" /\ p \in alive /\ obj[p] = "raised"
  /\ obj' = [obj EXCEPT ![p] = "told"]
  /\ UNCHANGED <<m_state, jumpVars, m_phase_hopper, alive, pc, todo, helperVars, runs,
                 m_phase_all_done, raises, jumps>>

raise_objection(p) ==
  /\ runs # "clash" /\ p \in alive /\ raises + jumps < MaxEvents
  /\ obj' = [obj EXCEPT ![p] = "raised"] /\ raises' = raises + 1
  /\ UNCHANGED <<m_state, jumpVars, m_phase_hopper, alive, pc, todo, helperVars, runs,
                 m_phase_all_done, jumps>>

drop_objection(p) ==
  /\ runs # "clash" /\ p \in alive /\ obj[p] = "raised"
  /\ obj' = [obj EXCEPT ![p] = "draining"]
  /\ UNCHANGED <<m_state, jumpVars, m_phase_hopper, alive, pc, todo, helperVars, runs,
                 m_phase_all_done, raises, jumps>>

all_dropped(p) ==
  /\ runs # "clash" /\ obj[p] = "draining"
  /\ obj' = [obj EXCEPT ![p] = "told"]
  /\ on' = [q \in Phases |-> IF on[q] = p THEN NULL ELSE on[q]]
  /\ UNCHANGED <<m_state, jumpVars, m_phase_hopper, alive, pc, todo, helper, left,
                 need_to_check_all, m_ready_to_end_count, runs, m_phase_all_done, raises, jumps>>

-----------------------------------------------------------------------------
(* m_run_phases *)

\* Mutant of Schedulable: a successor is scheduled whatever its state.
Schedulable_Always(state) == TRUE

Schedulable(state) == state < SCHEDULED

\* A phase of functions: execute_phase(false) waits for nothing.
ExecuteFunction(p) ==
  IF m_state[p] = DONE
  THEN /\ m_phase_hopper' = Tail(m_phase_hopper)
       /\ UNCHANGED <<m_state, obj, on>>
  ELSE LET next == {q \in Succ[p] : Schedulable(m_state[q])}
       IN  /\ m_state' = [q \in Phases |-> IF q = p THEN DONE
                                          ELSE IF q \in next THEN SCHEDULED
                                          ELSE m_state[q]]
           /\ m_phase_hopper' = Tail(m_phase_hopper) \o Listed(next)
           /\ Cleared({p})

m_run_phases ==
  LET p == Head(m_phase_hopper)
  IN
  /\ runs = "on" /\ m_phase_hopper # <<>>
  /\ runs' = IF Kind[p] # "function" /\ pc[p] # "idle" THEN "clash"
             ELSE IF Succ[p] = {} THEN "over" ELSE "on"
  /\ IF Kind[p] = "function"
     THEN ExecuteFunction(p) /\ UNCHANGED <<pc, todo>>
     ELSE /\ m_phase_hopper' = Tail(m_phase_hopper)
          /\ pc' = [pc EXCEPT ![p] = IF @ = "idle" THEN "pred" ELSE @]
          /\ todo' = [todo EXCEPT ![p] = IF pc[p] = "idle" THEN Pred[p] ELSE @]
          /\ UNCHANGED <<m_state, obj, on>>
  /\ UNCHANGED <<jumpVars, alive, helper, left, need_to_check_all,
                 m_ready_to_end_count, m_phase_all_done, raises, jumps>>

-----------------------------------------------------------------------------
(* execute_phase(true) *)

At(p, at) == runs # "clash" /\ pc[p] = at
Goto(p, at) == pc' = [pc EXCEPT ![p] = at]

Waiting == <<m_phase_hopper, runs, m_phase_all_done, raises, jumps>>

\* The phase, or the begin or end, starts.
Starts(p) ==
  /\ m_state' = [m_state EXCEPT ![p] = STARTED]
  /\ Goto(p, "started") /\ todo' = [todo EXCEPT ![p] = {}]
  /\ m_ready_to_end_count' = [m_ready_to_end_count EXCEPT ![p] = 0]

\* The synchronised phases come after the predecessors.
SyncFrom(p, state, nodes) ==
  LET rest == From(p, nodes, {q \in Phases : state[q] < SYNCING})
  IN  IF rest = {} THEN Starts(p)
      ELSE /\ m_state' = state /\ Goto(p, "sync")
           /\ todo' = [todo EXCEPT ![p] = rest]
           /\ UNCHANGED m_ready_to_end_count

Uncompleted == {q \in Phases : m_state[q] # DONE}

WaitForPredecessors(p) ==
  LET rest == From(p, todo[p], Uncompleted)
  IN
  /\ At(p, "pred")
  /\ \/ /\ rest # {} /\ rest # todo[p]
        /\ todo' = [todo EXCEPT ![p] = rest]
        /\ UNCHANGED <<m_state, pc, m_ready_to_end_count>>
     \/ /\ rest = {} /\ m_state[p] = DONE
        /\ Goto(p, "idle") /\ todo' = [todo EXCEPT ![p] = {}]
        /\ UNCHANGED <<m_state, m_ready_to_end_count>>
     \/ /\ rest = {} /\ m_state[p] # DONE
        /\ IF Sync[p] = {} THEN Starts(p)
           ELSE SyncFrom(p, [m_state EXCEPT ![p] = SYNCING], Sync[p])
  /\ UNCHANGED <<jumpVars, obj, alive, helper, left, need_to_check_all, on, Waiting>>

WaitForSync(p) ==
  /\ At(p, "sync") /\ m_state[First(p, todo[p])] >= SYNCING
  /\ SyncFrom(p, m_state, todo[p])
  /\ UNCHANGED <<jumpVars, obj, alive, helper, left, need_to_check_all, on, Waiting>>

\* A begin or an end has nothing to execute.
ExecuteLink(p) ==
  /\ Kind[p] = "link"
  /\ \/ /\ At(p, "started") /\ Goto(p, "executing")
        /\ m_state' = [m_state EXCEPT ![p] = EXECUTING]
     \/ /\ At(p, "executing") /\ Goto(p, "done")
        /\ m_state' = [m_state EXCEPT ![p] = DONE]
  /\ UNCHANGED <<jumpVars, obj, alive, todo, helperVars, Waiting>>

m_master_phase_process(p) ==
  /\ Kind[p] = "process" /\ At(p, "started") /\ Goto(p, "executing")
  /\ m_state' = [m_state EXCEPT ![p] = EXECUTING]
  /\ alive' = alive \cup {p}
  /\ UNCHANGED <<jumpVars, obj, todo, helperVars, Waiting>>

\* Three processes wait, for a jump, for the drops and for the time-out.
SpawnWaits(p) ==
  /\ Kind[p] = "process" /\ At(p, "executing") /\ Goto(p, "waiting")
  /\ helper' = [helper EXCEPT ![p] = "spawned"]
  /\ UNCHANGED <<m_state, jumpVars, obj, alive, todo, left, need_to_check_all, on,
                 m_ready_to_end_count, Waiting>>

\* Mutant of Jumping: a backward jump is asked for only.
Jumping_Forward(p) == m_jump_fwd[p]

Jumping(p) == m_jump_fwd[p] \/ m_jump_bkwd[p]

\* The first of the three that is over has the others killed.
KillWaits(p) ==
  /\ At(p, "waiting") /\ (Jumping(p) \/ helper[p] = "over")
  /\ Goto(p, "waited")
  /\ helper' = [helper EXCEPT ![p] = "none"] /\ left' = [left EXCEPT ![p] = {}]
  /\ need_to_check_all' = [need_to_check_all EXCEPT ![p] = FALSE]
  /\ on' = [on EXCEPT ![p] = NULL]
  /\ UNCHANGED <<m_state, jumpVars, obj, alive, todo, m_ready_to_end_count, Waiting>>

\* Mutant of Killed: the processes of the components go on.
Killed_None(p) == alive

\* The ENDED traversal kills the processes of the components.
Killed(p) == alive \ {p}

End(p) ==
  /\ At(p, "waited")
  /\ m_state' = [m_state EXCEPT ![p] = ENDED] /\ alive' = Killed(p)
  /\ Goto(p, IF Jumping(p) THEN "jumps" ELSE "ended")
  /\ UNCHANGED <<jumpVars, obj, todo, helperVars, Waiting>>

CleanUp(p) ==
  /\ \/ /\ At(p, "ended") /\ Goto(p, "cleanup")
        /\ m_state' = [m_state EXCEPT ![p] = CLEANUP]
     \/ /\ At(p, "jumps") /\ Goto(p, "jumping")
        /\ m_state' = [m_state EXCEPT ![p] = JUMPING]
  /\ UNCHANGED <<jumpVars, obj, alive, todo, helperVars, Waiting>>

Complete(p) ==
  /\ At(p, "cleanup") /\ Goto(p, "done")
  /\ m_state' = [m_state EXCEPT ![p] = DONE] /\ Cleared({p})
  /\ UNCHANGED <<jumpVars, alive, todo, helper, left, need_to_check_all,
                 m_ready_to_end_count, Waiting>>

\* A successor is put into the hopper one wait after it is scheduled.
ScheduleNext(p, nodes) ==
  LET rest == From(p, nodes, {q \in Phases : Schedulable(m_state[q])})
  IN  /\ todo' = [todo EXCEPT ![p] = rest]
      /\ IF rest = {} THEN Goto(p, "idle") /\ UNCHANGED m_state
         ELSE /\ Goto(p, "schedule")
              /\ m_state' = [m_state EXCEPT ![First(p, rest)] = SCHEDULED]

ScheduleSuccessors(p) ==
  /\ \/ /\ At(p, "done") /\ ScheduleNext(p, Succ[p])
        /\ m_phase_all_done' = (m_phase_all_done \/ Succ[p] = {})
        /\ UNCHANGED m_phase_hopper
     \/ /\ At(p, "schedule")
        /\ LET q == First(p, todo[p])
           IN  /\ ScheduleNext(p, todo[p] \ {q})
               /\ m_phase_hopper' = Append(m_phase_hopper, q)
        /\ UNCHANGED m_phase_all_done
  /\ UNCHANGED <<jumpVars, obj, alive, helperVars, runs, raises, jumps>>

-----------------------------------------------------------------------------
(* Jumps *)

IsBefore(p, t) == t \in Following(p, NULL) \ {p}

\* The phases of S are asked to jump to t: at once if active, or when they are.
JumpAll(S, t) ==
  LET fwd == {p \in S : IsBefore(p, t)}
  IN  /\ m_jump_fwd' = [p \in Phases |-> m_jump_fwd[p] \/ p \in fwd]
      /\ m_jump_bkwd' = [p \in Phases |-> m_jump_bkwd[p] \/ p \in S \ fwd]
      /\ m_jump_phase' = [p \in Phases |-> IF p \in S THEN t ELSE m_jump_phase[p]]
      /\ UNCHANGED <<m_state, m_phase_hopper, obj, alive, pc, todo, helperVars, runs,
                     m_phase_all_done, raises>>

jump(p, t) ==
  /\ runs # "clash" /\ jumps < MaxJumps /\ raises + jumps < MaxEvents /\ Kind[p] = "process"
  /\ jumps' = jumps + 1 /\ JumpAll({p}, t)

\* The nodes behind d, depth first.
TransitiveChildren[d \in Phases] ==
  LET next == Listed(Succ[d])
  IN  FlattenSeq([i \in 1 .. Len(next) |-> <<next[i]>> \o TransitiveChildren[next[i]]])

Active(p) == m_state[p] \in STARTED .. CLEANUP

\* uvm_domain::jump: as many of the nodes behind d are asked as are active, but
\* from the first one.
domain_jump(d, t) ==
  LET phases == TransitiveChildren[d]
      active == SelectSeq(phases, LAMBDA p : Active(p))
      asked  == {phases[i] : i \in 1 .. Len(active)}
  IN
  /\ runs # "clash" /\ jumps < MaxJumps /\ raises + jumps < MaxEvents /\ Kind[d] = "link"
  /\ jumps' = jumps + 1
  /\ JumpAll({p \in asked : IsBefore(p, t) \/ IsBefore(t, p)}, t)

\* What a forward jump passes over is done; the target and all that follows it
\* are executed again.
JumpTo(p) ==
  LET t == m_jump_phase[p]
      passed == IF m_jump_fwd[p] THEN Following(p, t) ELSE {}
      again == Following(t, NULL)
  IN
  /\ At(p, "jumping") /\ Goto(p, "idle")
  /\ m_state' = [q \in Phases |-> IF q \in again THEN DORMANT
                                 ELSE IF q \in passed THEN DONE ELSE m_state[q]]
  /\ Cleared({p} \cup passed \cup again)
  /\ m_jump_fwd' = [m_jump_fwd EXCEPT ![p] = FALSE]
  /\ m_jump_bkwd' = [m_jump_bkwd EXCEPT ![p] = FALSE]
  /\ m_jump_phase' = [m_jump_phase EXCEPT ![p] = NULL]
  /\ m_phase_hopper' = Append(m_phase_hopper, t)
  /\ UNCHANGED <<alive, todo, helper, left, need_to_check_all, m_ready_to_end_count,
                 runs, m_phase_all_done, raises, jumps>>

-----------------------------------------------------------------------------
(* m_wait_for_all_dropped, and wait_for_self_and_siblings_to_drop *)

\* The phases p looks at, itself first.
Watched(p) == {p} \cup Siblings(p)

\* A sibling must have begun to execute before its objection counts.
NotYet(p, q) == q # p /\ m_state[q] < EXECUTING
Holding(p) == {q \in Phases : NotYet(p, q) \/ obj[q] = "raised"}

\* Mutant of Restarts: the phases are looked at once.
Restarts_Never(rest, again) == FALSE

Restarts(rest, again) == rest = {} /\ again

OnceMore(p) == m_state[p] = EXECUTING /\ m_ready_to_end_count[p] < max_ready_to_end_iter

\* p goes through nodes until one of them holds it; when one did before, it goes
\* through all of them again.
Look(p, nodes, again, then) ==
  LET goOn(some) == From(p, some, Holding(p))
      restart == Restarts(goOn(nodes), again)
      rest    == IF restart THEN goOn(Watched(p)) ELSE goOn(nodes)
      next    == First(p, rest)
      waits   == rest # {} /\ ~NotYet(p, next)
  IN
  /\ left' = [left EXCEPT ![p] = IF waits THEN rest \ {next} ELSE rest]
  /\ need_to_check_all' = [need_to_check_all EXCEPT
       ![p] = rest # {} /\ (waits \/ (again /\ ~restart))]
  /\ on' = [on EXCEPT ![p] = IF waits THEN next ELSE NULL]
  /\ m_state' = [m_state EXCEPT ![p] = IF waits THEN EXECUTING ELSE @]
  /\ helper' = [helper EXCEPT ![p] =
       IF rest # {} THEN then
       ELSE IF then = "last" /\ ~OnceMore(p) THEN "over" ELSE "nba"]

HelperAt(p, at) == At(p, "waiting") /\ helper[p] = at

m_wait_for_all_dropped(p) ==
  /\ HelperAt(p, "spawned")
  /\ IF obj[p] = "raised"
     THEN /\ on' = [on EXCEPT ![p] = p] /\ helper' = [helper EXCEPT ![p] = "drop"]
          /\ need_to_check_all' = [need_to_check_all EXCEPT ![p] = TRUE]
          /\ UNCHANGED <<m_state, left>>
     ELSE Look(p, Watched(p), FALSE, "drop")
  /\ UNCHANGED <<m_ready_to_end_count, jumpVars, obj, alive, pc, todo, Waiting>>

\* It goes on when what it waits for has happened.
wait_for_self_and_siblings_to_drop(p) ==
  /\ HelperAt(p, "drop") \/ HelperAt(p, "last")
  /\ on[p] = NULL /\ (left[p] # {} => ~NotYet(p, First(p, left[p])))
  /\ Look(p, left[p], need_to_check_all[p], helper[p])
  /\ UNCHANGED <<m_ready_to_end_count, jumpVars, obj, alive, pc, todo, Waiting>>

\* phase_ready_to_end, which may raise once more.
ready_to_end(p) ==
  /\ HelperAt(p, "nba") /\ helper' = [helper EXCEPT ![p] = "ready"]
  /\ m_ready_to_end_count' = [m_ready_to_end_count EXCEPT ![p] = @ + 1]
  /\ m_state' = [m_state EXCEPT ![p] = READY_TO_END]
  /\ \/ UNCHANGED <<obj, raises>>
     \/ /\ raises + jumps < MaxEvents /\ raises' = raises + 1
        /\ obj' = [obj EXCEPT ![p] = "raised"]
  /\ UNCHANGED <<left, need_to_check_all, on, jumpVars, alive, pc, todo,
                 m_phase_hopper, runs, m_phase_all_done, jumps>>

LookAgain(p) ==
  /\ HelperAt(p, "ready") /\ Look(p, Watched(p), FALSE, "last")
  /\ UNCHANGED <<m_ready_to_end_count, jumpVars, obj, alive, pc, todo, Waiting>>

-----------------------------------------------------------------------------

Helper(p) ==
  \/ m_wait_for_all_dropped(p) \/ wait_for_self_and_siblings_to_drop(p)
  \/ ready_to_end(p) \/ LookAgain(p)

execute_phase(p) ==
  \/ WaitForPredecessors(p) \/ WaitForSync(p)
  \/ ExecuteLink(p) \/ m_master_phase_process(p)
  \/ SpawnWaits(p) \/ KillWaits(p)
  \/ End(p) \/ CleanUp(p) \/ Complete(p) \/ ScheduleSuccessors(p) \/ JumpTo(p)

Next ==
  \/ m_run_phases
  \/ \E p \in Phases :
       \/ execute_phase(p)
       \/ Helper(p)
       \/ raise_objection(p)
       \/ drop_objection(p)
       \/ all_dropped(p)
       \/ \E t \in Targets[p] : jump(p, t) \/ domain_jump(p, t)

Spec == Init /\ [][Next]_vars

\* SystemC runs what is runnable; drain times are finite, and a component drops
\* what it has raised.
Fairness ==
  /\ WF_vars(m_run_phases)
  /\ \A p \in {q \in Phases : Kind[q] # "function"} : WF_vars(execute_phase(p))
  /\ \A p \in {q \in Phases : Kind[q] = "process"} :
       WF_vars(Helper(p)) /\ WF_vars(drop_objection(p) \/ all_dropped(p))

FairSpec == Spec /\ Fairness

-----------------------------------------------------------------------------
(* Properties *)

\* Every variable has its type.
TypeOK ==
  /\ m_state \in [Phases -> DORMANT .. JUMPING]
  /\ m_jump_phase \in [Phases -> Phases \cup {NULL}]
  /\ m_jump_fwd \in [Phases -> BOOLEAN] /\ m_jump_bkwd \in [Phases -> BOOLEAN]
  /\ m_ready_to_end_count \in [Phases -> Nat]
  /\ m_phase_hopper \in Seq(Phases)
  /\ obj \in [Phases -> {"none", "raised", "draining", "told"}]
  /\ alive \subseteq Phases
  /\ pc \in [Phases -> {"idle", "pred", "sync", "started", "executing", "waiting", "waited",
                       "ended", "cleanup", "done", "schedule", "jumps", "jumping"}]
  /\ helper \in [Phases -> {"none", "spawned", "drop", "nba", "ready", "last", "over"}]
  /\ todo \in [Phases -> SUBSET Phases] /\ left \in [Phases -> SUBSET Phases]
  /\ need_to_check_all \in [Phases -> BOOLEAN] /\ on \in [Phases -> Phases \cup {NULL}]
  /\ runs \in {"on", "over", "clash"} /\ m_phase_all_done \in BOOLEAN
  /\ raises \in 0 .. MaxEvents /\ jumps \in 0 .. MaxJumps

\* Two processes never execute the same phase, whichever of its predecessors
\* scheduled it, and in whatever order they ended.
OneExecution == runs # "clash"

\* Unless ready_to_end was called as often as it may, no phase ends at a moment
\* at which an objection to it, or to a sibling, is raised: not even when one was
\* raised again behind the loop that looks at the siblings one after the other.
EndsQuiet ==
  [][\A p \in Phases :
       helper[p] # "over" /\ helper'[p] = "over" /\ m_ready_to_end_count[p] < max_ready_to_end_iter
         => \A q \in {p} \cup Siblings(p) : obj[q] # "raised"]_vars

\* The processes of the components live only while their phase executes: neither
\* the end of a phase nor a jump, which resets the states of other phases, leaves
\* one behind.
AliveExecutes == \A p \in alive : m_state[p] \in {EXECUTING, READY_TO_END}

\* The test ends: no phase waits for ever for a drop, for a sibling, for a
\* synchronised phase or for a predecessor.
AllDone == <>(m_phase_all_done)

\* t executes, again if it has before.
Executed(t) == m_state[t] = IF Kind[t] = "function" THEN DONE ELSE STARTED

\* An active phase that is asked to jump makes its target execute, also when the
\* request comes while the phase is about to end; only another request takes the
\* place of the first.
JumpsHappen ==
  \A p \in {q \in Phases : Kind[q] = "process"} : \A t \in Targets[p] :
    (m_jump_phase[p] = t /\ m_state[p] \in STARTED .. READY_TO_END)
      ~> (Executed(t) \/ m_jump_phase[p] \notin {t, NULL})

\* uvm_domain.cpp:188: all active phases of the domain jump, if there is a path
\* to the target.
DomainJumps ==
  [][\A d \in Phases : \A t \in Targets[d] :
       domain_jump(d, t) =>
         \A p \in ToSet(TransitiveChildren[d]) :
           Active(p) /\ IsBefore(p, t) => m_jump_phase'[p] = t]_vars

RootOf(p) == INSTANCE RootObjection WITH root <- obj[p]

\* What a phase assumes of its objection, and does to it, is what RootObjection
\* allows; that uvm_objection provides it is a property of Objection.
UsesObjections ==
  [][\A p \in Phases : obj'[p] # obj[p] => RootOf(p)!Next]_vars

=============================================================================
