----------------------------- MODULE Objection -----------------------------
(***************************************************************************)
(* uvm_objection: objections raised on the components of a tree are        *)
(* counted up to the root.  An object whose total falls to zero hands a    *)
(* context to a background process, which spawns a drain process for it;   *)
(* when the drain is over, all_dropped is called and only then does the    *)
(* drop reach the parent.  A raise in the meantime kills the drain and     *)
(* passes on the difference.                                               *)
(*                                                                         *)
(* An action is the code one process runs between two waits.  Processes    *)
(* that were spawned one after the other start in that order, as SystemC's *)
(* FIFO of runnable processes makes them.  m_hier_mode is always true and  *)
(* m_scheduled_contexts is never read: both are left out.                  *)
(***************************************************************************)
EXTENDS Integers, FiniteSets, FiniteSetsExt, SequencesExt

CONSTANTS Objs,        \* the components
          top,         \* uvm_root
          NULL,
          Parent,      \* m_get_parent of each component, NULL of top
          DrainTimed,  \* the components with a drain time
          Procs,       \* bound: drain processes alive at a time
          Ops,         \* what the testbench does besides raise and drop
          MaxCount,    \* bound: objections one component raises itself
          MaxDrained,  \* bound: drains that run when clear is called
          MaxContexts  \* bound: context objects allocated, when a re-raise leaks them

ASSUME TreeAssumption == /\ top \in Objs /\ NULL \notin Objs \cup Procs
                         /\ Parent \in [Objs -> Objs \cup {NULL}]
                         /\ \A o \in Objs : Parent[o] = NULL <=> o = top
                         /\ \A S \in SUBSET Objs : S # {} => \E o \in S : Parent[o] \notin S
                         /\ IsFiniteSet(Objs) /\ IsFiniteSet(Procs)
ASSUME DrainAssumption == DrainTimed \subseteq Objs /\ {MaxCount, MaxDrained, MaxContexts} \subseteq Nat
ASSUME OpsAssumption == Ops \subseteq {"clear", "reraise", "reraise_any", "window"}

VARIABLES
  m_source_count, m_total_count, \* 0 for an object without an entry
  contexts,           \* every uvm_objection_context_object; obj NULL: cleared
  m_context_pool,     \* the cleared ones, to be used again
  m_scheduled_list,   \* contexts the background process has not seen
  m_forked_list,      \* contexts whose drain process has not started
  m_forked_contexts,  \* the context each object is drained with, or 0
  m_drain_proc,       \* the process that drains each object, or NULL
  guards,             \* processes spawned and not started: m_forked_drain_guard
  running,            \* what each drain process that waits is draining, or NULL
  m_top_all_dropped, m_cleared,
  halted              \* "fatal": below zero, "crash": a cleared context is used

counts == <<m_source_count, m_total_count>>
lists == <<contexts, m_context_pool, m_scheduled_list, m_forked_list,
           m_forked_contexts, m_drain_proc, guards, running>>
vars == <<counts, lists, m_top_all_dropped, m_cleared, halted>>

Context == [obj : Objs \cup {NULL}, count : Nat]
Cleared == [obj |-> NULL, count |-> 0]

Init ==
  /\ m_source_count = [o \in Objs |-> 0] /\ m_total_count = [o \in Objs |-> 0]
  /\ contexts = <<>> /\ m_context_pool = <<>>
  /\ m_scheduled_list = <<>> /\ m_forked_list = <<>>
  /\ m_forked_contexts = [o \in Objs |-> 0]
  /\ m_drain_proc = [o \in Objs |-> NULL]
  /\ guards = <<>> /\ running = [p \in Procs |-> NULL]
  /\ m_top_all_dropped = FALSE /\ m_cleared = FALSE
  /\ halted = "no"

-----------------------------------------------------------------------------
(* Counting up the tree.  n is the change on its way from an object to its   *)
(* parent: a raise when positive, a drop when negative.                      *)

Current == [n |-> 0, at |-> NULL, total |-> m_total_count, contexts |-> contexts,
            pool |-> m_context_pool, scheduled |-> m_scheduled_list,
            forked |-> m_forked_list, drains |-> m_forked_contexts,
            procs |-> m_drain_proc, running |-> running,
            freed |-> <<>>, cleared |-> m_cleared, halted |-> halted]

\* The index in list of the context of object o, or 0.
Find(st, list, o) == SelectInSeq(list, LAMBDA c : st.contexts[c].obj = o)

\* Mutant of Settle: the raise goes on as if nothing had been drained.
Settle_All(st, c) == [st EXCEPT !.freed = <<c>> \o @]

\* The parent still counts what the caught context c was going to drop.
Settle(st, c) == [st EXCEPT !.n = @ - st.contexts[c].count, !.freed = <<c>> \o @]

\* Mutant of KillDrain: the process goes on.
KillDrain_Missed(st, o) == [st EXCEPT !.drains[o] = 0, !.procs[o] = NULL]

\* The handle of a process that is over kills nothing.
KillDrain(st, o) ==
  [st EXCEPT !.drains[o] = 0, !.procs[o] = NULL,
             !.running = [p \in Procs |-> IF p = st.procs[o] THEN NULL ELSE @[p]]]

\* Mutant of m_raise: a drain that is still scheduled is not looked for.
m_raise_Unscheduled(st, o) ==
  LET s == [st EXCEPT !.total[o] = @ + st.n]
      j == Find(s, s.forked, o)
  IN  CASE j > 0 -> Settle([s EXCEPT !.forked = RemoveAt(@, j)], s.forked[j])
        [] j = 0 /\ s.drains[o] # 0 -> Settle(KillDrain(s, o), s.drains[o])
        [] OTHER -> s

\* m_raise catches the drain of o, however far it has come.
m_raise(st, o) ==
  LET s == [st EXCEPT !.total[o] = @ + st.n]
      i == Find(s, s.scheduled, o)
      j == Find(s, s.forked, o)
  IN  CASE i > 0 -> Settle([s EXCEPT !.scheduled = RemoveAt(@, i)], s.scheduled[i])
        [] i = 0 /\ j > 0 -> Settle([s EXCEPT !.forked = RemoveAt(@, j)], s.forked[j])
        [] i = 0 /\ j = 0 /\ s.drains[o] # 0 -> Settle(KillDrain(s, o), s.drains[o])
        [] OTHER -> s

\* The context that is scheduled next: one of the pool, or a new one.
Taken(st) == IF st.pool # <<>> THEN Head(st.pool) ELSE Len(st.contexts) + 1

\* Mutant of Schedule: the context stays in the pool.
Schedule_Shared(st, o) ==
  [st EXCEPT !.scheduled = Append(@, Taken(st)), !.n = 0,
             !.contexts = [c \in DOMAIN @ \cup {Taken(st)} |->
                             IF c = Taken(st) THEN [obj |-> o, count |-> -st.n] ELSE @[c]]]

\* A drain of o is scheduled with n, which stops here.
Schedule(st, o) ==
  [st EXCEPT !.scheduled = Append(@, Taken(st)), !.n = 0,
             !.pool = IF @ # <<>> THEN Tail(@) ELSE @,
             !.contexts = [c \in DOMAIN @ \cup {Taken(st)} |->
                             IF c = Taken(st) THEN [obj |-> o, count |-> -st.n] ELSE @[c]]]

m_drop(st, o) ==
  LET s == [st EXCEPT !.total[o] = @ + st.n]
  IN  IF s.total[o] < 0 THEN [st EXCEPT !.n = 0, !.halted = IF st.cleared THEN @ ELSE "fatal"]
      ELSE IF s.total[o] = 0 THEN Schedule(s, o)
      ELSE s

\* m_raise and m_drop call each other through m_propagate: one of them for the
\* object that the change has reached.
m_propagate(st) ==
  LET o == st.at
      s == IF st.n > 0 THEN m_raise(st, o) ELSE IF st.n < 0 THEN m_drop(st, o) ELSE st
  IN  IF o = NULL THEN st ELSE [s EXCEPT !.at = Parent[o]]

\* What a change does on its way to the root, which is not longer than the tree.
Climbed(st) ==
  LET up[i \in 0 .. Cardinality(Objs)] == IF i = 0 THEN st ELSE m_propagate(up[i - 1])
  IN  up[Cardinality(Objs)]

\* The contexts of a list are cleared and go back to the pool.
Free(st, list) ==
  [st EXCEPT !.contexts = [c \in DOMAIN @ |-> IF c \in ToSet(list) THEN Cleared ELSE @[c]],
             !.pool = @ \o list]

\* The change n reaches o and, through it, its ancestors; the contexts that were
\* caught are freed when the calls return, the uppermost first.
Propagated(st, n, o) ==
  LET s == Climbed([st EXCEPT !.n = n, !.at = o])
  IN  [Free(s, s.freed) EXCEPT !.freed = <<>>]

Becomes(next) == \E st \in {next} :
  /\ m_total_count' = st.total
  /\ contexts' = st.contexts /\ m_context_pool' = st.pool
  /\ m_scheduled_list' = st.scheduled /\ m_forked_list' = st.forked
  /\ m_forked_contexts' = st.drains /\ m_drain_proc' = st.procs
  /\ running' = st.running
  /\ halted' = st.halted

-----------------------------------------------------------------------------
(* Calls of the testbench *)

Goes == halted = "no"

\* No other process runs between the spawning of a drain and its start, except
\* one that was notified after the background process was and before it ran.
MayCall == Goes /\ (guards = <<>> \/ "window" \in Ops)

raise_objection(o, count) ==
  /\ MayCall /\ m_source_count[o] + count <= MaxCount
  /\ m_source_count' = [m_source_count EXCEPT ![o] = @ + count]
  /\ m_cleared' = FALSE /\ m_top_all_dropped' = FALSE
  /\ Becomes(Propagated([Current EXCEPT !.cleared = FALSE], count, o))
  /\ UNCHANGED guards

\* The testbench drops what it has raised and not more.
drop_objection(o, count) ==
  /\ MayCall /\ count <= m_source_count[o]
  /\ m_source_count' = [m_source_count EXCEPT ![o] = @ - count]
  /\ Becomes(Propagated(Current, -count, o))
  /\ UNCHANGED <<guards, m_cleared, m_top_all_dropped>>

(***************************************************************************)
(* clear, at the end of a phase: the loop over the drains that run erases  *)
(* the element it stands on, and its bound shrinks while its index grows,  *)
(* so that the second drain of two is left; with three it uses the erased  *)
(* element again.                                                          *)
(***************************************************************************)
clear ==
  LET drained == {o \in Objs : m_forked_contexts[o] # 0}
      listed  == m_scheduled_list \o m_forked_list
      s == Free([Current EXCEPT !.scheduled = <<>>, !.forked = <<>>,
                                !.total = [o \in Objs |-> 0]], listed)
      stopped == {Free(KillDrain(s, o), <<s.drains[o]>>) : o \in drained}
  IN
  /\ "clear" \in Ops /\ MayCall
  /\ Cardinality(drained) <= MaxDrained
  /\ m_source_count' = [o \in Objs |-> 0]
  /\ \E st \in (IF drained = {} THEN {s} ELSE stopped) : Becomes(st)
  /\ m_top_all_dropped' = FALSE /\ m_cleared' = TRUE
  /\ UNCHANGED guards

-----------------------------------------------------------------------------
(* The background process and the drains *)

FreeProcs == {p \in Procs : /\ running[p] = NULL
                            /\ \A o \in Objs : m_drain_proc[o] # p
                            /\ \A i \in DOMAIN guards : guards[i].proc # p}

\* Mutant of Spawned: the background process takes a single context.
Spawned_One == SubSeq(m_scheduled_list, 1, 1)

Spawned == m_scheduled_list

\* A process for every scheduled context, without a wait in between.
m_execute_scheduled_forks ==
  LET procs == SetToSeq(FreeProcs)
      new == [i \in DOMAIN Spawned |-> [proc |-> procs[i], ctxt |-> Spawned[i]]]
  IN
  /\ Goes /\ guards = <<>> /\ m_scheduled_list # <<>>
  /\ Cardinality(FreeProcs) >= Len(m_scheduled_list)
  /\ m_scheduled_list' = <<>>
  /\ m_forked_list' = m_forked_list \o Spawned
  /\ guards' = guards \o new
  /\ m_drain_proc' = [o \in Objs |->
       LET i == Find(Current, Spawned, o)
       IN  IF i > 0 THEN procs[i] ELSE m_drain_proc[o]]
  /\ UNCHANGED <<counts, contexts, m_context_pool, m_forked_contexts, running,
                 m_top_all_dropped, m_cleared, halted>>

\* The end of m_forked_drain and of its guard: the drop goes on to the parent. d
\* holds the arguments of m_forked_drain; the guard looks at its context again.
Finished(st, p, d) ==
  LET s == IF d.obj \in {top, NULL} THEN st ELSE Propagated(st, -d.count, Parent[d.obj])
      o == s.contexts[d.ctxt].obj
  IN  Free([s EXCEPT !.drains = [x \in Objs |-> IF x = o THEN 0 ELSE @[x]],
                     !.procs = [x \in Objs |-> IF x = o THEN NULL ELSE @[x]],
                     !.running[p] = NULL], <<d.ctxt>>)

\* all_dropped(d.obj), whose callback raises nothing.
Drained(st, p, d) ==
  /\ m_top_all_dropped' = (m_top_all_dropped \/ d.obj = top)
  /\ Becomes(Finished(st, p, d))
  /\ UNCHANGED <<m_source_count, m_cleared>>

\* all_dropped(d.obj), whose callback raises objections on d.obj: m_raise kills
\* the process it runs in and none of the rest is executed. The handle it leaves
\* behind is that of a dead process, as good as none.
DrainedAgain(st, p, d, count) ==
  /\ d.obj # NULL
  /\ \/ "reraise" \in Ops /\ count = d.count
     \/ "reraise_any" \in Ops
  /\ m_source_count[d.obj] + count <= MaxCount /\ Len(contexts) < MaxContexts
  /\ st.procs[d.obj] = p /\ st.drains[d.obj] # 0
  /\ m_source_count' = [m_source_count EXCEPT ![d.obj] = @ + count]
  /\ m_cleared' = FALSE /\ m_top_all_dropped' = FALSE
  /\ Becomes(KillDrain([st EXCEPT !.total[d.obj] = @ + count], d.obj))

AllDropped(st, p, d) ==
  \/ Drained(st, p, d)
  \/ \E count \in 1 .. MaxCount : DrainedAgain(st, p, d, count)

\* A spawned drain starts: it takes the first of m_forked_list, whatever context
\* it was spawned for, and waits for the drain time of its object.
m_forked_drain_guard ==
  LET p == Head(guards).proc
      c == Head(m_forked_list)
      o == contexts[c].obj
      d == [obj |-> o, count |-> contexts[c].count, ctxt |-> c]
      s == [Current EXCEPT !.forked = Tail(@), !.drains[o] = c]
      crash == contexts[Head(guards).ctxt].obj = NULL
  IN
  /\ Goes /\ guards # <<>> /\ guards' = Tail(guards)
  /\ IF crash \/ m_forked_list = <<>> \/ o \in DrainTimed
     THEN /\ Becomes(IF crash THEN [Current EXCEPT !.halted = "crash"]
                     ELSE IF m_forked_list = <<>> THEN Current
                     ELSE [s EXCEPT !.running[p] = d])
          /\ UNCHANGED <<m_source_count, m_top_all_dropped, m_cleared>>
     ELSE AllDropped(s, p, d)

\* The drain time is over.
m_forked_drain(p) ==
  /\ Goes /\ guards = <<>> /\ running[p] # NULL
  /\ AllDropped(Current, p, running[p])
  /\ UNCHANGED guards

Next ==
  \/ \E o \in Objs, count \in 1 .. MaxCount : raise_objection(o, count)
  \/ \E o \in Objs, count \in 1 .. MaxCount : drop_objection(o, count)
  \/ clear
  \/ m_execute_scheduled_forks
  \/ m_forked_drain_guard
  \/ \E p \in Procs : m_forked_drain(p)

Spec == Init /\ [][Next]_vars

\* SystemC runs what is runnable, and time goes on to the end of a drain time.
Fairness == WF_vars(\/ m_execute_scheduled_forks \/ m_forked_drain_guard
                    \/ \E p \in Procs : m_forked_drain(p))

FairSpec == Spec /\ Fairness

-----------------------------------------------------------------------------
(* Properties *)

TypeOK ==
  /\ m_source_count \in [Objs -> 0 .. MaxCount] /\ m_total_count \in [Objs -> Nat]
  /\ contexts \in Seq(Context)
  /\ \A list \in {m_context_pool, m_scheduled_list, m_forked_list} :
       list \in Seq(DOMAIN contexts)
  /\ m_forked_contexts \in [Objs -> {0} \cup DOMAIN contexts]
  /\ m_drain_proc \in [Objs -> Procs \cup {NULL}]
  /\ guards \in Seq([proc : Procs, ctxt : DOMAIN contexts])
  /\ running \in [Procs -> [obj : Objs, count : Nat, ctxt : DOMAIN contexts] \cup {NULL}]
  /\ m_top_all_dropped \in BOOLEAN /\ m_cleared \in BOOLEAN
  /\ halted \in {"no", "fatal", "crash"}

\* The drops of o that its parent has not heard of.
Draining(o) ==
  LET pending == ToSet(m_scheduled_list) \cup ToSet(m_forked_list)
                   \cup (Range(m_forked_contexts) \ {0})
  IN  {c \in pending : contexts[c].obj = o}

\* The total of an object is what it raised itself, plus the totals of its
\* children, plus what they have dropped and are still draining (m_raise,
\* m_drop, m_forked_drain): the counts survive every interleaving of raises
\* with drains.
Conservation ==
  LET heard == [x \in Objs |-> m_total_count[x] +
                  MapThenSumSet(LAMBDA c : contexts[c].count, Draining(x))]
      children(o) == {x \in Objs : Parent[x] = o}
  IN  \A o \in Objs :
        m_total_count[o] =
          m_source_count[o] + MapThenSumSet(LAMBDA x : heard[x], children(o))

\* An object drains at most once at a time, and only while nothing is raised on
\* it or below it.
DrainsAreIdle ==
  \A o \in Objs : Draining(o) # {} =>
    m_total_count[o] = 0 /\ Cardinality(Draining(o)) = 1

\* The context objects are used again, but never for two purposes at a time: a
\* context is in one of the lists or cleared in the pool, or lost by a raise of
\* all_dropped that killed its own process.
ContextsInOnePlace ==
  \A c \in DOMAIN contexts :
    LET places(list) == Cardinality({i \in DOMAIN list : list[i] = c})
    IN  /\ places(m_context_pool) + places(m_scheduled_list) + places(m_forked_list)
             + Cardinality({o \in Objs : m_forked_contexts[o] = c}) <= 1
        /\ places(m_context_pool) = 1 <=> contexts[c] = Cleared

\* When the root is told that all is dropped, nothing is raised or draining
\* anywhere (all_dropped; the phase ends on it).
AllDroppedIsTrue ==
  m_top_all_dropped => \A o \in Objs : m_total_count[o] = 0 /\ Draining(o) = {}

\* A testbench that drops no more than it raised is never told that a count
\* fell below zero, whatever drains and clears are under way.
NeverBelowZero == halted # "fatal"

\* clear stops every drain: none goes on until something is raised again.
ClearedIsIdle == m_cleared => \A o \in Objs : Draining(o) = {}

\* A drain does not use a context that was cleared: a raise may come between
\* the spawning of the drain and its start.
NoClearedContext == halted # "crash"

\* Every drain comes to an end: the root hears that all is dropped, unless
\* something is raised, or cleared, again.
DrainsReachTop ==
  (\E o \in Objs : Draining(o) # {})
    ~> (m_top_all_dropped \/ m_cleared \/ \E o \in Objs : m_source_count[o] > 0)

AtRoot ==
  IF m_total_count[top] > 0 THEN "raised"
  ELSE IF Draining(top) # {} THEN "draining"
  ELSE IF m_top_all_dropped THEN "told" ELSE "none"

Root == INSTANCE RootObjection WITH root <- AtRoot

\* Seen from the root, a tree of objections with its contexts and drain processes
\* is one objection that is raised, drops, drains and tells that all is dropped,
\* in this order: what the phase that waits for it relies on.
ImplementsRoot == Root!Spec

=============================================================================
