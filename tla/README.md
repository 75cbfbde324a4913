# UVM-SystemC in TLA+

A verification development for UVM-SystemC (the C++ library under
`src/src/uvmsc/`; paths below are relative to it). The library is a framework
for test benches: cooperative SystemC processes share sequencers, objections,
phases, registers and databases. What is hard about it is not computation but
order: which process runs between two waits of another one, what a kill leaves
behind, which notification arrives before its waiter, which of several calls
came first.

The modules are models of the code, not of the UVM standard. Where the code
departs from its own comments the model follows the code; the run `reg_lock`,
which TLC is expected to refute, and the list of departures below record it.

## Inventory

| Part | State | Operations | Hard behaviour | What makes it correct | Module |
|---|---|---|---|---|---|
| Sequencer arbitration (`seq/uvm_sequencer_base.cpp`) | queue of requests and locks, holders of locks, mode, priorities | `grant_queued_locks`, `m_choose_next_request` | unsigned arithmetic, `rand()`, one pass over a queue that shrinks | one winner, shares by weight, no lock that could be granted stays | `Arbitration`, `ArbitrationRound` |
| Sequencer (`seq/uvm_sequencer*.{h,cpp}`) | the queue, `lock_list`, `arb_completed`, two change counters, registry, item FIFO, flags | `wait_for_grant`, `lock`, `grab`, `unlock`, `send_request`, `wait_for_item_done`, `get_next_item`, `try_next_item`, `item_done`, `put`, `stop_sequences` | lost wake-ups, kills between any two waits, item and response races | mutual exclusion, no lost grant, a driver that never sleeps on work, every item reported done | `Sequencer`, with its proofs |
| Sequence life cycle (`seq/uvm_sequence_base.cpp`) | state, parent and children, response queue | `start`, `kill`, `m_kill`, responses | kill of families, restart before return | a dead sequence leaves nothing behind | in `Sequencer`, partly |
| Memory allocation manager (`reg/uvm_mem_mam.cpp`, `reg/uvm_mem_region.cpp`) | configuration, sorted regions, iterator | `reserve_region`, `request_region`, `release_region`, `reconfigure`, `for_each`, bursts | a partial overlap check that relies on the order, 64-bit wrap-around | regions disjoint and inside, bursts isolated | `MemMam`, `MemMamProofs` |
| Objections (`phasing/uvm_objection.cpp`) | counts per object, three lists of contexts, a pool, drain processes | `raise_objection`, `drop_objection`, `clear`, drains, `all_dropped` | raises that meet a drain at each of its stages, kills of the running process | counts balance, all_dropped of the root is true, drains end | `Objection`, `RootObjection`, with their proofs |
| Phases and domains (`phasing/uvm_phase.cpp`, `uvm_domain.cpp`) | graph of phases, states, hopper, jump flags | `m_run_phases`, `execute_phase`, `jump`, the ready-to-end loop | objections against jumps against siblings that raise again; predecessors that end in any order | one execution at a time, no end under an objection, every jump and every run completed | `Phase` |
| Phase implementations | none of their own | traversal of the components, spawn and kill of their processes | order of the builds, what a jump leaves alive | parents before children; no process outlives its phase | `Phase`, `Build` |
| Register lock and mirror (`reg/uvm_reg.cpp`, `reg/uvm_reg_field.cpp`) | `m_atomic`, `m_process`, mirrored and desired values, `m_written` | read, write, poke, peek, update, mirror, reset, predict, field accesses | 25 policies, accesses from both sides, nested locking, kills | the mirror is the design, the lock is free again, neighbours are kept | `RegField`, `Register` and their proofs |
| Register maps, blocks (`reg/uvm_reg_map.cpp`, `reg/uvm_reg_block.cpp`) | tables by address, cached addresses | `lock_model`, `set_offset` of registers and memories, lookups | shared addresses, moves in any order before and after the lock; the addresses of a submap are lost | every lookup in the top map right, callbacks of shared registers gone when they part | `RegMap`, with its proofs |
| Special registers, predictor | FIFO contents, pending operations | `write` of the predictor | prediction on the bus, before the access returns | as the mirror | the predictor in `Register` |
| Config DB and resource pool (`conf/`) | queues by name, precedence | `set`, `get`, overrides | order of calls against depth against phase | a setting from outside of the build wins, then the highest, and of these the last | `ConfigDb`, `Build` |
| Factory (`factory/uvm_default_factory.cpp`) | override lists, registered types | registration, overrides, `find_override_by_*`, creation | overrides before and after registration; chains and loops | what is made is what was promised, loops are reported | `Factory`, `Build` |
| Callbacks, events, reporting | queues; flag and waiters; actions and counts | iteration; trigger and reset; the catcher chain | changes during iteration; trigger and reset in one delta | | not modelled |
| Memories, virtual registers, register sequences | none or forwarded | accesses | sequential | | not modelled, but for a memory's place in `RegMap` |
| TLM ports, methodology components, policies, printers, HDL access, macros | little or none | forwarding, conversion, output | | | not modelled |

Interactions: a driver pulls items from a sequencer through a port; sequences
call the sequencer and sleep on its two events (`m_lock_arb_size_changed`,
`m_wait_for_item_sequence_ev`); a phase waits for the objection of its own
`phase_done`, whose drains run in background processes and end in callbacks of
components; killing a phase kills its processes and, through
`stop_sequences`, sequences; register accesses run as sequences on the bus
sequencer, are looked up in a map, and are predicted by the map or by a
predictor on the bus; the build phase traverses the components, whose builds
create others with the factory and configure them with the database; virtual
registers take regions from the memory allocation manager.

## Modules and the code

SystemC processes are cooperative, so in every module **an action is the code
one process runs between two waits**, with every call it makes. A wait on an
`sc_event` is a state of the process together with membership in a set of
waiters; `notify()` empties that set.

* **`Arbitration`** holds constants and pure operators. The queue is a set;
  its order (`push_back`, and `push_front` for a grab) is the order of `Pos`.
  `IsGrantSet` characterises the result of the one-pass loop of
  `grant_queued_locks`; `Wins` says which request `m_choose_next_request`
  returns for a value of `rand()`.
* **`ArbitrationRound`** is one arbitration from *any* queue and any legal set
  of holders: an exhaustive test of those operators.
* **`Sequencer`** EXTENDS `Arbitration`. Actions carry the names of the
  functions; functions with a wait are split at it (`wait_for_grant` and
  `m_wait_for_arbitration_completed`; `send_request`, `wait_for_item_done` and
  `ItemDoneWoken`; `get_next_item`, `m_select_sequence`,
  `m_wait_arb_not_equal` and `peek`; `try_next_item`, `TryChoose`, `TryPeek`;
  `item_done_rsp` and `PutReturns`). `remove_sequence_from_queues` and
  `m_kill_sequences` are parts of the actions that call them. The delta cycles
  that matter (`uvm_wait_for_nba_region`, the update of the TLM FIFO) are
  `NextDelta` and `UpdateFifo`. `Ops` chooses the optional calls a testbench
  makes.
* **`MemMam`**: `m_in_use` is the sequence the code keeps; a 64-bit sum is
  taken modulo `Wrap`. `MayBurst` and `Reached` are the check of the burst
  accesses and the locations they touch.
* **`Objection`**: a record `st` holds what `m_raise` and `m_drop` change while
  they call each other up the tree: `st.at` is the object the change has come to,
  `m_propagate` the call for this object, `Climbed` the calls up to the root, and
  `Propagated` adds the freeing of contexts on the way back. The three stages of a drain
  are `m_scheduled_list` (not spawned), `m_forked_list` (spawned, not started:
  `guards`), `m_forked_contexts` (`running` or in its callback). The static
  scheduled list belongs to the one objection that is modelled.
* **`RootObjection`** is the abstract specification: what somebody who waits
  at the root sees of an objection, one variable with four values and four
  actions. `Objection` implements it (`ImplementsRoot`, `INSTANCE
  RootObjection WITH root <- ...`, every step a step of it or a stutter);
  `Phase` relies on it (`UsesObjections`: what a phase assumes of its
  objection, and does to it, are steps of it). That is how the two are
  composed: the product of the two would be beyond TLC.
* **`Phase`**: `m_run_phases` takes phases from the hopper; a phase of
  functions is executed at once, any other by a process. Its code is cut at its
  waits into the values of `pc`: the predecessors, the synchronised phases,
  start, execution, the wait for the objections or a jump, end, cleanup, done,
  and the scheduling of successors, or the jump. The process forked for
  `m_wait_for_all_dropped` is `helper`; it polls the siblings one after the
  other and may be killed at each wait. The loops over nodes keep the set of
  nodes that are left (`todo`, `left`), visited in the order of their addresses
  (`Order`), as the maps of the code do.
  `get_predecessors_for_successors` keeps the code's search through terminal
  nodes, `clear_successors` the marking of what a jump passes over.
* **`RegField`** is the policy of a field: a value is a set of bits, so masks
  of any width are sets. `m_predict`, `PredictRead`, `set`, `m_update` and
  `value_adjust` are the code's, one line per group of policies;
  `BitAfterWrite`, `HwWrite`, `HwRead` are what hardware does with each bit,
  written from the policy table of the comment at `reg/uvm_reg_field.cpp:246`
  and not from the prediction: they are the reference definition.
* **`Register`** puts fields, the lock, a bus transfer that takes time and may
  fail, and the design side by side. An access is `Request` (lock, item sent),
  `BusWrite`, `BusRead` or `BusFail` (the transfer), `Finish` (prediction,
  unlock); backdoor accesses take no time. `auto_predict` decides whether the
  map predicts in `Finish` or a `uvm_reg_predictor` in the transfer. `suspect`
  remembers the fields of which the mirror cannot know: those the design
  changed by itself, those of failed transfers.
* **`RegMap`**: the tables of the top map, before and after `lock_model`.
  `EnterReg`, `RemoveReg`, `EnterMem`, `RemoveMem` are the loops of
  `m_init_address_map`, `m_set_reg_offset` and `m_set_mem_offset`.
  `get_physical_addresses` returns what the code's list holds: one address in the
  top map, none (`NULL`) in a map with a parent, where the code copies the shorter
  list back over the one it has made longer. So a register of the submap is never
  entered. The range of a memory of the submap is read from that empty list: the
  element at 0 is the one the code wrote past its end, the element before the
  start is whatever is in memory, a choice from `Garbage` (`RangeOf`). `Location`
  is where an element is on the bus, `LocationsOf` the right range.
* **`Factory`**, **`ConfigDb`**, **`Build`**: the override lists and the
  searches; the queue of a resource name and the precedences; and the build
  phase, in which a chain of components calls both. `Build` remembers the
  calls, and its properties compute from them alone what is promised.
* **`SequencerProofs`**, **`ArbitrationRoundProofs`**, **`MemMamProofs`**,
  **`RegisterProofs`** (with the fields), **`RegMapProofs`**, **`BuildProofs`**,
  **`PhaseProofs`** and **`ObjectionProofs`** hold theorems and proofs; the
  `MC...` modules give constants of the instances their values.

Definitions with a name like `Notified_None` are mutants: a plausible bug put
in the place of the definition they follow, each of which makes TLC refute a
property. They show that the properties depend on the code.

## Runs

| Run | Instance | What it shows |
|---|---|---|
| `arbitration` | every queue of 3 entries over 3 sequences (one a child, one of priority 0), 2 item priorities, 6 modes, every `rand()` in 0..8 | granting in one pass is complete; the weighted mode gives every request its share, minus the turn the first one with a priority loses; strict modes respect priority |
| `queues` | parent, child, stranger; locks, grabs, kills, stops; 2 requests, 3 starts | no lost wake-up of sequence or driver; requests of survivors are never dropped; lists hold nothing of the dead; `stop_sequences` leaves nothing running |
| `handshake` | two strangers, locks, grabs, `get_next_item` and `try_next_item`; with fairness | no lost `item_done`; `try_next_item` finds the item it arbitrated for; every request granted, every item done |
| `calls` | responses, kills, pipelined sequences, `lock_request`, changes of `is_relevant`, STRICT_RANDOM | lock holders are one family in order; a running sequence stays registered; no fatal report to a driver that pairs its calls |
| `regions` | 3 regions in spaces of 6 locations, 2 bytes each, 64 bits shrunk to `Wrap = 8` | disjoint, inside, bursts isolated |
| `objection` | a tree of depth three with two leaves that drain, counts up to 2, `clear` with at most one running drain, callbacks that raise again what was dropped | counts balance in every state; an object drains at most once and only when idle; contexts are never shared; `all_dropped` of the root is true; the whole implements `RootObjection` |
| `drains` | root and two leaves, with fairness | every drain reaches the root |
| `phases` | a domain of two phases in series beside a third that is synchronised with the second, between terminal nodes and two phases of functions; 2 raises, 1 jump of a phase or of the domain; with fairness | no phase is executed twice at a time; none ends under an objection of its own or of a sibling; no component process outlives its phase; objections are used as `RootObjection` allows; every run ends; every jump is carried out |
| `registers` | a field of each of 13 policies, which between them take every branch, beside an RW field, two processes, writes of 3 values, kills, failures, changes by the design, predictor or map | the mirror is the design; no access finds the lock taken; neighbours of a written field are kept; `mirror` with a check reports only changes |
| `regmap` | four registers (read-only, write-only, two for both) and two memories, one register and one memory of them in a submap; two offsets, two values of garbage; every order of placing, moving, unmapping and locking | lookups of registers of the top map by offset are right for reads and writes, and registers of the submap are not found at all; a register refuses an access exactly while it shares its address; every location of a memory is found, and one of the top map nowhere else |
| `build` | three components, three types with four pairs of overrides, a wildcard; three calls in any order | each component is of the promised type; each reads the setting that was made outside of the build, else in it highest in the hierarchy (`uvm_top` as high as the test), and of these the last |
| `reg_lock` (violation) | two processes that access one register at any time | a process that locked the register before enters again without locking: two accesses at once |

In the modules of the runs that do not list it, `TypeOK` states the types of the
variables; it holds in the instances above as well.

**Bounds.** `MaxRequests` and `MaxStarts` cap ids that otherwise only grow.
Three requests are the smallest number in which one is granted, one is queued
in front of and one behind a lock; three starts let a sequence be stopped,
started again and meet a survivor. Two sequences suffice for the races over one
FIFO place and one shared id, three (parent, child, stranger) for everything
`is_child` can tell apart. `Wrap = 8` with offsets and sizes up to the space
covers every order of three intervals, touching and nested ones included. For
objections, counts up to 2 are the least for which the difference between what
is dropped and what is raised again is not zero, and a depth of three has an
ancestor that is neither the source nor the root. `MaxDrained = 1` keeps the
run `objection` clear of the defect of `clear` described below. For phases, two
raises let a sibling raise again after it was passed over, and
`max_ready_to_end_iter = 2` instead of 20 lets its limit be reached; one jump
meets every state of every phase (27,753 states). For registers a field has one
bit, because no policy looks at two bits of a field (the proofs are for any
width), and two processes are all that a mutex and one owner can tell apart.
The two offsets of `regmap` let registers share an address and clash with
registers and with the memories of either map, and a memory move clear of where it
was; its garbage is below every address, or between the places of the memories, so
that the range of the submap's memory is the right one or reaches over what lies
before it, behind it, or both. Three calls of `build` are one override, one that it meets
and one registration between them; loops of two overrides are included.
Deadlock checking is off in all runs: the programs are finite by these bounds,
a driver without requests may wait for ever, and a test ends.

**Fairness.** `FairSpec` of `Sequencer`: SystemC runs every runnable process,
so the resumption of a woken sequence and the FIFO's update are weakly fair;
the driver's loop keeps asking for items and finishes them; a granted sequence
sends its item and a body ends. Nothing is assumed of kills, stops or of the
choice between requests: FIFO arbitration and finite bodies give
`EventuallyGranted`. `FairSpec` of `Objection` assumes only that *some* pending
step of the background process or of a drain happens; a drain time is finite.
`FairSpec` of `Phase`: every process that can go on does, and an objection that
was raised is dropped and drains in finite time, which is what
`DrainsReachTop` of `Objection` shows. Nothing is assumed of raises and jumps.

## Proofs

All theorems hold for every value of the constants, under the assumptions named
in the modules.

*Sequencer.* `TypeCorrect` (`TypeOK`) and `Inductive` (`IInv`), from which
`MutualExclusion` (`LockChain`), `GrantsAreNoticed` (`NoLostGrant`) and
`DriverIsWoken` (`DriverAwake`) follow. None of the three is inductive:

* mutual exclusion needs that stamps in `lock_list` never exceed the change
  counter (`SizeBounds`), so that a new lock is the youngest, and that ancestry
  is transitive and one lock blocks all but its family; the lemmas about
  `IsGrantSet` show that a chain of holders stays a chain after one pass;
* a granted sequence must have been notified at a counter that is not 0
  (`GrantNotified`), because the local copy the code compares with is 0 for
  ever; that needs fresh request ids (`IdBounds`);
* the driver sleeps on a counter value (`DriverHasSeen`), and every change of
  the lists changes the counter.

*Requests and the life cycle* (over the `IInv` above).
`RequestsStayMatched`: a process that waits for its grant is the only one its id
stands for, and its request is in the queue or granted. `LifeInv` adds to
`RequestNotLost` and `Registered` that every `start` gets a new id
(`IdsDistinct`) and that the sequences inside a `start` are lines of descent,
each waiting for the one it started (`LinesOfDescent`): a kill of one takes
those below it and no other. From it follow `RequestsAreKept`
(`RequestNotLost`), `RunningAreRegistered` (`Registered`) and, since only
`item_done(rsp)` puts NULL entries in the registry, `StopKillsEverySequence`
(`StopKillsAll`). Hypotheses: no sequence is started again before its first
`start` has returned ("overlap"), without which the code loses the registration;
and for `stop_sequences` no response to a sequence that is gone ("response"),
without which the loop over the registry ends early. Both are departures listed
below. `DeadHoldNothing` (`NoDeadHolder`) needs neither: its invariant
`HoldersAlive` says that every owner of a request or lock is inside its `start`
and was not stopped.

*Handshake.* `HandshakeInv`: one item is under way at a time
(`OneItem`). At most one sequence has its grant and has not sent its item, the
FIFO is empty until it has, and the driver has asked for that item and for no
other. `NoFatalReport` (`NeverFatal`) needs that `stop_sequences` is not called,
which empties the FIFO under the driver. `ItemDoneIsNoticed`
(`ItemDoneNotLost`) adds that a sequence in `finish_item` has its item in the
FIFO or has been told (`DoneInv`), which pipelined sequences break: another one
changes the shared id before the first has looked. `TryNextItemSucceeds`
(`TryFindsItem`) needs that what was selected is not killed, and sends at once,
before the driver looks (`TryInv`).

*Arbitration round.* `OneWalkGrantsAll` (`GrantingIsComplete`): holders, and who
is granted a lock on the walk, are one chain of descendants; who is passed over
is held back by the holders of that moment, and there are only more of them at
the end. `StrictModesAreStrict` (`StrictPriority`) for every value of `rand()`.
`SharesAreByWeight` (`WeightedShare`): the sum over the requests before one, which
`m_choose_next_request` adds up, and that sum with its own priority bound the numbers
it wins on (`Shares`). The sum is a fold; `SumsExist` solves its recursion over the
parts of a finite set, and `SumRemove` (any element may be left out first) and
`SumMore` follow by `SetInduction`, an induction over sets stated for a set of sets.

*Memory allocation manager.* `MamInv`: `m_in_use` is sorted by decreasing
address *with gaps that exclude overlap*, its regions are in the managed space
and well formed. That is what makes the partial check of `reserve_region`
sufficient. It yields `Disjoint` (`RegionsDisjoint`), `WithinSpace`
(`InManagedSpace`) and `BurstIsolation` (`BurstsIsolated`). Hypothesis:
`NoWrap`, that no requested region reaches beyond the last 64-bit offset;
without it the code itself lets a region wrap around.

*Fields.* `PredictsWrites` and `PredictsReads`: for all 25 policies and a field
of any width, what `m_predict` and `do_predict` leave in the mirror is what the
hardware of the policy table leaves in the field. The proof goes bit by bit
(`BitsOfWrite`), one case per group of policies.

*Registers.* `TypesCorrect` (`TypeOK`), `LockIsFree` (`NeverBlocked`),
`MirrorIsRight` (`MirrorIsDut`) and `NeighboursAreKept` (`NeighboursKept`), for
any processes, fields, widths and policies. The mirror alone is not inductive:
between a transfer and the prediction of the map it is late. The invariant
`IInv` says what it is late by (`MirrorLate`: the prediction still to be made
gives what the design holds now), which needs that no second access is under
way (`OneAtATime`), which in turn needs that the lock is free when nobody is in
the register and that a process in it is at a stage (`Staged`). Of write-once
fields the prediction depends on `m_written`: they are suspect where model and
design disagree about it. `NeighboursKept` needs in addition that a write of one
field still holds, when it is transferred, what the mirror holds of the others
(`Adjusted`). The assumption on backdoor reads (`BackdoorAssumption`) leaves out
the policies for which the code predicts the value from before the read.

`ChecksAreTrue` (`ChecksAreRight`) adds `Remembered`: a mirror that is made
alone expects, until its transfer, what the model holds.

*Register maps.* `MapInv`: from `lock_model` on the tables agree with the offsets
(`Right`), or a clash was reported, and the cached address of every mapped
register, which is where `set_offset` removes it, is its address (`Cached`).
None of what a lookup promises is inductive without the rest: a register that
moves away is told from its partner by what is at the address (`Entry`), and
its callbacks go only if they were there exactly when the address was shared.
`EnterRegRight`, `RemoveRegRight`, `EnterMemRight` and `RemoveMemRight` say it of
one register or memory; `InitMapRight` follows `m_init_address_map` along its
list (`Walk` solves the recursion, `Along` replaces the induction, which rests on
the least number of a set) for the elements placed so far (`Part`). It yields
`TypesOfMap` (`TypeOK`), `MemoriesAreFound` (`MemoriesFound`), `LookupIsRight`
(`LookupRight`) and `CallbacksRight` (`RefusedWhenShared`) for any registers,
memories, policies, addresses and garbage. Memories of the submap may have a range
that is too large, but whatever overlaps a range of the top map was warned of
(`MemsRight`), which is why nothing else is found with a memory of the top map.
`LookupIsRight` and `CallbacksRight` have the hypothesis `OneWriter`: one register
of the top map at most can only be written. Two of them, one after the other
beside a read-only register, are entered without a warning and the first is lost
(`MCRegMap_third.cfg`, a departure listed below).

*Build.* `PoolIsHistory` (`PoolInv`): the queue of a name holds the settings of
all calls, the last one first, each with its precedence. `HighestIsRead`
(`ReadsTheHighest`) follows: the search takes the first of the highest
precedence, so the last call among equals, for any hierarchy and calls;
a setting of `uvm_top` has the precedence of one of the test.
`FactoryIsHistory` is the same for the factory: `History` says that
its queues hold what the calls promise of each type, and every call keeps it. In the
queue of a type - waiting for its name, or its own once it is registered - the first
override for a path is that of the first call for it (`QueueRight`). Each type has one
entry in the list of type overrides, that of the last call that was to replace or else
of the first (`ListRight`). `TypesAreAsPromised` (`MadeAsPromised`) takes the search
from there: the override it takes is the next step of the walk of the promises
(`TakesPromised`), the recursion has one solution (`SearchIs`), and the search is
followed along the walk (`Reached`) to its end or until it takes an override whose
original it has met. A walk of `2 * Cardinality(Types) + 2` steps that does not end goes
round its loop once more than it needs to, so `LoopIsFound` needs one override with a
proxy on the loop only. Hypothesis `NoLateLoop`: the names of types that are not
registered at every start make no loop of their own, without which none may have a
proxy and the code searches for ever (below). In the code "registration occurs via
static initialization" (`factory/uvm_default_factory.cpp:193`), so types that are late
are the exception. `TypesAreKept` is `TypeOK` of `Build`.

*Phases.* `PhaseTypes` (`TypeOK`) and `ObjectionsUsed` (`UsesObjections`: every
step of a phase is one of `RootObjection` or a stutter) hold in any graph and
whoever jumps. `OneProcess` (`OneExecution`), `ComponentsLive`
(`AliveExecutes`) and `PhasesEndQuiet` (`EndsQuiet`) have the hypothesis `Calm`:
nothing jumps, or no phase has two successors. It cannot be dropped: in a graph
with a fork, a jump from one branch to a phase before the fork runs the other
branch a second time beside its first process (the departure listed below), and
TLC refutes `OneExecution` there. With
forks and no jump a phase waits to be executed in one place, in the hopper or at
the head of what one process schedules (`DueOnce`, `HeadsOnce`), and nobody
schedules what has begun (`Underway`); on a line there is one token
(`OneToken`), which a jump moves. `Attended` says of a phase that has
component processes which process is there to kill them.
`EndsQuiet` needs that the process which polls the siblings has seen each of
those it passed begin (`Watching`): a sibling that has not begun is what the code
does not wait for.

*Objections.* Everything the run `objection` checks, for any tree, any number of
drain processes and any counts. An action of the model is a whole climb to the
root, so the proof has two levels. One call of `m_propagate` (`ClimbTrace` makes
the climb a sequence of them) preserves `Good`: contexts are in one place
(`Apart`), those of the pool and no others are cleared (`Clean`), an object drains
with one context and only while its total is zero (`Idle`), and a waiting process
drains the object it is the process of (`Driven`). `Sound` adds that the spawned
processes are lined up with `m_forked_list` (`Guarded`), which is what the code
relies on when a process takes the first context of the list, whatever it was
spawned for. From it follow `DrainsIdle` (`DrainsAreIdle`), `ContextsApart`
(`ContextsInOnePlace`), `NoContextIsCleared`, and the refinement
`RootIsImplemented` (`ImplementsRoot`): on a climb the root moves at most once,
and each action is a step of `RootObjection` or a stutter. Hypothesis: no process
calls between the spawning of a drain and its start (`"window" \notin Ops`),
without which the code itself uses a cleared context (below).

`CountsBalance` (`Conservation`) and `AllDroppedHolds` (`AllDroppedIsTrue`) need in
addition what is under way: `Balanced` is `Conservation` with the change `n` added
where it has come to and without the contexts that were passed on already, and each
call keeps it (`BalanceMoves` when the change goes on to the parent,
`BalanceCovers` when a drain is caught or begins). `Even` adds that every drained
count is positive, so that a total of zero at a root that does not drain is zero
everywhere (`QuietBelow`), and that nothing is left when the root was told or
`clear` was called. Sums over the children are folds: `SetInduction` and
`SumsExist` solve the recursion of a fold over the subsets of a finite set, and
`SumStep`, `SumChange` and `SumNat` are all that the rest uses. Hypothesis
`Conserves`: callbacks of `all_dropped` raise what was dropped and no other number,
and `clear` meets one drain at most. Without the first a count falls below zero
(`MCObjection_reraise.cfg`), without the second a drain survives `clear`
(`MCObjection_clear.cfg`): both are departures listed below. `NothingHalts` and
`ClearedRests` state, under it, the two properties these configurations refute.

*Only model-checked.* The instance of `phases` itself, a fork in which a jump
forward is made, where `Calm` does not hold and the targets are chosen so that
the three properties do; and liveness (`EventuallyGranted`, `EventuallyDone`,
`AllDone`, `JumpsHappen`, `DrainsReachTop`), as liveness under fairness and
ENABLED are beyond the prover. So are the library's induction theorems: where a
proof needs induction over data it takes a least counterexample (`LeastOf`).

## The finding with a run

`reg_lock`: `m_atomic_check_lock(true)` returns without locking to the process
that locked last (`reg/uvm_reg.cpp:2386`), and nothing clears `m_process`:
`m_process_valid`, which unlocking resets, is assigned anew before it is read.
So that process skips the lock in all its later accesses, until another process
has locked. The shortest trace: p1 pokes; p1 writes, and enters unlocked; p2
writes, finds `m_atomic` free, and both are in the register. Line 662 calls the
mutex "the semaphore that prevents concurrent access".

## Other departures of the code from its comments

Each was met while modelling; the model follows the code, and the run's bounds
or a named option leave the case out of the properties it would break. Some can
be replayed with configurations that are not runs of the project: the property
in them is violated.

* Sequencer
  * A sequence stopped between its grant and `send_request` leaves the driver
    in `peek` for ever (`seq/uvm_sequencer.h:304`; comment
    `uvm_sequencer_base.cpp:480`). `MCSequencer_stop_driver.cfg`.
  * `wait_for_item_done` sets the shared `m_wait_for_item_sequence_id` to -1,
    so a sequence notified earlier in the same delta does not recognise its own
    item (`uvm_sequencer_base.cpp:342`; comment 325).
    `MCSequencer_item_done.cfg`.
  * `unlock` and `ungrab` remove one entry of `lock_list` (1274; comment 455).
    A lock is granted before requests that arrived earlier (824; comment 423).
    When requests are queued and none is relevant the program exits (1117).
  * Starting a sequence again before its first `start` has returned loses its
    registration (`uvm_sequence_base.cpp:196`; excluded by leaving "overlap"
    out of `Ops`).
  * After `stop_sequences`, a driver that calls `item_done` gets a fatal report
    (`uvm_sequencer.h:200`); an item put in the same delta stays in the FIFO
    (422; comment 418); a NULL entry of the registry ends the loop of
    `stop_sequences` early (`uvm_sequencer_base.cpp:1153`; comment 477).
  * The RANDOM mode never picks the first request when there are several (44;
    550); a sum of priorities of 0 is an internal error (1001, 1012).
* Memory allocation manager
  * `reserve_region` accepts a region that wraps around
    (`reg/uvm_mem_mam.cpp:185`); `request_region` never randomizes its policy
    (293; comment 248); a stale handle releases the region that new put at the
    same address (316); `for_each` skips a region when one is released during
    the iteration (389; comment 376). Single accesses accept the offset just
    past a region (`uvm_mem_region.cpp:173`), and the sum checked for bursts
    wraps (279).
* Objections
  * `clear` erases from `m_forked_contexts` while its index grows, so the
    second of two running drains goes on (`phasing/uvm_objection.cpp:134`;
    comment 133). `MCObjection_clear.cfg`.
  * A raise from the object's own all_dropped callback kills the process it
    runs in, before the difference reaches the ancestors (665; comment 280).
    `MCObjection_reraise.cfg`.
  * A raise between the spawning and the start of a drain: the drain reads a
    context that was cleared (1053; comment 1055), `MCObjection_window.cfg`, or
    even takes that of another object (1045, 1059).
* Phases
  * A phase of functions waits neither for its predecessors (`if (proc)`,
    `phasing/uvm_phase.cpp:1047`) nor for the phases it is synchronised with.
  * The wait for all_dropped is decided by the total of the root, which is 0
    while the root drains (1451): a phase may end before its drain has. After
    20 rounds of `ready_to_end` a phase ends whatever is objected (1489).
  * `uvm_domain::jump` loops over the active phases and indexes all of them
    (`uvm_domain.cpp:206`; comment 189). `MCPhase_domain.cfg`.
  * `add` with both a predecessor and a successor erases from the wrong map of
    the successor (505-512), and takes the "with" branch when given itself;
    the graph of the model is a constant. A jump from a phase that is beside
    another one executes the other again, running or not; a jump back from the
    last phase, when the phases beside it are over, may wait for ever: the
    targets of the run are those that cannot. `wait_for_state` combines states
    with a bitwise and. The time-out is fatal and ends the program.
* Registers
  * `m_atomic` is a mutex of the operating system, and the processes are
    coroutines of one thread: who finds it locked stops the whole simulation
    (`base/uvm_mutex.cpp:37`). With accesses at any time this happens; with one
    access at a time it does not (`NeverBlocked`).
  * `mirror` with a register in no map (`reg/uvm_reg.cpp:1080`), a backdoor
    write that fails (2637) and a field write refused by `m_check_access`
    (`uvm_reg_field.cpp:1506`) return with the lock held; `update` of a register
    that needs none returns unlocked. `reset` frees the lock, but neither
    `m_is_busy` nor `m_is_locked_by_field`.
  * `m_update` ends with an unconditional default (1418), so it writes the
    desired value for every policy; after `set`, `update` does not do what a
    write would (comment 497-506), for example for W1C: `SetReplacesWrite`
    states it and is violated under `MCRegister.cfg`.
  * `value_adjust` or's the mirror for every policy (1556), where a comment
    says "Use all 0's": a write of a field disturbs W1C, W1T and W1CRS
    neighbours (`Disturbed`).
  * `do_check` compares a prefix of one letter with "WO", so write-only fields
    are checked. A check on read compares with the desired value. A backdoor
    read predicts the value from before its effect. A poke counts as a write of
    a write-once field. A failed access is predicted (`suspect`).
  * `(1 << m_size) - 1` is computed in an `int` (1346): undefined for fields of
    31 bits and more. The widths of the model are below.
* Register maps
  * `get_physical_addresses` loops on `local_addr.size()` alone
    (`uvm_reg_map.cpp:850`): it never ends for a register wider than the bus;
    the registers of the model are as wide as the bus.
  * In a map with a parent `get_physical_addresses` makes its list longer, copies
    the list as it was over it, and writes past the end (925-930): it returns an
    empty list, and not the "external addresses" of the comment at 794-800.
    A register of a submap is never entered, so that `get_reg_by_offset` does not
    find it (`SubmapFound`, `MCRegMap_submap.cfg`), its clashes are not seen, it
    gets no callback, and an access of it makes no bus transfer. Of a memory of a
    submap `m_init_address_map` and `m_set_mem_offset` read the empty list
    (2176-2186, 1801-1810): element 0, which the code wrote there, and the element
    before the start, which may make the range too large.
  * A third write-only register at an address replaces the first without a
    warning. `MCRegMap_third.cfg`. `m_set_reg_offset` erases the entry of
    another register after a clash that was warned of; `Reliable` leaves out
    what follows a warning.
  * `m_set_mem_offset` erases in the loop that iterates (1780), and computes
    the stride from one address twice, so it becomes 0 (1809; comment 1808).
    `MCRegMap_stride.cfg`. Two overlapping memories of one submap are not
    warned of. The stride of a memory of one location is a division by zero.
* Factory and configuration database
  * `set_type_override_by_type` tests the original twice
    (`factory/uvm_default_factory.cpp:255`), so an override type is not
    registered with it. A wildcard set before a type is registered applies by
    name and not by type, and behind overrides that wait for the name
    (comment 423-425): `Early` leaves it out of `MadeAsPromised`.
  * The search reports a loop (887) when it meets the original of an override
    it took, which it knows by its proxy (885). An override set by name before
    its original was registered has none, and keeps none when it is replaced
    (380). Five calls make a loop of only those - A to C; register A; B to A;
    register B; A to B, to replace the first - and a request for A then
    recurses without end; the model cuts the search off. `MCBuild_loop.cfg`.
  * The comment at `base/uvm_component.cpp:313` gives `uvm_top` the depth 0;
    `get_depth` (320-328) counts the dots in its name and adds 1, and the root is
    named "uvm_top" (`base/uvm_root.cpp:424`): its depth is 1, that of the test. A
    setting of `uvm_top` made in the build phase loses to a later one of the test,
    and to any made outside of the build phase.
  * `uvm_config_db::set` stores a copy of the empty map (`conf/uvm_config_db.h`,
    256-260), so that each set makes a new resource. `wait_modified` is woken
    where the names do *not* match (293). `get_by_type` returns the first
    resource, not the highest. Not modelled.
* Not modelled, met while reading: `uvm_event::wait_trigger` sets the value of
  the event and nothing resets it; a reset wakes who waits for the event to be
  on. `uvm_callbacks::do_delete` without a queue of the object dereferences
  NULL, and removes the first of two equal callbacks only.

## Abstractions and what is not modelled

Reports other than those that end the simulation, names, traces, item contents
and response buffers are left out.

* `Sequencer`: `get()` and `peek()` of a driver, `execute_item`,
  `start_phase_sequence`, the query functions, the last request and response
  buffers, the response queue of a sequence and its child array.
* `Objection`: `wait_for` and its events, `m_hier_mode` (always true),
  `m_scheduled_contexts` (never read), sequences as objects, several objections
  that share the static list. A drop of more than was raised is an error of the
  testbench and not taken.
* `MemMam`: the accesses themselves.
* `Phase`: the construction of the graph, `sync` and `unsync` during the run,
  the time-out, the callbacks of the components.
* `Register`: user policies, callbacks, coverage, user frontdoors; an access is
  one transfer. `RegMap`: registers of several addresses, more than two maps,
  offsets set outside of a map.
* `Build`: a chain of components, one field of the database, plain names.

Not modelled at all: memories and virtual registers (they forward accesses and
keep no state of their own between them), callbacks, events and reporting (state
that only user code reads; their defects are in the list above), ports,
methodology components, packers, comparers, recorders, printers, register
sequences, HDL access and macros (forwarding, conversion, output). The largest
files of the library are to a great part of that kind: searches by name,
printing, checks of arguments.
