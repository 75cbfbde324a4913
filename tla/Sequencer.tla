----------------------------- MODULE Sequencer -----------------------------
(***************************************************************************)
(* uvm_sequencer: sequences request the sequencer, lock it, send items and *)
(* wait for the driver; the driver arbitrates inside get_next_item and     *)
(* try_next_item, takes the item and reports item_done; a test kills or    *)
(* stops sequences at any moment.                                          *)
(*                                                                         *)
(* SystemC processes are cooperative: an action is the code one process    *)
(* runs between two waits.  An sc_event is the set of the processes that   *)
(* wait on it; notify() empties the set, and a process that is in its wait *)
(* state but no longer in the set is runnable.  Which runnable process is  *)
(* next is not specified by SystemC, and open here.                        *)
(***************************************************************************)
EXTENDS Arbitration, Sequences

CONSTANTS Driver,      \* the driver's process
          Ops,         \* the optional calls the testbench makes
          m_arbitration, \* the arbitration mode, set_arbitration()
          FifoDepth,   \* UVM_MAX_SEQS, the depth of m_req_fifo
          MaxRequests, \* bound: request_ids handed out in a behaviour
          MaxStarts    \* bound: calls of start() in a behaviour

AllOps == {"lock", "grab", "lock_request", "try", "delay", "response",
           "pipelined", "kill", "stop", "overlap", "relevance"}

ASSUME DriverAssumption == Driver \notin Seqs
ASSUME OpsAssumption == Ops \subseteq AllOps
ASSUME ModeAssumption == m_arbitration \in Modes
ASSUME BoundAssumption == /\ FifoDepth \in Nat \ {0}
                          /\ MaxRequests \in Nat
                          /\ MaxStarts \in Nat

VARIABLES
  arb_sequence_q,   \* queued requests, ordered by Pos
  lock_list,        \* granted locks, ordered by stamp
  arb_completed,    \* request_ids granted and not yet consumed
  m_lock_arb_size,  \* number of changes to the lists, minus one
  m_arb_size,       \* m_lock_arb_size when the driver went to sleep
  g_request_id, g_sequence_id,  \* the next ids
  reg_sequences,    \* id -> sequence, or NULL
  m_sqr_seq_ids,    \* the id each sequence holds on this sequencer, or -1
  m_wait_for_item_sequence_id,  \* the sequence of the last item done
  m_req_fifo,       \* items on their way to the driver
  sequence_item_requested, get_next_item_called,
  m_wait_for_grant_semaphore,
  relevant,         \* the sequences whose is_relevant() returns true
  pc,               \* where each sequence is
  request_id,       \* the request each sequence waits for
  exiting,          \* start() calls whose join is over and that have not resumed
  driver,           \* where the driver is
  arbWaiters,       \* the processes waiting on m_lock_arb_size_changed
  itemWaiters,      \* the sequences waiting on m_wait_for_item_sequence_ev
  halted            \* the report that ended the simulation, or "no"

queueVars == <<arb_sequence_q, lock_list, m_lock_arb_size>>
regVars == <<reg_sequences, m_sqr_seq_ids, g_sequence_id>>
itemVars == <<m_wait_for_item_sequence_id, m_req_fifo, itemWaiters>>
flagVars == <<sequence_item_requested, get_next_item_called>>
seqVars == <<m_wait_for_grant_semaphore, relevant, pc, request_id, exiting>>

vars == <<queueVars, arb_completed, m_arb_size, g_request_id, regVars, itemVars,
          flagVars, seqVars, driver, arbWaiters, halted>>

Ids == Nat \cup {-1}
Items == [sequence : Seqs, sequence_id : Ids, visible : BOOLEAN]
Stopped == {"created", "stopped", "finished"}
Running == {"body", "waitLock", "waitGrant", "granted", "waitItem", "waitAny", "join"}

QueueTypes ==
  /\ arb_sequence_q \subseteq Request /\ IsFiniteSet(arb_sequence_q)
  /\ lock_list \subseteq [sequence : Seqs, stamp : Nat] /\ IsFiniteSet(lock_list)
  /\ arb_completed \subseteq Nat
  /\ m_lock_arb_size \in Nat \cup {-1} /\ m_arb_size \in Nat \cup {-1}
  /\ g_request_id \in Nat
  /\ arbWaiters \subseteq Seqs \cup {Driver}

RegistryTypes ==
  /\ g_sequence_id \in Nat \ {0}
  /\ m_sqr_seq_ids \in [Seqs -> Ids]
  /\ reg_sequences \in [DOMAIN reg_sequences -> Seqs \cup {NULL}]
  /\ DOMAIN reg_sequences \subseteq Ids

ItemTypes ==
  /\ m_wait_for_item_sequence_id \in Ids
  /\ m_req_fifo \in Seq(Items)
  /\ itemWaiters \subseteq Seqs
  /\ sequence_item_requested \in BOOLEAN /\ get_next_item_called \in BOOLEAN

ProcessTypes ==
  /\ m_wait_for_grant_semaphore \in [Seqs -> Nat]
  /\ relevant \subseteq Seqs
  /\ pc \in [Seqs -> Stopped \cup Running]
  /\ request_id \in [Seqs -> Nat]
  /\ exiting \in [Seqs -> Nat]
  /\ driver \in {"idle", "select", "arbWait", "peek", "busy", "respond",
                 "tryChoose", "tryPeek"}
  /\ halted \in {"no", "fatal", "exit"}

TypeOK == QueueTypes /\ RegistryTypes /\ ItemTypes /\ ProcessTypes

Init ==
  /\ arb_sequence_q = {} /\ lock_list = {} /\ arb_completed = {}
  /\ m_lock_arb_size = -1 /\ m_arb_size = -1
  /\ g_request_id = 0 /\ g_sequence_id = 1
  /\ reg_sequences = [i \in {} |-> NULL]
  /\ m_sqr_seq_ids = [s \in Seqs |-> -1]
  /\ m_wait_for_item_sequence_id = -1
  /\ m_req_fifo = <<>>
  /\ sequence_item_requested = FALSE /\ get_next_item_called = FALSE
  /\ m_wait_for_grant_semaphore = [s \in Seqs |-> 0]
  /\ relevant = Seqs
  /\ pc = [s \in Seqs |-> "created"]
  /\ request_id = [s \in Seqs |-> 0]
  /\ exiting = [s \in Seqs |-> 0]
  /\ driver = "idle"
  /\ arbWaiters = {} /\ itemWaiters = {}
  /\ halted = "no"
-----------------------------------------------------------------------------
(* Helpers shared by the actions *)

\* m_update_lists() called k times by the code of one action.
m_update_lists(k) == m_lock_arb_size' = m_lock_arb_size + k

\* Mutants of Notified: only the driver, or nobody, wakes up.
Notified_Driver(k) == IF k > 0 THEN arbWaiters \ {Driver} ELSE arbWaiters
Notified_None(k) == arbWaiters

Notified(k) == IF k > 0 THEN {} ELSE arbWaiters

request_ids(G) == {r.request_id : r \in G}

\* Mutant of GrantedLocks: the change is counted after it is noted.
GrantedLocks_Before(G, k) ==
  {[sequence |-> r.sequence,
    stamp |-> m_lock_arb_size + k + Cardinality(Before(r, G))] : r \in G}

\* The entries grant_queued_locks appends to lock_list when it grants G after
\* k other changes to the lists.
GrantedLocks(G, k) ==
  {[sequence |-> r.sequence,
    stamp |-> m_lock_arb_size + k + Cardinality(UpTo(r, G))] : r \in G}

\* grant_queued_locks called last, with the queue unchanged before it.
grant_queued_locks ==
  \E G \in SUBSET arb_sequence_q :
    /\ IsGrantSet(G, arb_sequence_q, Owners(lock_list))
    /\ arb_sequence_q' = arb_sequence_q \ G
    /\ lock_list' = lock_list \cup GrantedLocks(G, 0)
    /\ arb_completed' = arb_completed \cup request_ids(G)
    /\ m_update_lists(Cardinality(G))
    /\ arbWaiters' = Notified(Cardinality(G))

\* remove_sequence_from_queues for each sequence of S, whose running members
\* in K die with it: their processes leave the events they wait on.
remove_sequence_from_queues(S, K) ==
  LET family   == UNION {Family(s) : s \in S}
      requests == {r \in arb_sequence_q : r.sequence \in family}
      locks    == {l \in lock_list : l.sequence \in family}
      changes  == Cardinality(requests) + Cardinality(locks)
      ids      == {m_sqr_seq_ids[s] : s \in S \cup K}
  IN  /\ arb_sequence_q' = arb_sequence_q \ requests
      /\ lock_list' = lock_list \ locks
      /\ m_update_lists(changes)
      /\ arbWaiters' = Notified(changes) \ K
      /\ reg_sequences' = [i \in DOMAIN reg_sequences \ ids |-> reg_sequences[i]]

\* Every process made runnable in this evaluation phase has run to a wait. A
\* granted sequence sends its item at once unless the testbench delays it.
EvaluationOver ==
  /\ \A s \in Seqs : /\ pc[s] \in {"waitLock", "waitGrant"} => s \in arbWaiters
                     /\ pc[s] \in {"waitItem", "waitAny"} => s \in itemWaiters
                     /\ pc[s] = "granted" => "delay" \in Ops

\* Mutant of NextDelta: the caller does not wait for the other processes.
NextDelta_Early == TRUE

\* wait(SC_ZERO_TIME) returns: the next delta cycle has begun.
NextDelta ==
  /\ EvaluationOver
  /\ \A i \in DOMAIN m_req_fifo : m_req_fifo[i].visible

HasItem == m_req_fifo # <<>> /\ Head(m_req_fifo).visible

-----------------------------------------------------------------------------
(* A sequence: start, requests, locks, items, end *)

\* uvm_sequence_base::start up to the fork; a child's parent waits in the join.
Start(s) ==
  /\ pc[s] \in Stopped
  /\ "overlap" \in Ops \/ exiting[s] = 0
  /\ Parent[s] # NULL => pc[Parent[s]] = "body"
  /\ g_sequence_id <= MaxStarts
  /\ m_sqr_seq_ids' = [m_sqr_seq_ids EXCEPT ![s] = g_sequence_id]
  /\ reg_sequences' = [i \in DOMAIN reg_sequences \cup {g_sequence_id} |->
                         IF i = g_sequence_id THEN s ELSE reg_sequences[i]]
  /\ g_sequence_id' = g_sequence_id + 1
  /\ pc' = [t \in Seqs |-> CASE t = s         -> "body"
                            [] t = Parent[s] -> "join"
                            [] OTHER         -> pc[t]]
  /\ UNCHANGED <<queueVars, arb_completed, m_arb_size, g_request_id, itemVars,
                 flagVars, m_wait_for_grant_semaphore, relevant, request_id,
                 exiting, driver, arbWaiters, halted>>

\* The sequence's own code changes what its is_relevant() returns.
SetRelevant(s) ==
  /\ "relevance" \in Ops /\ pc[s] \in Running
  /\ relevant' = IF s \in relevant THEN relevant \ {s} ELSE relevant \cup {s}
  /\ UNCHANGED <<queueVars, arb_completed, m_arb_size, g_request_id, regVars,
                 itemVars, flagVars, m_wait_for_grant_semaphore, pc, request_id,
                 exiting, driver, arbWaiters, halted>>

\* start_item: a request and, with lock_request, a lock in front of it.
wait_for_grant(s, lock_request) ==
  LET n    == IF lock_request THEN 1 ELSE 0
      lock == [request |-> "LOCK", sequence |-> s, item_priority |-> m_priority[s],
               request_id |-> g_request_id, front |-> FALSE]
      req  == [request |-> "REQ", sequence |-> s, item_priority |-> m_priority[s],
               request_id |-> g_request_id + n, front |-> FALSE]
  IN
  /\ pc[s] = "body"
  /\ g_request_id + n < MaxRequests
  /\ arb_sequence_q' = arb_sequence_q \cup {req} \cup IF lock_request THEN {lock} ELSE {}
  /\ g_request_id' = g_request_id + n + 1
  /\ m_update_lists(1)
  /\ pc' = [pc EXCEPT ![s] = "waitGrant"]
  /\ request_id' = [request_id EXCEPT ![s] = g_request_id + n]
  /\ arbWaiters' = {s}
  /\ UNCHANGED <<lock_list, arb_completed, m_arb_size, regVars, itemVars, flagVars,
                 m_wait_for_grant_semaphore, relevant, exiting, driver, halted>>

\* lock() puts its request at the back, grab() at the front; both then grant
\* what can be granted and look for their own request among the granted ones.
m_lock_req(s, front) ==
  LET new == [request |-> "LOCK", sequence |-> s, item_priority |-> 0,
              request_id |-> g_request_id, front |-> front]
      Q   == arb_sequence_q \cup {new}
      n   == IF front THEN 1 ELSE 0
  IN
  /\ pc[s] = "body"
  /\ g_request_id < MaxRequests
  /\ g_request_id' = g_request_id + 1
  /\ request_id' = [request_id EXCEPT ![s] = g_request_id]
  /\ \E G \in SUBSET Q :
       /\ IsGrantSet(G, Q, Owners(lock_list))
       /\ arb_sequence_q' = Q \ G
       /\ lock_list' = lock_list \cup GrantedLocks(G, n)
       /\ m_update_lists(n + Cardinality(G))
       /\ \/ /\ new \in G
             /\ arb_completed' = arb_completed \cup (request_ids(G) \ {g_request_id})
             /\ arbWaiters' = Notified(n + Cardinality(G))
             /\ pc' = pc
          \/ /\ new \notin G
             /\ arb_completed' = arb_completed \cup request_ids(G)
             /\ arbWaiters' = Notified(n + Cardinality(G)) \cup {s}
             /\ pc' = [pc EXCEPT ![s] = "waitLock"]
  /\ UNCHANGED <<m_arb_size, regVars, itemVars, flagVars,
                 m_wait_for_grant_semaphore, relevant, exiting, driver, halted>>

Lock(s) == "lock" \in Ops /\ m_lock_req(s, FALSE)

Grab(s) == "grab" \in Ops /\ m_lock_req(s, TRUE)

\* The first lock_list entry of s is removed; without one it only warns.
m_unlock_req(s) ==
  /\ pc[s] = "body"
  /\ \E l \in lock_list :
       /\ l.sequence = s
       /\ \A x \in lock_list : x.sequence = s => l.stamp <= x.stamp
       /\ lock_list' = lock_list \ {l}
  /\ m_update_lists(1)
  /\ arbWaiters' = {}
  /\ UNCHANGED <<arb_sequence_q, arb_completed, m_arb_size, g_request_id, regVars,
                 itemVars, flagVars, seqVars, driver, halted>>

(***************************************************************************)
(* m_wait_for_arbitration_completed after m_lock_arb_size_changed.  The    *)
(* local lock_arb_size is 0 and never refreshed while the process waits,   *)
(* so a wake-up that finds m_lock_arb_size = 0 is ignored.                 *)
(***************************************************************************)
ArbitrationCompleted(s) == m_lock_arb_size # 0 /\ request_id[s] \in arb_completed

m_wait_for_arbitration_completed(s) ==
  /\ pc[s] \in {"waitLock", "waitGrant"} /\ s \notin arbWaiters
  /\ \/ /\ ~ArbitrationCompleted(s)
        /\ arbWaiters' = arbWaiters \cup {s}
        /\ UNCHANGED <<arb_completed, pc, m_wait_for_grant_semaphore>>
     \/ /\ ArbitrationCompleted(s)
        /\ arb_completed' = arb_completed \ {request_id[s]}
        /\ \/ /\ pc[s] = "waitLock"
              /\ pc' = [pc EXCEPT ![s] = "body"]
              /\ UNCHANGED m_wait_for_grant_semaphore
           \/ /\ pc[s] = "waitGrant"
              /\ pc' = [pc EXCEPT ![s] = "granted"]
              /\ m_wait_for_grant_semaphore' =
                   [m_wait_for_grant_semaphore EXCEPT ![s] = @ + 1]
        /\ UNCHANGED arbWaiters
  /\ UNCHANGED <<queueVars, m_arb_size, g_request_id, regVars, itemVars, flagVars,
                 relevant, request_id, exiting, driver, halted>>

\* finish_item: send_request, then wait_for_item_done; a pipelined sequence
\* goes on without waiting.
send_request(s, wait) ==
  LET illegal == m_wait_for_grant_semaphore[s] < 1 \/ Len(m_req_fifo) >= FifoDepth
      item == [sequence |-> s, sequence_id |-> m_sqr_seq_ids[s], visible |-> FALSE]
  IN
  /\ pc[s] = "granted"
  /\ m_wait_for_grant_semaphore' =
       [m_wait_for_grant_semaphore EXCEPT ![s] = IF @ < 1 THEN @ ELSE @ - 1]
  /\ m_req_fifo' = IF illegal THEN m_req_fifo ELSE Append(m_req_fifo, item)
  /\ halted' = IF illegal THEN "fatal" ELSE halted
  /\ grant_queued_locks
  /\ \/ /\ wait
        /\ pc' = [pc EXCEPT ![s] = "waitItem"]
        /\ m_wait_for_item_sequence_id' = -1
        /\ itemWaiters' = itemWaiters \cup {s}
     \/ /\ ~wait /\ "pipelined" \in Ops
        /\ pc' = [pc EXCEPT ![s] = "body"]
        /\ UNCHANGED <<m_wait_for_item_sequence_id, itemWaiters>>
  /\ UNCHANGED <<m_arb_size, g_request_id, regVars, flagVars, relevant, request_id,
                 exiting, driver>>

\* A pipelined sequence waits on its own; it may come too late for its item.
wait_for_item_done(s) ==
  /\ "pipelined" \in Ops
  /\ pc[s] = "body"
  /\ m_wait_for_item_sequence_id' = -1
  /\ itemWaiters' = itemWaiters \cup {s}
  /\ pc' = [pc EXCEPT ![s] = "waitAny"]
  /\ UNCHANGED <<queueVars, arb_completed, m_arb_size, g_request_id, regVars,
                 m_req_fifo, flagVars, m_wait_for_grant_semaphore, relevant,
                 request_id, exiting, driver, arbWaiters, halted>>

\* Woken by m_wait_for_item_sequence_ev: is it this sequence's item?
ItemDoneWoken(s) ==
  /\ pc[s] \in {"waitItem", "waitAny"} /\ s \notin itemWaiters
  /\ \/ /\ m_wait_for_item_sequence_id = m_sqr_seq_ids[s]
        /\ pc' = [pc EXCEPT ![s] = "body"]
        /\ UNCHANGED itemWaiters
     \/ /\ m_wait_for_item_sequence_id # m_sqr_seq_ids[s]
        /\ itemWaiters' = itemWaiters \cup {s}
        /\ UNCHANGED pc
  /\ UNCHANGED <<queueVars, arb_completed, m_arb_size, g_request_id, regVars,
                 m_wait_for_item_sequence_id, m_req_fifo, flagVars,
                 m_wait_for_grant_semaphore, relevant, request_id, exiting, driver,
                 arbWaiters, halted>>

\* m_start_core ends: UVM_FINISHED, and the join in start() is over.
BodyEnd(s) ==
  /\ pc[s] = "body"
  /\ pc' = [pc EXCEPT ![s] = "finished"]
  /\ exiting' = [exiting EXCEPT ![s] = @ + 1]
  /\ UNCHANGED <<queueVars, arb_completed, m_arb_size, g_request_id, regVars,
                 itemVars, flagVars, m_wait_for_grant_semaphore, relevant,
                 request_id, driver, arbWaiters, halted>>

\* start() after its join: a sequence that was not stopped leaves the sequencer,
\* and the parent that started it goes on.
StartReturns(s) ==
  /\ exiting[s] > 0
  /\ exiting' = [exiting EXCEPT ![s] = @ - 1]
  /\ pc' = [t \in Seqs |-> IF t = Parent[s] /\ pc[t] = "join" THEN "body" ELSE pc[t]]
  /\ \/ /\ pc[s] = "stopped"
        /\ UNCHANGED <<queueVars, reg_sequences, arbWaiters>>
     \/ /\ pc[s] # "stopped"
        /\ remove_sequence_from_queues({s}, {})
  /\ UNCHANGED <<arb_completed, m_arb_size, g_request_id, m_sqr_seq_ids,
                 g_sequence_id, itemVars, flagVars, m_wait_for_grant_semaphore,
                 relevant, request_id, driver, halted>>

-----------------------------------------------------------------------------
(* Killing sequences *)

(***************************************************************************)
(* m_kill_sequence for each sequence of S: the queues, then m_kill, which  *)
(* kills the children whose start() has not returned.  The start() of a    *)
(* sequence of S returns in its caller, unless the caller dies too: the    *)
(* start() of a child runs in the process of its parent.                   *)
(***************************************************************************)
Killed(S) ==
  S \cup {c \in UNION {Family(s) : s \in S} : pc[c] \in Running \/ exiting[c] > 0}

m_kill_sequences(S) ==
  LET K == Killed(S)
      Orphaned(s) == \E p \in K : is_child(p, s)
  IN
  /\ remove_sequence_from_queues(S, K)
  /\ pc' = [s \in Seqs |-> IF s \in K THEN "stopped" ELSE pc[s]]
  /\ exiting' = [s \in Seqs |->
                   CASE s \in K /\ Orphaned(s)      -> 0
                     [] s \in K /\ ~Orphaned(s) /\ pc[s] \in Running -> exiting[s] + 1
                     [] OTHER -> exiting[s]]
  /\ itemWaiters' = itemWaiters \ K

\* uvm_sequence_base::kill, for a sequence that has been started.
Kill(s) ==
  /\ "kill" \in Ops /\ pc[s] # "created"
  /\ m_kill_sequences({s})
  /\ UNCHANGED <<arb_completed, m_arb_size, g_request_id, m_sqr_seq_ids,
                 g_sequence_id, m_wait_for_item_sequence_id, m_req_fifo, flagVars,
                 m_wait_for_grant_semaphore, relevant, request_id, driver, halted>>

\* Mutant of FoundByStop: the loop ends after the first sequence.
FoundByStop_First ==
  {reg_sequences[i] : i \in {j \in DOMAIN reg_sequences :
     \A k \in DOMAIN reg_sequences : j <= k /\ reg_sequences[j] # NULL}}

(***************************************************************************)
(* The loop of stop_sequences kills the sequence with the lowest id until  *)
(* m_find_sequence(-1) returns NULL: at a NULL entry that an earlier       *)
(* m_find_sequence(id) inserted, or on the empty map (which dereferences   *)
(* end(); with libstdc++ the key read there is 0 and the answer NULL).     *)
(* uvm_sequencer then resets its flags and empties m_req_fifo; an item put *)
(* in this delta cycle is not readable yet and stays.                      *)
(***************************************************************************)
FoundByStop ==
  {reg_sequences[i] : i \in {j \in DOMAIN reg_sequences :
     \A k \in DOMAIN reg_sequences : k <= j => reg_sequences[k] # NULL}}

stop_sequences ==
  /\ "stop" \in Ops
  /\ m_kill_sequences(FoundByStop)
  /\ sequence_item_requested' = FALSE /\ get_next_item_called' = FALSE
  /\ \E n \in 0 .. Len(m_req_fifo) :
       /\ \A i \in DOMAIN m_req_fifo : m_req_fifo[i].visible <=> i <= n
       /\ m_req_fifo' = SubSeq(m_req_fifo, n + 1, Len(m_req_fifo))
  /\ UNCHANGED <<arb_completed, m_arb_size, g_request_id, m_sqr_seq_ids,
                 g_sequence_id, m_wait_for_item_sequence_id,
                 m_wait_for_grant_semaphore, relevant, request_id, driver, halted>>

-----------------------------------------------------------------------------
(* The driver *)

\* get_next_item up to its first wait: arbitration is skipped when an item was
\* requested before and not yet done. A second call only reports an error.
get_next_item ==
  /\ driver = "idle"
  /\ \/ /\ ~sequence_item_requested
        /\ driver' = "select"
        /\ UNCHANGED flagVars
     \/ /\ sequence_item_requested
        /\ driver' = "peek"
        /\ sequence_item_requested' = TRUE /\ get_next_item_called' = TRUE
  /\ UNCHANGED <<queueVars, arb_completed, m_arb_size, g_request_id, regVars,
                 itemVars, seqVars, arbWaiters, halted>>

\* One round of the loop in m_select_sequence after wait_for_sequences, and the
\* flags get_next_item sets when it has selected.
m_select_sequence ==
  /\ driver = "select" /\ NextDelta
  /\ \E G \in SUBSET arb_sequence_q :
      LET Q == arb_sequence_q \ G
          holders == Owners(lock_list \cup GrantedLocks(G, 0))
          avail == Available(Q, holders, relevant)
      IN
      /\ IsGrantSet(G, arb_sequence_q, Owners(lock_list))
      /\ lock_list' = lock_list \cup GrantedLocks(G, 0)
      /\ \/ /\ avail = {}
            /\ arb_sequence_q' = Q
            /\ arb_completed' = arb_completed \cup request_ids(G)
            /\ m_update_lists(Cardinality(G))
            /\ m_arb_size' = m_lock_arb_size'
            /\ driver' = "arbWait"
            /\ arbWaiters' = Notified(Cardinality(G)) \cup {Driver}
            /\ halted' = IF Available(Q, holders, Seqs) = {} THEN halted ELSE "exit"
            /\ UNCHANGED flagVars
         \/ \E r \in m_choose_next_request(avail, m_arbitration) :
            /\ arb_sequence_q' = Q \ {r}
            /\ arb_completed' = arb_completed \cup request_ids(G \cup {r})
            /\ m_update_lists(Cardinality(G) + 1)
            /\ arbWaiters' = {}
            /\ driver' = "peek"
            /\ sequence_item_requested' = TRUE /\ get_next_item_called' = TRUE
            /\ UNCHANGED <<m_arb_size, halted>>
  /\ UNCHANGED <<g_request_id, regVars, itemVars, seqVars>>

\* m_wait_arb_not_equal, woken by m_lock_arb_size_changed.
m_wait_arb_not_equal ==
  /\ driver = "arbWait" /\ Driver \notin arbWaiters
  /\ \/ /\ m_arb_size = m_lock_arb_size
        /\ arbWaiters' = arbWaiters \cup {Driver}
        /\ UNCHANGED driver
     \/ /\ m_arb_size # m_lock_arb_size
        /\ driver' = "select"
        /\ UNCHANGED arbWaiters
  /\ UNCHANGED <<queueVars, arb_completed, m_arb_size, g_request_id, regVars,
                 itemVars, flagVars, seqVars, halted>>

\* m_req_fifo.peek at the end of get_next_item.
peek ==
  /\ driver = "peek" /\ HasItem
  /\ driver' = "busy"
  /\ UNCHANGED <<queueVars, arb_completed, m_arb_size, g_request_id, regVars,
                 itemVars, flagVars, seqVars, arbWaiters, halted>>

\* try_next_item up to wait_for_sequences; called again too early it returns false.
try_next_item ==
  /\ "try" \in Ops
  /\ driver = "idle" /\ ~get_next_item_called
  /\ driver' = "tryChoose"
  /\ UNCHANGED <<queueVars, arb_completed, m_arb_size, g_request_id, regVars,
                 itemVars, flagVars, seqVars, arbWaiters, halted>>

TryChoose ==
  /\ driver = "tryChoose" /\ NextDelta
  /\ \E G \in SUBSET arb_sequence_q :
      LET Q == arb_sequence_q \ G
          avail == Available(Q, Owners(lock_list \cup GrantedLocks(G, 0)), relevant)
      IN
      /\ IsGrantSet(G, arb_sequence_q, Owners(lock_list))
      /\ lock_list' = lock_list \cup GrantedLocks(G, 0)
      /\ \/ /\ avail = {}
            /\ arb_sequence_q' = Q
            /\ arb_completed' = arb_completed \cup request_ids(G)
            /\ m_update_lists(Cardinality(G))
            /\ arbWaiters' = Notified(Cardinality(G))
            /\ driver' = "idle"
            /\ UNCHANGED flagVars
         \/ \E r \in m_choose_next_request(avail, m_arbitration) :
            /\ arb_sequence_q' = Q \ {r}
            /\ arb_completed' = arb_completed \cup request_ids(G \cup {r})
            /\ m_update_lists(Cardinality(G) + 1)
            /\ arbWaiters' = {}
            /\ driver' = "tryPeek"
            /\ sequence_item_requested' = TRUE /\ get_next_item_called' = TRUE
  /\ UNCHANGED <<m_arb_size, g_request_id, regVars, itemVars, seqVars, halted>>

\* The nb_peek one delta later; without an item an error and false, and the
\* flags stay set.
TryPeek ==
  /\ driver = "tryPeek" /\ NextDelta
  /\ driver' = IF HasItem THEN "busy" ELSE "idle"
  /\ UNCHANGED <<queueVars, arb_completed, m_arb_size, g_request_id, regVars,
                 itemVars, flagVars, seqVars, arbWaiters, halted>>

\* Mutants of TakeDoneItem: the item stays in the FIFO; nobody is notified.
TakeDoneItem_Peek ==
  /\ driver = "busy" /\ HasItem
  /\ sequence_item_requested' = FALSE /\ get_next_item_called' = FALSE
  /\ m_wait_for_item_sequence_id' = Head(m_req_fifo).sequence_id
  /\ itemWaiters' = {}
  /\ UNCHANGED m_req_fifo
TakeDoneItem_Silent ==
  /\ driver = "busy" /\ HasItem
  /\ sequence_item_requested' = FALSE /\ get_next_item_called' = FALSE
  /\ m_req_fifo' = Tail(m_req_fifo)
  /\ m_wait_for_item_sequence_id' = Head(m_req_fifo).sequence_id
  /\ UNCHANGED itemWaiters

\* item_done up to the response: the head of the FIFO is taken and its
\* sequence notified.
TakeDoneItem ==
  /\ driver = "busy" /\ HasItem
  /\ sequence_item_requested' = FALSE /\ get_next_item_called' = FALSE
  /\ m_req_fifo' = Tail(m_req_fifo)
  /\ m_wait_for_item_sequence_id' = Head(m_req_fifo).sequence_id
  /\ itemWaiters' = {}

item_done ==
  /\ TakeDoneItem
  /\ grant_queued_locks
  /\ driver' = "idle"
  /\ UNCHANGED <<m_arb_size, g_request_id, regVars, seqVars, halted>>

\* Mutant of m_find_sequence: the entry is reset even if it exists.
m_find_sequence_Reset(id) ==
  [i \in DOMAIN reg_sequences \cup {id} |-> IF i = id THEN NULL ELSE reg_sequences[i]]

\* reg_sequences after reg_sequences[id]: an id without an entry gets a NULL one.
m_find_sequence(id) ==
  [i \in DOMAIN reg_sequences \cup {id} |->
     IF i \in DOMAIN reg_sequences THEN reg_sequences[i] ELSE NULL]

\* item_done(rsp): put() looks the sequence up and waits a delta cycle.
item_done_rsp ==
  /\ "response" \in Ops
  /\ TakeDoneItem
  /\ reg_sequences' = m_find_sequence(Head(m_req_fifo).sequence_id)
  /\ driver' = "respond"
  /\ UNCHANGED <<queueVars, arb_completed, m_arb_size, g_request_id, m_sqr_seq_ids,
                 g_sequence_id, seqVars, arbWaiters, halted>>

\* The end of item_done(rsp), after put() has returned.
PutReturns ==
  /\ driver = "respond" /\ NextDelta
  /\ grant_queued_locks
  /\ driver' = "idle"
  /\ UNCHANGED <<m_arb_size, g_request_id, regVars, itemVars, flagVars, seqVars,
                 halted>>

\* item_done with nothing in the FIFO is a fatal report.
ItemDoneFatal ==
  /\ driver = "busy" /\ ~HasItem
  /\ sequence_item_requested' = FALSE /\ get_next_item_called' = FALSE
  /\ halted' = "fatal"
  /\ UNCHANGED <<queueVars, arb_completed, m_arb_size, g_request_id, regVars,
                 itemVars, seqVars, driver, arbWaiters>>

\* The update phase of SystemC: the items put in this delta become readable.
UpdateFifo ==
  /\ EvaluationOver
  /\ \E i \in DOMAIN m_req_fifo : ~m_req_fifo[i].visible
  /\ m_req_fifo' = [i \in DOMAIN m_req_fifo |-> [m_req_fifo[i] EXCEPT !.visible = TRUE]]
  /\ UNCHANGED <<queueVars, arb_completed, m_arb_size, g_request_id, regVars,
                 m_wait_for_item_sequence_id, itemWaiters, flagVars, seqVars, driver,
                 arbWaiters, halted>>

-----------------------------------------------------------------------------
(* The specification *)

Step(s) ==
  \/ Start(s) \/ SetRelevant(s) \/ Lock(s) \/ Grab(s) \/ m_unlock_req(s)
  \/ wait_for_grant(s, FALSE) \/ ("lock_request" \in Ops /\ wait_for_grant(s, TRUE))
  \/ m_wait_for_arbitration_completed(s)
  \/ \E wait \in BOOLEAN : send_request(s, wait)
  \/ wait_for_item_done(s) \/ ItemDoneWoken(s)
  \/ BodyEnd(s) \/ StartReturns(s) \/ Kill(s)

DriverStep ==
  \/ get_next_item \/ m_select_sequence \/ m_wait_arb_not_equal \/ peek
  \/ try_next_item \/ TryChoose \/ TryPeek
  \/ item_done \/ item_done_rsp \/ PutReturns \/ ItemDoneFatal

Next ==
  /\ halted = "no"
  /\ \/ \E s \in Seqs : Step(s)
     \/ stop_sequences
     \/ DriverStep
     \/ UpdateFifo

Spec == Init /\ [][Next]_vars

\* SystemC runs every runnable process; a driver keeps asking for items and
\* finishes them; a granted sequence sends its item and a body ends.
Fairness ==
  /\ \A s \in Seqs : /\ WF_vars(m_wait_for_arbitration_completed(s))
                     /\ WF_vars(send_request(s, TRUE))
                     /\ WF_vars(ItemDoneWoken(s))
                     /\ WF_vars(BodyEnd(s))
                     /\ WF_vars(StartReturns(s))
  /\ WF_vars(DriverStep)
  /\ WF_vars(UpdateFifo)

FairSpec == Spec /\ Fairness

-----------------------------------------------------------------------------
(* Safety properties *)

Waiting(s) == pc[s] \in {"waitLock", "waitGrant"}

\* Mutual exclusion of locks (is_blocked, grant_queued_locks): any two holders
\* are the same sequence or of one family, and the later lock is the deeper one,
\* so current_grabber() is the sequence that may operate.
LockChain ==
  \A a, b \in lock_list :
    a.stamp <= b.stamp =>
      \/ a = b
      \/ /\ a.stamp < b.stamp
         /\ a.sequence = b.sequence \/ is_child(a.sequence, b.sequence)

\* No lost wake-up of a sequence (m_wait_for_arbitration_completed): a request
\* that has been granted finds its sequence runnable, and the wake-up is not one
\* that the comparison with the stale lock_arb_size ignores.
NoLostGrant ==
  \A s \in Seqs :
    Waiting(s) /\ request_id[s] \in arb_completed =>
      s \notin arbWaiters /\ m_lock_arb_size # 0

\* No lost wake-up of the driver (m_wait_arb_not_equal): while it sleeps no
\* request in the queue could be chosen.
DriverAwake ==
  driver = "arbWait" /\ Driver \in arbWaiters =>
    Available(arb_sequence_q, Owners(lock_list), relevant) = {}

\* A sequence that waits has its request queued or granted, never dropped.
RequestNotLost ==
  \A s \in Seqs :
    Waiting(s) => request_id[s] \in request_ids(arb_sequence_q) \cup arb_completed

\* No lost item_done: a sequence asleep in finish_item has an item that the
\* driver has not finished.
ItemDoneNotLost ==
  \A s \in itemWaiters : pc[s] = "waitItem" =>
    \E i \in DOMAIN m_req_fifo : m_req_fifo[i].sequence_id = m_sqr_seq_ids[s]

\* A running sequence is registered: stop_sequences finds it and responses reach it.
Registered ==
  \A s \in Seqs :
    pc[s] \in Running => /\ m_sqr_seq_ids[s] \in DOMAIN reg_sequences
                        /\ reg_sequences[m_sqr_seq_ids[s]] = s

\* The lists hold nothing of a sequence that is gone (remove_sequence_from_queues):
\* a lock without a holder would block every other sequence for ever.
NoDeadHolder ==
  \A s \in Owners(lock_list) \cup Owners(arb_sequence_q) :
    pc[s] \in Running \/ exiting[s] > 0

\* A driver that calls item_done once per item never gets the fatal report of
\* item_done, nor does send_request.
NeverFatal == halted # "fatal"

-----------------------------------------------------------------------------
(* Action properties *)

\* stop_sequences leaves no sequence running.
StopKillsAll == [][stop_sequences => \A s \in Seqs : pc'[s] \notin Running]_vars

\* try_next_item gets the item of the sequence it chose within the delta it
\* waits, when sequences do not delay between start_item and finish_item.
TryFindsItem == [][TryPeek => driver' = "busy"]_vars

-----------------------------------------------------------------------------
(* Liveness *)

\* Every request is granted eventually.
EventuallyGranted == \A s \in Seqs : Waiting(s) ~> ~Waiting(s)

\* Every item is reported done to its sequence.
EventuallyDone == \A s \in Seqs : pc[s] = "waitItem" ~> pc[s] # "waitItem"

-----------------------------------------------------------------------------
(* The inductive invariant behind LockChain, NoLostGrant and DriverAwake *)

\* m_lock_arb_size counts every change to the lists, so it bounds what was noted
\* from it and is not -1 any more when something is queued.
SizeBounds ==
  /\ \A l \in lock_list : l.stamp <= m_lock_arb_size
  /\ arb_sequence_q # {} => m_lock_arb_size >= 0
  /\ m_arb_size <= m_lock_arb_size

\* g_request_id gives every request an id of its own.
IdBounds ==
  /\ \A r, x \in arb_sequence_q : r.request_id = x.request_id => r = x
  /\ \A r \in arb_sequence_q : r.request_id < g_request_id
  /\ \A id \in arb_completed : id < g_request_id

GrantNotified ==
  \A s \in Seqs :
    Waiting(s) /\ request_id[s] \in arb_completed =>
      s \notin arbWaiters /\ m_lock_arb_size > 0

\* The driver sleeps on the lists it has seen, and in these nothing is available.
DriverHasSeen ==
  driver = "arbWait" =>
    /\ Driver \in arbWaiters => m_arb_size = m_lock_arb_size
    /\ m_arb_size = m_lock_arb_size =>
         Available(arb_sequence_q, Owners(lock_list),
                   IF halted = "exit" THEN relevant ELSE Seqs) = {}

\* Everything the three properties need, preserved by every step (TLC checks it
\* as an invariant, SequencerProofs proves that it is inductive).
IInv == /\ TypeOK /\ SizeBounds /\ IdBounds
        /\ LockChain /\ GrantNotified /\ DriverHasSeen

-----------------------------------------------------------------------------
(* The inductive invariants behind the other properties. Each is stated for  *)
(* the testbenches for which it holds: Ops names the calls that are made.    *)

\* A request in the queue is not granted yet, and the sequence that made it waits
\* for it; what a sequence waits for is its own request, of the kind it made.
RequestsMatched ==
  /\ request_ids(arb_sequence_q) \cap arb_completed = {}
  /\ \A r \in arb_sequence_q : r.request = "REQ" =>
       pc[r.sequence] = "waitGrant" /\ request_id[r.sequence] = r.request_id
  /\ \A s \in Seqs : Waiting(s) =>
       /\ request_id[s] < g_request_id
       /\ \A t \in Seqs : Waiting(t) /\ request_id[t] = request_id[s] => t = s
       /\ \A r \in arb_sequence_q : r.request_id = request_id[s] =>
            r.sequence = s /\ (r.request = "REQ" <=> pc[s] = "waitGrant")

\* The start() of s has not returned.
InStart(s) == pc[s] \in Running \/ exiting[s] > 0

\* Without overlapping starts the sequences whose start() has not returned form
\* lines of descent, in each of which all but the last wait in a join.
LinesOfDescent ==
  /\ \A s \in Seqs : pc[s] \in Running => exiting[s] = 0
  /\ \A s \in Seqs : exiting[s] <= 1
  /\ \A s \in Seqs : InStart(s) => \A p \in Ancestors[s] : pc[p] = "join"
  /\ \A s, t \in Seqs :
       InStart(s) /\ InStart(t) /\ Ancestors[s] \cap Ancestors[t] # {} =>
         s = t \/ is_child(s, t) \/ is_child(t, s)

\* NoDeadHolder, and a sequence that was stopped holds nothing any more.
HoldersAlive ==
  \A s \in Owners(lock_list) \cup Owners(arb_sequence_q) : InStart(s) /\ pc[s] # "stopped"

\* Registered, and every start() gets an id of its own.
IdsDistinct ==
  /\ \A s \in Seqs : m_sqr_seq_ids[s] < g_sequence_id
  /\ \A s, t \in Seqs : m_sqr_seq_ids[s] = m_sqr_seq_ids[t] => s = t \/ m_sqr_seq_ids[s] = -1
  /\ \A s \in Seqs : pc[s] \in Running => m_sqr_seq_ids[s] # -1

\* What the life cycle needs, when no sequence is started before it has returned.
LifeInv == LinesOfDescent /\ RequestNotLost /\ IdsDistinct /\ Registered

\* Without responses to sequences that are gone no entry of the registry is NULL.
NoNullEntry == \A i \in DOMAIN reg_sequences : reg_sequences[i] # NULL

\* The sequences that have their grant and have not sent their item.
ToSend == {s \in Seqs : \/ pc[s] = "waitGrant" /\ request_id[s] \in arb_completed
                       \/ pc[s] = "granted"}

\* At most one item is under way, from the selection by the driver to item_done.
OneItem ==
  /\ \A s, t \in ToSend : s = t
  /\ Len(m_req_fifo) <= IF ToSend = {} THEN 1 ELSE 0
  /\ ToSend # {} \/ m_req_fifo # <<>> =>
       driver \in {"idle", "peek", "busy", "tryPeek"} /\ sequence_item_requested
  /\ driver \in {"peek", "busy", "tryPeek"} => sequence_item_requested

\* The driver finishes the item it has seen, and a sequence sends what was granted.
HandshakeInv ==
  /\ OneItem
  /\ sequence_item_requested = get_next_item_called
  /\ driver = "busy" => HasItem
  /\ \A s \in Seqs : pc[s] = "granted" => m_wait_for_grant_semaphore[s] >= 1
  /\ halted # "fatal"

\* An item of s is under way.
InFifo(s) == \E i \in DOMAIN m_req_fifo : m_req_fifo[i].sequence_id = m_sqr_seq_ids[s]

\* A sequence in finish_item has its item under way or was told that it is done;
\* nothing is granted before it has noticed.
DoneInv ==
  \A s \in Seqs : pc[s] = "waitItem" =>
    \/ InFifo(s)
    \/ /\ s \notin itemWaiters /\ m_wait_for_item_sequence_id = m_sqr_seq_ids[s]
       /\ ToSend = {} /\ m_req_fifo = <<>>

\* After try_next_item has selected, an item is on its way.
TryInv == driver = "tryPeek" => ToSend # {} \/ m_req_fifo # <<>>

=============================================================================
