-------------------------- MODULE ArbitrationRound --------------------------
(***************************************************************************)
(* One round of arbitration from any queue, any locks and any mode: the    *)
(* queued locks are granted, then one available request is chosen with the *)
(* value the random generator happens to return.                           *)
(***************************************************************************)
EXTENDS Arbitration, Sequences

CONSTANTS QueueLength,  \* bound: the number of queued requests
          Priorities,   \* item priorities of the queued requests
          RoundModes    \* the arbitration modes to look at

\* An item priority of 0 ends the program; a sequence may have priority 0.
ASSUME RoundAssumption == /\ QueueLength \in Nat
                          /\ Priorities \subseteq (Nat \ {0}) \cup {-1}
                          /\ RoundModes \subseteq Modes

VARIABLES queue, holders, mode, phase, chosen

vars == <<queue, holders, mode, phase, chosen>>

Entries(i) == {r \in [request : {"REQ", "LOCK"}, sequence : Seqs,
                      item_priority : Priorities, request_id : {i},
                      front : BOOLEAN] :
                 r.request = "REQ" => ~r.front}

\* lock_list holds a chain of related sequences (LockChain of Sequencer).
Chains == {H \in SUBSET Seqs :
             \A s, t \in H : s = t \/ is_child(s, t) \/ is_child(t, s)}

Queues == {{f[i] : i \in 1 .. QueueLength} :
             f \in {g \in [1 .. QueueLength -> UNION {Entries(i) : i \in 1 .. QueueLength}] :
                      \A i \in 1 .. QueueLength : g[i] \in Entries(i)}}

Init == /\ queue \in Queues
        /\ holders \in Chains
        /\ mode \in RoundModes
        /\ phase = "grant"
        /\ chosen = NULL

avail_sequences == Available(queue, holders, Seqs)

\* grant_queued_locks, the first thing m_choose_next_request does.
GrantLocks ==
  /\ phase = "grant"
  /\ \E G \in SUBSET queue :
       /\ IsGrantSet(G, queue, holders)
       /\ queue' = queue \ G
       /\ holders' = holders \cup Owners(G)
  /\ phase' = "choose"
  /\ UNCHANGED <<mode, chosen>>

\* The choice; -1 when nothing is available, and a fatal report when the
\* weighted selection falls through.
Choose ==
  /\ phase = "choose"
  /\ \/ /\ avail_sequences = {}
        /\ chosen' = NULL /\ phase' = "done"
     \/ /\ avail_sequences # {}
        /\ \E rnd \in 0 .. MaxRand :
             LET winners == {r \in avail_sequences : Wins(r, avail_sequences, mode, rnd)}
             IN  /\ chosen' \in IF winners = {} THEN {NULL} ELSE winners
                 /\ phase' = IF winners = {} THEN "fatal" ELSE "done"
  /\ UNCHANGED <<queue, holders, mode>>

Next == GrantLocks \/ Choose

Spec == Init /\ [][Next]_vars

-----------------------------------------------------------------------------
(* Properties *)

\* The types; the winner is a request for an item, never a lock (SEQ_TYPE_REQ).
TypeOK ==
  /\ queue \subseteq Request
  /\ holders \subseteq Seqs
  /\ mode \in Modes
  /\ phase \in {"grant", "choose", "done", "fatal"}
  /\ chosen \in {r \in queue : r.request = "REQ"} \cup {NULL}

\* One pass of grant_queued_locks is enough: afterwards no queued lock could be
\* granted, and the holders are still one chain.
GrantingIsComplete ==
  phase # "grant" =>
    /\ holders \in Chains
    /\ \A r \in queue : r.request = "LOCK" => is_blocked(r.sequence, holders)

\* Weighted selection: over one period of the generator every request wins as
\* often as its priority says, except that the first one in the queue that has a
\* priority above 0 loses a turn because urandom_range never returns its lower bound.
WeightedShare ==
  phase = "choose" /\ mode = "WEIGHTED" /\ Cardinality(avail_sequences) > 1 =>
    \A r \in avail_sequences :
      LET turns == {x \in 0 .. PrioritySum(avail_sequences) - 2 :
                      Wins(r, avail_sequences, mode, x)}
          lost  == IF /\ m_get_seq_item_priority(r) > 0
                      /\ \A x \in Before(r, avail_sequences) : m_get_seq_item_priority(x) = 0
                   THEN 1 ELSE 0
      IN  Cardinality(turns) = m_get_seq_item_priority(r) - lost

\* In the strict modes nothing of lower priority overtakes.
StrictPriority ==
  phase = "done" /\ chosen # NULL /\ mode \in {"STRICT_FIFO", "STRICT_RANDOM"} =>
    \A r \in avail_sequences :
      m_get_seq_item_priority(r) <= m_get_seq_item_priority(chosen)

=============================================================================
