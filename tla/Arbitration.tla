---------------------------- MODULE Arbitration ----------------------------
(***************************************************************************)
(* The pure part of the arbiter of uvm_sequencer_base: the ancestry of     *)
(* sequences, the order of the arbitration queue, which requests a lock    *)
(* holds back, which queued locks grant_queued_locks grants and which      *)
(* request m_choose_next_request picks.                                    *)
(*                                                                         *)
(* arb_sequence_q is a set of requests here.  Its order is kept by Pos:    *)
(* push_back gives a request a place behind every older one, a grab is     *)
(* inserted at the front, and request_id comes from a global counter.      *)
(***************************************************************************)
EXTENDS Integers, FiniteSets, FiniteSetsExt

CONSTANTS Seqs,     \* the uvm_sequence_base objects
          NULL,     \* the null pointer
          Parent,   \* get_parent_sequence() of each sequence
          m_priority, \* the priority each sequence was started with
          MaxRand   \* rand() returns a value in 0 .. MaxRand

ASSUME ParentAssumption == /\ NULL \notin Seqs
                           /\ Parent \in [Seqs -> Seqs \cup {NULL}]
\* The search of is_child for an ancestor comes to an end.
ASSUME FamilyAssumption == \A T \in SUBSET Seqs : T # {} => \E s \in T : Parent[s] \notin T
ASSUME PriorityAssumption == m_priority \in [Seqs -> Nat]
ASSUME RandAssumption == MaxRand \in Nat

Modes == {"FIFO", "WEIGHTED", "RANDOM", "STRICT_FIFO", "STRICT_RANDOM", "USER"}

-----------------------------------------------------------------------------
(* Ancestry *)

Ancestors[s \in Seqs] ==
  IF Parent[s] = NULL THEN {} ELSE {Parent[s]} \cup Ancestors[Parent[s]]

is_child(parent, child) == parent \in Ancestors[child]

\* Mutants of Family: the sequence itself forgotten; a parent in common mistaken
\* for an ancestor.
Family_Children(s) == {c \in Seqs : is_child(s, c)}
Family_Siblings(s) == {c \in Seqs : Parent[c] = Parent[s]}

Family(s) == {s} \cup {c \in Seqs : is_child(s, c)}

-----------------------------------------------------------------------------
(* The queue and the locks *)

\* item_priority is -1 when the request uses the priority of its sequence.
Request == [request : {"REQ", "LOCK"}, sequence : Seqs,
            item_priority : Nat \cup {-1}, request_id : Nat, front : BOOLEAN]

Pos(r) == IF r.front THEN -r.request_id ELSE r.request_id

Before(r, Q) == {x \in Q : Pos(x) < Pos(r)}

UpTo(r, Q) == {x \in Q : Pos(x) <= Pos(r)}

Owners(S) == {x.sequence : x \in S}

\* holders is the set of sequences that occur in lock_list.
is_blocked(s, holders) == \E h \in holders : h # s /\ ~is_child(h, s)

\* Mutant of IsGrantSet: is_blocked is evaluated once, before the first grant.
IsGrantSet_AtOnce(G, Q, holders) ==
  G = {r \in Q : r.request = "LOCK" /\ ~is_blocked(r.sequence, holders)}

(***************************************************************************)
(* grant_queued_locks walks the whole queue once; a lock that is granted   *)
(* on the way holds back the ones behind it.  G is the set it grants.      *)
(***************************************************************************)
IsGrantSet(G, Q, holders) ==
  \A r \in Q :
    r \in G <=> /\ r.request = "LOCK"
                /\ ~is_blocked(r.sequence, holders \cup Owners(Before(r, G)))

\* avail_sequences, gathered by m_choose_next_request after granting locks.
Available(Q, holders, relevant) ==
  {r \in Q : /\ r.request = "REQ"
             /\ ~is_blocked(r.sequence, holders)
             /\ r.sequence \in relevant}

-----------------------------------------------------------------------------
(* Choosing one of the available requests *)

m_get_seq_item_priority(r) ==
  IF r.item_priority # -1 THEN r.item_priority ELSE m_priority[r.sequence]

\* The conversion of an int to unsigned: rand() never reaches UINT_MAX.
UINT_MAX == MaxRand + 1

Unsigned(n) == IF n < 0 THEN UINT_MAX ELSE n

\* Mutant of urandom_range: the upper bound left out.
urandom_range_Low(max, min, rnd) ==
  IF min = max THEN min ELSE (rnd % (max - min)) + min

urandom_range(max, min, rnd) ==
  IF min = max THEN min ELSE (rnd % (max - min)) + min + 1

\* r is at the (zero-based) index i of S in queue order.
IsAt(r, S, i) == Cardinality(Before(r, S)) = i

PrioritySum(S) == MapThenSumSet(m_get_seq_item_priority, S)

\* Mutant of Highest: the list is not cleared when a higher priority is met.
Highest_NotCleared(S) ==
  {r \in S : \A x \in Before(r, S) : m_get_seq_item_priority(x)
                                   <= m_get_seq_item_priority(r)}

\* highest_sequences: the requests that no other request of S exceeds.
Highest(S) == {r \in S : \A x \in S : m_get_seq_item_priority(x)
                                      <= m_get_seq_item_priority(r)}

(***************************************************************************)
(* r is the entry that m_choose_next_request returns when the generator    *)
(* returns rnd.  user_priority_arbitration may be overridden and may       *)
(* return any available entry.                                             *)
(***************************************************************************)
Wins(r, avail, mode, rnd) ==
  LET n   == Cardinality(avail)
      top == Highest(avail)
  IN
  \/ n = 1
  \/ mode = "FIFO" /\ IsAt(r, avail, 0)
  \/ /\ mode = "WEIGHTED"
     /\ LET temp == urandom_range(Unsigned(PrioritySum(avail) - 1), 0, rnd)
        IN  /\ PrioritySum(Before(r, avail)) <= temp
            /\ temp < PrioritySum(UpTo(r, avail))
  \/ mode = "RANDOM" /\ IsAt(r, avail, urandom_range(n - 1, 0, rnd))
  \/ mode = "STRICT_FIFO" /\ r \in top /\ IsAt(r, top, 0)
  \/ /\ mode = "STRICT_RANDOM" /\ r \in top
     /\ IsAt(r, top, urandom_range(Cardinality(top) - 1, 0, rnd))
  \/ mode = "USER"

m_choose_next_request(avail, mode) ==
  {r \in avail : \E rnd \in 0 .. MaxRand : Wins(r, avail, mode, rnd)}

=============================================================================
