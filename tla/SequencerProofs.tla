-------------------------- MODULE SequencerProofs --------------------------
(***************************************************************************)
(* Proofs about Sequencer for every set of sequences, every family tree,   *)
(* every arbitration mode and every choice of bounds: type correctness,    *)
(* mutual exclusion of locks, and that neither a granted sequence nor the  *)
(* driver sleeps through its wake-up.                                      *)
(*                                                                         *)
(* The second part is the life cycle of sequences and of their requests.   *)
(* Whatever is killed and stopped, the lists hold nothing of a sequence    *)
(* that is gone, and a sequence that lives keeps its request and its place *)
(* in the registry.                                                        *)
(*                                                                         *)
(* The third part is the handshake of a sequence with the driver, from the *)
(* grant to item_done. One item is under way at a time, so neither side    *)
(* meets the fatal reports of send_request and item_done, no item_done is  *)
(* missed, and try_next_item finds what it asked for.                      *)
(***************************************************************************)
EXTENDS Sequencer, FiniteSetTheorems, SequenceTheorems, TLAPS

-----------------------------------------------------------------------------
(* Lemmas about granting locks *)

\* A request's place in the queue is an integer (request_id and the front insert).
LEMMA PosType == ASSUME NEW r \in Request PROVE Pos(r) \in Int
  BY DEF Request, Pos

\* The rank of a request among the granted ones is between 1 and their number
\* (the stamp that grant_queued_locks' m_update_lists gives it).
LEMMA RankBounds ==
  ASSUME NEW G, G \subseteq Request, IsFiniteSet(G), NEW r \in G
  PROVE  /\ Cardinality(G) \in Nat
         /\ Cardinality(UpTo(r, G)) \in Nat
         /\ 1 <= Cardinality(UpTo(r, G)) /\ Cardinality(UpTo(r, G)) <= Cardinality(G)
<1>1. UpTo(r, G) \subseteq G
  BY DEF UpTo
<1>2. /\ IsFiniteSet(UpTo(r, G)) /\ Cardinality(UpTo(r, G)) \in Nat
      /\ Cardinality(G) \in Nat
      /\ Cardinality(UpTo(r, G)) <= Cardinality(G)
  BY <1>1, FS_Subset, FS_CardinalityType
<1>3. r \in UpTo(r, G)
  BY PosType DEF UpTo
<1>4. Cardinality(UpTo(r, G)) # 0
  BY <1>2, <1>3, FS_EmptySet
<1> QED
  BY <1>2, <1>4

\* A request further back in the queue has the higher rank.
LEMMA RankOrder ==
  ASSUME NEW G, G \subseteq Request, IsFiniteSet(G), NEW r \in G, NEW x \in G,
         Pos(r) < Pos(x)
  PROVE  Cardinality(UpTo(r, G)) < Cardinality(UpTo(x, G))
<1>1. UpTo(r, G) \subseteq UpTo(x, G)
  BY PosType DEF UpTo
<1>2. x \in UpTo(x, G) /\ x \notin UpTo(r, G)
  BY PosType DEF UpTo
<1>3. IsFiniteSet(UpTo(x, G)) /\ IsFiniteSet(UpTo(r, G))
  BY FS_Subset DEF UpTo
<1>4. /\ Cardinality(UpTo(r, G)) <= Cardinality(UpTo(x, G))
      /\ Cardinality(UpTo(r, G)) # Cardinality(UpTo(x, G))
  BY <1>1, <1>2, <1>3, FS_Subset
<1> QED
  BY <1>4, RankBounds

\* The new lock_list entries are well formed, finitely many and stamped in the
\* range of m_lock_arb_size that the grants pass through.
LEMMA GrantedLocksType ==
  ASSUME m_lock_arb_size \in Nat \cup {-1}, NEW k \in Nat,
         NEW G, G \subseteq Request, IsFiniteSet(G)
  PROVE  /\ GrantedLocks(G, k) \subseteq [sequence : Seqs, stamp : Nat]
         /\ IsFiniteSet(GrantedLocks(G, k))
         /\ \A l \in GrantedLocks(G, k) :
              /\ m_lock_arb_size + k < l.stamp
              /\ l.stamp <= m_lock_arb_size + k + Cardinality(G)
<1> DEFINE lock(r) == [sequence |-> r.sequence,
                       stamp |-> m_lock_arb_size + k + Cardinality(UpTo(r, G))]
<1>1. GrantedLocks(G, k) = {lock(r) : r \in G}
  BY DEF GrantedLocks
<1>2. ASSUME NEW r \in G
      PROVE  /\ lock(r) \in [sequence : Seqs, stamp : Nat]
             /\ m_lock_arb_size + k < lock(r).stamp
             /\ lock(r).stamp <= m_lock_arb_size + k + Cardinality(G)
  <2>1. r.sequence \in Seqs
    BY DEF Request
  <2> QED
    BY <2>1, RankBounds
<1>3. IsFiniteSet({lock(r) : r \in G})
  <2> DEFINE f == [r \in G |-> lock(r)]
  <2>1. f \in Surjection(G, {lock(r) : r \in G})
    BY DEF Surjection
  <2> QED
    BY <2>1, FS_Surjection
<1> QED
  BY <1>1, <1>2, <1>3

\* grant_queued_locks keeps the types of the arbitration state.
LEMMA GrantQueuedLocksType ==
  ASSUME QueueTypes, grant_queued_locks, UNCHANGED <<m_arb_size, g_request_id>>
  PROVE  QueueTypes'
<1>1. PICK G \in SUBSET arb_sequence_q :
        /\ arb_sequence_q' = arb_sequence_q \ G
        /\ lock_list' = lock_list \cup GrantedLocks(G, 0)
        /\ arb_completed' = arb_completed \cup request_ids(G)
        /\ m_update_lists(Cardinality(G))
        /\ arbWaiters' = Notified(Cardinality(G))
  BY DEF grant_queued_locks
<1>2. IsFiniteSet(G) /\ Cardinality(G) \in Nat /\ G \subseteq Request
  BY FS_Subset, FS_CardinalityType DEF QueueTypes
<1>3. arb_sequence_q' \subseteq Request /\ IsFiniteSet(arb_sequence_q')
  BY <1>1, FS_Subset DEF QueueTypes
<1>4. /\ GrantedLocks(G, 0) \subseteq [sequence : Seqs, stamp : Nat]
      /\ IsFiniteSet(GrantedLocks(G, 0))
  BY <1>2, GrantedLocksType DEF QueueTypes
<1>5. lock_list' \subseteq [sequence : Seqs, stamp : Nat] /\ IsFiniteSet(lock_list')
  BY <1>1, <1>4, FS_Union DEF QueueTypes
<1>6. arb_completed' \subseteq Nat
  BY <1>1, <1>2 DEF QueueTypes, request_ids, Request
<1>7. m_lock_arb_size' \in Nat \cup {-1}
  BY <1>1, <1>2 DEF QueueTypes, m_update_lists
<1>8. arbWaiters' \subseteq Seqs \cup {Driver}
  BY <1>1 DEF QueueTypes, Notified
<1> QED
  BY <1>3, <1>5, <1>6, <1>7, <1>8 DEF QueueTypes

\* remove_sequence_from_queues keeps the types of the arbitration state and of
\* the registry.
LEMMA RemoveType ==
  ASSUME QueueTypes, RegistryTypes, NEW S \in SUBSET Seqs, NEW K \in SUBSET Seqs,
         remove_sequence_from_queues(S, K),
         UNCHANGED <<arb_completed, m_arb_size, g_request_id, m_sqr_seq_ids,
                     g_sequence_id>>
  PROVE  QueueTypes' /\ RegistryTypes'
<1> DEFINE family   == UNION {Family(s) : s \in S}
           requests == {r \in arb_sequence_q : r.sequence \in family}
           locks    == {l \in lock_list : l.sequence \in family}
           changes  == Cardinality(requests) + Cardinality(locks)
           ids      == {m_sqr_seq_ids[s] : s \in S \cup K}
<1>1. /\ arb_sequence_q' = arb_sequence_q \ requests
      /\ lock_list' = lock_list \ locks
      /\ m_lock_arb_size' = m_lock_arb_size + changes
      /\ arbWaiters' = Notified(changes) \ K
      /\ reg_sequences' = [i \in DOMAIN reg_sequences \ ids |-> reg_sequences[i]]
  BY DEF remove_sequence_from_queues, m_update_lists
<1>2. IsFiniteSet(requests) /\ IsFiniteSet(locks)
  BY FS_Subset DEF QueueTypes
<1>3. changes \in Nat
  BY <1>2, FS_CardinalityType
<1>4. IsFiniteSet(arb_sequence_q') /\ IsFiniteSet(lock_list')
  BY <1>1, FS_Subset DEF QueueTypes
<1>5. m_lock_arb_size' \in Nat \cup {-1}
  <2> HIDE DEF changes
  <2> QED BY <1>1, <1>3 DEF QueueTypes
<1>6. arbWaiters' \subseteq Seqs \cup {Driver}
  <2> HIDE DEF changes
  <2> QED BY <1>1 DEF QueueTypes, Notified
<1>7. QueueTypes'
  <2>1. arb_sequence_q' \subseteq Request /\ lock_list' \subseteq [sequence : Seqs, stamp : Nat]
    BY <1>1 DEF QueueTypes
  <2> HIDE DEF requests, locks, changes
  <2> QED BY <1>4, <1>5, <1>6, <2>1 DEF QueueTypes
<1>8. RegistryTypes'
  <2> HIDE DEF ids
  <2>1. /\ DOMAIN reg_sequences' = DOMAIN reg_sequences \ ids
        /\ \A i \in DOMAIN reg_sequences' : reg_sequences'[i] = reg_sequences[i]
    BY <1>1
  <2>2. reg_sequences' \in [DOMAIN reg_sequences' -> Seqs \cup {NULL}]
    BY <1>1, <2>1 DEF RegistryTypes
  <2> QED BY <2>1, <2>2 DEF RegistryTypes
<1> QED
  BY <1>7, <1>8

-----------------------------------------------------------------------------
(* Type correctness *)

\* start, start_item, lock, grab and unlock keep the types: what a sequence does
\* until it waits for its grant.
LEMMA RequestStepType ==
  ASSUME TypeOK, NEW s \in Seqs,
         \/ Start(s) \/ SetRelevant(s) \/ Lock(s) \/ Grab(s) \/ m_unlock_req(s)
         \/ \E lock_request \in BOOLEAN : wait_for_grant(s, lock_request)
  PROVE  TypeOK'
<1> USE DEF TypeOK, Ids
<1>1. CASE Start(s)
  <2>1. QueueTypes' /\ ItemTypes'
    BY <1>1 DEF Start, QueueTypes, ItemTypes, queueVars, itemVars, flagVars
  <2>2. RegistryTypes'
    BY <1>1 DEF Start, RegistryTypes
  <2>3. ProcessTypes'
    BY <1>1 DEF Start, ProcessTypes, Stopped, Running
  <2> QED BY <2>1, <2>2, <2>3
<1>2. CASE SetRelevant(s)
  BY <1>2 DEF SetRelevant, QueueTypes, RegistryTypes, ItemTypes, ProcessTypes,
              queueVars, regVars, itemVars, flagVars
<1>3. ASSUME NEW front \in BOOLEAN, m_lock_req(s, front) PROVE TypeOK'
  <2> DEFINE new == [request |-> "LOCK", sequence |-> s, item_priority |-> 0,
                     request_id |-> g_request_id, front |-> front]
             Q == arb_sequence_q \cup {new}
             n == IF front THEN 1 ELSE 0
  <2>1. new \in Request
    BY DEF QueueTypes, Request
  <2>2. Q \subseteq Request /\ IsFiniteSet(Q)
    BY <2>1, FS_AddElement DEF QueueTypes
  <2>3. n \in Nat
    OBVIOUS
  <2>4. PICK G \in SUBSET Q :
          /\ arb_sequence_q' = Q \ G
          /\ lock_list' = lock_list \cup GrantedLocks(G, n)
          /\ m_update_lists(n + Cardinality(G))
          /\ \/ /\ arb_completed' = arb_completed \cup (request_ids(G) \ {g_request_id})
                /\ arbWaiters' = Notified(n + Cardinality(G))
                /\ pc' = pc
             \/ /\ arb_completed' = arb_completed \cup request_ids(G)
                /\ arbWaiters' = Notified(n + Cardinality(G)) \cup {s}
                /\ pc' = [pc EXCEPT ![s] = "waitLock"]
    BY <1>3 DEF m_lock_req
  <2> HIDE DEF Q, n, new
  <2>5. G \subseteq Request /\ IsFiniteSet(G) /\ Cardinality(G) \in Nat
    BY <2>2, FS_Subset, FS_CardinalityType
  <2>6. arb_sequence_q' \subseteq Request /\ IsFiniteSet(arb_sequence_q')
    BY <2>2, <2>4, FS_Subset
  <2>7. lock_list' \subseteq [sequence : Seqs, stamp : Nat] /\ IsFiniteSet(lock_list')
    BY <2>3, <2>4, <2>5, GrantedLocksType, FS_Union DEF QueueTypes
  <2>8. request_ids(G) \subseteq Nat
    BY <2>5 DEF request_ids, Request
  <2>9. QueueTypes'
    <3>1. m_arb_size' = m_arb_size /\ g_request_id' = g_request_id + 1
      BY <1>3 DEF m_lock_req
    <3>2. m_lock_arb_size' \in Nat \cup {-1}
      BY <2>3, <2>4, <2>5 DEF m_update_lists, QueueTypes
    <3>3. arbWaiters' \subseteq Seqs \cup {Driver}
      BY <2>4 DEF Notified, QueueTypes
    <3>4. arb_completed' \subseteq Nat
      BY <2>4, <2>8 DEF QueueTypes
    <3> QED
      BY <2>6, <2>7, <3>1, <3>2, <3>3, <3>4 DEF QueueTypes
  <2>10. RegistryTypes' /\ ItemTypes'
    BY <1>3 DEF m_lock_req, RegistryTypes, ItemTypes, regVars, itemVars, flagVars
  <2>11. ProcessTypes'
    BY <1>3, <2>4 DEF m_lock_req, ProcessTypes, QueueTypes, Running
  <2> QED BY <2>9, <2>10, <2>11
<1>4. CASE Lock(s) \/ Grab(s)
  BY <1>3, <1>4 DEF Lock, Grab
<1>5. CASE m_unlock_req(s)
  <2>1. IsFiniteSet(lock_list')
    BY <1>5, FS_Subset DEF m_unlock_req, QueueTypes
  <2>2. QueueTypes'
    BY <1>5, <2>1 DEF m_unlock_req, m_update_lists, QueueTypes
  <2> QED
    BY <1>5, <2>2 DEF m_unlock_req, RegistryTypes, ItemTypes, ProcessTypes,
                      regVars, itemVars, flagVars, seqVars
<1>6. ASSUME NEW lock_request \in BOOLEAN, wait_for_grant(s, lock_request)
      PROVE TypeOK'
  <2> DEFINE n == IF lock_request THEN 1 ELSE 0
             lock == [request |-> "LOCK", sequence |-> s, item_priority |-> m_priority[s],
                      request_id |-> g_request_id, front |-> FALSE]
             req == [request |-> "REQ", sequence |-> s, item_priority |-> m_priority[s],
                     request_id |-> g_request_id + n, front |-> FALSE]
             locks == IF lock_request THEN {lock} ELSE {}
  <2>1. n \in Nat
    OBVIOUS
  <2>2. req \in Request /\ lock \in Request
    BY PriorityAssumption DEF QueueTypes, Request
  <2>3. locks \subseteq Request /\ IsFiniteSet(locks)
    BY <2>2, FS_EmptySet, FS_Singleton
  <2>4. arb_sequence_q' = arb_sequence_q \cup {req} \cup locks
    BY <1>6 DEF wait_for_grant
  <2>5. /\ pc' = [pc EXCEPT ![s] = "waitGrant"]
        /\ request_id' = [request_id EXCEPT ![s] = g_request_id + n]
        /\ g_request_id' = g_request_id + n + 1
    BY <1>6 DEF wait_for_grant
  <2> HIDE DEF n, req, lock, locks
  <2>6. arb_sequence_q' \subseteq Request /\ IsFiniteSet(arb_sequence_q')
    BY <2>2, <2>3, <2>4, FS_Union, FS_Singleton DEF QueueTypes
  <2>7. QueueTypes'
    BY <1>6, <2>1, <2>5, <2>6 DEF wait_for_grant, m_update_lists, QueueTypes
  <2>8. RegistryTypes' /\ ItemTypes'
    BY <1>6 DEF wait_for_grant, RegistryTypes, ItemTypes, regVars, itemVars, flagVars
  <2>9. ProcessTypes'
    BY <1>6, <2>1, <2>5 DEF wait_for_grant, ProcessTypes, QueueTypes, Running
  <2> QED BY <2>7, <2>8, <2>9
<1> QED
  BY <1>1, <1>2, <1>4, <1>5, <1>6

\* The grant, the item and its completion keep the types.
LEMMA ItemStepType ==
  ASSUME TypeOK, NEW s \in Seqs,
         \/ m_wait_for_arbitration_completed(s)
         \/ \E wait \in BOOLEAN : send_request(s, wait)
         \/ wait_for_item_done(s) \/ ItemDoneWoken(s) \/ BodyEnd(s)
  PROVE  TypeOK'
<1> USE DEF TypeOK, Ids
<1>1. CASE m_wait_for_arbitration_completed(s)
  <2>1. QueueTypes'
    BY <1>1 DEF m_wait_for_arbitration_completed, QueueTypes, queueVars
  <2>2. RegistryTypes' /\ ItemTypes'
    BY <1>1 DEF m_wait_for_arbitration_completed, RegistryTypes, ItemTypes,
                regVars, itemVars, flagVars
  <2>3. ProcessTypes'
    BY <1>1 DEF m_wait_for_arbitration_completed, ProcessTypes, Running
  <2> QED BY <2>1, <2>2, <2>3
<1>2. ASSUME NEW wait \in BOOLEAN, send_request(s, wait) PROVE TypeOK'
  <2> DEFINE item == [sequence |-> s, sequence_id |-> m_sqr_seq_ids[s], visible |-> FALSE]
  <2>1. QueueTypes'
    BY <1>2, GrantQueuedLocksType DEF send_request
  <2>2. RegistryTypes'
    BY <1>2 DEF send_request, RegistryTypes, regVars
  <2>3. m_req_fifo' \in Seq(Items)
    <3>1. m_req_fifo' = m_req_fifo \/ m_req_fifo' = Append(m_req_fifo, item)
      BY <1>2 DEF send_request
    <3>2. item \in Items
      BY DEF RegistryTypes, Items
    <3> QED BY <3>1, <3>2, AppendProperties DEF ItemTypes
  <2>4. ItemTypes'
    BY <1>2, <2>3 DEF send_request, ItemTypes, flagVars
  <2>5. ProcessTypes'
    <3>1. m_wait_for_grant_semaphore' \in [Seqs -> Nat]
      BY <1>2 DEF send_request, ProcessTypes
    <3>2. pc' \in [Seqs -> Stopped \cup Running] /\ halted' \in {"no", "fatal", "exit"}
      BY <1>2 DEF send_request, ProcessTypes, Running
    <3>3. UNCHANGED <<relevant, request_id, exiting, driver>>
      BY <1>2 DEF send_request
    <3> QED BY <3>1, <3>2, <3>3 DEF ProcessTypes
  <2> QED BY <2>1, <2>2, <2>4, <2>5
<1>3. CASE wait_for_item_done(s) \/ ItemDoneWoken(s) \/ BodyEnd(s)
  <2>1. QueueTypes' /\ RegistryTypes'
    BY <1>3 DEF wait_for_item_done, ItemDoneWoken, BodyEnd, QueueTypes, RegistryTypes,
                queueVars, regVars
  <2>2. ItemTypes'
    BY <1>3 DEF wait_for_item_done, ItemDoneWoken, BodyEnd, ItemTypes, itemVars, flagVars
  <2>3. ProcessTypes'
    BY <1>3 DEF wait_for_item_done, ItemDoneWoken, BodyEnd, ProcessTypes, Stopped, Running
  <2> QED BY <2>1, <2>2, <2>3
<1> QED
  BY <1>1, <1>2, <1>3

\* Leaving the sequencer and dying keep the types.
LEMMA ExitStepType ==
  ASSUME TypeOK,
         \/ \E s \in Seqs : StartReturns(s) \/ Kill(s)
         \/ stop_sequences
  PROVE  TypeOK'
<1> USE DEF TypeOK, Ids
<1>1. ASSUME NEW S \in SUBSET Seqs, m_kill_sequences(S),
             UNCHANGED <<arb_completed, m_arb_size, g_request_id, m_sqr_seq_ids,
                         g_sequence_id, m_wait_for_grant_semaphore, relevant,
                         request_id, driver, halted>>
      PROVE  QueueTypes' /\ RegistryTypes' /\ ProcessTypes' /\ itemWaiters' \subseteq Seqs
  <2> DEFINE K == Killed(S)
  <2>1. K \in SUBSET Seqs
    BY DEF Killed, Family
  <2>2. remove_sequence_from_queues(S, K) /\ itemWaiters' = itemWaiters \ K
    BY <1>1 DEF m_kill_sequences
  <2>3. pc' = [s \in Seqs |-> IF s \in K THEN "stopped" ELSE pc[s]]
    BY <1>1 DEF m_kill_sequences
  <2>4. PICK P : exiting' = [s \in Seqs |->
                   CASE s \in K /\ P[s]      -> 0
                     [] s \in K /\ ~P[s] /\ pc[s] \in Running -> exiting[s] + 1
                     [] OTHER -> exiting[s]]
    <3> DEFINE O == [s \in Seqs |-> \E p \in K : is_child(p, s)]
    <3>1. exiting' = [s \in Seqs |->
                   CASE s \in K /\ O[s]      -> 0
                     [] s \in K /\ ~O[s] /\ pc[s] \in Running -> exiting[s] + 1
                     [] OTHER -> exiting[s]]
      BY <1>1 DEF m_kill_sequences
    <3> QED BY <3>1
  <2> HIDE DEF K
  <2>5. exiting' \in [Seqs -> Nat]
    BY <2>4 DEF ProcessTypes
  <2>6. ProcessTypes'
    BY <1>1, <2>3, <2>5 DEF ProcessTypes, Stopped, Running
  <2> QED BY <1>1, <2>1, <2>2, <2>6, RemoveType DEF ItemTypes
<1>2. ASSUME NEW s \in Seqs, StartReturns(s) PROVE TypeOK'
  <2>1. QueueTypes' /\ RegistryTypes'
    <3>1. CASE pc[s] = "stopped"
      BY <1>2, <3>1 DEF StartReturns, QueueTypes, RegistryTypes, queueVars
    <3>2. CASE remove_sequence_from_queues({s}, {})
      BY <1>2, <3>2, RemoveType DEF StartReturns
    <3> QED BY <1>2, <3>1, <3>2 DEF StartReturns
  <2>2. ItemTypes'
    BY <1>2 DEF StartReturns, ItemTypes, itemVars, flagVars
  <2>3. ProcessTypes'
    BY <1>2 DEF StartReturns, ProcessTypes, Running
  <2> QED BY <2>1, <2>2, <2>3
<1>3. ASSUME NEW s \in Seqs, Kill(s) PROVE TypeOK'
  <2>1. QueueTypes' /\ RegistryTypes' /\ ProcessTypes' /\ itemWaiters' \subseteq Seqs
    BY <1>1, <1>3 DEF Kill
  <2>2. ItemTypes'
    BY <1>3, <2>1 DEF Kill, ItemTypes, flagVars
  <2> QED BY <2>1, <2>2
<1>4. CASE stop_sequences
  <2>1. FoundByStop \in SUBSET Seqs
    <3>1. ASSUME NEW i \in DOMAIN reg_sequences,
                 \A k \in DOMAIN reg_sequences : k <= i => reg_sequences[k] # NULL
          PROVE  reg_sequences[i] \in Seqs
      <4>1. i \in Int /\ i <= i
        BY DEF RegistryTypes
      <4> QED BY <3>1, <4>1 DEF RegistryTypes
    <3> QED BY <3>1 DEF FoundByStop
  <2>2. QueueTypes' /\ RegistryTypes' /\ ProcessTypes' /\ itemWaiters' \subseteq Seqs
    BY <1>1, <1>4, <2>1 DEF stop_sequences
  <2>3. m_req_fifo' \in Seq(Items)
    BY <1>4, SubSeqProperties DEF stop_sequences, ItemTypes
  <2>4. ItemTypes'
    BY <1>4, <2>2, <2>3 DEF stop_sequences, ItemTypes
  <2> QED BY <2>2, <2>4
<1> QED
  BY <1>2, <1>3, <1>4

\* Both callers of m_choose_next_request change the queue in this way.
LEMMA SelectionShape ==
  ASSUME QueueTypes, m_select_sequence \/ TryChoose
  PROVE  \E G \in SUBSET arb_sequence_q : \E R \in SUBSET (arb_sequence_q \ G) :
           /\ IsGrantSet(G, arb_sequence_q, Owners(lock_list)) /\ IsFiniteSet(R)
           /\ arb_sequence_q' = (arb_sequence_q \ G) \ R
           /\ lock_list' = lock_list \cup GrantedLocks(G, 0)
           /\ arb_completed' = arb_completed \cup request_ids(G \cup R)
           /\ m_lock_arb_size' = m_lock_arb_size + (Cardinality(G) + Cardinality(R))
           /\ m_arb_size' \in {m_arb_size, m_lock_arb_size'}
           /\ arbWaiters' \subseteq arbWaiters \cup {Driver}
           /\ m_lock_arb_size < m_lock_arb_size' => arbWaiters' \subseteq {Driver}
           /\ g_request_id' = g_request_id
<1> DEFINE avail(G) == Available(arb_sequence_q \ G,
                                 Owners(lock_list \cup GrantedLocks(G, 0)), relevant)
<1>1. PICK G \in SUBSET arb_sequence_q :
        /\ IsGrantSet(G, arb_sequence_q, Owners(lock_list))
        /\ lock_list' = lock_list \cup GrantedLocks(G, 0)
        /\ g_request_id' = g_request_id
        /\ m_arb_size' \in {m_arb_size, m_lock_arb_size'}
        /\ arbWaiters' \subseteq arbWaiters \cup {Driver}
        /\ \/ /\ arb_sequence_q' = arb_sequence_q \ G
              /\ arb_completed' = arb_completed \cup request_ids(G)
              /\ m_update_lists(Cardinality(G))
              /\ Cardinality(G) > 0 => arbWaiters' \subseteq {Driver}
           \/ \E r \in m_choose_next_request(avail(G), m_arbitration) :
              /\ arb_sequence_q' = (arb_sequence_q \ G) \ {r}
              /\ arb_completed' = arb_completed \cup request_ids(G \cup {r})
              /\ m_update_lists(Cardinality(G) + 1)
              /\ arbWaiters' \subseteq {Driver}
  BY DEF m_select_sequence, TryChoose, Notified
<1>2. Cardinality(G) \in Nat /\ m_lock_arb_size \in Int
  BY FS_Subset, FS_CardinalityType DEF QueueTypes
<1>3. CASE /\ arb_sequence_q' = arb_sequence_q \ G
           /\ arb_completed' = arb_completed \cup request_ids(G)
           /\ m_update_lists(Cardinality(G))
           /\ Cardinality(G) > 0 => arbWaiters' \subseteq {Driver}
  <2>1. IsFiniteSet({}) /\ Cardinality({}) = 0
    BY FS_EmptySet
  <2>2. {} \in SUBSET (arb_sequence_q \ G) /\ arb_sequence_q' = (arb_sequence_q \ G) \ {}
    BY <1>3
  <2>3. arb_completed' = arb_completed \cup request_ids(G \cup {})
    BY <1>3 DEF request_ids
  <2>4. m_lock_arb_size' = m_lock_arb_size + (Cardinality(G) + Cardinality({}))
    BY <1>2, <1>3, <2>1 DEF m_update_lists
  <2>5. m_lock_arb_size < m_lock_arb_size' => arbWaiters' \subseteq {Driver}
    BY <1>2, <1>3 DEF m_update_lists
  <2> QED BY <1>1, <2>1, <2>2, <2>3, <2>4, <2>5
<1>4. ASSUME NEW r \in m_choose_next_request(avail(G), m_arbitration),
             arb_sequence_q' = (arb_sequence_q \ G) \ {r},
             arb_completed' = arb_completed \cup request_ids(G \cup {r}),
             m_update_lists(Cardinality(G) + 1), arbWaiters' \subseteq {Driver}
      PROVE  /\ {r} \in SUBSET (arb_sequence_q \ G) /\ IsFiniteSet({r})
             /\ m_lock_arb_size' = m_lock_arb_size + (Cardinality(G) + Cardinality({r}))
  BY <1>2, <1>4, FS_Singleton DEF m_choose_next_request, Available, m_update_lists
<1> HIDE DEF avail
<1> QED BY <1>1, <1>3, <1>4

\* Selection by the driver keeps the types of the arbitration state.
LEMMA SelectionType ==
  ASSUME QueueTypes, m_select_sequence \/ TryChoose PROVE QueueTypes'
<1>1. PICK G \in SUBSET arb_sequence_q :
        \E R \in SUBSET (arb_sequence_q \ G) :
          /\ IsGrantSet(G, arb_sequence_q, Owners(lock_list)) /\ IsFiniteSet(R)
          /\ arb_sequence_q' = (arb_sequence_q \ G) \ R
          /\ lock_list' = lock_list \cup GrantedLocks(G, 0)
          /\ arb_completed' = arb_completed \cup request_ids(G \cup R)
          /\ m_lock_arb_size' = m_lock_arb_size + (Cardinality(G) + Cardinality(R))
          /\ m_arb_size' \in {m_arb_size, m_lock_arb_size'}
          /\ arbWaiters' \subseteq arbWaiters \cup {Driver}
          /\ m_lock_arb_size < m_lock_arb_size' => arbWaiters' \subseteq {Driver}
          /\ g_request_id' = g_request_id
  BY SelectionShape
<1>2. PICK R \in SUBSET (arb_sequence_q \ G) :
          /\ IsGrantSet(G, arb_sequence_q, Owners(lock_list)) /\ IsFiniteSet(R)
          /\ arb_sequence_q' = (arb_sequence_q \ G) \ R
          /\ lock_list' = lock_list \cup GrantedLocks(G, 0)
          /\ arb_completed' = arb_completed \cup request_ids(G \cup R)
          /\ m_lock_arb_size' = m_lock_arb_size + (Cardinality(G) + Cardinality(R))
          /\ m_arb_size' \in {m_arb_size, m_lock_arb_size'}
          /\ arbWaiters' \subseteq arbWaiters \cup {Driver}
          /\ m_lock_arb_size < m_lock_arb_size' => arbWaiters' \subseteq {Driver}
          /\ g_request_id' = g_request_id
  BY <1>1
<1>3. IsFiniteSet(G) /\ Cardinality(G) \in Nat /\ G \subseteq Request
  BY FS_Subset, FS_CardinalityType DEF QueueTypes
<1>4. arb_sequence_q' \subseteq Request /\ IsFiniteSet(arb_sequence_q')
  BY <1>2, FS_Subset DEF QueueTypes
<1>5. lock_list' \subseteq [sequence : Seqs, stamp : Nat] /\ IsFiniteSet(lock_list')
  BY <1>2, <1>3, GrantedLocksType, FS_Union DEF QueueTypes
<1>6. arb_completed' \subseteq Nat
  BY <1>2, <1>3 DEF QueueTypes, request_ids, Request
<1>7. m_lock_arb_size' \in Nat \cup {-1}
  BY <1>2, <1>3, FS_CardinalityType DEF QueueTypes
<1> QED
  BY <1>2, <1>4, <1>5, <1>6, <1>7 DEF QueueTypes

\* Every step of the driver keeps the types.
LEMMA DriverStepType ==
  ASSUME TypeOK, DriverStep \/ UpdateFifo PROVE TypeOK'
<1> USE DEF TypeOK, Ids
<1>1. CASE get_next_item \/ m_wait_arb_not_equal \/ peek \/ try_next_item \/ TryPeek
           \/ ItemDoneFatal
  <2> USE DEF get_next_item, m_wait_arb_not_equal, peek, try_next_item, TryPeek,
              ItemDoneFatal, queueVars, regVars, itemVars, flagVars, seqVars
  <2>1. QueueTypes'
    BY <1>1 DEF QueueTypes
  <2>2. RegistryTypes' /\ ItemTypes'
    BY <1>1 DEF RegistryTypes, ItemTypes
  <2>3. ProcessTypes'
    BY <1>1 DEF ProcessTypes
  <2> QED BY <2>1, <2>2, <2>3
<1>2. CASE m_select_sequence \/ TryChoose
  <2>1. QueueTypes'
    BY <1>2, SelectionType
  <2>2. RegistryTypes' /\ ItemTypes'
    BY <1>2 DEF m_select_sequence, TryChoose, RegistryTypes, ItemTypes, regVars,
                itemVars, flagVars
  <2>3. ProcessTypes'
    BY <1>2 DEF m_select_sequence, TryChoose, ProcessTypes, seqVars
  <2> QED BY <2>1, <2>2, <2>3
<1>3. ASSUME TakeDoneItem
      PROVE  /\ m_req_fifo' \in Seq(Items) /\ m_wait_for_item_sequence_id' \in Ids
             /\ sequence_item_requested' \in BOOLEAN /\ get_next_item_called' \in BOOLEAN
             /\ itemWaiters' \subseteq Seqs
             /\ Head(m_req_fifo).sequence_id \in Ids
  <2>1. m_req_fifo # <<>> /\ m_req_fifo \in Seq(Items)
    BY <1>3 DEF TakeDoneItem, HasItem, ItemTypes
  <2>2. Head(m_req_fifo) \in Items /\ Tail(m_req_fifo) \in Seq(Items)
    BY <2>1, HeadTailProperties
  <2> QED BY <1>3, <2>2 DEF TakeDoneItem, Items
<1>4. CASE item_done \/ PutReturns
  <2>1. QueueTypes'
    BY <1>4, GrantQueuedLocksType DEF item_done, PutReturns
  <2>2. RegistryTypes' /\ ItemTypes'
    BY <1>3, <1>4 DEF item_done, PutReturns, RegistryTypes, ItemTypes, regVars,
                      itemVars, flagVars
  <2>3. ProcessTypes'
    BY <1>4 DEF item_done, PutReturns, ProcessTypes, seqVars
  <2> QED BY <2>1, <2>2, <2>3
<1>5. CASE item_done_rsp
  <2> DEFINE id == Head(m_req_fifo).sequence_id
  <2>1. /\ TakeDoneItem
        /\ reg_sequences' = [i \in DOMAIN reg_sequences \cup {id} |->
                              IF i \in DOMAIN reg_sequences THEN reg_sequences[i] ELSE NULL]
    BY <1>5 DEF item_done_rsp, m_find_sequence
  <2>2. id \in Ids
    BY <1>3, <2>1
  <2>3. QueueTypes' /\ ItemTypes' /\ ProcessTypes'
    BY <1>3, <1>5, <2>1 DEF item_done_rsp, QueueTypes, ItemTypes, ProcessTypes,
                            queueVars, seqVars
  <2> HIDE DEF id
  <2>4. RegistryTypes'
    BY <1>5, <2>1, <2>2 DEF item_done_rsp, RegistryTypes
  <2> QED BY <2>3, <2>4
<1>6. CASE UpdateFifo
  <2>1. m_req_fifo' \in Seq(Items)
    <3>1. \A i \in 1 .. Len(m_req_fifo) : m_req_fifo[i] \in Items
      BY ElementOfSeq DEF ItemTypes
    <3>2. /\ DOMAIN m_req_fifo = 1 .. Len(m_req_fifo)
          /\ Len(m_req_fifo) \in Nat
      BY LenProperties DEF ItemTypes
    <3>3. m_req_fifo' = [i \in 1 .. Len(m_req_fifo) |->
                          [m_req_fifo[i] EXCEPT !.visible = TRUE]]
      BY <1>6, <3>2 DEF UpdateFifo
    <3>4. \A i \in 1 .. Len(m_req_fifo) : [m_req_fifo[i] EXCEPT !.visible = TRUE] \in Items
      BY <3>1 DEF Items
    <3> QED BY <3>2, <3>3, <3>4, IsASeq
  <2>2. ItemTypes'
    BY <1>6, <2>1 DEF UpdateFifo, ItemTypes, flagVars
  <2>3. QueueTypes' /\ RegistryTypes' /\ ProcessTypes'
    BY <1>6 DEF UpdateFifo, QueueTypes, RegistryTypes, ProcessTypes, queueVars,
                regVars, seqVars
  <2> QED BY <2>2, <2>3
<1> QED
  BY <1>1, <1>2, <1>4, <1>5, <1>6 DEF DriverStep

\* The initial state has the types.
LEMMA InitType == Init => TypeOK
<1> SUFFICES ASSUME Init PROVE TypeOK
  OBVIOUS
<1>1. QueueTypes
  BY FS_EmptySet DEF Init, QueueTypes
<1>2. RegistryTypes
  BY DEF Init, RegistryTypes, Ids
<1>3. ItemTypes
  BY EmptySeq DEF Init, ItemTypes, Ids
<1>4. ProcessTypes
  BY DEF Init, ProcessTypes, Stopped
<1> QED BY <1>1, <1>2, <1>3, <1>4 DEF TypeOK

\* Every step keeps the types.
LEMMA TypeStep == TypeOK /\ [Next]_vars => TypeOK'
<1> SUFFICES ASSUME TypeOK, [Next]_vars PROVE TypeOK'
  OBVIOUS
<1>1. ASSUME NEW s \in Seqs, Step(s) PROVE TypeOK'
  BY <1>1, RequestStepType, ItemStepType, ExitStepType DEF Step
<1>2. CASE UNCHANGED vars
  BY <1>2 DEF TypeOK, QueueTypes, RegistryTypes, ItemTypes, ProcessTypes, vars,
              queueVars, regVars, itemVars, flagVars, seqVars
<1> QED BY <1>1, <1>2, ExitStepType, DriverStepType DEF Next

\* Type correctness of the sequencer, its sequences and its driver (TypeOK).
THEOREM TypeCorrect == Spec => []TypeOK
  BY InitType, TypeStep, PTL DEF Spec

-----------------------------------------------------------------------------
(* The inductive invariant: what granting, requesting and removing preserve *)

\* Requests with different ids have different places in the queue.
LEMMA PosDistinct ==
  ASSUME NEW r \in Request, NEW x \in Request, r.request_id # x.request_id
  PROVE  Pos(r) # Pos(x)
  BY DEF Request, Pos

\* Granting keeps the locks a chain (grant_queued_locks): a granted request is
\* not blocked by any lock held before, nor by one granted on the way to it.
LEMMA GrantKeepsChain ==
  ASSUME QueueTypes, LockChain, \A l \in lock_list : l.stamp <= m_lock_arb_size,
         NEW k \in Nat, NEW Q, Q \subseteq Request, IsFiniteSet(Q),
         \A r, x \in Q : r.request_id = x.request_id => r = x,
         NEW G \in SUBSET Q, IsGrantSet(G, Q, Owners(lock_list)),
         lock_list' = lock_list \cup GrantedLocks(G, k)
  PROVE  /\ LockChain'
         /\ \A l \in lock_list' : l.stamp <= m_lock_arb_size + k + Cardinality(G)
<1>1. G \subseteq Request /\ IsFiniteSet(G) /\ Cardinality(G) \in Nat
  BY FS_Subset, FS_CardinalityType
<1>2. m_lock_arb_size \in Int
  BY DEF QueueTypes
<1>3. \A l \in GrantedLocks(G, k) :
        l.stamp \in Nat /\ m_lock_arb_size + k < l.stamp
        /\ l.stamp <= m_lock_arb_size + k + Cardinality(G)
  BY <1>1, GrantedLocksType DEF QueueTypes
<1>4. \A l \in lock_list : l.stamp \in Nat /\ l.stamp <= m_lock_arb_size
  BY DEF QueueTypes
<1>5. \A l \in lock_list' : l.stamp <= m_lock_arb_size + k + Cardinality(G)
  BY <1>1, <1>2, <1>3, <1>4
<1>6. \A r \in G : \A h \in Owners(lock_list) \cup Owners(Before(r, G)) :
        h = r.sequence \/ is_child(h, r.sequence)
  BY DEF IsGrantSet, is_blocked
<1>7. ASSUME NEW a \in lock_list', NEW b \in lock_list', a.stamp <= b.stamp
      PROVE  \/ a = b
             \/ a.stamp < b.stamp /\ (a.sequence = b.sequence \/ is_child(a.sequence, b.sequence))
  <2>1. CASE a \in lock_list /\ b \in lock_list
    BY <1>7, <2>1 DEF LockChain
  <2>2. CASE a \in GrantedLocks(G, k) /\ b \in lock_list
    BY <1>2, <1>3, <1>4, <1>7, <2>2
  <2>3. CASE a \in lock_list /\ b \in GrantedLocks(G, k)
    <3>1. PICK r \in G : b.sequence = r.sequence
      BY <2>3 DEF GrantedLocks
    <3>2. a.sequence \in Owners(lock_list)
      BY <2>3 DEF Owners
    <3> QED BY <1>2, <1>3, <1>4, <1>6, <2>3, <3>1, <3>2
  <2>4. CASE a \in GrantedLocks(G, k) /\ b \in GrantedLocks(G, k)
    <3>1. PICK r \in G : a = [sequence |-> r.sequence,
                              stamp |-> m_lock_arb_size + k + Cardinality(UpTo(r, G))]
      BY <2>4 DEF GrantedLocks
    <3>2. PICK x \in G : b = [sequence |-> x.sequence,
                              stamp |-> m_lock_arb_size + k + Cardinality(UpTo(x, G))]
      BY <2>4 DEF GrantedLocks
    <3>3. Pos(r) \in Int /\ Pos(x) \in Int
      BY <1>1, PosType
    <3>4. Cardinality(UpTo(r, G)) \in Nat /\ Cardinality(UpTo(x, G)) \in Nat
      BY <1>1, RankBounds
    <3>5. Cardinality(UpTo(r, G)) <= Cardinality(UpTo(x, G))
      BY <1>2, <1>7, <3>1, <3>2, <3>4
    <3>6. CASE r = x
      BY <3>1, <3>2, <3>6
    <3>7. CASE Pos(r) < Pos(x)
      <4>1. r.sequence \in Owners(Before(x, G))
        BY <3>7 DEF Owners, Before
      <4>2. Cardinality(UpTo(r, G)) < Cardinality(UpTo(x, G))
        BY <1>1, <3>7, RankOrder
      <4>3. a.stamp < b.stamp
        BY <1>2, <3>1, <3>2, <3>4, <4>2
      <4> QED BY <1>6, <3>1, <3>2, <4>1, <4>3
    <3>8. CASE r # x /\ ~(Pos(r) < Pos(x))
      <4>1. Pos(x) < Pos(r)
        BY <1>1, <3>3, <3>8, PosDistinct
      <4>2. Cardinality(UpTo(x, G)) < Cardinality(UpTo(r, G))
        BY <1>1, <4>1, RankOrder
      <4> QED BY <3>4, <3>5, <4>2
    <3> QED BY <3>6, <3>7, <3>8
  <2> QED BY <2>1, <2>2, <2>3, <2>4
<1> QED BY <1>5, <1>7 DEF LockChain

\* The part of the invariant that is about the lists and counters only.
ArbInv == SizeBounds /\ IdBounds /\ LockChain

\* What every action but a new request does to the lists: it keeps ArbInv, a
\* change advances m_lock_arb_size and wakes every sequence, and only a change
\* grants requests.
ListStep ==
  /\ ArbInv'
  /\ m_lock_arb_size <= m_lock_arb_size'
  /\ m_lock_arb_size' = m_lock_arb_size => UNCHANGED <<arb_sequence_q, lock_list>>
  /\ \A id \in arb_completed' : \/ id \in arb_completed
                                \/ m_lock_arb_size < m_lock_arb_size' /\ 0 < m_lock_arb_size'
  /\ arbWaiters' \cap Seqs \subseteq arbWaiters
  /\ m_lock_arb_size < m_lock_arb_size' => arbWaiters' \cap Seqs = {}

\* What every action but the driver's own falling asleep does to the driver.
DriverUndisturbed ==
  /\ driver' = "arbWait" => driver = "arbWait"
  /\ m_arb_size' = m_arb_size
  /\ halted' # "exit"
  /\ Driver \in arbWaiters' => Driver \in arbWaiters /\ m_lock_arb_size' = m_lock_arb_size

\* Granting the locks G and the requests R is a ListStep on the lists.
LEMMA GrantFacts ==
  ASSUME QueueTypes, ArbInv,
         NEW G \in SUBSET arb_sequence_q,
         IsGrantSet(G, arb_sequence_q, Owners(lock_list)),
         NEW R \in SUBSET (arb_sequence_q \ G), IsFiniteSet(R),
         arb_sequence_q' = (arb_sequence_q \ G) \ R,
         lock_list' = lock_list \cup GrantedLocks(G, 0),
         arb_completed' = arb_completed \cup request_ids(G \cup R),
         m_lock_arb_size' = m_lock_arb_size + (Cardinality(G) + Cardinality(R)),
         m_arb_size' \in {m_arb_size, m_lock_arb_size'}, g_request_id' = g_request_id
  PROVE  /\ ArbInv'
         /\ m_lock_arb_size <= m_lock_arb_size'
         /\ m_lock_arb_size' = m_lock_arb_size => UNCHANGED <<arb_sequence_q, lock_list>>
         /\ \A id \in arb_completed' : \/ id \in arb_completed
                                       \/ m_lock_arb_size < m_lock_arb_size' /\ 0 < m_lock_arb_size'
<1> USE DEF ArbInv
<1>1. IsFiniteSet(G) /\ Cardinality(G) \in Nat /\ Cardinality(R) \in Nat
  BY FS_Subset, FS_CardinalityType DEF QueueTypes
<1>2. m_lock_arb_size \in Int /\ m_arb_size \in Int
  BY DEF QueueTypes
<1>3. /\ LockChain'
      /\ \A l \in lock_list' : l.stamp <= m_lock_arb_size + 0 + Cardinality(G)
  <2>1. /\ \A l \in lock_list : l.stamp <= m_lock_arb_size
        /\ \A r, x \in arb_sequence_q : r.request_id = x.request_id => r = x
    BY DEF SizeBounds, IdBounds
  <2>2. 0 \in Nat /\ arb_sequence_q \subseteq Request /\ IsFiniteSet(arb_sequence_q)
    BY DEF QueueTypes
  <2> QED BY <2>1, <2>2, GrantKeepsChain
<1>4. \A l \in lock_list' : l.stamp \in Nat
  <2>1. GrantedLocks(G, 0) \subseteq [sequence : Seqs, stamp : Nat]
    BY <1>1, GrantedLocksType DEF QueueTypes
  <2> QED BY <2>1 DEF QueueTypes
<1>5. SizeBounds'
  BY <1>1, <1>2, <1>3, <1>4 DEF SizeBounds
<1>6. IdBounds'
  BY DEF IdBounds, request_ids
<1>7. m_lock_arb_size' = m_lock_arb_size => G = {} /\ R = {} /\ GrantedLocks(G, 0) = {}
  BY <1>1, <1>2, FS_EmptySet DEF GrantedLocks
<1>8. ASSUME NEW id \in arb_completed', id \notin arb_completed
      PROVE  m_lock_arb_size < m_lock_arb_size' /\ 0 < m_lock_arb_size'
  <2>1. G \cup R # {}
    BY <1>8 DEF request_ids
  <2>2. Cardinality(G) # 0 \/ Cardinality(R) # 0
    BY <1>1, <2>1, FS_EmptySet
  <2>3. m_lock_arb_size >= 0
    BY <2>1 DEF SizeBounds
  <2> QED BY <1>1, <1>2, <2>2, <2>3
<1>9. m_lock_arb_size <= m_lock_arb_size'
  BY <1>1, <1>2
<1>10. m_lock_arb_size' = m_lock_arb_size => UNCHANGED <<arb_sequence_q, lock_list>>
  BY <1>7
<1> QED BY <1>3, <1>5, <1>6, <1>8, <1>9, <1>10

\* grant_queued_locks at the end of send_request and item_done.
LEMMA GrantQueuedLocksStep ==
  ASSUME QueueTypes, ArbInv, grant_queued_locks, UNCHANGED <<m_arb_size, g_request_id>>
  PROVE  ListStep /\ (Driver \in arbWaiters' => Driver \in arbWaiters /\ m_lock_arb_size' = m_lock_arb_size)
<1>1. PICK G \in SUBSET arb_sequence_q :
        /\ IsGrantSet(G, arb_sequence_q, Owners(lock_list))
        /\ arb_sequence_q' = arb_sequence_q \ G
        /\ lock_list' = lock_list \cup GrantedLocks(G, 0)
        /\ arb_completed' = arb_completed \cup request_ids(G)
        /\ m_update_lists(Cardinality(G))
        /\ arbWaiters' = Notified(Cardinality(G))
  BY DEF grant_queued_locks
<1>2. Cardinality(G) \in Nat /\ m_lock_arb_size \in Int
  BY FS_Subset, FS_CardinalityType DEF QueueTypes
<1>3. IsFiniteSet({}) /\ Cardinality({}) = 0
  BY FS_EmptySet
<1>4. m_lock_arb_size' = m_lock_arb_size + Cardinality(G)
  BY <1>1 DEF m_update_lists
<1>5. /\ {} \in SUBSET (arb_sequence_q \ G)
      /\ arb_sequence_q' = (arb_sequence_q \ G) \ {}
      /\ arb_completed' = arb_completed \cup request_ids(G \cup {})
      /\ m_lock_arb_size' = m_lock_arb_size + (Cardinality(G) + Cardinality({}))
  BY <1>1, <1>2, <1>3, <1>4 DEF request_ids
<1>6. /\ ArbInv'
      /\ m_lock_arb_size <= m_lock_arb_size'
      /\ m_lock_arb_size' = m_lock_arb_size => UNCHANGED <<arb_sequence_q, lock_list>>
      /\ \A id \in arb_completed' : \/ id \in arb_completed
                                    \/ m_lock_arb_size < m_lock_arb_size' /\ 0 < m_lock_arb_size'
  BY <1>1, <1>3, <1>5, GrantFacts
<1> QED BY <1>1, <1>2, <1>4, <1>6 DEF ListStep, Notified

\* A sequence leaving the lists only shortens them (remove_sequence_from_queues).
LEMMA RemoveStep ==
  ASSUME QueueTypes, ArbInv, NEW S, NEW K, remove_sequence_from_queues(S, K),
         UNCHANGED <<arb_completed, m_arb_size, g_request_id>>
  PROVE  ListStep /\ (Driver \in arbWaiters' => Driver \in arbWaiters /\ m_lock_arb_size' = m_lock_arb_size)
<1> DEFINE family   == UNION {Family(s) : s \in S}
           requests == {r \in arb_sequence_q : r.sequence \in family}
           locks    == {l \in lock_list : l.sequence \in family}
           changes  == Cardinality(requests) + Cardinality(locks)
<1>1. /\ arb_sequence_q' = arb_sequence_q \ requests
      /\ lock_list' = lock_list \ locks
      /\ m_lock_arb_size' = m_lock_arb_size + changes
      /\ arbWaiters' = Notified(changes) \ K
  BY DEF remove_sequence_from_queues, m_update_lists
<1>2. IsFiniteSet(requests) /\ IsFiniteSet(locks)
  BY FS_Subset DEF QueueTypes
<1>3. /\ Cardinality(requests) \in Nat /\ Cardinality(locks) \in Nat
      /\ m_lock_arb_size \in Int /\ m_arb_size \in Int
      /\ \A l \in lock_list : l.stamp \in Nat
  BY <1>2, FS_CardinalityType DEF QueueTypes
<1>4. changes = 0 => requests = {} /\ locks = {}
  <2>1. changes = 0 => Cardinality(requests) = 0 /\ Cardinality(locks) = 0
    BY <1>3
  <2> HIDE DEF changes
  <2> QED BY <1>2, <2>1, FS_EmptySet
<1>5. changes \in Nat
  BY <1>3
<1> HIDE DEF requests, locks, changes
<1>6. SizeBounds'
  BY <1>1, <1>3, <1>5 DEF ArbInv, SizeBounds
<1>7. IdBounds' /\ LockChain'
  BY <1>1 DEF ArbInv, IdBounds, LockChain
<1> QED BY <1>1, <1>3, <1>4, <1>5, <1>6, <1>7 DEF ListStep, ArbInv, Notified

\* A new lock request (m_lock_req): its own grant is consumed on the spot, and if
\* it is not granted then some lock is held, so the lists have changed before.
LEMMA LockStep ==
  ASSUME TypeOK, IInv, NEW s \in Seqs, NEW front \in BOOLEAN, m_lock_req(s, front)
  PROVE  ArbInv' /\ GrantNotified' /\ (halted = "no" => DriverHasSeen')
<1> DEFINE new == [request |-> "LOCK", sequence |-> s, item_priority |-> 0,
                   request_id |-> g_request_id, front |-> front]
           Q == arb_sequence_q \cup {new}
           n == IF front THEN 1 ELSE 0
<1>1. /\ new \in Request /\ new.request_id = g_request_id
      /\ new.request = "LOCK" /\ new.sequence = s
  BY DEF TypeOK, QueueTypes, Request
<1>2. Q \subseteq Request /\ IsFiniteSet(Q)
  BY <1>1, FS_AddElement DEF TypeOK, QueueTypes
<1>3. n \in Nat
  OBVIOUS
<1>4. \A r \in arb_sequence_q : r.request_id \in Nat /\ r.request_id < g_request_id
  BY DEF IInv, IdBounds, TypeOK, QueueTypes, Request
<1>5. /\ g_request_id \in Nat /\ m_lock_arb_size \in Nat \cup {-1}
      /\ m_arb_size \in Nat \cup {-1} /\ \A id \in arb_completed : id \in Nat
  BY DEF TypeOK, QueueTypes
<1>6. PICK G \in SUBSET Q :
        /\ IsGrantSet(G, Q, Owners(lock_list))
        /\ arb_sequence_q' = Q \ G
        /\ lock_list' = lock_list \cup GrantedLocks(G, n)
        /\ m_update_lists(n + Cardinality(G))
        /\ \/ /\ new \in G
              /\ arb_completed' = arb_completed \cup (request_ids(G) \ {g_request_id})
              /\ arbWaiters' = Notified(n + Cardinality(G))
              /\ pc' = pc
           \/ /\ new \notin G
              /\ arb_completed' = arb_completed \cup request_ids(G)
              /\ arbWaiters' = Notified(n + Cardinality(G)) \cup {s}
              /\ pc' = [pc EXCEPT ![s] = "waitLock"]
  BY DEF m_lock_req
<1>7. /\ UNCHANGED <<m_arb_size, driver, halted, relevant>>
      /\ g_request_id' = g_request_id + 1 /\ pc[s] = "body"
      /\ request_id' = [request_id EXCEPT ![s] = g_request_id]
  BY DEF m_lock_req
<1> HIDE DEF Q, n, new
<1>8. Q = arb_sequence_q \cup {new}
  BY DEF Q
<1>9. IsFiniteSet(G) /\ Cardinality(G) \in Nat /\ G \subseteq Request
  BY <1>2, FS_Subset, FS_CardinalityType
<1>10. m_lock_arb_size' = m_lock_arb_size + (n + Cardinality(G))
  BY <1>6 DEF m_update_lists
<1>11. \A r, x \in Q : r.request_id = x.request_id => r = x
  BY <1>1, <1>4, <1>5, <1>8 DEF IInv, IdBounds
<1>12. /\ LockChain'
       /\ \A l \in lock_list' : l.stamp <= m_lock_arb_size + n + Cardinality(G)
  BY <1>2, <1>3, <1>6, <1>11, GrantKeepsChain DEF IInv, SizeBounds, TypeOK
<1>13. Cardinality(G) = 0 <=> G = {}
  BY <1>9, FS_EmptySet
<1>14. \A l \in lock_list' : l.stamp \in Nat
  <2>1. GrantedLocks(G, n) \subseteq [sequence : Seqs, stamp : Nat]
    BY <1>3, <1>9, GrantedLocksType DEF TypeOK, QueueTypes
  <2> QED BY <1>6, <2>1 DEF TypeOK, QueueTypes
<1>15. G = {} => lock_list # {}
  <2>1. SUFFICES ASSUME G = {} PROVE lock_list # {}
    OBVIOUS
  <2>2. is_blocked(new.sequence, Owners(lock_list) \cup Owners(Before(new, G)))
    BY <1>1, <1>6, <1>8, <2>1 DEF IsGrantSet
  <2>3. Owners(Before(new, G)) = {}
    BY <2>1 DEF Owners, Before
  <2> QED BY <2>2, <2>3 DEF is_blocked, Owners
<1>16. m_lock_arb_size' >= 0
  <2>1. CASE G = {}
    <3>1. PICK l \in lock_list : l.stamp \in Nat /\ l.stamp <= m_lock_arb_size
      BY <1>15, <2>1 DEF IInv, SizeBounds, TypeOK, QueueTypes
    <3> QED BY <1>3, <1>5, <1>9, <1>10, <3>1
  <2>2. CASE G # {}
    BY <1>3, <1>5, <1>9, <1>10, <1>13, <2>2
  <2> QED BY <2>1, <2>2
<1>17. SizeBounds'
  <2>1. m_arb_size' <= m_lock_arb_size'
    BY <1>3, <1>5, <1>7, <1>9, <1>10 DEF IInv, SizeBounds
  <2>2. \A l \in lock_list' : l.stamp <= m_lock_arb_size'
    BY <1>3, <1>5, <1>9, <1>10, <1>12, <1>14
  <2> QED BY <1>16, <2>1, <2>2 DEF SizeBounds
<1>18. IdBounds'
  <2>1. \A r, x \in arb_sequence_q' : r.request_id = x.request_id => r = x
    BY <1>6, <1>11
  <2>2. \A r \in Q : r.request_id \in Nat /\ r.request_id < g_request_id'
    BY <1>1, <1>4, <1>5, <1>7, <1>8
  <2>3. \A id \in arb_completed' : id < g_request_id'
    BY <1>5, <1>6, <1>7, <2>2 DEF IInv, IdBounds, request_ids
  <2> QED BY <1>6, <2>1, <2>2, <2>3 DEF IdBounds
<1>19. \A id \in arb_completed' :
         \/ id \in arb_completed
         \/ /\ id < g_request_id /\ id \in Nat
            /\ G # {} /\ m_lock_arb_size' > 0
  <2> SUFFICES ASSUME NEW id \in arb_completed', id \notin arb_completed
               PROVE  id < g_request_id /\ id \in Nat /\ G # {} /\ m_lock_arb_size' > 0
    OBVIOUS
  <2>1. PICK r \in G : id = r.request_id /\ r # new
    BY <1>1, <1>6 DEF request_ids
  <2>2. r \in arb_sequence_q
    BY <1>8, <2>1
  <2>3. m_lock_arb_size >= 0
    BY <2>2 DEF IInv, SizeBounds
  <2>4. Cardinality(G) > 0
    BY <1>9, <1>13, <2>1
  <2> QED BY <1>3, <1>4, <1>5, <1>9, <1>10, <2>1, <2>2, <2>3, <2>4
<1>20. GrantNotified'
  <2> SUFFICES ASSUME NEW t \in Seqs, Waiting(t)', request_id'[t] \in arb_completed'
               PROVE  t \notin arbWaiters' /\ m_lock_arb_size' > 0
    BY DEF GrantNotified
  <2>1. t # s
    <3> SUFFICES ASSUME t = s PROVE FALSE
      OBVIOUS
    <3>1. new \notin G
      BY <1>6, <1>7 DEF Waiting
    <3>2. request_id'[s] = g_request_id
      BY <1>7 DEF TypeOK, ProcessTypes
    <3>3. \A id \in arb_completed : id < g_request_id
      BY DEF IInv, IdBounds
    <3> QED BY <1>5, <1>19, <3>2, <3>3
  <2>2. Waiting(t) /\ request_id'[t] = request_id[t]
    BY <1>6, <1>7, <2>1 DEF Waiting, TypeOK, ProcessTypes
  <2>3. CASE request_id[t] \in arb_completed
    <3>1. t \notin arbWaiters /\ m_lock_arb_size > 0
      BY <2>2, <2>3 DEF IInv, GrantNotified
    <3> QED BY <1>3, <1>5, <1>6, <1>9, <1>10, <2>1, <3>1 DEF Notified
  <2>4. CASE request_id[t] \notin arb_completed
    <3>1. n + Cardinality(G) > 0 /\ m_lock_arb_size' > 0
      BY <1>3, <1>9, <1>13, <1>19, <2>2, <2>4
    <3> QED BY <1>6, <2>1, <3>1 DEF Notified
  <2> QED BY <2>3, <2>4
<1>21. ASSUME halted = "no" PROVE DriverHasSeen'
  <2> SUFFICES ASSUME driver' = "arbWait"
               PROVE  /\ Driver \in arbWaiters' => m_arb_size' = m_lock_arb_size'
                      /\ m_arb_size' = m_lock_arb_size' =>
                           Available(arb_sequence_q', Owners(lock_list'), Seqs) = {}
    BY <1>7, <1>21 DEF DriverHasSeen
  <2>1. CASE n + Cardinality(G) > 0
    <3>1. Driver \notin arbWaiters'
      BY <1>6, <2>1, DriverAssumption DEF Notified
    <3>2. m_arb_size' # m_lock_arb_size'
      BY <1>3, <1>5, <1>7, <1>9, <1>10, <2>1 DEF IInv, SizeBounds
    <3> QED BY <3>1, <3>2
  <2>2. CASE n + Cardinality(G) = 0
    <3>1. G = {} /\ m_lock_arb_size' = m_lock_arb_size
      BY <1>3, <1>5, <1>9, <1>10, <1>13, <2>2
    <3>2. lock_list' = lock_list /\ arb_sequence_q' = arb_sequence_q \cup {new}
      BY <1>6, <1>8, <3>1 DEF GrantedLocks
    <3>3. Available(arb_sequence_q', Owners(lock_list'), Seqs)
            = Available(arb_sequence_q, Owners(lock_list), Seqs)
      BY <1>1, <3>2 DEF Available
    <3>4. Driver \in arbWaiters' => Driver \in arbWaiters
      BY <1>6, DriverAssumption DEF Notified
    <3> QED BY <1>7, <1>21, <3>1, <3>3, <3>4 DEF IInv, DriverHasSeen
  <2> QED BY <1>3, <1>9, <2>1, <2>2
<1> QED BY <1>12, <1>17, <1>18, <1>20, <1>21 DEF ArbInv

\* A new item request (wait_for_grant) advances m_lock_arb_size, so the driver
\* wakes, and its ids have not been granted before.
LEMMA RequestStep ==
  ASSUME TypeOK, IInv, NEW s \in Seqs, NEW lock_request \in BOOLEAN,
         wait_for_grant(s, lock_request)
  PROVE  ArbInv' /\ GrantNotified' /\ DriverHasSeen'
<1> DEFINE n == IF lock_request THEN 1 ELSE 0
           lock == [request |-> "LOCK", sequence |-> s, item_priority |-> m_priority[s],
                    request_id |-> g_request_id, front |-> FALSE]
           req == [request |-> "REQ", sequence |-> s, item_priority |-> m_priority[s],
                   request_id |-> g_request_id + n, front |-> FALSE]
           new == {req} \cup IF lock_request THEN {lock} ELSE {}
<1>1. /\ g_request_id \in Nat /\ m_lock_arb_size \in Nat \cup {-1}
      /\ m_arb_size \in Nat \cup {-1} /\ arb_completed \subseteq Nat
      /\ \A l \in lock_list : l.stamp \in Nat
      /\ \A r \in arb_sequence_q : r.request_id \in Nat
  BY DEF TypeOK, QueueTypes, Request
<1>2. /\ arb_sequence_q' = arb_sequence_q \cup new
      /\ g_request_id' = g_request_id + n + 1
      /\ m_lock_arb_size' = m_lock_arb_size + 1
      /\ request_id' = [request_id EXCEPT ![s] = g_request_id + n]
      /\ pc' = [pc EXCEPT ![s] = "waitGrant"]
      /\ arbWaiters' = {s}
      /\ UNCHANGED <<lock_list, arb_completed, m_arb_size, driver, halted>>
  BY DEF wait_for_grant, m_update_lists
<1>3. /\ n \in {0, 1} /\ new \subseteq {lock, req} /\ (n = 0 => new = {req})
      /\ lock.request_id = g_request_id /\ req.request_id = g_request_id + n
  OBVIOUS
<1> HIDE DEF n, lock, req, new
<1>4. SizeBounds'
  BY <1>1, <1>2 DEF IInv, SizeBounds
<1>5. IdBounds'
  <2>1. \A r \in new : r.request_id \in Nat /\ g_request_id <= r.request_id
                       /\ r.request_id < g_request_id'
    BY <1>1, <1>2, <1>3
  <2>2. \A r, x \in new : r.request_id = x.request_id => r = x
    BY <1>1, <1>3
  <2> QED BY <1>1, <1>2, <1>3, <2>1, <2>2 DEF IInv, IdBounds
<1>6. LockChain'
  BY <1>2 DEF IInv, LockChain
<1>7. GrantNotified'
  <2> SUFFICES ASSUME NEW t \in Seqs, Waiting(t)', request_id'[t] \in arb_completed'
               PROVE  t \notin arbWaiters' /\ m_lock_arb_size' > 0
    BY DEF GrantNotified
  <2>1. t # s
    <3>1. request_id'[s] = g_request_id + n
      BY <1>2 DEF TypeOK, ProcessTypes
    <3> QED BY <1>1, <1>2, <1>3, <3>1 DEF IInv, IdBounds
  <2>2. Waiting(t) /\ request_id'[t] = request_id[t]
    BY <1>2, <2>1 DEF Waiting, TypeOK, ProcessTypes
  <2> QED BY <1>1, <1>2, <2>1, <2>2 DEF IInv, GrantNotified
<1>8. DriverHasSeen'
  <2>1. Driver \notin arbWaiters' /\ m_arb_size' # m_lock_arb_size'
    BY <1>1, <1>2, DriverAssumption DEF IInv, SizeBounds
  <2> QED BY <2>1 DEF DriverHasSeen
<1> QED BY <1>4, <1>5, <1>6, <1>7, <1>8 DEF ArbInv

\* Giving a lock up (m_unlock_req) shortens the list and wakes everyone.
LEMMA UnlockStep ==
  ASSUME QueueTypes, ArbInv, halted = "no", NEW s \in Seqs, m_unlock_req(s)
  PROVE  ListStep /\ DriverUndisturbed
<1>1. /\ m_lock_arb_size' = m_lock_arb_size + 1 /\ arbWaiters' = {}
      /\ lock_list' \subseteq lock_list
      /\ UNCHANGED <<arb_sequence_q, arb_completed, m_arb_size, g_request_id,
                     driver, halted>>
  BY DEF m_unlock_req, m_update_lists
<1>2. /\ m_lock_arb_size \in Nat \cup {-1} /\ m_arb_size \in Nat \cup {-1}
      /\ \A l \in lock_list : l.stamp \in Nat
  BY DEF QueueTypes
<1>3. SizeBounds'
  BY <1>1, <1>2 DEF ArbInv, SizeBounds
<1>4. IdBounds' /\ LockChain'
  BY <1>1 DEF ArbInv, IdBounds, LockChain
<1> QED BY <1>1, <1>2, <1>3, <1>4 DEF ListStep, ArbInv, DriverUndisturbed

\* A step that leaves the lists alone is a ListStep.
LEMMA QuietStep ==
  ASSUME QueueTypes, ArbInv, arb_completed' \subseteq arb_completed,
         UNCHANGED <<arb_sequence_q, lock_list, m_lock_arb_size, g_request_id>>,
         arbWaiters' \cap Seqs \subseteq arbWaiters,
         m_arb_size' \in {m_arb_size, m_lock_arb_size}
  PROVE  ListStep
<1>1. m_lock_arb_size \in Int
  BY DEF QueueTypes
<1>2. ArbInv'
  BY <1>1 DEF ArbInv, SizeBounds, IdBounds, LockChain
<1> QED BY <1>1, <1>2 DEF ListStep

\* A sequence that waits for the same request as before has still been notified.
LEMMA GrantNotifiedKept ==
  ASSUME TypeOK, TypeOK', GrantNotified, ListStep,
         \A s \in Seqs : Waiting(s)' => Waiting(s) /\ request_id'[s] = request_id[s]
  PROVE  GrantNotified'
<1> SUFFICES ASSUME NEW s \in Seqs, Waiting(s)', request_id'[s] \in arb_completed'
             PROVE  s \notin arbWaiters' /\ m_lock_arb_size' > 0
  BY DEF GrantNotified
<1>1. Waiting(s) /\ request_id[s] \in arb_completed'
  OBVIOUS
<1>2. /\ m_lock_arb_size \in Int /\ m_lock_arb_size <= m_lock_arb_size'
      /\ m_lock_arb_size' \in Int
  BY DEF TypeOK, QueueTypes, ListStep
<1>3. CASE request_id[s] \in arb_completed
  BY <1>1, <1>2, <1>3 DEF GrantNotified, ListStep
<1>4. CASE request_id[s] \notin arb_completed
  BY <1>1, <1>4 DEF ListStep
<1> QED BY <1>3, <1>4

\* A driver that is not disturbed has still seen the lists it sleeps on.
LEMMA DriverHasSeenKept ==
  ASSUME TypeOK, SizeBounds, DriverHasSeen, halted = "no", ListStep, DriverUndisturbed
  PROVE  DriverHasSeen'
<1> SUFFICES ASSUME driver' = "arbWait"
             PROVE  /\ Driver \in arbWaiters' => m_arb_size' = m_lock_arb_size'
                    /\ m_arb_size' = m_lock_arb_size' =>
                         Available(arb_sequence_q', Owners(lock_list'), Seqs) = {}
  BY DEF DriverHasSeen, DriverUndisturbed
<1>1. driver = "arbWait" /\ m_arb_size' = m_arb_size
  BY DEF DriverUndisturbed
<1>2. /\ Driver \in arbWaiters => m_arb_size = m_lock_arb_size
      /\ m_arb_size = m_lock_arb_size =>
           Available(arb_sequence_q, Owners(lock_list), Seqs) = {}
  BY <1>1 DEF DriverHasSeen
<1>3. Driver \in arbWaiters' => Driver \in arbWaiters /\ m_lock_arb_size' = m_lock_arb_size
  BY DEF DriverUndisturbed
<1>4. m_arb_size' = m_lock_arb_size' => m_lock_arb_size' = m_lock_arb_size
  <2>1. /\ m_lock_arb_size \in Int /\ m_arb_size \in Int
        /\ m_arb_size <= m_lock_arb_size /\ m_lock_arb_size <= m_lock_arb_size'
    BY DEF TypeOK, QueueTypes, SizeBounds, ListStep
  <2> QED BY <1>1, <2>1
<1>5. m_lock_arb_size' = m_lock_arb_size => UNCHANGED <<arb_sequence_q, lock_list>>
  BY DEF ListStep
<1> QED BY <1>1, <1>2, <1>3, <1>4, <1>5

\* Selection by the driver is a ListStep (m_select_sequence, try_next_item).
LEMMA SelectionStep ==
  ASSUME QueueTypes, ArbInv, m_select_sequence \/ TryChoose PROVE ListStep
<1>1. PICK G \in SUBSET arb_sequence_q :
        \E R \in SUBSET (arb_sequence_q \ G) :
          /\ IsGrantSet(G, arb_sequence_q, Owners(lock_list)) /\ IsFiniteSet(R)
          /\ arb_sequence_q' = (arb_sequence_q \ G) \ R
          /\ lock_list' = lock_list \cup GrantedLocks(G, 0)
          /\ arb_completed' = arb_completed \cup request_ids(G \cup R)
          /\ m_lock_arb_size' = m_lock_arb_size + (Cardinality(G) + Cardinality(R))
          /\ m_arb_size' \in {m_arb_size, m_lock_arb_size'}
          /\ arbWaiters' \subseteq arbWaiters \cup {Driver}
          /\ m_lock_arb_size < m_lock_arb_size' => arbWaiters' \subseteq {Driver}
          /\ g_request_id' = g_request_id
  BY SelectionShape
<1>2. /\ ArbInv'
      /\ m_lock_arb_size <= m_lock_arb_size'
      /\ m_lock_arb_size' = m_lock_arb_size => UNCHANGED <<arb_sequence_q, lock_list>>
      /\ \A id \in arb_completed' : \/ id \in arb_completed
                                    \/ m_lock_arb_size < m_lock_arb_size' /\ 0 < m_lock_arb_size'
  BY <1>1, GrantFacts
<1> QED BY <1>1, <1>2, DriverAssumption DEF ListStep

\* The driver falls asleep only when nothing was available, and wakes again or
\* finds nothing changed.
LEMMA DriverSleepStep ==
  ASSUME TypeOK, DriverHasSeen, halted = "no", m_select_sequence \/ m_wait_arb_not_equal
  PROVE  DriverHasSeen'
<1>1. CASE m_wait_arb_not_equal
  BY <1>1 DEF m_wait_arb_not_equal, DriverHasSeen, queueVars, seqVars
<1>2. CASE m_select_sequence /\ driver' = "arbWait"
  <2>1. PICK G \in SUBSET arb_sequence_q :
          /\ Available(arb_sequence_q \ G, Owners(lock_list \cup GrantedLocks(G, 0)),
                       relevant) = {}
          /\ lock_list' = lock_list \cup GrantedLocks(G, 0)
          /\ arb_sequence_q' = arb_sequence_q \ G
          /\ m_arb_size' = m_lock_arb_size'
          /\ halted' = IF Available(arb_sequence_q \ G,
                                    Owners(lock_list \cup GrantedLocks(G, 0)), Seqs) = {}
                       THEN halted ELSE "exit"
          /\ relevant' = relevant
    BY <1>2 DEF m_select_sequence, seqVars
  <2> QED BY <2>1 DEF DriverHasSeen
<1>3. CASE m_select_sequence /\ driver' # "arbWait"
  BY <1>3 DEF DriverHasSeen
<1> QED BY <1>1, <1>2, <1>3

-----------------------------------------------------------------------------
(* The inductive invariant and the theorems *)

\* The steps of one sequence preserve the invariant.
LEMMA SequenceStep ==
  ASSUME IInv, TypeOK', halted = "no", NEW s \in Seqs, Step(s)
  PROVE  ArbInv' /\ GrantNotified' /\ DriverHasSeen'
<1> DEFINE Goal == ArbInv' /\ GrantNotified' /\ DriverHasSeen'
<1> USE DEF IInv, TypeOK
<1>1. ASSUME ListStep, DriverUndisturbed,
             \A t \in Seqs : Waiting(t)' => Waiting(t) /\ request_id'[t] = request_id[t]
      PROVE  Goal
  BY <1>1, GrantNotifiedKept, DriverHasSeenKept DEF ListStep
<1>2. CASE Start(s) \/ SetRelevant(s) \/ wait_for_item_done(s) \/ ItemDoneWoken(s) \/ BodyEnd(s)
  <2> USE <1>2 DEF Start, SetRelevant, wait_for_item_done, ItemDoneWoken, BodyEnd
  <2>1. UNCHANGED <<arb_sequence_q, lock_list, m_lock_arb_size, arb_completed,
                    g_request_id, m_arb_size, arbWaiters, driver, halted, request_id>>
    BY DEF queueVars, seqVars
  <2>2. ListStep
    BY <2>1, QuietStep DEF ArbInv
  <2>3. \A t \in Seqs : Waiting(t)' => Waiting(t)
    BY DEF Waiting, ProcessTypes
  <2> QED BY <1>1, <2>1, <2>2, <2>3 DEF DriverUndisturbed
<1>3. CASE Lock(s) \/ Grab(s)
  BY <1>3, LockStep DEF Lock, Grab
<1>4. CASE \E lock_request \in BOOLEAN : wait_for_grant(s, lock_request)
  BY <1>4, RequestStep
<1>5. CASE m_unlock_req(s)
  <2>1. ListStep /\ DriverUndisturbed
    BY <1>5, UnlockStep DEF ArbInv
  <2> QED BY <1>1, <1>5, <2>1 DEF m_unlock_req, seqVars, Waiting
<1>6. CASE m_wait_for_arbitration_completed(s)
  <2> USE <1>6 DEF m_wait_for_arbitration_completed
  <2>1. /\ UNCHANGED <<arb_sequence_q, lock_list, m_lock_arb_size, g_request_id,
                       m_arb_size, driver, halted, request_id>>
        /\ arb_completed' \subseteq arb_completed
    BY DEF queueVars
  <2>2. ArbInv'
    BY <2>1 DEF ArbInv, SizeBounds, IdBounds, LockChain
  <2>3. Driver \in arbWaiters' => Driver \in arbWaiters
    BY DriverAssumption
  <2>4. DriverHasSeen'
    BY <2>1, <2>3 DEF DriverHasSeen
  <2>5. GrantNotified'
    <3> SUFFICES ASSUME NEW t \in Seqs, Waiting(t)', request_id'[t] \in arb_completed'
                 PROVE  t \notin arbWaiters' /\ m_lock_arb_size' > 0
      BY DEF GrantNotified
    <3>1. Waiting(t)
      BY DEF Waiting, ProcessTypes
    <3>2. t \notin arbWaiters /\ m_lock_arb_size > 0
      BY <2>1, <3>1 DEF GrantNotified
    <3>3. t \notin arbWaiters'
      BY <2>1, <3>2 DEF ArbitrationCompleted, QueueTypes
    <3> QED BY <2>1, <3>2, <3>3
  <2> QED BY <2>2, <2>4, <2>5
<1>7. ASSUME NEW wait \in BOOLEAN, send_request(s, wait) PROVE Goal
  <2>1. ListStep /\ (Driver \in arbWaiters' => Driver \in arbWaiters /\ m_lock_arb_size' = m_lock_arb_size)
    BY <1>7, GrantQueuedLocksStep DEF send_request, ArbInv
  <2>2. DriverUndisturbed
    BY <1>7, <2>1 DEF send_request, DriverUndisturbed
  <2>3. \A t \in Seqs : Waiting(t)' => Waiting(t) /\ request_id'[t] = request_id[t]
    BY <1>7 DEF send_request, Waiting, ProcessTypes
  <2> QED BY <1>1, <2>1, <2>2, <2>3
<1>8. CASE StartReturns(s)
  <2>1. UNCHANGED <<arb_completed, m_arb_size, g_request_id, request_id, driver, halted>>
    BY <1>8 DEF StartReturns
  <2>2. ListStep /\ (Driver \in arbWaiters' => Driver \in arbWaiters /\ m_lock_arb_size' = m_lock_arb_size)
    <3>1. CASE remove_sequence_from_queues({s}, {})
      BY <2>1, <3>1, RemoveStep DEF ArbInv
    <3>2. CASE UNCHANGED <<queueVars, arbWaiters>>
      <4>1. UNCHANGED <<arb_sequence_q, lock_list, m_lock_arb_size, arbWaiters>>
        BY <3>2 DEF queueVars
      <4>2. ListStep
        BY <2>1, <4>1, QuietStep DEF ArbInv
      <4> QED BY <4>1, <4>2
    <3> QED BY <1>8, <3>1, <3>2 DEF StartReturns, queueVars
  <2>3. \A t \in Seqs : Waiting(t)' => Waiting(t)
    BY <1>8 DEF StartReturns, Waiting, ProcessTypes
  <2> QED BY <1>1, <2>1, <2>2, <2>3 DEF DriverUndisturbed
<1>9. CASE Kill(s)
  <2>1. remove_sequence_from_queues({s}, Killed({s}))
    BY <1>9 DEF Kill, m_kill_sequences
  <2>2. UNCHANGED <<arb_completed, m_arb_size, g_request_id, request_id, driver, halted>>
    BY <1>9 DEF Kill
  <2>3. ListStep /\ (Driver \in arbWaiters' => Driver \in arbWaiters /\ m_lock_arb_size' = m_lock_arb_size)
    BY <2>1, <2>2, RemoveStep DEF ArbInv
  <2>4. \A t \in Seqs : Waiting(t)' => Waiting(t)
    BY <1>9 DEF Kill, m_kill_sequences, Waiting
  <2> QED BY <1>1, <2>2, <2>3, <2>4 DEF DriverUndisturbed
<1> QED
  BY <1>2, <1>3, <1>4, <1>5, <1>6, <1>7, <1>8, <1>9 DEF Step

\* stop_sequences and the steps of the driver preserve the invariant.
LEMMA OtherStep ==
  ASSUME IInv, TypeOK', halted = "no", stop_sequences \/ DriverStep \/ UpdateFifo
  PROVE  ArbInv' /\ GrantNotified' /\ DriverHasSeen'
<1> DEFINE Goal == ArbInv' /\ GrantNotified' /\ DriverHasSeen'
<1> USE DEF IInv, TypeOK
<1>1. ASSUME ListStep,
             \A t \in Seqs : Waiting(t)' => Waiting(t) /\ request_id'[t] = request_id[t],
             DriverUndisturbed \/ driver' # "arbWait" \/ DriverHasSeen'
      PROVE  Goal
  <2>1. ArbInv' /\ GrantNotified'
    BY <1>1, GrantNotifiedKept DEF ListStep
  <2>2. DriverHasSeen'
    <3>1. CASE DriverUndisturbed
      BY <1>1, <3>1, DriverHasSeenKept
    <3>2. CASE driver' # "arbWait"
      BY <3>2 DEF DriverHasSeen
    <3> QED BY <1>1, <3>1, <3>2
  <2> QED BY <2>1, <2>2
<1>2. CASE stop_sequences
  <2>1. remove_sequence_from_queues(FoundByStop, Killed(FoundByStop))
    BY <1>2 DEF stop_sequences, m_kill_sequences
  <2>2. UNCHANGED <<arb_completed, m_arb_size, g_request_id, request_id, driver, halted>>
    BY <1>2 DEF stop_sequences
  <2>3. ListStep /\ (Driver \in arbWaiters' => Driver \in arbWaiters /\ m_lock_arb_size' = m_lock_arb_size)
    BY <2>1, <2>2, RemoveStep DEF ArbInv
  <2>4. \A t \in Seqs : Waiting(t)' => Waiting(t)
    BY <1>2 DEF stop_sequences, m_kill_sequences, Waiting
  <2> QED BY <1>1, <2>2, <2>3, <2>4 DEF DriverUndisturbed
<1>3. CASE get_next_item \/ m_wait_arb_not_equal \/ peek \/ try_next_item \/ TryPeek
           \/ item_done_rsp \/ ItemDoneFatal \/ UpdateFifo
  <2> USE <1>3 DEF get_next_item, m_wait_arb_not_equal, peek, try_next_item, TryPeek,
                   item_done_rsp, ItemDoneFatal, UpdateFifo
  <2>1. /\ UNCHANGED <<arb_sequence_q, lock_list, m_lock_arb_size, arb_completed,
                       g_request_id, m_arb_size, request_id, pc>>
        /\ arbWaiters' \cap Seqs \subseteq arbWaiters
    BY DriverAssumption DEF queueVars, seqVars
  <2>2. ListStep
    BY <2>1, QuietStep DEF ArbInv
  <2>3. CASE m_wait_arb_not_equal
    <3>1. DriverHasSeen'
      BY <2>3, DriverSleepStep
    <3> QED BY <1>1, <2>1, <2>2, <3>1 DEF Waiting
  <2>4. CASE UpdateFifo
    <3>1. DriverUndisturbed
      BY <2>1, <2>4 DEF DriverUndisturbed
    <3> QED BY <1>1, <2>1, <2>2, <3>1 DEF Waiting
  <2>5. CASE ~m_wait_arb_not_equal /\ ~UpdateFifo
    <3>1. driver' # "arbWait"
      BY <2>5 DEF TakeDoneItem
    <3> QED BY <1>1, <2>1, <2>2, <3>1 DEF Waiting
  <2> QED BY <2>3, <2>4, <2>5
<1>4. CASE m_select_sequence \/ TryChoose
  <2>1. ListStep
    BY <1>4, SelectionStep DEF ArbInv
  <2>2. UNCHANGED <<pc, request_id>>
    BY <1>4 DEF m_select_sequence, TryChoose, seqVars
  <2>3. driver' # "arbWait" \/ DriverHasSeen'
    BY <1>4, DriverSleepStep DEF TryChoose
  <2> QED BY <1>1, <2>1, <2>2, <2>3 DEF Waiting
<1>5. CASE item_done \/ PutReturns
  <2>1. ListStep
    BY <1>5, GrantQueuedLocksStep DEF item_done, PutReturns, ArbInv
  <2>2. UNCHANGED <<pc, request_id>> /\ driver' # "arbWait"
    BY <1>5 DEF item_done, PutReturns, seqVars
  <2> QED BY <1>1, <2>1, <2>2 DEF Waiting
<1> QED
  BY <1>2, <1>3, <1>4, <1>5 DEF DriverStep

\* IInv is an inductive invariant of the specification.
THEOREM Inductive == Spec => []IInv
<1>1. Init => IInv
  <2> SUFFICES ASSUME Init PROVE IInv
    OBVIOUS
  <2>1. TypeOK
    BY InitType
  <2>2. SizeBounds /\ IdBounds /\ LockChain /\ GrantNotified /\ DriverHasSeen
    BY DEF Init, SizeBounds, IdBounds, LockChain, GrantNotified, DriverHasSeen
  <2> QED BY <2>1, <2>2 DEF IInv
<1>2. IInv /\ [Next]_vars => IInv'
  <2> SUFFICES ASSUME IInv, [Next]_vars PROVE IInv'
    OBVIOUS
  <2>1. TypeOK'
    BY TypeStep DEF IInv
  <2>2. CASE UNCHANGED vars
    <3>1. UNCHANGED <<arb_sequence_q, lock_list, m_lock_arb_size, arb_completed, m_arb_size,
                      g_request_id, pc, request_id, relevant, driver, arbWaiters, halted>>
      BY <2>2 DEF vars, queueVars, seqVars
    <3> QED BY <2>1, <3>1 DEF IInv, SizeBounds, IdBounds, LockChain, GrantNotified,
                              DriverHasSeen, Waiting
  <2>3. ASSUME halted = "no", NEW s \in Seqs, Step(s) PROVE IInv'
    BY <2>1, <2>3, SequenceStep DEF IInv, ArbInv
  <2>4. ASSUME halted = "no", stop_sequences \/ DriverStep \/ UpdateFifo PROVE IInv'
    BY <2>1, <2>4, OtherStep DEF IInv, ArbInv
  <2> QED BY <2>2, <2>3, <2>4 DEF Next
<1> QED BY <1>1, <1>2, PTL DEF Spec

\* Mutual exclusion of locks for every family tree and arbitration mode: any two
\* entries of lock_list belong to one line of descent, the later to the deeper.
THEOREM MutualExclusion == Spec => []LockChain
<1>1. IInv => LockChain
  BY DEF IInv
<1> QED BY <1>1, Inductive, PTL

\* A sequence whose request is granted never sleeps through it, although
\* m_wait_for_arbitration_completed compares with a stale lock_arb_size.
THEOREM GrantsAreNoticed == Spec => []NoLostGrant
<1>1. IInv => NoLostGrant
  BY DEF IInv, GrantNotified, NoLostGrant
<1> QED BY <1>1, Inductive, PTL

\* The driver never sleeps in m_wait_arb_not_equal while a request could be chosen.
THEOREM DriverIsWoken == Spec => []DriverAwake
<1>1. IInv => DriverAwake
  <2> SUFFICES ASSUME IInv, driver = "arbWait", Driver \in arbWaiters
               PROVE  Available(arb_sequence_q, Owners(lock_list), relevant) = {}
    BY DEF DriverAwake
  <2>1. Available(arb_sequence_q, Owners(lock_list),
                  IF halted = "exit" THEN relevant ELSE Seqs) = {}
    BY DEF IInv, DriverHasSeen
  <2>2. relevant \subseteq Seqs
    BY DEF IInv, TypeOK, ProcessTypes
  <2> QED BY <2>1, <2>2 DEF Available
<1> QED BY <1>1, Inductive, PTL

-----------------------------------------------------------------------------
(* Ancestry *)

\* The recursion of Ancestors has a solution: Closure, the least sets that hold a
\* parent with its own parents (is_child).
LEMMA AncestorsDef ==
  \A s \in Seqs : Ancestors[s] = IF Parent[s] = NULL THEN {}
                                 ELSE {Parent[s]} \cup Ancestors[Parent[s]]
<1> DEFINE Closed(T) == \A t \in T : Parent[t] \in T \cup {NULL}
           Closure == [s \in Seqs |->
             {a \in Seqs : \A T \in SUBSET Seqs :
                Closed(T) /\ Parent[s] \in T \cup {NULL} => a \in T}]
           Solves(f) == f = [s \in Seqs |-> IF Parent[s] = NULL THEN {}
                                          ELSE {Parent[s]} \cup f[Parent[s]]]
<1>1. ASSUME NEW s \in Seqs, Parent[s] = NULL PROVE Closure[s] = {}
  <2>1. {} \in SUBSET Seqs /\ Closed({}) /\ Parent[s] \in {} \cup {NULL}
    BY <1>1
  <2> QED BY <2>1
<1>2. ASSUME NEW s \in Seqs, Parent[s] # NULL
      PROVE  Closure[s] = {Parent[s]} \cup Closure[Parent[s]]
  <2> DEFINE p == Parent[s]
             T0 == {p} \cup Closure[p]
  <2>1. p \in Seqs
    BY <1>2, ParentAssumption
  <2>2. T0 \in SUBSET Seqs
    BY <2>1
  <2>3. Closed(T0)
    <3> SUFFICES ASSUME NEW t \in T0, Parent[t] # NULL PROVE Parent[t] \in Closure[p]
      OBVIOUS
    <3>1. Parent[t] \in Seqs
      BY <2>2, ParentAssumption
    <3>2. ASSUME NEW T \in SUBSET Seqs, Closed(T), Parent[p] \in T \cup {NULL}
          PROVE  Parent[t] \in T
      BY <2>1, <3>2
    <3> QED BY <2>1, <3>1, <3>2
  <2>4. Closure[s] \subseteq T0
    BY <2>2, <2>3
  <2>5. T0 \subseteq Closure[s]
    <3> SUFFICES ASSUME NEW a \in T0, NEW T \in SUBSET Seqs, Closed(T), p \in T \cup {NULL}
                 PROVE  a \in T
      BY <2>2
    <3>1. p \in T
      BY <1>2
    <3>2. Parent[p] \in T \cup {NULL}
      BY <3>1
    <3> QED BY <2>1, <3>1, <3>2
  <2> QED BY <2>4, <2>5
<1>3. Solves(Closure)
  <2>1. Closure = [s \in Seqs |-> Closure[s]]
    OBVIOUS
  <2> HIDE DEF Closure
  <2> QED BY <1>1, <1>2, <2>1
<1>4. Solves(Ancestors)
  <2> HIDE DEF Closure
  <2>1. \E f : Solves(f)
    BY <1>3
  <2> QED BY <2>1 DEF Ancestors
<1> QED BY <1>4

\* Ancestors of ancestors are ancestors, and no sequence is its own.
LEMMA AncestorsOrder ==
  /\ \A s \in Seqs : Ancestors[s] \subseteq Seqs
  /\ \A s \in Seqs : \A t \in Ancestors[s] : Ancestors[t] \subseteq Ancestors[s]
  /\ \A s \in Seqs : s \notin Ancestors[s]
<1>1. \A s \in Seqs : Ancestors[s] \subseteq Seqs
  <2> DEFINE T == {s \in Seqs : ~ (Ancestors[s] \subseteq Seqs)}
  <2>1. ASSUME NEW s \in T, Parent[s] \notin T PROVE FALSE
    <3>1. s \in Seqs /\ Ancestors[s] # {}
      OBVIOUS
    <3>2. Parent[s] \in Seqs /\ Ancestors[s] = {Parent[s]} \cup Ancestors[Parent[s]]
      BY <3>1, AncestorsDef, ParentAssumption
    <3> QED BY <2>1, <3>2
  <2> QED BY <2>1, FamilyAssumption
<1>2. \A s \in Seqs : \A t \in Ancestors[s] : Ancestors[t] \subseteq Ancestors[s]
  <2> DEFINE T == {s \in Seqs : \E t \in Ancestors[s] : ~ (Ancestors[t] \subseteq Ancestors[s])}
  <2>1. ASSUME NEW s \in T, Parent[s] \notin T PROVE FALSE
    <3>1. s \in Seqs /\ Ancestors[s] # {}
      OBVIOUS
    <3>2. Parent[s] \in Seqs /\ Ancestors[s] = {Parent[s]} \cup Ancestors[Parent[s]]
      BY <3>1, AncestorsDef, ParentAssumption
    <3>3. \A t \in Ancestors[Parent[s]] : Ancestors[t] \subseteq Ancestors[Parent[s]]
      BY <2>1, <3>2
    <3> QED BY <3>2, <3>3
  <2> QED BY <2>1, FamilyAssumption
<1>3. \A s \in Seqs : s \notin Ancestors[s]
  <2> DEFINE T == {s \in Seqs : s \in Ancestors[s]}
  <2>1. ASSUME NEW s \in T, Parent[s] \notin T PROVE FALSE
    <3>1. Parent[s] \in Seqs /\ Ancestors[s] = {Parent[s]} \cup Ancestors[Parent[s]]
      BY AncestorsDef, ParentAssumption
    <3> QED BY <1>2, <2>1, <3>1
  <2> QED BY <2>1, FamilyAssumption
<1> QED BY <1>1, <1>2, <1>3

-----------------------------------------------------------------------------
(* Requests *)

\* A step that makes no request keeps requests and sequences matched, if what it
\* grants leaves the queue and what stays in the queue has its sequence waiting.
LEMMA MatchedKept ==
  ASSUME RequestsMatched, IdBounds, arb_sequence_q \subseteq Request,
         arb_sequence_q' \subseteq arb_sequence_q, g_request_id' = g_request_id,
         \A id \in arb_completed' :
            id \in arb_completed \/ \E r \in arb_sequence_q \ arb_sequence_q' : r.request_id = id,
         \A t \in Seqs : Waiting(t)' =>
            Waiting(t) /\ pc'[t] = pc[t] /\ request_id'[t] = request_id[t],
         \A r \in arb_sequence_q' : r.request = "REQ" =>
            pc'[r.sequence] = pc[r.sequence] /\ request_id'[r.sequence] = request_id[r.sequence]
  PROVE  RequestsMatched'
<1>1. (request_ids(arb_sequence_q) \cap arb_completed = {})'
  <2> SUFFICES ASSUME NEW x \in arb_sequence_q', x.request_id \in arb_completed'
               PROVE  FALSE
    BY DEF request_ids
  <2>1. x.request_id \notin arb_completed
    BY DEF RequestsMatched, request_ids
  <2>2. PICK r \in arb_sequence_q \ arb_sequence_q' : r.request_id = x.request_id
    BY <2>1
  <2> QED BY <2>2 DEF IdBounds
<1>2. (\A r \in arb_sequence_q : r.request = "REQ" =>
         pc[r.sequence] = "waitGrant" /\ request_id[r.sequence] = r.request_id)'
  BY DEF RequestsMatched
<1>3. ASSUME NEW s \in Seqs, Waiting(s)'
      PROVE  (/\ request_id[s] < g_request_id
              /\ \A t \in Seqs : Waiting(t) /\ request_id[t] = request_id[s] => t = s
              /\ \A r \in arb_sequence_q : r.request_id = request_id[s] =>
                   r.sequence = s /\ (r.request = "REQ" <=> pc[s] = "waitGrant"))'
  BY <1>3 DEF RequestsMatched
<1> QED BY <1>1, <1>2, <1>3 DEF RequestsMatched

\* grant_queued_locks moves request_ids from the queue to arb_completed.
LEMMA GrantMoves ==
  ASSUME grant_queued_locks
  PROVE  /\ arb_sequence_q' \subseteq arb_sequence_q
         /\ \A id \in arb_completed' :
              id \in arb_completed \/ \E r \in arb_sequence_q \ arb_sequence_q' : r.request_id = id
  BY DEF grant_queued_locks, request_ids

\* The new request of lock() or grab() is granted at once or waited for.
LEMMA LockMatched ==
  ASSUME TypeOK, IdBounds, RequestsMatched, NEW s \in Seqs, NEW front \in BOOLEAN,
         m_lock_req(s, front)
  PROVE  RequestsMatched'
<1> DEFINE new == [request |-> "LOCK", sequence |-> s, item_priority |-> 0,
                   request_id |-> g_request_id, front |-> front]
           Q == arb_sequence_q \cup {new}
<1>1. PICK G \in SUBSET Q :
        /\ arb_sequence_q' = Q \ G
        /\ \/ /\ new \in G
              /\ arb_completed' = arb_completed \cup (request_ids(G) \ {g_request_id})
              /\ pc' = pc
           \/ /\ new \notin G
              /\ arb_completed' = arb_completed \cup request_ids(G)
              /\ pc' = [pc EXCEPT ![s] = "waitLock"]
  BY DEF m_lock_req
<1>2. /\ pc[s] = "body" /\ g_request_id' = g_request_id + 1
      /\ request_id' = [request_id EXCEPT ![s] = g_request_id]
  BY DEF m_lock_req
<1>3. /\ g_request_id \in Nat /\ pc \in [Seqs -> Stopped \cup Running]
      /\ request_id \in [Seqs -> Nat] /\ arb_sequence_q \subseteq Request
  BY DEF TypeOK, QueueTypes, ProcessTypes
<1>4. /\ new.request = "LOCK" /\ new.sequence = s /\ new.request_id = g_request_id
      /\ \A r \in arb_sequence_q : r.request_id < g_request_id /\ r # new
      /\ \A id \in arb_completed : id < g_request_id
      /\ \A r, x \in arb_sequence_q : r.request_id = x.request_id => r = x
  <2>1. \A r \in arb_sequence_q : r.request_id < g_request_id
    BY DEF IdBounds
  <2>2. \A r \in arb_sequence_q : r # new
    BY <1>3, <2>1
  <2> QED BY <2>1, <2>2 DEF IdBounds
<1> HIDE DEF new
<1>5. (request_ids(arb_sequence_q) \cap arb_completed = {})'
  <2> SUFFICES ASSUME NEW x \in arb_sequence_q', x.request_id \in arb_completed'
               PROVE  FALSE
    BY DEF request_ids
  <2>1. CASE x = new
    BY <1>1, <1>3, <1>4, <2>1 DEF request_ids
  <2>2. CASE x \in arb_sequence_q
    <3>1. x.request_id \notin arb_completed /\ x.request_id # g_request_id
      BY <1>3, <1>4, <2>2 DEF RequestsMatched, request_ids, Request
    <3>2. PICK r \in G : r.request_id = x.request_id
      BY <1>1, <3>1 DEF request_ids
    <3>3. r \in arb_sequence_q
      BY <1>4, <3>1, <3>2
    <3> QED BY <1>1, <1>4, <2>2, <3>2, <3>3
  <2> QED BY <1>1, <2>1, <2>2
<1>6. ASSUME NEW r \in arb_sequence_q', r.request = "REQ"
      PROVE  pc'[r.sequence] = "waitGrant" /\ request_id'[r.sequence] = r.request_id
  <2>1. r \in arb_sequence_q
    BY <1>1, <1>4, <1>6
  <2>2. pc[r.sequence] = "waitGrant" /\ request_id[r.sequence] = r.request_id
    BY <1>6, <2>1 DEF RequestsMatched
  <2>3. r.sequence # s /\ r.sequence \in Seqs
    BY <1>2, <1>3, <2>1, <2>2 DEF Request
  <2> QED BY <1>1, <1>2, <1>3, <2>2, <2>3
<1>7. ASSUME NEW t \in Seqs, Waiting(t)'
      PROVE  (/\ request_id[t] < g_request_id
              /\ \A u \in Seqs : Waiting(u) /\ request_id[u] = request_id[t] => u = t
              /\ \A r \in arb_sequence_q : r.request_id = request_id[t] =>
                   r.sequence = t /\ (r.request = "REQ" <=> pc[t] = "waitGrant"))'
  <2>1. \A u \in Seqs : u # s /\ Waiting(u)' =>
          /\ Waiting(u) /\ pc'[u] = pc[u] /\ request_id'[u] = request_id[u]
          /\ request_id[u] < g_request_id
    BY <1>1, <1>2, <1>3 DEF Waiting, RequestsMatched
  <2>2. request_id'[s] = g_request_id
    BY <1>2, <1>3
  <2>3. CASE t = s
    <3>1. pc'[s] = "waitLock" /\ new \notin G
      BY <1>1, <1>2, <1>3, <1>7, <2>3 DEF Waiting
    <3> QED BY <1>1, <1>2, <1>3, <1>4, <2>1, <2>2, <2>3, <3>1
  <2>4. CASE t # s
    BY <1>1, <1>2, <1>3, <1>4, <1>7, <2>1, <2>2, <2>4 DEF RequestsMatched
  <2> QED BY <2>3, <2>4
<1> QED BY <1>5, <1>6, <1>7 DEF RequestsMatched

\* The requests of start_item get ids of their own, the last of them waited for.
LEMMA GrantRequestMatched ==
  ASSUME TypeOK, IdBounds, RequestsMatched, NEW s \in Seqs,
         NEW lock_request \in BOOLEAN, wait_for_grant(s, lock_request)
  PROVE  RequestsMatched'
<1> DEFINE n    == IF lock_request THEN 1 ELSE 0
           lock == [request |-> "LOCK", sequence |-> s, item_priority |-> m_priority[s],
                    request_id |-> g_request_id, front |-> FALSE]
           req  == [request |-> "REQ", sequence |-> s, item_priority |-> m_priority[s],
                    request_id |-> g_request_id + n, front |-> FALSE]
<1>1. /\ pc[s] = "body"
      /\ arb_sequence_q' = arb_sequence_q \cup {req} \cup IF lock_request THEN {lock} ELSE {}
      /\ g_request_id' = g_request_id + n + 1
      /\ pc' = [pc EXCEPT ![s] = "waitGrant"]
      /\ request_id' = [request_id EXCEPT ![s] = g_request_id + n]
      /\ arb_completed' = arb_completed
  BY DEF wait_for_grant
<1>2. /\ g_request_id \in Nat /\ pc \in [Seqs -> Stopped \cup Running]
      /\ request_id \in [Seqs -> Nat] /\ arb_sequence_q \subseteq Request
      /\ arb_completed \subseteq Nat
  BY DEF TypeOK, QueueTypes, ProcessTypes
<1>3. /\ req.request = "REQ" /\ req.sequence = s /\ req.request_id = g_request_id + n
      /\ lock.request = "LOCK" /\ lock.sequence = s /\ lock.request_id = g_request_id
      /\ n \in {0, 1} /\ (lock_request => n = 1)
  OBVIOUS
<1>4. /\ \A r \in arb_sequence_q : r.request_id < g_request_id /\ r.request_id \in Nat
      /\ \A id \in arb_completed : id < g_request_id
  BY <1>2 DEF IdBounds, Request
<1> HIDE DEF req, lock, n
<1>5. (request_ids(arb_sequence_q) \cap arb_completed = {})'
  BY <1>1, <1>2, <1>3, <1>4 DEF RequestsMatched, request_ids
<1>6. ASSUME NEW r \in arb_sequence_q', r.request = "REQ"
      PROVE  pc'[r.sequence] = "waitGrant" /\ request_id'[r.sequence] = r.request_id
  <2>1. CASE r = req
    BY <1>1, <1>2, <1>3, <2>1
  <2>2. CASE r \in arb_sequence_q
    BY <1>1, <1>2, <1>6, <2>2 DEF RequestsMatched, Request
  <2> QED BY <1>1, <1>3, <1>6, <2>1, <2>2
<1>7. ASSUME NEW t \in Seqs, Waiting(t)'
      PROVE  (/\ request_id[t] < g_request_id
              /\ \A u \in Seqs : Waiting(u) /\ request_id[u] = request_id[t] => u = t
              /\ \A r \in arb_sequence_q : r.request_id = request_id[t] =>
                   r.sequence = t /\ (r.request = "REQ" <=> pc[t] = "waitGrant"))'
  <2>1. \A u \in Seqs : u # s /\ Waiting(u)' =>
          /\ Waiting(u) /\ pc'[u] = pc[u] /\ request_id'[u] = request_id[u]
          /\ request_id[u] < g_request_id
    BY <1>1, <1>2 DEF Waiting, RequestsMatched
  <2>2. request_id'[s] = g_request_id + n /\ pc'[s] = "waitGrant"
    BY <1>1, <1>2
  <2>3. CASE t = s
    BY <1>1, <1>2, <1>3, <1>4, <2>1, <2>2, <2>3
  <2>4. CASE t # s
    <3>1. request_id'[t] < g_request_id /\ request_id'[t] \in Nat
      BY <1>2, <1>7, <2>1, <2>4
    <3>2. \A u \in Seqs : (Waiting(u) /\ request_id[u] = request_id[t])' => u = t
      BY <1>2, <1>3, <1>7, <2>1, <2>2, <2>4, <3>1 DEF RequestsMatched
    <3>3. \A r \in arb_sequence_q' : r.request_id = request_id'[t] => r \in arb_sequence_q
      BY <1>1, <1>2, <1>3, <3>1
    <3> QED BY <1>1, <1>2, <1>3, <1>7, <2>1, <2>4, <3>1, <3>2, <3>3 DEF RequestsMatched
  <2> QED BY <2>3, <2>4
<1> QED BY <1>5, <1>6, <1>7 DEF RequestsMatched

\* Killing sequences takes their requests with it.
LEMMA KillMatched ==
  ASSUME TypeOK, IdBounds, RequestsMatched, NEW S \in SUBSET Seqs, m_kill_sequences(S),
         UNCHANGED <<arb_completed, g_request_id, request_id>>
  PROVE  RequestsMatched'
<1> DEFINE family == UNION {Family(s) : s \in S}
<1>1. /\ arb_sequence_q' = arb_sequence_q \ {r \in arb_sequence_q : r.sequence \in family}
      /\ pc' = [s \in Seqs |-> IF s \in Killed(S) THEN "stopped" ELSE pc[s]]
  BY DEF m_kill_sequences, remove_sequence_from_queues
<1>2. Killed(S) \subseteq family
  BY DEF Killed, Family
<1>3. arb_sequence_q \subseteq Request
  BY DEF TypeOK, QueueTypes
<1>4. \A t \in Seqs : Waiting(t)' => Waiting(t) /\ pc'[t] = pc[t]
  BY <1>1 DEF Waiting
<1>5. ASSUME NEW r \in arb_sequence_q' PROVE pc'[r.sequence] = pc[r.sequence]
  <2> HIDE DEF family
  <2>1. r.sequence \in Seqs /\ r.sequence \notin family
    BY <1>1, <1>3 DEF Request
  <2> QED BY <1>1, <1>2, <2>1
<1> QED BY <1>1, <1>3, <1>4, <1>5, MatchedKept

\* What stop_sequences finds are sequences.
LEMMA FoundType == TypeOK => FoundByStop \in SUBSET Seqs
<1> SUFFICES ASSUME TypeOK PROVE FoundByStop \in SUBSET Seqs
  OBVIOUS
<1>1. \A i \in DOMAIN reg_sequences : reg_sequences[i] \in Seqs \cup {NULL}
  BY DEF TypeOK, RegistryTypes
<1>2. \A i \in DOMAIN reg_sequences : i <= i
  BY DEF TypeOK, RegistryTypes, Ids
<1> QED BY <1>1, <1>2 DEF FoundByStop

\* Requests and the sequences that wait for them stay matched in every step.
LEMMA MatchedStep == IInv /\ RequestsMatched /\ [Next]_vars => RequestsMatched'
<1> SUFFICES ASSUME IInv, RequestsMatched, [Next]_vars PROVE RequestsMatched'
  OBVIOUS
<1> USE DEF IInv
<1>1. /\ pc \in [Seqs -> Stopped \cup Running] /\ arb_sequence_q \subseteq Request
      /\ m_lock_arb_size \in Nat \cup {-1}
  BY DEF TypeOK, QueueTypes, ProcessTypes
<1>2. \A r \in arb_sequence_q : r.sequence \in Seqs
  BY <1>1 DEF Request
<1>3. ASSUME UNCHANGED <<arb_sequence_q, arb_completed, g_request_id, request_id>>,
             \A t \in Seqs : Waiting(t)' \/ Waiting(t) => pc'[t] = pc[t]
      PROVE  RequestsMatched'
  <2>1. \A t \in Seqs : Waiting(t)' => Waiting(t)
    BY <1>3 DEF Waiting
  <2>2. ASSUME NEW r \in arb_sequence_q', r.request = "REQ"
        PROVE  pc'[r.sequence] = pc[r.sequence]
    <3>1. r.sequence \in Seqs /\ pc[r.sequence] = "waitGrant"
      BY <1>2, <1>3, <2>2 DEF RequestsMatched
    <3> QED BY <1>3, <3>1 DEF Waiting
  <2> QED BY <1>1, <1>3, <2>1, <2>2, MatchedKept
<1>4. ASSUME grant_queued_locks, UNCHANGED <<g_request_id, request_id>>,
             \A t \in Seqs : Waiting(t)' \/ Waiting(t) => pc'[t] = pc[t]
      PROVE  RequestsMatched'
  <2>1. \A t \in Seqs : Waiting(t)' => Waiting(t)
    BY <1>4 DEF Waiting
  <2>2. ASSUME NEW r \in arb_sequence_q', r.request = "REQ"
        PROVE  pc'[r.sequence] = pc[r.sequence]
    <3>1. r.sequence \in Seqs /\ pc[r.sequence] = "waitGrant"
      BY <1>2, <1>4, <2>2, GrantMoves DEF RequestsMatched
    <3> QED BY <1>4, <3>1 DEF Waiting
  <2> QED BY <1>1, <1>4, <2>1, <2>2, MatchedKept, GrantMoves
<1>5. ASSUME NEW s \in Seqs, Step(s) PROVE RequestsMatched'
  <2>1. CASE Start(s) \/ SetRelevant(s) \/ wait_for_item_done(s) \/ ItemDoneWoken(s) \/ BodyEnd(s)
             \/ m_unlock_req(s)
    <3>1. UNCHANGED <<arb_sequence_q, arb_completed, g_request_id, request_id>>
      BY <2>1 DEF Start, SetRelevant, wait_for_item_done, ItemDoneWoken, BodyEnd,
                  m_unlock_req, queueVars, seqVars
    <3>2. \A t \in Seqs : Waiting(t)' \/ Waiting(t) => pc'[t] = pc[t]
      <4>1. CASE Start(s)
        BY <1>1, <4>1, ParentAssumption DEF Start, Waiting, Stopped
      <4>2. CASE ~ Start(s)
        BY <1>1, <2>1, <4>2 DEF SetRelevant, wait_for_item_done, ItemDoneWoken, BodyEnd,
                  m_unlock_req, seqVars, Waiting
      <4> QED BY <4>1, <4>2
    <3> QED BY <1>3, <3>1, <3>2
  <2>2. CASE Lock(s) \/ Grab(s)
    BY <2>2, LockMatched DEF Lock, Grab
  <2>3. CASE \E lock_request \in BOOLEAN : wait_for_grant(s, lock_request)
    BY <2>3, GrantRequestMatched
  <2>4. CASE m_wait_for_arbitration_completed(s)
    <3>1. CASE ~ ArbitrationCompleted(s)
      BY <1>3, <2>4, <3>1 DEF m_wait_for_arbitration_completed, queueVars
    <3>2. CASE ArbitrationCompleted(s)
      <4>1. /\ arb_completed' = arb_completed \ {request_id[s]}
            /\ UNCHANGED <<arb_sequence_q, g_request_id, request_id>>
            /\ Waiting(s) /\ request_id[s] \in arb_completed
            /\ pc' = [pc EXCEPT ![s] = "body"] \/ pc' = [pc EXCEPT ![s] = "granted"]
        BY <2>4, <3>2 DEF m_wait_for_arbitration_completed, queueVars, ArbitrationCompleted, Waiting
      <4>2. ASSUME NEW r \in arb_sequence_q', r.request = "REQ"
            PROVE  pc'[r.sequence] = pc[r.sequence]
        <5>1. request_id[r.sequence] \notin arb_completed /\ r.sequence \in Seqs
          BY <1>2, <4>1, <4>2 DEF RequestsMatched, request_ids
        <5> QED BY <1>1, <4>1, <5>1
      <4>3. \A t \in Seqs : Waiting(t)' => Waiting(t) /\ pc'[t] = pc[t]
        BY <1>1, <4>1 DEF Waiting
      <4> QED BY <1>1, <4>1, <4>2, <4>3, MatchedKept
    <3> QED BY <3>1, <3>2
  <2>5. ASSUME NEW wait \in BOOLEAN, send_request(s, wait) PROVE RequestsMatched'
    <3>1. \A t \in Seqs : Waiting(t)' \/ Waiting(t) => pc'[t] = pc[t]
      BY <1>1, <2>5 DEF send_request, Waiting
    <3> QED BY <1>4, <2>5, <3>1 DEF send_request
  <2>6. CASE StartReturns(s)
    <3>1. \A t \in Seqs : Waiting(t)' \/ Waiting(t) => pc'[t] = pc[t]
      BY <1>1, <2>6 DEF StartReturns, Waiting
    <3>2. /\ UNCHANGED <<arb_completed, g_request_id, request_id>>
          /\ arb_sequence_q' \subseteq arb_sequence_q
      BY <2>6 DEF StartReturns, remove_sequence_from_queues, queueVars
    <3>3. \A t \in Seqs : Waiting(t)' => Waiting(t)
      BY <3>1 DEF Waiting
    <3>4. ASSUME NEW r \in arb_sequence_q', r.request = "REQ"
          PROVE  pc'[r.sequence] = pc[r.sequence]
      <4>1. r.sequence \in Seqs /\ pc[r.sequence] = "waitGrant"
        BY <1>2, <3>2, <3>4 DEF RequestsMatched
      <4> QED BY <3>1, <4>1 DEF Waiting
    <3> QED BY <1>1, <3>1, <3>2, <3>3, <3>4, MatchedKept
  <2>7. CASE Kill(s)
    BY <2>7, KillMatched DEF Kill
  <2> QED BY <1>5, <2>1, <2>2, <2>3, <2>4, <2>5, <2>6, <2>7 DEF Step
<1>6. CASE stop_sequences
  <2>1. FoundByStop \in SUBSET Seqs
    BY FoundType
  <2> QED BY <1>6, <2>1, KillMatched DEF stop_sequences
<1>7. CASE DriverStep \/ UpdateFifo
  <2>1. CASE get_next_item \/ m_wait_arb_not_equal \/ peek \/ try_next_item \/ TryPeek
             \/ item_done_rsp \/ ItemDoneFatal \/ UpdateFifo
    <3>1. UNCHANGED <<arb_sequence_q, arb_completed, g_request_id, request_id, pc>>
      BY <2>1 DEF get_next_item, m_wait_arb_not_equal, peek, try_next_item, TryPeek,
                  item_done_rsp, ItemDoneFatal, UpdateFifo, queueVars, seqVars
    <3> QED BY <1>3, <3>1
  <2>2. CASE m_select_sequence \/ TryChoose
    <3>1. /\ arb_sequence_q' \subseteq arb_sequence_q
          /\ \A id \in arb_completed' :
               id \in arb_completed \/ \E r \in arb_sequence_q \ arb_sequence_q' : r.request_id = id
          /\ UNCHANGED <<g_request_id, request_id, pc>>
      <4>1. PICK G \in SUBSET arb_sequence_q : \E R \in SUBSET (arb_sequence_q \ G) :
              /\ arb_sequence_q' = (arb_sequence_q \ G) \ R
              /\ arb_completed' = arb_completed \cup request_ids(G \cup R)
        BY <2>2, SelectionShape DEF TypeOK
      <4>2. UNCHANGED <<g_request_id, request_id, pc>>
        BY <2>2 DEF m_select_sequence, TryChoose, seqVars
      <4> QED BY <4>1, <4>2 DEF request_ids
    <3>2. \A t \in Seqs : Waiting(t)' => Waiting(t)
      BY <3>1 DEF Waiting
    <3> QED BY <1>1, <3>1, <3>2, MatchedKept
  <2>3. CASE item_done \/ PutReturns
    BY <1>4, <2>3 DEF item_done, PutReturns, seqVars
  <2> QED BY <1>7, <2>1, <2>2, <2>3 DEF DriverStep
<1>8. CASE UNCHANGED vars
  BY <1>3, <1>8 DEF vars, queueVars, seqVars
<1> QED BY <1>5, <1>6, <1>7, <1>8 DEF Next

\* Every request in the queue belongs to the sequence that waits for it, whatever
\* the testbench calls (m_wait_for_arbitration_completed, grant_queued_locks).
THEOREM RequestsStayMatched == Spec => []RequestsMatched
<1>1. Init => RequestsMatched
  BY DEF Init, RequestsMatched, request_ids, Waiting
<1> QED BY <1>1, MatchedStep, Inductive, PTL DEF Spec

-----------------------------------------------------------------------------
(* The life cycle of sequences *)

\* LifeInv without the requests.
Alive == LinesOfDescent /\ IdsDistinct /\ Registered

Holders == Owners(lock_list) \cup Owners(arb_sequence_q)

\* What the lists name are sequences, and what granting adds to the holders of
\* locks was in the queue.
LEMMA HoldersType == QueueTypes => Holders \subseteq Seqs
  BY DEF QueueTypes, Holders, Owners, Request

\* Granting makes no dead sequence hold a lock.
LEMMA GrantKeepsHolders ==
  ASSUME NEW G \in SUBSET arb_sequence_q,
         arb_sequence_q' \subseteq arb_sequence_q,
         lock_list' = lock_list \cup GrantedLocks(G, 0)
  PROVE  Holders' \subseteq Holders
  BY DEF Holders, Owners, GrantedLocks

\* A step in which sequences only go on in their bodies ends no start().
LEMMA AliveKept ==
  ASSUME TypeOK, Alive, UNCHANGED <<exiting, m_sqr_seq_ids, g_sequence_id>>,
         \A t \in Seqs : \/ pc'[t] = pc[t]
                         \/ {pc[t], pc'[t]} \subseteq Running \ {"join"},
         \A i \in DOMAIN reg_sequences :
            i \in DOMAIN reg_sequences' /\ reg_sequences'[i] = reg_sequences[i]
  PROVE  Alive'
<1>1. \A t \in Seqs : pc'[t] \in Running <=> pc[t] \in Running
  OBVIOUS
<1>2. \A t \in Seqs : pc'[t] = "join" <=> pc[t] = "join"
  OBVIOUS
<1>3. \A t \in Seqs : InStart(t)' <=> InStart(t)
  BY <1>1 DEF InStart
<1>4. LinesOfDescent'
  BY <1>1, <1>2, <1>3, AncestorsOrder DEF Alive, LinesOfDescent
<1>5. IdsDistinct' /\ Registered'
  BY <1>1 DEF Alive, IdsDistinct, Registered
<1> QED BY <1>4, <1>5 DEF Alive

\* start() puts the sequence below its parent, whose body has nothing else under way.
LEMMA StartAlive ==
  ASSUME TypeOK, Alive, "overlap" \notin Ops, NEW s \in Seqs, Start(s)
  PROVE  Alive'
<1>1. /\ pc[s] \in Stopped /\ exiting[s] = 0
      /\ Parent[s] # NULL => pc[Parent[s]] = "body"
      /\ m_sqr_seq_ids' = [m_sqr_seq_ids EXCEPT ![s] = g_sequence_id]
      /\ reg_sequences' = [i \in DOMAIN reg_sequences \cup {g_sequence_id} |->
                             IF i = g_sequence_id THEN s ELSE reg_sequences[i]]
      /\ g_sequence_id' = g_sequence_id + 1
      /\ pc' = [t \in Seqs |-> CASE t = s         -> "body"
                                [] t = Parent[s] -> "join"
                                [] OTHER         -> pc[t]]
      /\ UNCHANGED exiting
  BY DEF Start
<1>2. /\ Parent[s] # s
      /\ Parent[s] # NULL => /\ Parent[s] \in Seqs
                             /\ Ancestors[s] = {Parent[s]} \cup Ancestors[Parent[s]]
      /\ Parent[s] = NULL => Ancestors[s] = {}
  <2>1. Parent[s] \in Seqs \cup {NULL} /\ s # NULL
    BY ParentAssumption
  <2> QED BY <2>1, AncestorsDef, AncestorsOrder
<1>3. ~ InStart(s)
  BY <1>1 DEF InStart, Stopped, Running
<1>4. /\ pc'[s] = "body"
      /\ Parent[s] # NULL => pc'[Parent[s]] = "join"
      /\ \A t \in Seqs \ {s, Parent[s]} : pc'[t] = pc[t]
  BY <1>1, <1>2
<1>5. \A t \in Seqs \ {s} : (pc'[t] \in Running <=> pc[t] \in Running)
  BY <1>1, <1>2, <1>4, ParentAssumption DEF Running
<1>6. \A t \in Seqs \ {s} : InStart(t)' <=> InStart(t)
  BY <1>1, <1>5 DEF InStart
<1>7. LinesOfDescent'
  <2>1. \A t \in Seqs : pc'[t] \in Running => exiting'[t] = 0
    BY <1>1, <1>5 DEF Alive, LinesOfDescent
  <2>2. \A t \in Seqs : exiting'[t] <= 1
    BY <1>1 DEF Alive, LinesOfDescent
  <2>3. ASSUME NEW t \in Seqs, InStart(t)', NEW p \in Ancestors[t] PROVE pc'[p] = "join"
    <3>1. p \in Seqs
      BY AncestorsOrder
    <3>2. pc[p] = "join" => pc'[p] = "join"
      BY <1>1, <1>2, <1>4, <3>1 DEF Stopped
    <3>3. CASE t = s
      <4>1. Parent[s] # NULL
        BY <1>2, <3>3
      <4>2. InStart(Parent[s])
        BY <1>1, <4>1 DEF InStart, Running
      <4>3. p = Parent[s] \/ pc[p] = "join"
        BY <1>2, <3>3, <4>1, <4>2 DEF Alive, LinesOfDescent
      <4> QED BY <1>4, <3>2, <4>1, <4>3
    <3>4. CASE t # s
      BY <1>6, <2>3, <3>2, <3>4 DEF Alive, LinesOfDescent
    <3> QED BY <3>3, <3>4
  <2>4. ASSUME NEW u \in Seqs \ {s}, InStart(u), NEW a \in Ancestors[s] \cap Ancestors[u]
        PROVE  is_child(u, s)
    <3> DEFINE p == Parent[s]
    <3>1. p \in Seqs /\ a \in {p} \cup Ancestors[p] /\ pc[p] = "body"
      BY <1>1, <1>2
    <3>2. p \notin Ancestors[u] /\ InStart(p)
      BY <2>4, <3>1 DEF Alive, LinesOfDescent, InStart, Running
    <3>3. a \in Ancestors[p] \cap Ancestors[u]
      BY <3>1, <3>2
    <3>4. p = u \/ u \in Ancestors[p]
      BY <2>4, <3>1, <3>2, <3>3 DEF Alive, LinesOfDescent, is_child
    <3> QED BY <1>2, <3>1, <3>4, ParentAssumption DEF is_child
  <2>5. ASSUME NEW t \in Seqs, NEW u \in Seqs, InStart(t)', InStart(u)',
               Ancestors[t] \cap Ancestors[u] # {}
        PROVE  t = u \/ is_child(t, u) \/ is_child(u, t)
    <3>1. CASE t # s /\ u # s
      BY <1>6, <2>5, <3>1 DEF Alive, LinesOfDescent
    <3>2. CASE t = s /\ u # s
      BY <1>6, <2>4, <2>5, <3>2
    <3>3. CASE u = s /\ t # s
      BY <1>6, <2>4, <2>5, <3>3
    <3> QED BY <3>1, <3>2, <3>3
  <2>6. (\A t \in Seqs : InStart(t) => \A p \in Ancestors[t] : pc[p] = "join")'
    BY <2>3
  <2>7. (\A t, u \in Seqs : InStart(t) /\ InStart(u) /\ Ancestors[t] \cap Ancestors[u] # {} =>
           t = u \/ is_child(t, u) \/ is_child(u, t))'
    BY <2>5
  <2> QED BY <2>1, <2>2, <2>6, <2>7 DEF LinesOfDescent
<1>8. IdsDistinct'
  BY <1>1, <1>5 DEF Alive, IdsDistinct, TypeOK, RegistryTypes, Ids
<1>9. Registered'
  <2> SUFFICES ASSUME NEW t \in Seqs, pc'[t] \in Running
               PROVE  /\ m_sqr_seq_ids'[t] \in DOMAIN reg_sequences'
                      /\ reg_sequences'[m_sqr_seq_ids'[t]] = t
    BY DEF Registered
  <2>1. m_sqr_seq_ids \in [Seqs -> Ids] /\ g_sequence_id \in Nat
    BY DEF TypeOK, RegistryTypes
  <2>2. CASE t = s
    BY <1>1, <2>1, <2>2
  <2>3. CASE t # s
    <3>1. pc[t] \in Running /\ m_sqr_seq_ids'[t] = m_sqr_seq_ids[t]
      BY <1>1, <1>5, <2>1, <2>3
    <3>2. m_sqr_seq_ids[t] # g_sequence_id
      BY <2>1 DEF Alive, IdsDistinct, Ids
    <3> QED BY <1>1, <3>1, <3>2 DEF Alive, Registered
  <2> QED BY <2>2, <2>3
<1> QED BY <1>7, <1>8, <1>9 DEF Alive

\* A body that ends leaves its start() to return.
LEMMA BodyEndAlive ==
  ASSUME TypeOK, Alive, NEW s \in Seqs, BodyEnd(s) PROVE Alive'
<1>1. /\ pc[s] = "body" /\ pc' = [pc EXCEPT ![s] = "finished"]
      /\ exiting' = [exiting EXCEPT ![s] = @ + 1]
      /\ UNCHANGED <<reg_sequences, m_sqr_seq_ids, g_sequence_id>>
  BY DEF BodyEnd, regVars
<1>2. pc \in [Seqs -> Stopped \cup Running] /\ exiting \in [Seqs -> Nat]
  BY DEF TypeOK, ProcessTypes
<1>3. exiting[s] = 0 /\ exiting'[s] = 1 /\ pc'[s] = "finished"
  BY <1>1, <1>2 DEF Alive, LinesOfDescent, Running
<1>4. \A t \in Seqs \ {s} : pc'[t] = pc[t] /\ exiting'[t] = exiting[t]
  BY <1>1, <1>2
<1>5. \A t \in Seqs : InStart(t)' <=> InStart(t)
  BY <1>1, <1>3, <1>4 DEF InStart, Running
<1>6. \A t \in Seqs : pc'[t] \in Running => t # s /\ pc[t] \in Running
  BY <1>3, <1>4 DEF Running
<1>7. \A t \in Seqs : (pc[t] = "join" => pc'[t] = "join") /\ exiting'[t] <= 1
  BY <1>1, <1>3, <1>4 DEF Alive, LinesOfDescent
<1>8. LinesOfDescent'
  BY <1>4, <1>5, <1>6, <1>7, AncestorsOrder DEF Alive, LinesOfDescent
<1>9. IdsDistinct' /\ Registered'
  BY <1>1, <1>6 DEF Alive, IdsDistinct, Registered
<1> QED BY <1>8, <1>9 DEF Alive

\* What remove_sequence_from_queues leaves.
LEMMA RemoveLeaves ==
  ASSUME NEW S, NEW K, remove_sequence_from_queues(S, K)
  PROVE  /\ arb_sequence_q' = {r \in arb_sequence_q : \A s \in S : r.sequence \notin Family(s)}
         /\ lock_list' = {l \in lock_list : \A s \in S : l.sequence \notin Family(s)}
         /\ Holders' = {h \in Holders : \A s \in S : h \notin Family(s)}
         /\ \A i \in DOMAIN reg_sequences : (\A s \in S \cup K : i # m_sqr_seq_ids[s]) =>
              i \in DOMAIN reg_sequences' /\ reg_sequences'[i] = reg_sequences[i]
<1>1. /\ arb_sequence_q' = {r \in arb_sequence_q : \A s \in S : r.sequence \notin Family(s)}
      /\ lock_list' = {l \in lock_list : \A s \in S : l.sequence \notin Family(s)}
  BY DEF remove_sequence_from_queues
<1>2. Holders' = {h \in Holders : \A s \in S : h \notin Family(s)}
  BY <1>1 DEF Holders, Owners
<1>3. reg_sequences' = [i \in DOMAIN reg_sequences \ {m_sqr_seq_ids[s] : s \in S \cup K} |->
                          reg_sequences[i]]
  BY DEF remove_sequence_from_queues
<1> QED BY <1>1, <1>2, <1>3

\* When a start() returns, nothing else is under way below the parent, which goes on.
LEMMA ReturnAlive ==
  ASSUME TypeOK, Alive, NEW s \in Seqs, StartReturns(s)
  PROVE  Alive'
<1> DEFINE p == Parent[s]
<1>1. /\ exiting[s] > 0 /\ exiting' = [exiting EXCEPT ![s] = @ - 1]
      /\ pc' = [t \in Seqs |-> IF t = p /\ pc[t] = "join" THEN "body" ELSE pc[t]]
      /\ UNCHANGED <<m_sqr_seq_ids, g_sequence_id>>
      /\ \/ pc[s] = "stopped" /\ UNCHANGED reg_sequences
         \/ pc[s] # "stopped" /\ remove_sequence_from_queues({s}, {})
  BY DEF StartReturns
<1>2. pc \in [Seqs -> Stopped \cup Running] /\ exiting \in [Seqs -> Nat]
  BY DEF TypeOK, ProcessTypes
<1>3. InStart(s) /\ pc[s] \notin Running /\ exiting'[s] = 0
  BY <1>1, <1>2 DEF Alive, LinesOfDescent, InStart
<1>4. \A t \in Seqs : /\ pc'[t] \in Running <=> pc[t] \in Running
                      /\ pc'[t] = "stopped" <=> pc[t] = "stopped"
                      /\ t # p => pc'[t] = pc[t]
                      /\ t # s => exiting'[t] = exiting[t]
  BY <1>1, <1>2 DEF Running
<1>5. \A t \in Seqs : InStart(t)' <=> InStart(t) /\ t # s
  BY <1>3, <1>4 DEF InStart
<1>6. ASSUME NEW t \in Seqs \ {s}, InStart(t) PROVE p \notin Ancestors[t] /\ s \notin Ancestors[t]
  <2>1. s \notin Ancestors[t]
    BY <1>3, <1>6 DEF Alive, LinesOfDescent, Running
  <2>2. CASE p \in Ancestors[t]
    <3>1. p \in Seqs /\ Ancestors[s] = {p} \cup Ancestors[p]
      BY <2>2, AncestorsDef, AncestorsOrder, ParentAssumption
    <3>2. t \in Ancestors[s]
      BY <1>3, <1>6, <2>1, <2>2, <3>1 DEF Alive, LinesOfDescent, is_child
    <3>3. t = p \/ t \in Ancestors[p]
      BY <3>1, <3>2
    <3>4. p \in Ancestors[p]
      BY <2>2, <3>1, <3>3, AncestorsOrder
    <3> QED BY <3>1, <3>4, AncestorsOrder
  <2> QED BY <2>1, <2>2
<1>7. LinesOfDescent'
  <2>1. \A t \in Seqs : pc'[t] \in Running => exiting'[t] = 0
    BY <1>3, <1>4 DEF Alive, LinesOfDescent
  <2>2. \A t \in Seqs : exiting'[t] <= 1
    BY <1>3, <1>4 DEF Alive, LinesOfDescent
  <2>3. (\A t \in Seqs : InStart(t) => \A q \in Ancestors[t] : pc[q] = "join")'
    BY <1>4, <1>5, <1>6, AncestorsOrder DEF Alive, LinesOfDescent
  <2>4. (\A t, u \in Seqs : InStart(t) /\ InStart(u) /\ Ancestors[t] \cap Ancestors[u] # {} =>
           t = u \/ is_child(t, u) \/ is_child(u, t))'
    BY <1>5 DEF Alive, LinesOfDescent
  <2> QED BY <2>1, <2>2, <2>3, <2>4 DEF LinesOfDescent
<1>8. IdsDistinct'
  BY <1>1, <1>4 DEF Alive, IdsDistinct
<1>9. Registered'
  <2> SUFFICES ASSUME NEW t \in Seqs, pc'[t] \in Running
               PROVE  /\ m_sqr_seq_ids[t] \in DOMAIN reg_sequences'
                      /\ reg_sequences'[m_sqr_seq_ids[t]] = t
    BY <1>1 DEF Registered
  <2>1. /\ pc[t] \in Running /\ m_sqr_seq_ids[t] \in DOMAIN reg_sequences
        /\ reg_sequences[m_sqr_seq_ids[t]] = t
    BY <1>4 DEF Alive, Registered
  <2>2. m_sqr_seq_ids[t] # m_sqr_seq_ids[s]
    BY <1>3, <2>1 DEF Alive, IdsDistinct
  <2>3. CASE remove_sequence_from_queues({s}, {})
    <3>1. \A x \in {s} \cup {} : m_sqr_seq_ids[t] # m_sqr_seq_ids[x]
      BY <2>2
    <3> QED BY <2>1, <2>3, <3>1, RemoveLeaves
  <2> QED BY <1>1, <2>1, <2>3
<1> QED BY <1>7, <1>8, <1>9 DEF Alive

\* Killing sequences kills everything below them whose start() has not returned.
LEMMA KilledFacts ==
  ASSUME NEW S \in SUBSET Seqs
  PROVE  /\ S \subseteq Killed(S) /\ Killed(S) \subseteq Seqs
         /\ \A k \in Killed(S) : \E s \in S : k \in Family(s)
         /\ \A s \in S : \A c \in Family(s) : InStart(c) => c \in Killed(S)
         /\ \A k \in Killed(S) : \A c \in Seqs :
              k \in Ancestors[c] => \E s \in S : c \in Family(s)
<1>1. /\ S \subseteq Killed(S) /\ Killed(S) \subseteq Seqs
      /\ \A k \in Killed(S) : \E s \in S : k \in Family(s)
      /\ \A s \in S : \A c \in Family(s) : InStart(c) => c \in Killed(S)
  BY DEF Killed, Family, InStart
<1>2. ASSUME NEW k \in Killed(S), NEW c \in Seqs, k \in Ancestors[c]
      PROVE  \E s \in S : c \in Family(s)
  <2>1. PICK s \in S : k = s \/ s \in Ancestors[k]
    BY <1>1 DEF Family, is_child
  <2>2. s \in Ancestors[c]
    BY <1>2, <2>1, AncestorsOrder
  <2> QED BY <2>2 DEF Family, is_child
<1> QED BY <1>1, <1>2

\* A kill changes who is alive by the killed only.
LEMMA KillAlive ==
  ASSUME TypeOK, Alive, NEW S \in SUBSET Seqs, m_kill_sequences(S),
         UNCHANGED <<m_sqr_seq_ids, g_sequence_id>>
  PROVE  Alive'
<1> DEFINE K == Killed(S)
           Orphaned(t) == \E q \in K : q \in Ancestors[t]
<1>1. /\ remove_sequence_from_queues(S, K)
      /\ pc' = [t \in Seqs |-> IF t \in K THEN "stopped" ELSE pc[t]]
      /\ exiting' = [t \in Seqs |->
                       CASE t \in K /\ Orphaned(t)      -> 0
                         [] t \in K /\ ~Orphaned(t) /\ pc[t] \in Running -> exiting[t] + 1
                         [] OTHER -> exiting[t]]
  BY DEF m_kill_sequences, is_child
<1>2. pc \in [Seqs -> Stopped \cup Running] /\ exiting \in [Seqs -> Nat]
  BY DEF TypeOK, ProcessTypes
<1> HIDE DEF K
<1>3. \A t \in Seqs : /\ t \in K => pc'[t] = "stopped"
                      /\ t \notin K => pc'[t] = pc[t] /\ exiting'[t] = exiting[t]
  BY <1>1
<1>4. \A t \in Seqs : /\ t \in K /\ Orphaned(t) => exiting'[t] = 0
                      /\ t \in K /\ ~Orphaned(t) /\ pc[t] \in Running =>
                           exiting'[t] = exiting[t] + 1
                      /\ t \in K /\ ~Orphaned(t) /\ pc[t] \notin Running =>
                           exiting'[t] = exiting[t]
  <2> HIDE DEF Orphaned
  <2> QED BY <1>1
<1> HIDE DEF Orphaned
<1>5. \A t \in Seqs : pc'[t] \in Running => t \notin K /\ pc[t] \in Running
  BY <1>3 DEF Running
<1>6. \A t \in Seqs : InStart(t)' => InStart(t) /\ ~(t \in K /\ Orphaned(t))
  BY <1>2, <1>3, <1>4, <1>5 DEF InStart
<1>7. LinesOfDescent'
  <2>1. \A t \in Seqs : pc'[t] \in Running => exiting'[t] = 0
    BY <1>3, <1>5 DEF Alive, LinesOfDescent
  <2>2. ASSUME NEW t \in Seqs PROVE exiting'[t] <= 1
    <3>1. exiting[t] <= 1 /\ exiting[t] \in Nat /\ (pc[t] \in Running => exiting[t] = 0)
      BY <1>2 DEF Alive, LinesOfDescent
    <3> QED BY <1>3, <1>4, <3>1
  <2>3. ASSUME NEW t \in Seqs, InStart(t)', NEW q \in Ancestors[t] PROVE pc'[q] = "join"
    <3>1. q \in Seqs /\ InStart(t) /\ pc[q] = "join"
      BY <1>6, <2>3, AncestorsOrder DEF Alive, LinesOfDescent
    <3>2. CASE q \in K
      <4>1. t \in K
        BY <3>1, <3>2, KilledFacts DEF K
      <4> QED BY <1>6, <2>3, <3>2, <4>1 DEF Orphaned
    <3> QED BY <1>3, <3>1, <3>2
  <2>4. (\A t \in Seqs : InStart(t) => \A q \in Ancestors[t] : pc[q] = "join")'
    BY <2>3
  <2>5. (\A t, u \in Seqs : InStart(t) /\ InStart(u) /\ Ancestors[t] \cap Ancestors[u] # {} =>
           t = u \/ is_child(t, u) \/ is_child(u, t))'
    BY <1>6 DEF Alive, LinesOfDescent
  <2> QED BY <2>1, <2>2, <2>4, <2>5 DEF LinesOfDescent
<1>8. IdsDistinct'
  BY <1>5 DEF Alive, IdsDistinct
<1>9. Registered'
  <2> SUFFICES ASSUME NEW t \in Seqs, pc'[t] \in Running
               PROVE  /\ m_sqr_seq_ids[t] \in DOMAIN reg_sequences'
                      /\ reg_sequences'[m_sqr_seq_ids[t]] = t
    BY DEF Registered
  <2>1. /\ t \notin K /\ m_sqr_seq_ids[t] \in DOMAIN reg_sequences
        /\ reg_sequences[m_sqr_seq_ids[t]] = t
        /\ m_sqr_seq_ids[t] # -1
    BY <1>5 DEF Alive, Registered, IdsDistinct
  <2>2. \A k \in S \cup K : k \in Seqs /\ k # t
    BY <2>1, KilledFacts DEF K
  <2>3. \A k \in S \cup K : m_sqr_seq_ids[t] # m_sqr_seq_ids[k]
    BY <2>1, <2>2 DEF Alive, IdsDistinct
  <2> QED BY <1>1, <2>1, <2>3, RemoveLeaves
<1> QED BY <1>7, <1>8, <1>9 DEF Alive

\* A step that makes no request loses none, unless it takes from the lists what a
\* sequence still waits for.
LEMMA NotLostKept ==
  ASSUME RequestNotLost,
         \A t \in Seqs : Waiting(t)' =>
           /\ Waiting(t) /\ request_id'[t] = request_id[t]
           /\ request_id[t] \in request_ids(arb_sequence_q) \cup arb_completed =>
                request_id[t] \in (request_ids(arb_sequence_q) \cup arb_completed)'
  PROVE  RequestNotLost'
<1> SUFFICES ASSUME NEW t \in Seqs, Waiting(t)'
             PROVE  request_id'[t] \in (request_ids(arb_sequence_q) \cup arb_completed)'
  BY DEF RequestNotLost
<1> QED BY DEF RequestNotLost

\* remove_sequence_from_queues takes no request of a sequence that goes on.
LEMMA RemoveLosesNone ==
  ASSUME RequestsMatched, RequestNotLost, NEW S \in SUBSET Seqs, NEW K,
         remove_sequence_from_queues(S, K), UNCHANGED <<arb_completed, request_id>>,
         \A t \in Seqs : Waiting(t)' => Waiting(t) /\ \A s \in S : t \notin Family(s)
  PROVE  RequestNotLost'
<1> SUFFICES ASSUME NEW t \in Seqs, Waiting(t)', request_id[t] \in request_ids(arb_sequence_q)
             PROVE  request_id[t] \in request_ids(arb_sequence_q)'
  BY NotLostKept
<1>1. PICK r \in arb_sequence_q : r.request_id = request_id[t]
  BY DEF request_ids
<1>2. r.sequence = t
  BY <1>1 DEF RequestsMatched
<1>3. r \in arb_sequence_q'
  BY <1>2, RemoveLeaves
<1> QED BY <1>1, <1>3 DEF request_ids

\* A kill removes no request of a sequence that goes on.
LEMMA KillLosesNone ==
  ASSUME RequestsMatched, RequestNotLost, NEW S \in SUBSET Seqs, m_kill_sequences(S),
         UNCHANGED <<arb_completed, request_id>>
  PROVE  RequestNotLost'
<1>1. /\ remove_sequence_from_queues(S, Killed(S))
      /\ pc' = [t \in Seqs |-> IF t \in Killed(S) THEN "stopped" ELSE pc[t]]
  BY DEF m_kill_sequences
<1>2. ASSUME NEW t \in Seqs, Waiting(t)'
      PROVE  Waiting(t) /\ \A s \in S : t \notin Family(s)
  <2>1. Waiting(t) /\ t \notin Killed(S)
    BY <1>1, <1>2 DEF Waiting
  <2>2. InStart(t)
    BY <2>1 DEF Waiting, InStart, Running
  <2> QED BY <2>1, <2>2, KilledFacts
<1> QED BY <1>1, <1>2, RemoveLosesNone

\* grant_queued_locks and the selection move a request, they lose none.
LEMMA GrantLosesNone ==
  ASSUME RequestNotLost, grant_queued_locks, UNCHANGED request_id,
         \A t \in Seqs : Waiting(t)' => Waiting(t)
  PROVE  RequestNotLost'
<1>1. (request_ids(arb_sequence_q) \cup arb_completed)
        \subseteq (request_ids(arb_sequence_q) \cup arb_completed)'
  BY DEF grant_queued_locks, request_ids
<1> QED BY <1>1, NotLostKept

\* A new request is waited for, and the others stay.
LEMMA NewRequestNotLost ==
  ASSUME TypeOK, RequestsMatched, RequestNotLost, NEW s \in Seqs,
         \/ \E front \in BOOLEAN : m_lock_req(s, front)
         \/ \E lock_request \in BOOLEAN : wait_for_grant(s, lock_request)
  PROVE  RequestNotLost'
<1>1. /\ pc \in [Seqs -> Stopped \cup Running] /\ request_id \in [Seqs -> Nat]
      /\ g_request_id \in Nat
  BY DEF TypeOK, QueueTypes, ProcessTypes
<1>2. ASSUME NEW front \in BOOLEAN, m_lock_req(s, front) PROVE RequestNotLost'
  <2> DEFINE new == [request |-> "LOCK", sequence |-> s, item_priority |-> 0,
                     request_id |-> g_request_id, front |-> front]
             Q == arb_sequence_q \cup {new}
  <2>1. PICK G \in SUBSET Q :
          /\ arb_sequence_q' = Q \ G
          /\ \/ /\ new \in G
                /\ arb_completed' = arb_completed \cup (request_ids(G) \ {g_request_id})
                /\ pc' = pc
             \/ /\ new \notin G
                /\ arb_completed' = arb_completed \cup request_ids(G)
                /\ pc' = [pc EXCEPT ![s] = "waitLock"]
    BY <1>2 DEF m_lock_req
  <2>2. /\ pc[s] = "body" /\ request_id' = [request_id EXCEPT ![s] = g_request_id]
        /\ new.request_id = g_request_id
    BY <1>2 DEF m_lock_req
  <2> HIDE DEF new
  <2> SUFFICES ASSUME NEW t \in Seqs, Waiting(t)'
               PROVE  request_id'[t] \in (request_ids(arb_sequence_q) \cup arb_completed)'
    BY DEF RequestNotLost
  <2>3. CASE t = s
    <3>1. new \notin G /\ request_id'[t] = g_request_id
      BY <1>1, <2>1, <2>2, <2>3 DEF Waiting
    <3> QED BY <2>1, <2>2, <3>1 DEF request_ids
  <2>4. CASE t # s
    <3>1. Waiting(t) /\ request_id'[t] = request_id[t] /\ request_id[t] # g_request_id
      BY <1>1, <2>1, <2>2, <2>4 DEF Waiting, RequestsMatched
    <3>2. request_id[t] \in request_ids(arb_sequence_q) \cup arb_completed
      BY <3>1 DEF RequestNotLost
    <3> QED BY <2>1, <3>1, <3>2 DEF request_ids
  <2> QED BY <2>3, <2>4
<1>3. ASSUME NEW lock_request \in BOOLEAN, wait_for_grant(s, lock_request)
      PROVE  RequestNotLost'
  <2> DEFINE n   == IF lock_request THEN 1 ELSE 0
             req == [request |-> "REQ", sequence |-> s, item_priority |-> m_priority[s],
                     request_id |-> g_request_id + n, front |-> FALSE]
  <2>1. /\ arb_sequence_q \cup {req} \subseteq arb_sequence_q'
        /\ pc' = [pc EXCEPT ![s] = "waitGrant"] /\ arb_completed' = arb_completed
        /\ request_id' = [request_id EXCEPT ![s] = req.request_id]
    BY <1>3 DEF wait_for_grant
  <2> HIDE DEF req
  <2> SUFFICES ASSUME NEW t \in Seqs, Waiting(t)'
               PROVE  request_id'[t] \in (request_ids(arb_sequence_q) \cup arb_completed)'
    BY DEF RequestNotLost
  <2>2. CASE t = s
    BY <1>1, <2>1, <2>2 DEF request_ids
  <2>3. CASE t # s
    <3>1. Waiting(t) /\ request_id'[t] = request_id[t]
      BY <1>1, <2>1, <2>3 DEF Waiting
    <3> QED BY <2>1, <3>1 DEF RequestNotLost, request_ids
  <2> QED BY <2>2, <2>3
<1> QED BY <1>2, <1>3

\* Every step of a sequence preserves LifeInv.
LEMMA LifeSequenceStep ==
  ASSUME IInv, RequestsMatched, LifeInv, "overlap" \notin Ops, NEW s \in Seqs, Step(s)
  PROVE  LifeInv'
<1> USE DEF IInv
<1>1. /\ pc \in [Seqs -> Stopped \cup Running] /\ exiting \in [Seqs -> Nat]
      /\ Alive /\ RequestNotLost
  BY DEF TypeOK, ProcessTypes, LifeInv, Alive
<1>2. Alive' /\ RequestNotLost' => LifeInv'
  BY DEF Alive, LifeInv
<1>3. ASSUME UNCHANGED <<exiting, regVars>>,
             \/ pc' = pc
             \/ /\ pc[s] \in Running \ {"join"}
                /\ \E w \in Running \ {"join"} : pc' = [pc EXCEPT ![s] = w]
      PROVE  Alive'
  <2>1. \A t \in Seqs : pc'[t] = pc[t] \/ {pc[t], pc'[t]} \subseteq Running \ {"join"}
    BY <1>1, <1>3
  <2>2. UNCHANGED <<reg_sequences, m_sqr_seq_ids, g_sequence_id, exiting>>
    BY <1>3 DEF regVars
  <2> QED BY <1>1, <2>1, <2>2, AliveKept
<1>4. CASE Start(s)
  <2>1. \A t \in Seqs : Waiting(t)' => Waiting(t)
    BY <1>1, <1>4 DEF Start, Waiting
  <2>2. UNCHANGED <<arb_sequence_q, arb_completed, request_id>>
    BY <1>4 DEF Start, queueVars
  <2> QED BY <1>1, <1>2, <1>4, <2>1, <2>2, StartAlive, NotLostKept
<1>5. CASE SetRelevant(s) \/ wait_for_item_done(s) \/ ItemDoneWoken(s)
  <2> USE DEF SetRelevant, wait_for_item_done, ItemDoneWoken
  <2>1. UNCHANGED <<arb_sequence_q, arb_completed, request_id, exiting, regVars>>
    BY <1>5 DEF queueVars
  <2>2. \/ pc' = pc
        \/ /\ pc[s] \in Running \ {"join"}
           /\ \E w \in Running \ {"join"} : pc' = [pc EXCEPT ![s] = w]
    BY <1>5 DEF Running
  <2>3. \A t \in Seqs : Waiting(t)' => Waiting(t)
    BY <1>1, <1>5 DEF Waiting
  <2>4. Alive'
    BY <1>3, <2>1, <2>2
  <2> QED BY <1>1, <1>2, <2>1, <2>3, <2>4, NotLostKept
<1>6. CASE \/ \E front \in BOOLEAN : m_lock_req(s, front)
           \/ \E lock_request \in BOOLEAN : wait_for_grant(s, lock_request)
  <2>1. UNCHANGED <<exiting, regVars>> /\ pc[s] = "body"
    BY <1>6 DEF m_lock_req, wait_for_grant
  <2>2. pc' = pc \/ \E w \in Running \ {"join"} : pc' = [pc EXCEPT ![s] = w]
    BY <1>6 DEF m_lock_req, wait_for_grant, Running
  <2>3. pc[s] \in Running \ {"join"}
    BY <2>1 DEF Running
  <2>4. Alive'
    BY <1>3, <2>1, <2>2, <2>3
  <2> QED BY <1>1, <1>2, <1>6, <2>4, NewRequestNotLost
<1>7. CASE m_unlock_req(s)
  <2>1. UNCHANGED <<pc, exiting, regVars, arb_sequence_q, arb_completed, request_id>>
    BY <1>7 DEF m_unlock_req, seqVars
  <2>2. \A t \in Seqs : Waiting(t)' => Waiting(t)
    BY <2>1 DEF Waiting
  <2> QED BY <1>1, <1>2, <1>3, <2>1, <2>2, NotLostKept
<1>8. CASE m_wait_for_arbitration_completed(s)
  <2>1. UNCHANGED <<exiting, regVars, arb_sequence_q, request_id>> /\ Waiting(s)
    BY <1>8 DEF m_wait_for_arbitration_completed, queueVars, Waiting
  <2>2. pc[s] \in Running \ {"join"}
    BY <2>1 DEF Waiting, Running
  <2>3. pc' = pc \/ \E w \in Running \ {"join"} : pc' = [pc EXCEPT ![s] = w]
    BY <1>8 DEF m_wait_for_arbitration_completed, Running
  <2>4. ASSUME NEW t \in Seqs, Waiting(t)'
        PROVE  Waiting(t) /\ (request_id[t] \in arb_completed => request_id[t] \in arb_completed')
    BY <1>1, <1>8, <2>1, <2>4 DEF m_wait_for_arbitration_completed, Waiting, RequestsMatched
  <2> QED BY <1>1, <1>2, <1>3, <2>1, <2>2, <2>3, <2>4, NotLostKept
<1>9. ASSUME NEW wait \in BOOLEAN, send_request(s, wait) PROVE LifeInv'
  <2>1. UNCHANGED <<exiting, regVars, request_id>> /\ pc[s] = "granted" /\ grant_queued_locks
    BY <1>9 DEF send_request
  <2>2. pc[s] \in Running \ {"join"} /\ \E w \in {"waitItem", "body"} : pc' = [pc EXCEPT ![s] = w]
    BY <1>9, <2>1 DEF send_request, Running
  <2>3. {"waitItem", "body"} \subseteq Running \ {"join"}
    BY DEF Running
  <2>4. \A t \in Seqs : Waiting(t)' => Waiting(t)
    BY <1>1, <2>2 DEF Waiting
  <2> QED BY <1>1, <1>2, <1>3, <2>1, <2>2, <2>3, <2>4, GrantLosesNone
<1>10. CASE BodyEnd(s)
  <2>1. UNCHANGED <<arb_sequence_q, arb_completed, request_id>>
    BY <1>10 DEF BodyEnd, queueVars
  <2>2. \A t \in Seqs : Waiting(t)' => Waiting(t)
    BY <1>1, <1>10 DEF BodyEnd, Waiting
  <2> QED BY <1>1, <1>2, <1>10, <2>1, <2>2, BodyEndAlive, NotLostKept
<1>11. CASE StartReturns(s)
  <2>1. UNCHANGED <<arb_completed, request_id>> /\ exiting[s] > 0
    BY <1>11 DEF StartReturns
  <2>2. \A t \in Seqs : Waiting(t)' => Waiting(t)
    BY <1>11 DEF StartReturns, Waiting
  <2>3. RequestNotLost'
    <3>1. CASE remove_sequence_from_queues({s}, {})
      <4>1. ASSUME NEW t \in Seqs, Waiting(t) PROVE t \notin Family(s)
        <5>1. InStart(t) /\ pc[t] \in Running /\ exiting[t] = 0
          BY <1>1, <4>1 DEF Alive, LinesOfDescent, InStart, Waiting, Running
        <5>2. t # s /\ (s \in Ancestors[t] => pc[s] = "join")
          BY <1>1, <2>1, <5>1 DEF Alive, LinesOfDescent
        <5>3. pc[s] # "join"
          BY <1>1, <2>1 DEF Alive, LinesOfDescent, Running
        <5> QED BY <5>2, <5>3 DEF Family, is_child
      <4> QED BY <1>1, <2>1, <2>2, <3>1, <4>1, RemoveLosesNone
    <3>2. CASE UNCHANGED queueVars
      BY <1>1, <2>1, <2>2, <3>2, NotLostKept DEF queueVars
    <3> QED BY <1>11, <3>1, <3>2 DEF StartReturns
  <2> QED BY <1>1, <1>2, <1>11, <2>3, ReturnAlive
<1>12. CASE Kill(s)
  <2>1. /\ m_kill_sequences({s})
        /\ UNCHANGED <<m_sqr_seq_ids, g_sequence_id, arb_completed, request_id>>
    BY <1>12 DEF Kill
  <2>2. RequestNotLost'
    BY <1>1, <2>1, KillLosesNone
  <2> QED BY <1>1, <1>2, <2>1, <2>2, KillAlive
<1> QED BY <1>4, <1>5, <1>6, <1>7, <1>8, <1>9, <1>10, <1>11, <1>12 DEF Step, Lock, Grab

\* stop_sequences and the steps of the driver preserve LifeInv.
LEMMA LifeOtherStep ==
  ASSUME IInv, RequestsMatched, LifeInv, stop_sequences \/ DriverStep \/ UpdateFifo
  PROVE  LifeInv'
<1> USE DEF IInv
<1>1. Alive /\ RequestNotLost
  BY DEF LifeInv, Alive
<1>2. Alive' /\ RequestNotLost' => LifeInv'
  BY DEF Alive, LifeInv
<1>3. ASSUME UNCHANGED <<pc, exiting, m_sqr_seq_ids, g_sequence_id>>,
             \A i \in DOMAIN reg_sequences :
               i \in DOMAIN reg_sequences' /\ reg_sequences'[i] = reg_sequences[i]
      PROVE  Alive'
  BY <1>1, <1>3, AliveKept
<1>4. CASE stop_sequences
  <2>1. FoundByStop \in SUBSET Seqs
    BY FoundType
  <2>2. /\ m_kill_sequences(FoundByStop)
        /\ UNCHANGED <<m_sqr_seq_ids, g_sequence_id, arb_completed, request_id>>
    BY <1>4 DEF stop_sequences
  <2> QED BY <1>1, <1>2, <2>1, <2>2, KillAlive, KillLosesNone
<1>5. CASE get_next_item \/ m_wait_arb_not_equal \/ peek \/ try_next_item \/ TryPeek
           \/ item_done_rsp \/ ItemDoneFatal \/ UpdateFifo
  <2>1. UNCHANGED <<pc, exiting, m_sqr_seq_ids, g_sequence_id, arb_sequence_q,
                    arb_completed, request_id>>
    BY <1>5 DEF get_next_item, m_wait_arb_not_equal, peek, try_next_item, TryPeek,
                item_done_rsp, ItemDoneFatal, UpdateFifo, queueVars, seqVars, regVars
  <2>2. \A i \in DOMAIN reg_sequences :
          i \in DOMAIN reg_sequences' /\ reg_sequences'[i] = reg_sequences[i]
    BY <1>5 DEF get_next_item, m_wait_arb_not_equal, peek, try_next_item, TryPeek,
                item_done_rsp, ItemDoneFatal, UpdateFifo, regVars, m_find_sequence
  <2>3. RequestNotLost'
    BY <1>1, <2>1 DEF RequestNotLost, Waiting
  <2> QED BY <1>2, <1>3, <2>1, <2>2, <2>3
<1>6. CASE m_select_sequence \/ TryChoose
  <2>1. PICK G \in SUBSET arb_sequence_q : \E R \in SUBSET (arb_sequence_q \ G) :
          /\ arb_sequence_q' = (arb_sequence_q \ G) \ R
          /\ arb_completed' = arb_completed \cup request_ids(G \cup R)
    BY <1>6, SelectionShape DEF TypeOK
  <2>2. UNCHANGED <<pc, exiting, reg_sequences, m_sqr_seq_ids, g_sequence_id, request_id>>
    BY <1>6 DEF m_select_sequence, TryChoose, seqVars, regVars
  <2>3. (request_ids(arb_sequence_q) \cup arb_completed)
          \subseteq (request_ids(arb_sequence_q) \cup arb_completed)'
    BY <2>1 DEF request_ids
  <2>4. RequestNotLost'
    BY <1>1, <2>2, <2>3 DEF RequestNotLost, Waiting
  <2> QED BY <1>2, <1>3, <2>2, <2>4
<1>7. CASE item_done \/ PutReturns
  <2>1. /\ UNCHANGED <<pc, exiting, reg_sequences, m_sqr_seq_ids, g_sequence_id, request_id>>
        /\ grant_queued_locks
    BY <1>7 DEF item_done, PutReturns, seqVars, regVars
  <2>2. RequestNotLost'
    BY <1>1, <2>1, GrantLosesNone DEF Waiting
  <2> QED BY <1>2, <1>3, <2>1, <2>2
<1> QED BY <1>4, <1>5, <1>6, <1>7 DEF DriverStep

\* LifeInv is inductive when no sequence is started before its last start() has
\* returned, which the library does not support.
LEMMA LifeStep ==
  "overlap" \notin Ops /\ IInv /\ RequestsMatched /\ LifeInv /\ [Next]_vars => LifeInv'
<1> SUFFICES ASSUME "overlap" \notin Ops, IInv, RequestsMatched, LifeInv, [Next]_vars
             PROVE  LifeInv'
  OBVIOUS
<1>1. CASE UNCHANGED vars
  BY <1>1 DEF vars, queueVars, seqVars, regVars, LifeInv, LinesOfDescent,
              RequestNotLost, IdsDistinct, Registered, InStart, Waiting
<1> QED BY <1>1, LifeSequenceStep, LifeOtherStep DEF Next

\* LifeInv holds at first.
LEMMA LifeInit == Init => LifeInv
<1> SUFFICES ASSUME Init PROVE LifeInv
  OBVIOUS
<1>1. \A s \in Seqs : ~ InStart(s) /\ ~ Waiting(s) /\ pc[s] \notin Running
  BY DEF Init, InStart, Waiting, Running
<1>2. LinesOfDescent
  BY <1>1 DEF Init, LinesOfDescent
<1>3. RequestNotLost /\ IdsDistinct /\ Registered
  BY <1>1 DEF Init, RequestNotLost, IdsDistinct, Registered
<1> QED BY <1>2, <1>3 DEF LifeInv

\* Without overlapping starts LifeInv holds always.
LEMMA LifeInductive == "overlap" \notin Ops => (Spec => []LifeInv)
<1> SUFFICES ASSUME "overlap" \notin Ops PROVE Spec => []LifeInv
  OBVIOUS
<1>1. IInv /\ RequestsMatched /\ LifeInv /\ [Next]_vars => LifeInv'
  BY LifeStep
<1> QED BY <1>1, LifeInit, Inductive, RequestsStayMatched, PTL DEF Spec

\* Whatever is killed and stopped, a sequence that waits in m_wait_for_arbitration_
\* completed has its request in the queue or granted.
THEOREM RequestsAreKept == "overlap" \notin Ops => (Spec => []RequestNotLost)
<1> SUFFICES ASSUME "overlap" \notin Ops PROVE Spec => []RequestNotLost
  OBVIOUS
<1>1. LifeInv => RequestNotLost
  BY DEF LifeInv
<1> QED BY <1>1, LifeInductive, PTL

\* A running sequence is in reg_sequences under the id it has.
THEOREM RunningAreRegistered == "overlap" \notin Ops => (Spec => []Registered)
<1> SUFFICES ASSUME "overlap" \notin Ops PROVE Spec => []Registered
  OBVIOUS
<1>1. LifeInv => Registered
  BY DEF LifeInv
<1> QED BY <1>1, LifeInductive, PTL

-----------------------------------------------------------------------------
(* What the lists hold *)

\* A lock or grab, and start_item, add only the sequence that calls.
LEMMA RequestHolders ==
  ASSUME NEW s \in Seqs,
         \/ \E front \in BOOLEAN : m_lock_req(s, front)
         \/ \E lock_request \in BOOLEAN : wait_for_grant(s, lock_request)
  PROVE  Holders' \subseteq Holders \cup {s}
<1>1. ASSUME NEW front \in BOOLEAN, m_lock_req(s, front) PROVE Holders' \subseteq Holders \cup {s}
  <2> DEFINE new == [request |-> "LOCK", sequence |-> s, item_priority |-> 0,
                     request_id |-> g_request_id, front |-> front]
  <2>1. PICK G \in SUBSET (arb_sequence_q \cup {new}), n \in Nat :
          /\ arb_sequence_q' = (arb_sequence_q \cup {new}) \ G
          /\ lock_list' = lock_list \cup GrantedLocks(G, n)
    BY <1>1 DEF m_lock_req
  <2>2. new.sequence = s
    OBVIOUS
  <2> HIDE DEF new
  <2> QED BY <2>1, <2>2 DEF Holders, Owners, GrantedLocks
<1>2. ASSUME NEW lock_request \in BOOLEAN, wait_for_grant(s, lock_request)
      PROVE  Holders' \subseteq Holders \cup {s}
  BY <1>2 DEF wait_for_grant, Holders, Owners
<1> QED BY <1>1, <1>2

\* Whoever is killed leaves the lists.
LEMMA KillHolders ==
  ASSUME TypeOK, HoldersAlive, NEW S \in SUBSET Seqs, m_kill_sequences(S)
  PROVE  HoldersAlive'
<1> DEFINE K == Killed(S)
           Orphaned(t) == \E q \in K : is_child(q, t)
<1>1. /\ remove_sequence_from_queues(S, K)
      /\ pc' = [t \in Seqs |-> IF t \in K THEN "stopped" ELSE pc[t]]
      /\ exiting' = [t \in Seqs |->
                       CASE t \in K /\ Orphaned(t)      -> 0
                         [] t \in K /\ ~Orphaned(t) /\ pc[t] \in Running -> exiting[t] + 1
                         [] OTHER -> exiting[t]]
  BY DEF m_kill_sequences
<1> HIDE DEF K, Orphaned
<1>2. ASSUME NEW h \in Holders' PROVE (InStart(h) /\ pc[h] # "stopped")'
  <2>1. h \in Holders /\ \A s \in S : h \notin Family(s)
    BY <1>1, <1>2, RemoveLeaves
  <2>2. h \in Seqs /\ InStart(h) /\ pc[h] # "stopped"
    BY <2>1, HoldersType DEF HoldersAlive, Holders, TypeOK
  <2>3. h \notin K
    BY <2>1, KilledFacts DEF K
  <2>4. pc'[h] = pc[h] /\ exiting'[h] = exiting[h]
    BY <1>1, <2>2, <2>3
  <2> QED BY <2>2, <2>4 DEF InStart
<1> QED BY <1>2 DEF HoldersAlive, Holders

\* HoldersAlive is inductive, overlapping starts or not.
LEMMA HoldersStep == IInv /\ HoldersAlive /\ [Next]_vars => HoldersAlive'
<1> SUFFICES ASSUME IInv, HoldersAlive, [Next]_vars PROVE HoldersAlive'
  OBVIOUS
<1>1. /\ pc \in [Seqs -> Stopped \cup Running] /\ exiting \in [Seqs -> Nat] /\ TypeOK
      /\ \A h \in Holders : h \in Seqs /\ InStart(h) /\ pc[h] # "stopped"
  BY HoldersType DEF IInv, TypeOK, ProcessTypes, HoldersAlive, Holders
<1>2. ASSUME \A h \in Holders' :
               \/ h \in Seqs /\ pc'[h] \in Running
               \/ h \in Holders /\ pc'[h] = pc[h] /\ exiting'[h] >= exiting[h]
      PROVE  HoldersAlive'
  <2>1. ASSUME NEW h \in Holders' PROVE (InStart(h) /\ pc[h] # "stopped")'
    <3>1. CASE h \in Seqs /\ pc'[h] \in Running
      BY <3>1 DEF InStart, Running
    <3>2. CASE h \in Holders /\ pc'[h] = pc[h] /\ exiting'[h] >= exiting[h]
      <4>1. h \in Seqs /\ exiting[h] \in Nat
        BY <1>1, <3>2
      <4>2. exiting[h] > 0 => exiting'[h] > 0
        <5>1. CASE exiting'[h] \in Int
          BY <3>2, <4>1, <5>1
        <5>2. CASE exiting'[h] \notin Int
          BY TypeStep, <4>1, <5>2 DEF IInv, TypeOK, ProcessTypes
        <5> QED BY <5>1, <5>2
      <4> QED BY <1>1, <3>2, <4>2 DEF InStart
    <3> QED BY <1>2, <2>1, <3>1, <3>2
  <2> QED BY <2>1 DEF HoldersAlive, Holders
<1>3. ASSUME UNCHANGED <<pc, exiting>>, Holders' \subseteq Holders PROVE HoldersAlive'
  BY <1>1, <1>2, <1>3
<1>4. ASSUME NEW s \in Seqs, Step(s) PROVE HoldersAlive'
  <2>1. CASE Start(s)
    <3>1. /\ Holders' = Holders /\ exiting' = exiting
          /\ \A t \in Seqs : pc'[t] = pc[t] \/ pc'[t] \in Running
      BY <1>1, <2>1 DEF Start, queueVars, Holders, Running
    <3> QED BY <1>1, <1>2, <3>1
  <2>2. CASE \/ \E front \in BOOLEAN : m_lock_req(s, front)
             \/ \E lock_request \in BOOLEAN : wait_for_grant(s, lock_request)
    <3>1. pc[s] = "body" /\ exiting' = exiting
      BY <2>2 DEF m_lock_req, wait_for_grant
    <3>2. pc'[s] \in {"body", "waitLock", "waitGrant"} /\ \A t \in Seqs \ {s} : pc'[t] = pc[t]
      BY <1>1, <2>2, <3>1 DEF m_lock_req, wait_for_grant
    <3>3. pc'[s] \in Running
      BY <3>2 DEF Running
    <3>4. Holders' \subseteq Holders \cup {s}
      BY <2>2, RequestHolders
    <3> QED BY <1>1, <1>2, <3>1, <3>2, <3>3, <3>4
  <2>3. CASE SetRelevant(s) \/ m_unlock_req(s)
    <3>1. UNCHANGED <<pc, exiting>> /\ Holders' \subseteq Holders
      BY <2>3 DEF SetRelevant, m_unlock_req, queueVars, seqVars, Holders, Owners
    <3> QED BY <1>3, <3>1
  <2>4. CASE m_wait_for_arbitration_completed(s) \/ wait_for_item_done(s) \/ ItemDoneWoken(s)
    <3>1. /\ Holders' = Holders /\ exiting' = exiting
          /\ \A t \in Seqs : pc'[t] = pc[t] \/ pc'[t] \in Running
      BY <1>1, <2>4 DEF m_wait_for_arbitration_completed, wait_for_item_done, ItemDoneWoken,
                        queueVars, Holders, Running
    <3> QED BY <1>1, <1>2, <3>1
  <2>5. ASSUME NEW wait \in BOOLEAN, send_request(s, wait) PROVE HoldersAlive'
    <3>1. Holders' \subseteq Holders /\ exiting' = exiting
      BY <2>5, GrantKeepsHolders DEF send_request, grant_queued_locks
    <3>2. \A t \in Seqs : pc'[t] = pc[t] \/ pc'[t] \in Running
      BY <1>1, <2>5 DEF send_request, Running
    <3> QED BY <1>1, <1>2, <3>1, <3>2
  <2>6. CASE BodyEnd(s)
    <3>1. /\ Holders' = Holders /\ pc'[s] = "finished" /\ exiting'[s] > 0
          /\ \A t \in Seqs \ {s} : pc'[t] = pc[t] /\ exiting'[t] = exiting[t]
      BY <1>1, <2>6 DEF BodyEnd, queueVars, Holders
    <3>2. ASSUME NEW h \in Holders PROVE (InStart(h) /\ pc[h] # "stopped")'
      BY <1>1, <3>1, <3>2 DEF InStart
    <3> QED BY <3>1, <3>2 DEF HoldersAlive, Holders
  <2>7. CASE StartReturns(s)
    <3>1. \A t \in Seqs : /\ t # s => exiting'[t] = exiting[t]
                          /\ pc'[t] = pc[t] \/ pc'[t] \in Running
      BY <1>1, <2>7 DEF StartReturns, Running
    <3>2. Holders' \subseteq Holders \ {s}
      <4>1. CASE pc[s] = "stopped" /\ UNCHANGED queueVars
        BY <1>1, <4>1 DEF queueVars, Holders
      <4>2. CASE remove_sequence_from_queues({s}, {})
        <5>1. \A h \in Holders' : h \in Holders /\ \A x \in {s} : h \notin Family(x)
          BY <4>2, RemoveLeaves
        <5> QED BY <5>1 DEF Family
      <4> QED BY <2>7, <4>1, <4>2 DEF StartReturns, queueVars
    <3> QED BY <1>1, <1>2, <3>1, <3>2
  <2>8. CASE Kill(s)
    BY <1>1, <2>8, KillHolders DEF Kill
  <2> QED BY <1>4, <2>1, <2>2, <2>3, <2>4, <2>5, <2>6, <2>7, <2>8 DEF Step, Lock, Grab
<1>5. CASE stop_sequences
  BY <1>1, <1>5, FoundType, KillHolders DEF stop_sequences
<1>6. CASE get_next_item \/ m_wait_arb_not_equal \/ peek \/ try_next_item \/ TryPeek
           \/ item_done_rsp \/ ItemDoneFatal \/ UpdateFifo \/ UNCHANGED vars
  <2>1. UNCHANGED <<pc, exiting, arb_sequence_q, lock_list>>
    BY <1>6 DEF get_next_item, m_wait_arb_not_equal, peek, try_next_item, TryPeek,
                item_done_rsp, ItemDoneFatal, UpdateFifo, vars, queueVars, seqVars
  <2> QED BY <1>3, <2>1 DEF Holders
<1>7. CASE m_select_sequence \/ TryChoose
  <2>1. PICK G \in SUBSET arb_sequence_q :
          arb_sequence_q' \subseteq arb_sequence_q /\ lock_list' = lock_list \cup GrantedLocks(G, 0)
    BY <1>1, <1>7, SelectionShape DEF TypeOK
  <2>2. UNCHANGED <<pc, exiting>>
    BY <1>7 DEF m_select_sequence, TryChoose, seqVars
  <2> QED BY <1>3, <2>1, <2>2, GrantKeepsHolders
<1>8. CASE item_done \/ PutReturns
  <2>1. UNCHANGED <<pc, exiting>> /\ grant_queued_locks
    BY <1>8 DEF item_done, PutReturns, seqVars
  <2> QED BY <1>3, <2>1, GrantKeepsHolders DEF grant_queued_locks
<1> QED BY <1>4, <1>5, <1>6, <1>7, <1>8 DEF Next, DriverStep

\* No lock and no request outlives the start() of its sequence, whichever of its
\* ancestors was killed or stopped (remove_sequence_from_queues).
THEOREM DeadHoldNothing == Spec => []NoDeadHolder
<1>1. Init => HoldersAlive
  BY DEF Init, HoldersAlive, Owners
<1>2. HoldersAlive => NoDeadHolder
  BY DEF HoldersAlive, NoDeadHolder, InStart
<1> QED BY <1>1, <1>2, HoldersStep, Inductive, PTL DEF Spec

-----------------------------------------------------------------------------
(* stop_sequences *)

\* Only item_done(rsp) looks up ids that may be gone and inserts entries without
\* a sequence.
LEMMA NoNullStep ==
  "response" \notin Ops /\ NoNullEntry /\ [Next]_vars => NoNullEntry'
<1> SUFFICES ASSUME "response" \notin Ops, NoNullEntry, [Next]_vars PROVE NoNullEntry'
  OBVIOUS
<1>1. ASSUME NEW S, NEW K, remove_sequence_from_queues(S, K) PROVE NoNullEntry'
  BY <1>1 DEF remove_sequence_from_queues, NoNullEntry
<1>2. CASE UNCHANGED reg_sequences
  BY <1>2 DEF NoNullEntry
<1>3. ASSUME NEW s \in Seqs, Step(s) PROVE NoNullEntry'
  <2>1. CASE Start(s)
    BY <2>1, ParentAssumption DEF Start, NoNullEntry
  <2>2. CASE StartReturns(s) \/ Kill(s)
    BY <1>1, <1>2, <2>2 DEF StartReturns, Kill, m_kill_sequences
  <2>3. CASE ~ Start(s) /\ ~ StartReturns(s) /\ ~ Kill(s)
    <3>1. UNCHANGED reg_sequences
      BY <1>3, <2>3 DEF Step, SetRelevant, Lock, Grab, m_lock_req, m_unlock_req, wait_for_grant,
              m_wait_for_arbitration_completed, send_request, wait_for_item_done,
              ItemDoneWoken, BodyEnd, regVars
    <3> QED BY <1>2, <3>1
  <2> QED BY <2>1, <2>2, <2>3
<1>4. CASE stop_sequences
  BY <1>1, <1>4 DEF stop_sequences, m_kill_sequences
<1>5. CASE DriverStep \/ UpdateFifo \/ UNCHANGED vars
  BY <1>2, <1>5 DEF DriverStep, get_next_item, m_select_sequence, m_wait_arb_not_equal, peek,
       try_next_item, TryChoose, TryPeek, item_done, item_done_rsp, PutReturns, ItemDoneFatal,
       UpdateFifo, vars, regVars
<1> QED BY <1>3, <1>4, <1>5 DEF Next

\* stop_sequences kills every sequence that runs, if no response was sent to a
\* sequence that had gone (the loop ends at the first entry that is NULL).
THEOREM StopKillsEverySequence ==
  {"overlap", "response"} \cap Ops = {} => (Spec => StopKillsAll)
<1> SUFFICES ASSUME "overlap" \notin Ops, "response" \notin Ops PROVE Spec => StopKillsAll
  OBVIOUS
<1>1. Init => NoNullEntry
  BY DEF Init, NoNullEntry
<1>2. NoNullEntry /\ [Next]_vars => NoNullEntry'
  BY NoNullStep
<1>3. IInv /\ LifeInv /\ NoNullEntry =>
        (stop_sequences => \A s \in Seqs : pc'[s] \notin Running)
  <2> SUFFICES ASSUME IInv, Registered, NoNullEntry, stop_sequences, NEW s \in Seqs,
                      pc'[s] \in Running
               PROVE  FALSE
    BY DEF LifeInv
  <2>1. /\ pc' = [t \in Seqs |-> IF t \in Killed(FoundByStop) THEN "stopped" ELSE pc[t]]
        /\ FoundByStop \in SUBSET Seqs
    BY FoundType DEF stop_sequences, m_kill_sequences, IInv
  <2>2. s \notin Killed(FoundByStop) /\ pc[s] \in Running
    BY <2>1 DEF Running
  <2>3. s \in FoundByStop
    BY <2>2 DEF Registered, NoNullEntry, FoundByStop
  <2> QED BY <2>1, <2>2, <2>3, KilledFacts
<1> QED BY <1>1, <1>2, <1>3, LifeInductive, Inductive, PTL DEF Spec, StopKillsAll

-----------------------------------------------------------------------------
(* The sequences that have their grant and have not sent their item *)

\* grant_queued_locks grants locks, nothing that a sequence in start_item waits for.
LEMMA LocksGrantNoItem ==
  ASSUME TypeOK, RequestsMatched, grant_queued_locks, UNCHANGED request_id,
         \A t \in Seqs : pc'[t] \in {"waitGrant", "granted"} => pc'[t] = pc[t]
  PROVE  ToSend' \subseteq ToSend
<1>1. PICK G \in SUBSET arb_sequence_q :
        /\ IsGrantSet(G, arb_sequence_q, Owners(lock_list))
        /\ arb_completed' = arb_completed \cup request_ids(G)
  BY DEF grant_queued_locks
<1>2. ASSUME NEW t \in ToSend' PROVE t \in ToSend
  <2>1. CASE pc'[t] = "granted"
    BY <1>2, <2>1 DEF ToSend
  <2>2. CASE pc'[t] = "waitGrant" /\ request_id[t] \in arb_completed'
    <3>1. pc[t] = "waitGrant" /\ t \in Seqs
      BY <1>2, <2>2 DEF ToSend
    <3>2. ASSUME NEW r \in G, r.request_id = request_id[t] PROVE FALSE
      <4>1. r.request = "LOCK"
        BY <1>1 DEF IsGrantSet
      <4>2. r.request = "REQ"
        BY <3>1, <3>2 DEF RequestsMatched, Waiting
      <4> QED BY <4>1, <4>2
    <3> QED BY <1>1, <2>2, <3>1, <3>2 DEF ToSend, request_ids
  <2> QED BY <1>2, <2>1, <2>2 DEF ToSend
<1> QED BY <1>2

\* What a selection by the driver does to the requests that sequences wait for: it
\* grants none, or the one of a sequence r.sequence.
LEMMA SelectionGrants ==
  ASSUME TypeOK, RequestsMatched,
         (m_select_sequence /\ driver' = "arbWait") \/ (TryChoose /\ driver' = "idle")
  PROVE  ToSend' \subseteq ToSend /\ UNCHANGED flagVars
<1>1. PICK G \in SUBSET arb_sequence_q :
        /\ IsGrantSet(G, arb_sequence_q, Owners(lock_list))
        /\ arb_completed' = arb_completed \cup request_ids(G)
        /\ UNCHANGED <<flagVars, pc, request_id>>
  BY DEF m_select_sequence, TryChoose, seqVars
<1>2. ASSUME NEW t \in Seqs, pc[t] = "waitGrant", NEW r \in G, r.request_id = request_id[t]
      PROVE  FALSE
  <2>1. r.request = "LOCK"
    BY <1>1 DEF IsGrantSet
  <2>2. r.request = "REQ"
    BY <1>2 DEF RequestsMatched, Waiting
  <2> QED BY <2>1, <2>2
<1> QED BY <1>1, <1>2 DEF ToSend, request_ids

\* What a selection leaves when it has chosen.
LEMMA SelectionSelects ==
  ASSUME TypeOK, RequestsMatched,
         (m_select_sequence /\ driver' # "arbWait") \/ (TryChoose /\ driver' # "idle")
  PROVE  /\ \E s \in Seqs : s \in ToSend' /\ ToSend' \subseteq ToSend \cup {s}
         /\ sequence_item_requested' = TRUE /\ get_next_item_called' = TRUE
         /\ driver' = IF driver = "select" THEN "peek" ELSE "tryPeek"
         /\ UNCHANGED halted
<1> DEFINE avail(G) == Available(arb_sequence_q \ G,
                                 Owners(lock_list \cup GrantedLocks(G, 0)), relevant)
<1>1. PICK G \in SUBSET arb_sequence_q :
        /\ IsGrantSet(G, arb_sequence_q, Owners(lock_list))
        /\ \E r \in m_choose_next_request(avail(G), m_arbitration) :
             arb_completed' = arb_completed \cup request_ids(G \cup {r})
        /\ UNCHANGED <<pc, request_id, halted>>
        /\ sequence_item_requested' = TRUE /\ get_next_item_called' = TRUE
        /\ driver' = IF driver = "select" THEN "peek" ELSE "tryPeek"
  BY DEF m_select_sequence, TryChoose, seqVars
<1>2. PICK r \in m_choose_next_request(avail(G), m_arbitration) :
        arb_completed' = arb_completed \cup request_ids(G \cup {r})
  BY <1>1
<1>3. r \in arb_sequence_q /\ r.request = "REQ"
  BY DEF m_choose_next_request, Available
<1>4. /\ r.sequence \in Seqs /\ pc[r.sequence] = "waitGrant"
      /\ request_id[r.sequence] = r.request_id
  BY <1>3 DEF RequestsMatched, TypeOK, QueueTypes, Request
<1>5. r.sequence \in ToSend'
  BY <1>1, <1>2, <1>4 DEF ToSend, request_ids
<1>6. ASSUME NEW t \in Seqs, pc[t] = "waitGrant", NEW x \in G \cup {r}, x.request_id = request_id[t]
      PROVE  t = r.sequence
  <2>1. x \in arb_sequence_q
    BY <1>3
  <2>2. x.request = "REQ" /\ x.sequence = t
    BY <1>6, <2>1 DEF RequestsMatched, Waiting
  <2>3. x = r
    BY <1>1, <2>2 DEF IsGrantSet
  <2> QED BY <2>2, <2>3
<1>7. ToSend' \subseteq ToSend \cup {r.sequence}
  BY <1>1, <1>2, <1>6 DEF ToSend, request_ids
<1> QED BY <1>1, <1>4, <1>5, <1>7

\* No other step grants a sequence its item; only send_request and a kill take it.
LEMMA ToSendKept ==
  ASSUME IInv, RequestsMatched,
         \/ \E s \in Seqs : Step(s)
         \/ stop_sequences \/ UpdateFifo \/ UNCHANGED vars
         \/ DriverStep /\ ~ m_select_sequence /\ ~ TryChoose
  PROVE  ToSend' \subseteq ToSend
<1> USE DEF IInv
<1>1. /\ pc \in [Seqs -> Stopped \cup Running] /\ request_id \in [Seqs -> Nat]
      /\ g_request_id \in Nat /\ arb_sequence_q \subseteq Request
  BY DEF TypeOK, ProcessTypes, QueueTypes
<1>2. ASSUME UNCHANGED <<arb_completed, request_id>>,
             \A t \in Seqs : pc'[t] \in {"waitGrant", "granted"} => pc'[t] = pc[t]
      PROVE  ToSend' \subseteq ToSend
  BY <1>2 DEF ToSend
<1>3. ASSUME NEW S, m_kill_sequences(S), UNCHANGED <<arb_completed, request_id>>
      PROVE  ToSend' \subseteq ToSend
  <2>1. pc' = [t \in Seqs |-> IF t \in Killed(S) THEN "stopped" ELSE pc[t]]
    BY <1>3 DEF m_kill_sequences
  <2> QED BY <1>2, <1>3, <2>1
<1>4. ASSUME NEW s \in Seqs, Step(s) PROVE ToSend' \subseteq ToSend
  <2>1. CASE Start(s)
    <3>1. \A t \in Seqs : pc'[t] \in {"waitGrant", "granted"} => pc'[t] = pc[t]
      BY <2>1 DEF Start
    <3> QED BY <1>2, <2>1, <3>1 DEF Start
  <2>2. CASE SetRelevant(s) \/ m_unlock_req(s) \/ wait_for_item_done(s) \/ ItemDoneWoken(s)
             \/ BodyEnd(s)
    <3>1. \A t \in Seqs : pc'[t] \in {"waitGrant", "granted"} => pc'[t] = pc[t]
      BY <1>1, <2>2 DEF SetRelevant, m_unlock_req, wait_for_item_done, ItemDoneWoken, BodyEnd,
                  seqVars
    <3> QED BY <1>2, <2>2, <3>1 DEF SetRelevant, m_unlock_req, wait_for_item_done,
                  ItemDoneWoken, BodyEnd, seqVars
  <2>3. ASSUME NEW front \in BOOLEAN, m_lock_req(s, front) PROVE ToSend' \subseteq ToSend
    <3> DEFINE new == [request |-> "LOCK", sequence |-> s, item_priority |-> 0,
                       request_id |-> g_request_id, front |-> front]
    <3>1. PICK G \in SUBSET (arb_sequence_q \cup {new}) :
            /\ IsGrantSet(G, arb_sequence_q \cup {new}, Owners(lock_list))
            /\ arb_completed' \subseteq arb_completed \cup request_ids(G)
            /\ pc' = pc \/ pc' = [pc EXCEPT ![s] = "waitLock"]
      BY <2>3 DEF m_lock_req
    <3>2. /\ pc[s] = "body" /\ new.request_id = g_request_id /\ new.request = "LOCK"
          /\ request_id' = [request_id EXCEPT ![s] = g_request_id]
      BY <2>3 DEF m_lock_req
    <3> HIDE DEF new
    <3>3. ASSUME NEW t \in ToSend' PROVE t \in ToSend
      <4>1. t \in Seqs /\ t # s /\ pc'[t] = pc[t] /\ request_id'[t] = request_id[t]
        BY <1>1, <3>1, <3>2, <3>3 DEF ToSend
      <4>2. ASSUME pc[t] = "waitGrant", NEW r \in G, r.request_id = request_id[t] PROVE FALSE
        <5>1. r.request = "LOCK" /\ (r \in arb_sequence_q \/ r = new)
          BY <3>1 DEF IsGrantSet
        <5>2. r \in arb_sequence_q
          BY <1>1, <3>2, <4>1, <4>2, <5>1 DEF RequestsMatched, Waiting
        <5> QED BY <4>1, <4>2, <5>1, <5>2 DEF RequestsMatched, Waiting
      <4> QED BY <3>1, <3>3, <4>1, <4>2 DEF ToSend, request_ids
    <3> QED BY <3>3
  <2>4. ASSUME NEW lock_request \in BOOLEAN, wait_for_grant(s, lock_request)
        PROVE  ToSend' \subseteq ToSend
    <3>1. PICK n \in Nat : /\ pc' = [pc EXCEPT ![s] = "waitGrant"]
                          /\ request_id' = [request_id EXCEPT ![s] = g_request_id + n]
                          /\ arb_completed' = arb_completed
      BY <2>4 DEF wait_for_grant
    <3>2. g_request_id + n \notin arb_completed
      BY <1>1 DEF IdBounds, TypeOK, QueueTypes
    <3> QED BY <1>1, <3>1, <3>2 DEF ToSend
  <2>5. CASE m_wait_for_arbitration_completed(s)
    <3>1. CASE UNCHANGED <<arb_completed, pc, request_id>>
      BY <1>2, <3>1
    <3>2. CASE ArbitrationCompleted(s)
      <4>1. /\ arb_completed' = arb_completed \ {request_id[s]} /\ UNCHANGED request_id
            /\ request_id[s] \in arb_completed
            /\ \/ pc' = [pc EXCEPT ![s] = "body"]
               \/ pc[s] = "waitGrant" /\ pc' = [pc EXCEPT ![s] = "granted"]
        BY <2>5, <3>2 DEF m_wait_for_arbitration_completed, ArbitrationCompleted
      <4> QED BY <1>1, <4>1 DEF ToSend
    <3> QED BY <2>5, <3>1, <3>2 DEF m_wait_for_arbitration_completed
  <2>6. ASSUME NEW wait \in BOOLEAN, send_request(s, wait) PROVE ToSend' \subseteq ToSend
    <3>1. \A t \in Seqs : pc'[t] \in {"waitGrant", "granted"} => pc'[t] = pc[t]
      BY <1>1, <2>6 DEF send_request
    <3> QED BY <2>6, <3>1, LocksGrantNoItem DEF send_request
  <2>7. CASE StartReturns(s)
    <3>1. \A t \in Seqs : pc'[t] \in {"waitGrant", "granted"} => pc'[t] = pc[t]
      BY <2>7 DEF StartReturns
    <3> QED BY <1>2, <2>7, <3>1 DEF StartReturns
  <2>8. CASE Kill(s)
    BY <1>3, <2>8 DEF Kill
  <2> QED BY <1>4, <2>1, <2>2, <2>3, <2>4, <2>5, <2>6, <2>7, <2>8 DEF Step, Lock, Grab
<1>5. CASE stop_sequences
  BY <1>3, <1>5 DEF stop_sequences
<1>6. CASE item_done \/ PutReturns
  BY <1>6, LocksGrantNoItem DEF item_done, PutReturns, seqVars
<1>7. CASE get_next_item \/ m_wait_arb_not_equal \/ peek \/ try_next_item \/ TryPeek
           \/ item_done_rsp \/ ItemDoneFatal \/ UpdateFifo \/ UNCHANGED vars
  BY <1>2, <1>7 DEF get_next_item, m_wait_arb_not_equal, peek, try_next_item, TryPeek,
       item_done_rsp, ItemDoneFatal, UpdateFifo, seqVars, vars
<1> QED BY <1>4, <1>5, <1>6, <1>7 DEF DriverStep

-----------------------------------------------------------------------------
(* One item at a time *)

\* What a sequence may send is what it was granted.
Entitled == \A s \in Seqs : pc[s] = "granted" => m_wait_for_grant_semaphore[s] >= 1

\* A step that leaves driver and FIFO alone keeps the handshake.
LEMMA QuietHandshake ==
  ASSUME HandshakeInv, ToSend' \subseteq ToSend, Entitled',
         UNCHANGED <<m_req_fifo, driver, flagVars, halted>>, m_req_fifo \in Seq(Items)
  PROVE  HandshakeInv'
<1>1. Len(m_req_fifo) \in Nat
  BY LenProperties
<1>2. Len(m_req_fifo) <= 1
  BY <1>1 DEF HandshakeInv, OneItem
<1>3. Len(m_req_fifo)' <= IF ToSend' = {} THEN 1 ELSE 0
  BY <1>1, <1>2 DEF HandshakeInv, OneItem
<1>4. OneItem'
  BY <1>3 DEF HandshakeInv, OneItem, flagVars
<1> QED BY <1>4 DEF HandshakeInv, Entitled, HasItem, flagVars

\* Between item_done and the next selection nothing is under way.
LEMMA RestingHandshake ==
  ASSUME HandshakeInv, ToSend = {}, ToSend' = {}, m_req_fifo' = <<>>, Entitled',
         driver' \notin {"peek", "busy", "tryPeek"}, UNCHANGED halted,
         sequence_item_requested' = get_next_item_called'
  PROVE  HandshakeInv'
<1>1. Len(m_req_fifo)' = 0
  BY EmptySeq
<1>2. OneItem'
  BY <1>1 DEF OneItem
<1> QED BY <1>2 DEF HandshakeInv, Entitled

\* send_request: the sequence with the grant fills the empty FIFO and is done with
\* its grant; its semaphore was raised and the FIFO has room.
LEMMA SendHandshake ==
  ASSUME IInv, RequestsMatched, HandshakeInv, halted = "no", ToSend' \subseteq ToSend,
         NEW s \in Seqs, NEW wait \in BOOLEAN, send_request(s, wait)
  PROVE  /\ HandshakeInv' /\ ToSend = {s} /\ ToSend' = {} /\ m_req_fifo = <<>>
         /\ m_req_fifo' = Append(m_req_fifo, [sequence |-> s, sequence_id |-> m_sqr_seq_ids[s],
                                              visible |-> FALSE])
<1> DEFINE item == [sequence |-> s, sequence_id |-> m_sqr_seq_ids[s], visible |-> FALSE]
<1>1. /\ m_req_fifo \in Seq(Items) /\ pc \in [Seqs -> Stopped \cup Running]
      /\ m_wait_for_grant_semaphore \in [Seqs -> Nat]
  BY DEF IInv, TypeOK, ItemTypes, ProcessTypes
<1>2. pc[s] = "granted" /\ s \in ToSend
  BY DEF send_request, ToSend
<1>3. ToSend = {s} /\ Len(m_req_fifo) = 0
  <2>1. Len(m_req_fifo) \in Nat
    BY <1>1, LenProperties
  <2> QED BY <1>2, <2>1 DEF HandshakeInv, OneItem
<1>4. m_req_fifo = <<>>
  BY <1>1, <1>3, EmptySeq
<1>5. m_wait_for_grant_semaphore[s] >= 1 /\ ~ (Len(m_req_fifo) >= FifoDepth)
  BY <1>2, <1>3, BoundAssumption DEF HandshakeInv
<1>6. /\ m_req_fifo' = Append(m_req_fifo, item) /\ halted' = halted
      /\ UNCHANGED <<driver, flagVars>>
  <2>1. ~ (m_wait_for_grant_semaphore[s] < 1)
    BY <1>1, <1>5
  <2> QED BY <1>5, <2>1 DEF send_request
<1>7. pc' = [pc EXCEPT ![s] = "waitItem"] \/ pc' = [pc EXCEPT ![s] = "body"]
  BY DEF send_request
<1>8. ToSend' = {}
  BY <1>1, <1>3, <1>7 DEF ToSend
<1>9. Entitled'
  <2> SUFFICES ASSUME NEW t \in Seqs, pc'[t] = "granted"
               PROVE  m_wait_for_grant_semaphore'[t] >= 1
    BY DEF Entitled
  <2>1. t # s /\ pc[t] = "granted"
    BY <1>1, <1>7
  <2> QED BY <1>1, <2>1 DEF send_request, HandshakeInv
<1>10. Len(m_req_fifo)' = 1
  <2>1. m_req_fifo' = <<item>>
    BY <1>4, <1>6
  <2> QED BY <2>1
<1>11. OneItem'
  BY <1>3, <1>6, <1>8, <1>10 DEF HandshakeInv, OneItem, flagVars
<1>12. (driver # "busy")'
  <2>1. ~ HasItem
    BY <1>4 DEF HasItem
  <2> QED BY <1>6, <2>1 DEF HandshakeInv
<1>13. HandshakeInv'
  BY <1>6, <1>9, <1>11, <1>12 DEF HandshakeInv, flagVars, Entitled
<1> QED BY <1>3, <1>4, <1>6, <1>8, <1>13

\* item_done takes the only item that is under way.
LEMMA DoneItemIsLast ==
  ASSUME HandshakeInv, m_req_fifo \in Seq(Items), TakeDoneItem
  PROVE  ToSend = {} /\ Len(m_req_fifo) = 1 /\ m_req_fifo' = <<>>
<1>1. m_req_fifo # <<>> /\ m_req_fifo' = Tail(m_req_fifo)
  BY DEF TakeDoneItem, HasItem
<1>2. Len(m_req_fifo) \in Nat \ {0}
  BY <1>1, LenProperties, EmptySeq
<1>3. ToSend = {} /\ Len(m_req_fifo) = 1
  BY <1>2 DEF HandshakeInv, OneItem
<1>4. Tail(m_req_fifo) \in Seq(Items) /\ Len(Tail(m_req_fifo)) = 0
  BY <1>1, <1>3, HeadTailProperties
<1>5. Tail(m_req_fifo) = <<>>
  BY <1>4, EmptySeq
<1> QED BY <1>1, <1>3, <1>5

\* The update phase makes the items readable and changes nothing else of them.
LEMMA UpdateItems ==
  ASSUME m_req_fifo \in Seq(Items), UpdateFifo
  PROVE  /\ Len(m_req_fifo') = Len(m_req_fifo) /\ DOMAIN m_req_fifo' = DOMAIN m_req_fifo
         /\ m_req_fifo' \in Seq(Items)
         /\ \A i \in DOMAIN m_req_fifo : /\ m_req_fifo'[i].sequence_id = m_req_fifo[i].sequence_id
                                         /\ m_req_fifo'[i].visible
<1>1. /\ Len(m_req_fifo) \in Nat /\ DOMAIN m_req_fifo = 1 .. Len(m_req_fifo)
      /\ m_req_fifo \in [1 .. Len(m_req_fifo) -> Items]
  BY LenProperties
<1>2. m_req_fifo' = [i \in 1 .. Len(m_req_fifo) |-> [m_req_fifo[i] EXCEPT !.visible = TRUE]]
  BY <1>1 DEF UpdateFifo
<1>3. ASSUME NEW x \in Items
      PROVE  /\ [x EXCEPT !.visible = TRUE] \in Items
             /\ [x EXCEPT !.visible = TRUE].sequence_id = x.sequence_id
             /\ [x EXCEPT !.visible = TRUE].visible
  BY DEF Items
<1>4. /\ m_req_fifo' \in [1 .. Len(m_req_fifo) -> Items]
      /\ \A i \in 1 .. Len(m_req_fifo) : /\ m_req_fifo'[i].sequence_id = m_req_fifo[i].sequence_id
                                         /\ m_req_fifo'[i].visible
  BY <1>1, <1>2, <1>3
<1>5. m_req_fifo' \in Seq(Items) /\ Len(m_req_fifo') = Len(m_req_fifo)
  BY <1>1, <1>4
<1> QED BY <1>1, <1>4, <1>5

\* HandshakeInv is inductive unless stop_sequences resets the flags under the driver.
LEMMA HandshakeStep ==
  "stop" \notin Ops /\ IInv /\ RequestsMatched /\ HandshakeInv /\ [Next]_vars => HandshakeInv'
<1> SUFFICES ASSUME "stop" \notin Ops, IInv, RequestsMatched, HandshakeInv, [Next]_vars
             PROVE  HandshakeInv'
  OBVIOUS
<1>1. /\ pc \in [Seqs -> Stopped \cup Running] /\ m_req_fifo \in Seq(Items)
      /\ m_wait_for_grant_semaphore \in [Seqs -> Nat]
      /\ m_req_fifo' \in Seq(Items)
  BY TypeStep DEF IInv, TypeOK, ItemTypes, ProcessTypes
<1>2. /\ Len(m_req_fifo) \in Nat
      /\ m_req_fifo = <<>> <=> Len(m_req_fifo) = 0
  BY <1>1, LenProperties, EmptySeq
<1>3. CASE UNCHANGED vars
  <2>1. UNCHANGED <<m_req_fifo, driver, flagVars, halted, pc, m_wait_for_grant_semaphore,
                    request_id, arb_completed>>
    BY <1>3 DEF vars, itemVars, seqVars
  <2>2. ToSend' \subseteq ToSend /\ Entitled'
    BY <2>1 DEF ToSend, Entitled, HandshakeInv
  <2> QED BY <1>1, <2>1, <2>2, QuietHandshake
<1>4. ASSUME UNCHANGED m_wait_for_grant_semaphore,
             \A t \in Seqs : pc'[t] = "granted" => pc[t] = "granted"
      PROVE  Entitled'
  BY <1>4 DEF Entitled, HandshakeInv
<1>5. ASSUME halted = "no", NEW s \in Seqs, Step(s) PROVE HandshakeInv'
  <2>1. ToSend' \subseteq ToSend
    BY <1>5, ToSendKept
  <2>2. ASSUME NEW wait \in BOOLEAN, send_request(s, wait) PROVE HandshakeInv'
    BY <1>5, <2>1, <2>2, SendHandshake
  <2>3. CASE m_wait_for_arbitration_completed(s)
    <3>1. UNCHANGED <<m_req_fifo, driver, flagVars, halted>>
      BY <2>3 DEF m_wait_for_arbitration_completed, itemVars
    <3>2. Entitled'
      BY <1>1, <2>3 DEF m_wait_for_arbitration_completed, Entitled, HandshakeInv
    <3> QED BY <1>1, <2>1, <3>1, <3>2, QuietHandshake
  <2>4. CASE Start(s) \/ StartReturns(s) \/ Kill(s)
    <3>1. UNCHANGED <<m_req_fifo, driver, flagVars, halted, m_wait_for_grant_semaphore>>
      BY <2>4 DEF Start, StartReturns, Kill, itemVars
    <3>2. \A t \in Seqs : pc'[t] = "granted" => pc[t] = "granted"
      BY <2>4 DEF Start, StartReturns, Kill, m_kill_sequences
    <3> QED BY <1>1, <1>4, <2>1, <3>1, <3>2, QuietHandshake
  <2>5. CASE \/ \E front \in BOOLEAN : m_lock_req(s, front)
             \/ \E lock_request \in BOOLEAN : wait_for_grant(s, lock_request)
             \/ SetRelevant(s) \/ m_unlock_req(s) \/ wait_for_item_done(s) \/ ItemDoneWoken(s)
             \/ BodyEnd(s)
    <3>1. UNCHANGED <<m_req_fifo, driver, flagVars, halted, m_wait_for_grant_semaphore>>
      BY <2>5 DEF m_lock_req, wait_for_grant, SetRelevant, m_unlock_req, wait_for_item_done,
           ItemDoneWoken, BodyEnd, itemVars, seqVars
    <3>2. \A t \in Seqs : pc'[t] = "granted" => pc[t] = "granted"
      BY <1>1, <2>5 DEF m_lock_req, wait_for_grant, SetRelevant, m_unlock_req,
           wait_for_item_done, ItemDoneWoken, BodyEnd, seqVars
    <3> QED BY <1>1, <1>4, <2>1, <3>1, <3>2, QuietHandshake
  <2> QED BY <1>5, <2>2, <2>3, <2>4, <2>5 DEF Step, Lock, Grab
<1>6. CASE m_select_sequence \/ TryChoose
  <2>1. /\ driver \in {"select", "tryChoose"}
        /\ UNCHANGED <<m_req_fifo, pc, m_wait_for_grant_semaphore>>
    BY <1>6 DEF m_select_sequence, TryChoose, itemVars, seqVars
  <2>2. ToSend = {} /\ m_req_fifo = <<>> /\ Entitled'
    BY <1>4, <2>1 DEF HandshakeInv, OneItem
  <2>3. CASE (m_select_sequence /\ driver' = "arbWait") \/ (TryChoose /\ driver' = "idle")
    <3>1. ToSend' = {} /\ UNCHANGED flagVars
      BY <2>2, <2>3, SelectionGrants DEF IInv
    <3>2. halted' # "fatal"
      BY <2>3 DEF m_select_sequence, TryChoose, HandshakeInv
    <3>3. OneItem'
      BY <2>1, <2>2, <2>3, <3>1, EmptySeq DEF OneItem
    <3> QED BY <2>2, <2>3, <3>1, <3>2, <3>3 DEF HandshakeInv, flagVars, Entitled
  <2>4. CASE (m_select_sequence /\ driver' # "arbWait") \/ (TryChoose /\ driver' # "idle")
    <3>1. PICK s \in Seqs : s \in ToSend' /\ ToSend' \subseteq ToSend \cup {s}
      BY <2>4, SelectionSelects DEF IInv
    <3>2. /\ sequence_item_requested' = TRUE /\ get_next_item_called' = TRUE /\ UNCHANGED halted
          /\ driver' \in {"peek", "tryPeek"}
      BY <2>4, SelectionSelects DEF IInv
    <3>3. ToSend' = {s} /\ Len(m_req_fifo') = 0
      BY <2>1, <2>2, <3>1, EmptySeq
    <3>4. OneItem'
      BY <3>2, <3>3 DEF OneItem
    <3>5. sequence_item_requested' = get_next_item_called'
      BY <3>2
    <3>6. halted' # "fatal" /\ driver' # "busy"
      BY <3>2 DEF HandshakeInv
    <3>7. Entitled'
      BY <2>2
    <3> QED BY <3>4, <3>5, <3>6, <3>7 DEF HandshakeInv, Entitled
  <2> QED BY <1>6, <2>3, <2>4
<1>7. CASE DriverStep /\ ~ m_select_sequence /\ ~ TryChoose
  <2>1. ToSend' \subseteq ToSend /\ Entitled'
    <3>1. UNCHANGED <<pc, m_wait_for_grant_semaphore>>
      BY <1>7 DEF DriverStep, get_next_item, m_wait_arb_not_equal, peek, try_next_item, TryPeek,
                  item_done, item_done_rsp, PutReturns, ItemDoneFatal, seqVars
    <3> QED BY <1>4, <1>7, <3>1, ToSendKept
  <2>2. CASE get_next_item
    <3>1. UNCHANGED <<m_req_fifo, halted>>
      BY <2>2 DEF get_next_item, itemVars
    <3>2. CASE ~ sequence_item_requested /\ driver' = "select" /\ UNCHANGED flagVars
      <4>1. ToSend = {} /\ m_req_fifo = <<>>
        BY <3>2 DEF HandshakeInv, OneItem
      <4> QED BY <2>1, <3>1, <3>2, <4>1, RestingHandshake DEF HandshakeInv, flagVars
    <3>3. CASE /\ sequence_item_requested /\ driver' = "peek"
               /\ sequence_item_requested' = TRUE /\ get_next_item_called' = TRUE
      <4>1. Len(m_req_fifo') <= IF ToSend' = {} THEN 1 ELSE 0
        BY <1>2, <2>1, <3>1 DEF HandshakeInv, OneItem
      <4>2. OneItem'
        BY <2>1, <3>1, <3>3, <4>1 DEF HandshakeInv, OneItem
      <4> QED BY <2>1, <3>1, <3>3, <4>2 DEF HandshakeInv, Entitled
    <3> QED BY <2>2, <3>2, <3>3 DEF get_next_item
  <2>3. CASE m_wait_arb_not_equal \/ try_next_item
    <3>1. UNCHANGED <<m_req_fifo, halted, flagVars>> /\ driver' \in {"arbWait", "select", "tryChoose"}
      BY <2>3 DEF m_wait_arb_not_equal, try_next_item, itemVars
    <3>2. ToSend = {} /\ m_req_fifo = <<>>
      BY <2>3 DEF m_wait_arb_not_equal, try_next_item, HandshakeInv, OneItem
    <3> QED BY <2>1, <3>1, <3>2, RestingHandshake DEF HandshakeInv, flagVars
  <2>4. CASE peek \/ TryPeek
    <3>1. /\ UNCHANGED <<m_req_fifo, halted, flagVars>> /\ driver' \in {"busy", "idle"}
          /\ driver' = "busy" => HasItem
          /\ driver \in {"peek", "tryPeek"}
      BY <2>4 DEF peek, TryPeek, itemVars
    <3>2. Len(m_req_fifo') <= IF ToSend' = {} THEN 1 ELSE 0
      BY <1>2, <2>1, <3>1 DEF HandshakeInv, OneItem
    <3>3. sequence_item_requested'
      BY <3>1 DEF HandshakeInv, OneItem, flagVars
    <3>4. OneItem'
      BY <2>1, <3>1, <3>2, <3>3 DEF HandshakeInv, OneItem
    <3> QED BY <2>1, <3>1, <3>4 DEF HandshakeInv, flagVars, Entitled, HasItem
  <2>5. CASE TakeDoneItem /\ driver' \in {"idle", "respond"} /\ UNCHANGED halted
    <3>1. ToSend = {} /\ m_req_fifo' = <<>>
      BY <1>1, <1>2, <2>5, DoneItemIsLast
    <3>2. sequence_item_requested' = get_next_item_called'
      BY <2>5 DEF TakeDoneItem
    <3> QED BY <2>1, <2>5, <3>1, <3>2, RestingHandshake
  <2>6. CASE PutReturns
    <3>1. /\ UNCHANGED <<m_req_fifo, halted, flagVars>> /\ driver' = "idle"
          /\ driver = "respond"
      BY <2>6 DEF PutReturns, itemVars
    <3>2. ToSend = {} /\ m_req_fifo = <<>>
      BY <3>1 DEF HandshakeInv, OneItem
    <3> QED BY <2>1, <3>1, <3>2, RestingHandshake DEF HandshakeInv, flagVars
  <2>7. CASE ItemDoneFatal
    BY <2>7 DEF ItemDoneFatal, HandshakeInv
  <2> QED BY <1>7, <2>2, <2>3, <2>4, <2>5, <2>6, <2>7 DEF DriverStep, item_done, item_done_rsp
<1>8. CASE UpdateFifo
  <2>1. UNCHANGED <<driver, flagVars, halted, pc, m_wait_for_grant_semaphore, arb_completed, request_id>>
    BY <1>8 DEF UpdateFifo, seqVars
  <2>2. ToSend' = ToSend /\ Entitled'
    BY <1>4, <2>1 DEF ToSend
  <2>3. Len(m_req_fifo') = Len(m_req_fifo)
    BY <1>1, <1>8, UpdateItems
  <2>4. m_req_fifo' = <<>> => m_req_fifo = <<>>
    BY <1>1, <1>2, <2>3, EmptySeq
  <2>5. OneItem'
    BY <2>1, <2>2, <2>3, <2>4 DEF HandshakeInv, OneItem, flagVars
  <2>6. HasItem => HasItem'
    <3> SUFFICES ASSUME HasItem PROVE HasItem'
      OBVIOUS
    <3>1. 1 \in DOMAIN m_req_fifo /\ m_req_fifo' # <<>>
      BY <1>1, <1>2, <2>3, LenProperties, EmptySeq DEF HasItem
    <3>2. m_req_fifo'[1].visible
      BY <1>1, <1>8, <3>1, UpdateItems
    <3> QED BY <3>1, <3>2 DEF HasItem
  <2> QED BY <2>1, <2>2, <2>5, <2>6 DEF HandshakeInv, flagVars, Entitled
<1> QED BY <1>3, <1>5, <1>6, <1>7, <1>8 DEF Next, stop_sequences

\* Without stop_sequences the driver and the FIFO stay in step.
LEMMA HandshakeInductive == "stop" \notin Ops => (Spec => []HandshakeInv)
<1> SUFFICES ASSUME "stop" \notin Ops PROVE Spec => []HandshakeInv
  OBVIOUS
<1>1. Init => HandshakeInv
  <2> SUFFICES ASSUME Init PROVE HandshakeInv
    OBVIOUS
  <2>1. ToSend = {} /\ m_req_fifo = <<>> /\ driver = "idle"
    BY DEF Init, ToSend
  <2>2. OneItem
    BY <2>1, EmptySeq DEF OneItem
  <2>3. sequence_item_requested = get_next_item_called
    BY DEF Init
  <2>4. \A s \in Seqs : pc[s] # "granted"
    BY DEF Init
  <2> QED BY <2>1, <2>2, <2>3, <2>4 DEF Init, HandshakeInv
<1>2. IInv /\ RequestsMatched /\ HandshakeInv /\ [Next]_vars => HandshakeInv'
  BY HandshakeStep
<1> QED BY <1>1, <1>2, Inductive, RequestsStayMatched, PTL DEF Spec

\* Neither send_request nor item_done ends the program with its fatal report, for
\* any sequences, kills, pipelining and FIFO depth, while stop_sequences is not called.
THEOREM NoFatalReport == "stop" \notin Ops => (Spec => []NeverFatal)
<1> SUFFICES ASSUME "stop" \notin Ops PROVE Spec => []NeverFatal
  OBVIOUS
<1>1. HandshakeInv => NeverFatal
  BY DEF HandshakeInv, NeverFatal
<1> QED BY <1>1, HandshakeInductive, PTL

-----------------------------------------------------------------------------
(* finish_item and item_done *)

\* A sequence that stays in finish_item keeps its item, or what it was told.
LEMMA DoneKept ==
  ASSUME DoneInv, ToSend' \subseteq ToSend,
         UNCHANGED <<m_req_fifo, m_wait_for_item_sequence_id>>,
         \A t \in Seqs : pc'[t] = "waitItem" =>
           /\ pc[t] = "waitItem" /\ m_sqr_seq_ids'[t] = m_sqr_seq_ids[t]
           /\ t \in itemWaiters' => t \in itemWaiters
              \/ m_wait_for_item_sequence_id # m_sqr_seq_ids[t]
  PROVE  DoneInv'
<1> SUFFICES ASSUME NEW t \in Seqs, pc'[t] = "waitItem"
             PROVE  \/ InFifo(t)'
                    \/ (/\ t \notin itemWaiters /\ m_wait_for_item_sequence_id = m_sqr_seq_ids[t]
                        /\ ToSend = {} /\ m_req_fifo = <<>>)'
  BY DEF DoneInv
<1>1. pc[t] = "waitItem" /\ m_sqr_seq_ids'[t] = m_sqr_seq_ids[t]
  OBVIOUS
<1>2. CASE InFifo(t)
  BY <1>1, <1>2 DEF InFifo
<1>3. CASE /\ t \notin itemWaiters /\ m_wait_for_item_sequence_id = m_sqr_seq_ids[t]
           /\ ToSend = {} /\ m_req_fifo = <<>>
  BY <1>1, <1>3
<1> QED BY <1>1, <1>2, <1>3 DEF DoneInv

\* The item that send_request appends is the one its sequence waits for.
LEMMA SendDone ==
  ASSUME IInv, RequestsMatched, HandshakeInv, DoneInv, halted = "no",
         "pipelined" \notin Ops, NEW s \in Seqs, NEW wait \in BOOLEAN, send_request(s, wait)
  PROVE  DoneInv'
<1> DEFINE item == [sequence |-> s, sequence_id |-> m_sqr_seq_ids[s], visible |-> FALSE]
<1>1. /\ m_req_fifo \in Seq(Items) /\ pc \in [Seqs -> Stopped \cup Running] /\ item \in Items
  BY DEF IInv, TypeOK, ItemTypes, ProcessTypes, RegistryTypes, Items
<1>2. ToSend' \subseteq ToSend
  BY ToSendKept DEF Step
<1>3. /\ ToSend = {s} /\ m_req_fifo = <<>> /\ m_req_fifo' = Append(m_req_fifo, item)
  BY <1>2, SendHandshake
<1>4. /\ pc' = [pc EXCEPT ![s] = "waitItem"] /\ UNCHANGED m_sqr_seq_ids
  BY DEF send_request, regVars
<1>5. ASSUME NEW t \in Seqs, pc'[t] = "waitItem" PROVE InFifo(t)'
  <2>1. CASE t = s
    <3>1. m_req_fifo' = <<item>>
      BY <1>3
    <3> QED BY <1>4, <2>1, <3>1 DEF InFifo
  <2>2. CASE t # s
    <3>1. pc[t] = "waitItem"
      BY <1>1, <1>4, <1>5, <2>2
    <3>2. InFifo(t)
      BY <1>3, <3>1 DEF DoneInv
    <3> QED BY <1>3, <3>2 DEF InFifo
  <2> QED BY <2>1, <2>2
<1> QED BY <1>5 DEF DoneInv

\* item_done tells the sequence whose item it takes, and there is no other.
LEMMA TakeDone ==
  ASSUME IInv, HandshakeInv, DoneInv, TakeDoneItem, ToSend' \subseteq ToSend,
         UNCHANGED <<pc, m_sqr_seq_ids>>
  PROVE  DoneInv'
<1>1. m_req_fifo \in Seq(Items)
  BY DEF IInv, TypeOK, ItemTypes
<1>2. ToSend = {} /\ Len(m_req_fifo) = 1 /\ m_req_fifo' = <<>>
  BY <1>1, DoneItemIsLast
<1>3. DOMAIN m_req_fifo = {1} /\ Head(m_req_fifo) = m_req_fifo[1] /\ m_req_fifo # <<>>
  BY <1>1, <1>2, LenProperties, HeadTailProperties, EmptySeq
<1>4. itemWaiters' = {} /\ m_wait_for_item_sequence_id' = m_req_fifo[1].sequence_id
  BY <1>3 DEF TakeDoneItem
<1>5. ASSUME NEW t \in Seqs, pc[t] = "waitItem"
      PROVE  m_req_fifo[1].sequence_id = m_sqr_seq_ids[t]
  BY <1>3, <1>5 DEF DoneInv, InFifo
<1>6. ToSend' = {}
  BY <1>2
<1> QED BY <1>2, <1>4, <1>5, <1>6 DEF DoneInv

\* DoneInv is inductive when every sequence waits for its item as it sends it.
LEMMA DoneStep ==
  /\ {"stop", "pipelined"} \cap Ops = {}
  /\ IInv /\ RequestsMatched /\ HandshakeInv /\ DoneInv /\ [Next]_vars
  => DoneInv'
<1> SUFFICES ASSUME "stop" \notin Ops, "pipelined" \notin Ops, IInv, RequestsMatched,
                    HandshakeInv, DoneInv, [Next]_vars
             PROVE  DoneInv'
  OBVIOUS
<1>1. pc \in [Seqs -> Stopped \cup Running] /\ m_req_fifo \in Seq(Items)
      /\ m_sqr_seq_ids \in [Seqs -> Ids]
  BY DEF IInv, TypeOK, ItemTypes, ProcessTypes, RegistryTypes
<1>2. ASSUME ToSend' \subseteq ToSend,
             UNCHANGED <<m_req_fifo, m_wait_for_item_sequence_id, m_sqr_seq_ids>>,
             itemWaiters' \subseteq itemWaiters,
             \A t \in Seqs : pc'[t] = "waitItem" => pc[t] = "waitItem"
      PROVE  DoneInv'
  BY <1>2, DoneKept
<1>3. CASE UNCHANGED vars
  <2>1. UNCHANGED <<pc, m_req_fifo, m_wait_for_item_sequence_id, m_sqr_seq_ids, itemWaiters>>
    BY <1>3 DEF vars, itemVars, regVars, seqVars
  <2> QED BY <1>2, <1>3, <2>1, ToSendKept
<1>4. ASSUME halted = "no", NEW s \in Seqs, Step(s) PROVE DoneInv'
  <2>1. ToSend' \subseteq ToSend
    BY <1>4, ToSendKept
  <2>2. ASSUME NEW wait \in BOOLEAN, send_request(s, wait) PROVE DoneInv'
    BY <1>4, <2>2, SendDone
  <2>3. CASE Start(s)
    <3>1. \A t \in Seqs : pc'[t] = "waitItem" => pc[t] = "waitItem" /\ t # s
      BY <2>3 DEF Start
    <3>2. UNCHANGED <<m_req_fifo, m_wait_for_item_sequence_id, itemWaiters>>
          /\ \A t \in Seqs \ {s} : m_sqr_seq_ids'[t] = m_sqr_seq_ids[t]
      BY <1>1, <2>3 DEF Start, itemVars
    <3> QED BY <2>1, <3>1, <3>2, DoneKept
  <2>4. CASE ItemDoneWoken(s)
    <3>1. /\ UNCHANGED <<m_req_fifo, m_wait_for_item_sequence_id, m_sqr_seq_ids>>
          /\ \A t \in Seqs : pc'[t] = "waitItem" => pc[t] = "waitItem"
          /\ \A t \in itemWaiters' :
               t \in itemWaiters \/ (t = s /\ m_wait_for_item_sequence_id # m_sqr_seq_ids[s])
      BY <1>1, <2>4 DEF ItemDoneWoken, regVars
    <3> QED BY <2>1, <3>1, DoneKept
  <2>5. CASE StartReturns(s) \/ Kill(s)
    <3>1. UNCHANGED <<m_req_fifo, m_wait_for_item_sequence_id, m_sqr_seq_ids>>
          /\ itemWaiters' \subseteq itemWaiters
      BY <2>5 DEF StartReturns, Kill, m_kill_sequences, itemVars
    <3>2. \A t \in Seqs : pc'[t] = "waitItem" => pc[t] = "waitItem"
      BY <2>5 DEF StartReturns, Kill, m_kill_sequences
    <3> QED BY <1>2, <2>1, <3>1, <3>2
  <2>6. CASE \/ \E front \in BOOLEAN : m_lock_req(s, front)
             \/ \E lock_request \in BOOLEAN : wait_for_grant(s, lock_request)
             \/ SetRelevant(s) \/ m_unlock_req(s) \/ m_wait_for_arbitration_completed(s)
             \/ BodyEnd(s)
    <3>1. UNCHANGED <<m_req_fifo, m_wait_for_item_sequence_id, m_sqr_seq_ids, itemWaiters>>
      BY <2>6 DEF m_lock_req, wait_for_grant, SetRelevant, m_unlock_req,
           m_wait_for_arbitration_completed, BodyEnd, itemVars, regVars
    <3>2. \A t \in Seqs : pc'[t] = "waitItem" => pc[t] = "waitItem"
      BY <1>1, <2>6 DEF m_lock_req, wait_for_grant, SetRelevant, m_unlock_req,
           m_wait_for_arbitration_completed, BodyEnd, seqVars
    <3> QED BY <1>2, <2>1, <3>1, <3>2
  <2> QED BY <1>4, <2>2, <2>3, <2>4, <2>5, <2>6 DEF Step, Lock, Grab, wait_for_item_done
<1>5. CASE m_select_sequence \/ TryChoose
  <2>1. /\ NextDelta /\ driver \in {"select", "tryChoose"}
        /\ UNCHANGED pc
    BY <1>5 DEF m_select_sequence, TryChoose, seqVars
  <2>2. m_req_fifo = <<>>
    BY <2>1 DEF HandshakeInv, OneItem
  <2>3. ASSUME NEW t \in Seqs, pc[t] = "waitItem" PROVE FALSE
    <3>1. t \in itemWaiters
      BY <2>1, <2>3 DEF NextDelta, EvaluationOver
    <3>2. InFifo(t)
      BY <2>3, <3>1 DEF DoneInv
    <3> QED BY <2>2, <3>2 DEF InFifo
  <2> QED BY <2>1, <2>3 DEF DoneInv
<1>6. CASE DriverStep /\ ~ m_select_sequence /\ ~ TryChoose
  <2>1. ToSend' \subseteq ToSend
    BY <1>6, ToSendKept
  <2>2. CASE item_done \/ item_done_rsp
    <3>1. TakeDoneItem /\ UNCHANGED <<pc, m_sqr_seq_ids>>
      BY <2>2 DEF item_done, item_done_rsp, regVars, seqVars
    <3> QED BY <2>1, <3>1, TakeDone
  <2>3. CASE ~ item_done /\ ~ item_done_rsp
    <3>1. UNCHANGED <<pc, m_req_fifo, m_wait_for_item_sequence_id, m_sqr_seq_ids, itemWaiters>>
      BY <1>6, <2>3 DEF DriverStep, get_next_item, m_wait_arb_not_equal, peek, try_next_item,
           TryPeek, PutReturns, ItemDoneFatal, itemVars, regVars, seqVars
    <3> QED BY <1>2, <2>1, <3>1
  <2> QED BY <2>2, <2>3
<1>7. CASE UpdateFifo
  <2>1. UNCHANGED <<pc, m_wait_for_item_sequence_id, m_sqr_seq_ids, itemWaiters>>
    BY <1>7 DEF UpdateFifo, regVars, seqVars
  <2>2. \A t \in Seqs : InFifo(t)' <=> InFifo(t)
    BY <1>1, <1>7, <2>1, UpdateItems DEF InFifo
  <2>3. m_req_fifo # <<>>
    BY <1>7 DEF UpdateFifo
  <2> QED BY <2>1, <2>2, <2>3 DEF DoneInv
<1> QED BY <1>3, <1>4, <1>5, <1>6, <1>7 DEF Next, stop_sequences

\* A sequence asleep in finish_item has its item before the driver: the item_done it
\* waits for has not been missed, whatever else is killed, restarted or locked.
THEOREM ItemDoneIsNoticed == {"stop", "pipelined"} \cap Ops = {} => (Spec => []ItemDoneNotLost)
<1> SUFFICES ASSUME "stop" \notin Ops, "pipelined" \notin Ops PROVE Spec => []ItemDoneNotLost
  OBVIOUS
<1>1. Init => DoneInv
  BY DEF Init, DoneInv
<1>2. IInv /\ RequestsMatched /\ HandshakeInv /\ DoneInv /\ [Next]_vars => DoneInv'
  BY DoneStep
<1>3. TypeOK /\ DoneInv => ItemDoneNotLost
  BY DEF DoneInv, ItemDoneNotLost, InFifo, TypeOK, ItemTypes
<1> QED BY <1>1, <1>2, <1>3, TypeCorrect, Inductive, RequestsStayMatched, HandshakeInductive,
           PTL DEF Spec

-----------------------------------------------------------------------------
(* try_next_item *)

\* What try_next_item has selected is on its way until it looks, if the sequence
\* is not killed.
LEMMA TryStep ==
  /\ {"kill", "stop"} \cap Ops = {}
  /\ IInv /\ RequestsMatched /\ HandshakeInv /\ TryInv /\ [Next]_vars
  => TryInv'
<1> SUFFICES ASSUME "kill" \notin Ops, "stop" \notin Ops, IInv, RequestsMatched, HandshakeInv,
                    TryInv, [Next]_vars, driver' = "tryPeek"
             PROVE  ToSend' # {} \/ m_req_fifo' # <<>>
  BY DEF TryInv
<1>1. /\ pc \in [Seqs -> Stopped \cup Running] /\ m_req_fifo \in Seq(Items)
      /\ request_id \in [Seqs -> Nat]
  BY DEF IInv, TypeOK, ItemTypes, ProcessTypes
<1>2. CASE m_select_sequence \/ TryChoose
  <2>1. (m_select_sequence /\ driver' # "arbWait") \/ (TryChoose /\ driver' # "idle")
    BY <1>2
  <2> QED BY <2>1, SelectionSelects DEF IInv
<1>3. ASSUME driver = "tryPeek", m_req_fifo' = m_req_fifo, ToSend \subseteq ToSend'
      PROVE  ToSend' # {} \/ m_req_fifo' # <<>>
  BY <1>3 DEF TryInv
<1>4. ASSUME halted = "no", NEW s \in Seqs, Step(s) PROVE ToSend' # {} \/ m_req_fifo' # <<>>
  <2>1. driver = "tryPeek"
    BY <1>4 DEF Step, Start, SetRelevant, Lock, Grab, m_lock_req, m_unlock_req, wait_for_grant,
         m_wait_for_arbitration_completed, send_request, wait_for_item_done, ItemDoneWoken,
         BodyEnd, StartReturns, Kill
  <2>2. ASSUME NEW wait \in BOOLEAN, send_request(s, wait) PROVE m_req_fifo' # <<>>
    <3>1. ToSend' \subseteq ToSend
      BY <1>4, ToSendKept
    <3>2. m_req_fifo' = Append(m_req_fifo, [sequence |-> s, sequence_id |-> m_sqr_seq_ids[s],
                                            visible |-> FALSE])
          /\ m_req_fifo = <<>>
      BY <1>4, <2>2, <3>1, SendHandshake
    <3> QED BY <3>2
  <2>3. CASE \A wait \in BOOLEAN : ~ send_request(s, wait)
    <3>1. m_req_fifo' = m_req_fifo
      BY <1>4, <2>3 DEF Step, Start, SetRelevant, Lock, Grab, m_lock_req, m_unlock_req,
         wait_for_grant, m_wait_for_arbitration_completed, wait_for_item_done, ItemDoneWoken,
         BodyEnd, StartReturns, Kill, itemVars
    <3>2. \/ m_wait_for_arbitration_completed(s)
          \/ /\ arb_completed \subseteq arb_completed'
             /\ \A t \in Seqs : pc[t] \in {"waitGrant", "granted"} =>
                  pc'[t] = pc[t] /\ request_id'[t] = request_id[t]
      <4>1. CASE Start(s)
        BY <1>1, <4>1, ParentAssumption DEF Start, Stopped
      <4>2. CASE ~ Start(s)
        BY <1>1, <1>4, <2>3, <4>2 DEF Step, SetRelevant, Lock, Grab, m_lock_req, m_unlock_req,
           wait_for_grant, wait_for_item_done, ItemDoneWoken, BodyEnd, StartReturns, Kill, seqVars
      <4> QED BY <4>1, <4>2
    <3>3. ASSUME NEW t \in ToSend PROVE t \in ToSend'
      <4>1. CASE m_wait_for_arbitration_completed(s)
        BY <1>1, <3>3, <4>1 DEF ToSend, m_wait_for_arbitration_completed, RequestsMatched, Waiting,
             ArbitrationCompleted
      <4>2. CASE /\ arb_completed \subseteq arb_completed'
                 /\ \A u \in Seqs : pc[u] \in {"waitGrant", "granted"} =>
                      pc'[u] = pc[u] /\ request_id'[u] = request_id[u]
        BY <3>3, <4>2 DEF ToSend
      <4> QED BY <3>2, <4>1, <4>2
    <3> QED BY <1>3, <2>1, <3>1, <3>3
  <2> QED BY <2>2, <2>3
<1>5. CASE DriverStep /\ ~ m_select_sequence /\ ~ TryChoose
  BY <1>5 DEF DriverStep, get_next_item, m_wait_arb_not_equal, peek, try_next_item, TryPeek,
     item_done, item_done_rsp, PutReturns, ItemDoneFatal
<1>6. CASE UpdateFifo
  <2>1. driver = "tryPeek" /\ UNCHANGED <<pc, request_id, arb_completed>> /\ m_req_fifo # <<>>
    BY <1>6 DEF UpdateFifo, seqVars
  <2>2. Len(m_req_fifo') = Len(m_req_fifo)
    BY <1>1, <1>6, UpdateItems
  <2> QED BY <1>1, <2>1, <2>2, EmptySeq, LenProperties
<1>7. CASE UNCHANGED vars
  BY <1>3, <1>7 DEF vars, itemVars, seqVars, ToSend
<1> QED BY <1>2, <1>4, <1>5, <1>6, <1>7 DEF Next, stop_sequences

\* try_next_item always gets the item of the sequence it selected within the delta
\* cycle it waits, when granted sequences send at once and are not killed.
THEOREM TryNextItemSucceeds ==
  {"kill", "stop", "delay"} \cap Ops = {} => (Spec => TryFindsItem)
<1> SUFFICES ASSUME "kill" \notin Ops, "stop" \notin Ops, "delay" \notin Ops
             PROVE  Spec => TryFindsItem
  OBVIOUS
<1>1. Init => TryInv
  BY DEF Init, TryInv
<1>2. IInv /\ RequestsMatched /\ HandshakeInv /\ TryInv /\ [Next]_vars => TryInv'
  BY TryStep
<1>3. IInv /\ TryInv => (TryPeek => driver' = "busy")
  <2> SUFFICES ASSUME IInv, TryInv, TryPeek PROVE HasItem
    BY DEF TryPeek
  <2>1. driver = "tryPeek" /\ NextDelta
    BY DEF TryPeek
  <2>2. ASSUME NEW s \in ToSend PROVE FALSE
    <3>1. pc[s] # "granted" /\ s \in Seqs
      BY <2>1, <2>2 DEF NextDelta, EvaluationOver, ToSend
    <3>2. Waiting(s) /\ request_id[s] \in arb_completed /\ s \in arbWaiters
      BY <2>1, <2>2, <3>1 DEF NextDelta, EvaluationOver, ToSend, Waiting
    <3> QED BY <3>1, <3>2 DEF IInv, GrantNotified
  <2>3. m_req_fifo # <<>> /\ m_req_fifo \in Seq(Items)
    BY <2>1, <2>2 DEF TryInv, IInv, TypeOK, ItemTypes
  <2>4. 1 \in DOMAIN m_req_fifo /\ Head(m_req_fifo) = m_req_fifo[1]
    BY <2>3, LenProperties, EmptySeq, HeadTailProperties
  <2> QED BY <2>1, <2>3, <2>4 DEF HasItem, NextDelta
<1> QED BY <1>1, <1>2, <1>3, Inductive, RequestsStayMatched, HandshakeInductive, PTL
        DEF Spec, TryFindsItem

=============================================================================
