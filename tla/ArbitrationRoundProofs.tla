----------------------- MODULE ArbitrationRoundProofs -----------------------
(***************************************************************************)
(* One round of arbitration, for every queue, any sequences with any       *)
(* priorities and in every mode: one walk over the queue grants all the    *)
(* locks there are to grant, and the strict modes obey the priorities.     *)
(***************************************************************************)
EXTENDS ArbitrationRound, FiniteSetTheorems, NaturalsInduction, WellFoundedInduction, TLAPS

-----------------------------------------------------------------------------
(* The queue *)

\* What the counter of request_id gives the queue: a finite number of requests,
\* each with a place of its own.
Ordered(Q) ==
  /\ Q \subseteq Request /\ IsFiniteSet(Q)
  /\ \A r, x \in Q : Pos(r) = Pos(x) => r = x

\* The holders are one chain, and the queue is one that push_back and the
\* insertion at the front make.
QueueInv == Ordered(queue) /\ holders \in Chains

\* A request stands before the others, or behind them, by its place alone.
LEMMA PosType == \A r \in Request : Pos(r) \in Int
BY SMT DEF Request, Pos

\* The queues an arbitration starts from are in order.
LEMMA QueuesOrdered ==
  ASSUME NEW Q \in Queues
  PROVE  Ordered(Q)
<1> DEFINE U == UNION {Entries(i) : i \in 1 .. QueueLength}
<1>1. PICK f \in [1 .. QueueLength -> U] :
        /\ \A i \in 1 .. QueueLength : f[i] \in Entries(i)
        /\ Q = {f[i] : i \in 1 .. QueueLength}
  BY DEF Queues
<1>2. \A i \in 1 .. QueueLength :
        /\ f[i] \in Request /\ f[i].request_id = i
        /\ i \in Nat /\ i > 0
  <2> SUFFICES ASSUME NEW i \in 1 .. QueueLength
               PROVE  f[i] \in Request /\ f[i].request_id = i /\ i \in Nat /\ i > 0
    OBVIOUS
  <2>1. QueueLength \in Nat /\ i \in Nat /\ i > 0
    BY RoundAssumption, SMT
  <2>2. f[i] \in [request : {"REQ", "LOCK"}, sequence : Seqs,
                  item_priority : Priorities, request_id : {i}, front : BOOLEAN]
    BY <1>1 DEF Entries
  <2>3. /\ f[i] = [request |-> f[i].request, sequence |-> f[i].sequence,
                   item_priority |-> f[i].item_priority,
                   request_id |-> f[i].request_id, front |-> f[i].front]
        /\ f[i].request \in {"REQ", "LOCK"} /\ f[i].sequence \in Seqs
        /\ f[i].item_priority \in Priorities /\ f[i].request_id = i
        /\ f[i].front \in BOOLEAN
    BY <2>2
  <2> QED BY <2>1, <2>3, RoundAssumption, Zenon DEF Request
<1>3. Q \subseteq Request
  BY <1>1, <1>2
<1>4. IsFiniteSet(Q)
  <2>1. IsFiniteSet(1 .. QueueLength)
    BY FS_Interval, RoundAssumption
  <2>2. f \in Surjection(1 .. QueueLength, Q)
    BY <1>1 DEF Surjection
  <2> QED BY <2>1, <2>2, FS_Surjection
<1>5. ASSUME NEW r \in Q, NEW x \in Q, Pos(r) = Pos(x)
      PROVE  r = x
  <2>1. PICK i \in 1 .. QueueLength : r = f[i]
    BY <1>1
  <2>2. PICK j \in 1 .. QueueLength : x = f[j]
    BY <1>1
  <2>3. r.request_id = i /\ x.request_id = j /\ i > 0 /\ j > 0 /\ i \in Int /\ j \in Int
    BY <1>2, <2>1, <2>2
  <2>4. Pos(r) \in {i, -i} /\ Pos(x) \in {j, -j}
    BY <2>3 DEF Pos
  <2>5. i = j
    BY <1>5, <2>3, <2>4, SMT
  <2> QED BY <2>1, <2>2, <2>5
<1> QED BY <1>3, <1>4, <1>5 DEF Ordered

-----------------------------------------------------------------------------
(* The locks *)

\* A sequence that is held back stays so when there are more holders.
LEMMA BlockedMore ==
  ASSUME NEW s, NEW H, NEW K, H \subseteq K, is_blocked(s, H)
  PROVE  is_blocked(s, K)
BY DEF is_blocked

\* Who is granted a lock is related to all that hold one, and that have been
\* granted one on the same walk, before: the holders stay one chain.
LEMMA GrantKeepsChain ==
  ASSUME NEW Q, Ordered(Q), NEW H \in Chains, NEW G \in SUBSET Q, IsGrantSet(G, Q, H)
  PROVE  H \cup Owners(G) \in Chains
<1> DEFINE Related(s, t) == s = t \/ is_child(s, t) \/ is_child(t, s)
<1>1. \A g \in G : g \in Request /\ g.sequence \in Seqs
  BY DEF Ordered, Request
<1>2. H \cup Owners(G) \subseteq Seqs
  BY <1>1 DEF Chains, Owners
<1>3. \A g \in G : \A h \in H \cup Owners(Before(g, G)) :
        h = g.sequence \/ is_child(h, g.sequence)
  BY DEF IsGrantSet, is_blocked
<1>4. ASSUME NEW g \in G, NEW k \in G
      PROVE  Related(g.sequence, k.sequence)
  <2>1. CASE g = k
    BY <2>1
  <2>2. CASE g # k
    <3>1. Pos(g) \in Int /\ Pos(k) \in Int /\ Pos(g) # Pos(k)
      BY <1>1, <2>2, PosType DEF Ordered
    <3>2. g \in Before(k, G) \/ k \in Before(g, G)
      BY <3>1, SMT DEF Before
    <3>3. \/ g.sequence \in Owners(Before(k, G))
          \/ k.sequence \in Owners(Before(g, G))
      BY <3>2 DEF Owners
    <3> QED BY <1>3, <3>3
  <2> QED BY <2>1, <2>2
<1>5. ASSUME NEW s \in H \cup Owners(G), NEW t \in H \cup Owners(G)
      PROVE  Related(s, t)
  <2>1. CASE s \in H /\ t \in H
    BY <2>1 DEF Chains
  <2>2. CASE s \in H /\ t \in Owners(G)
    BY <1>3, <2>2 DEF Owners
  <2>3. CASE s \in Owners(G) /\ t \in H
    BY <1>3, <2>3 DEF Owners
  <2>4. CASE s \in Owners(G) /\ t \in Owners(G)
    BY <1>4, <2>4 DEF Owners
  <2> QED BY <2>1, <2>2, <2>3, <2>4
<1> QED BY <1>2, <1>5, Zenon DEF Chains

\* What the walk passes over is held back by then, and all the more at the end.
LEMMA OneWalkIsEnough ==
  ASSUME NEW Q, NEW H, NEW G \in SUBSET Q, IsGrantSet(G, Q, H),
         NEW r \in Q \ G, r.request = "LOCK"
  PROVE  is_blocked(r.sequence, H \cup Owners(G))
<1>1. is_blocked(r.sequence, H \cup Owners(Before(r, G)))
  BY DEF IsGrantSet
<1>2. H \cup Owners(Before(r, G)) \subseteq H \cup Owners(G)
  BY DEF Owners, Before
<1> QED BY <1>1, <1>2, BlockedMore

-----------------------------------------------------------------------------
(* Sums of priorities *)

\* A set of numbers has a least one.
LEMMA LeastOf ==
  ASSUME NEW T \in SUBSET Nat, T # {}
  PROVE  \E m \in T : \A n \in T : m <= n
<1>1. PICK m \in T : \A n \in T : <<n, m>> \notin OpToRel(<, Nat)
  BY NatLessThanWellFounded, WFMin
<1>2. \A n \in T : ~(n < m)
  BY <1>1 DEF OpToRel
<1> QED BY <1>2

\* What holds of a set when it holds without each of its elements, holds of every
\* finite set.
LEMMA SetInduction ==
  ASSUME NEW U, IsFiniteSet(U), NEW P \in SUBSET (SUBSET U),
         \A S \in SUBSET U : (\A x \in S : S \ {x} \in P) => S \in P
  PROVE  P = SUBSET U
<1> SUFFICES ASSUME NEW T \in SUBSET U, T \notin P PROVE FALSE
  OBVIOUS
<1> DEFINE Sizes == {k \in Nat : \E S \in SUBSET U : S \notin P /\ Cardinality(S) = k}
<1>1. \A S \in SUBSET U : IsFiniteSet(S) /\ Cardinality(S) \in Nat
  BY FS_Subset, FS_CardinalityType
<1>2. Sizes \in SUBSET Nat /\ Sizes # {}
  BY <1>1
<1> HIDE DEF Sizes
<1>3. PICK k \in Sizes : \A j \in Sizes : k <= j
  BY <1>2, LeastOf
<1>4. PICK S \in SUBSET U : S \notin P /\ Cardinality(S) = k
  BY <1>3 DEF Sizes
<1>5. PICK x \in S : S \ {x} \notin P
  BY <1>4
<1>6. Cardinality(S \ {x}) = k - 1 /\ k - 1 \in Nat /\ S \ {x} \in SUBSET U
  <2>1. IsFiniteSet(S) /\ Cardinality(S) \in Nat
    BY <1>1
  <2>2. Cardinality(S \ {x}) = Cardinality(S) - 1
    BY <1>5, <2>1, FS_RemoveElement
  <2>3. Cardinality(S) # 0
    BY <1>5, <2>1, FS_EmptySet
  <2> QED BY <1>4, <2>1, <2>2, <2>3
<1>7. k - 1 \in Sizes
  BY <1>5, <1>6 DEF Sizes
<1> QED BY <1>2, <1>3, <1>6, <1>7

\* The element of a set that the sum takes first.
First(S) == CHOOSE x \in S : TRUE

\* g has the sum of the priorities of each part of U.
Sums(g, U) ==
  /\ g \in [SUBSET U -> Int]
  /\ \A S \in SUBSET U :
       g[S] = IF S = {} THEN 0 ELSE m_get_seq_item_priority(First(S)) + g[S \ {First(S)}]

\* Every priority is a number, be it of the item or of its sequence.
LEMMA PriorityType == \A r \in Request : m_get_seq_item_priority(r) \in Nat
BY PriorityAssumption, SMT DEF Request, m_get_seq_item_priority

\* The recursion of PrioritySum has a solution.
LEMMA SumsExist ==
  ASSUME NEW U \in SUBSET Request, IsFiniteSet(U)
  PROVE  \E g : Sums(g, U)
<1> DEFINE f(x) == m_get_seq_item_priority(x)
           Level(k) == {S \in SUBSET U : Cardinality(S) <= k}
           IsSum(g, k) == /\ g \in [Level(k) -> Int]
                          /\ \A S \in Level(k) :
                               g[S] = IF S = {} THEN 0 ELSE f(First(S)) + g[S \ {First(S)}]
           Short == {k \in Nat : ~ \E g : IsSum(g, k)}
<1>1. \A S \in SUBSET U : IsFiniteSet(S) /\ Cardinality(S) \in Nat
  BY FS_Subset, FS_CardinalityType
<1>2. \A S \in SUBSET U : S # {} => First(S) \in S /\ First(S) \in U
  BY DEF First
<1>3. \A S \in SUBSET U : S # {} =>
        S \ {First(S)} \in SUBSET U /\ Cardinality(S \ {First(S)}) = Cardinality(S) - 1
  <2> SUFFICES ASSUME NEW S \in SUBSET U, S # {}
               PROVE  Cardinality(S \ {First(S)}) = Cardinality(S) - 1
    OBVIOUS
  <2>1. IsFiniteSet(S) /\ First(S) \in S
    BY <1>1, <1>2
  <2> QED BY <2>1, FS_RemoveElement
<1>4. \A x \in U : f(x) \in Int
  BY PriorityType
<1> HIDE DEF f
<1>5. Short = {}
  <2> SUFFICES ASSUME Short # {} PROVE FALSE
    OBVIOUS
  <2>1. PICK k \in Short : \A j \in Short : k <= j
    <3>1. Short \in SUBSET Nat
      OBVIOUS
    <3> HIDE DEF Short
    <3> QED BY <3>1, LeastOf
  <2>2. k # 0
    <3> DEFINE g == [S \in Level(0) |-> 0]
    <3>1. \A S \in Level(0) : S = {}
      BY <1>1, FS_EmptySet
    <3>2. IsSum(g, 0)
      BY <3>1
    <3> HIDE DEF IsSum
    <3> QED BY <2>1, <3>2
  <2>3. k \in Nat /\ k - 1 \in Nat /\ k - 1 \notin Short
    <3>1. k \in Nat
      BY <2>1
    <3> HIDE DEF Short
    <3> QED BY <2>1, <2>2, <3>1
  <2>4. PICK g : IsSum(g, k - 1)
    BY <2>3
  <2> DEFINE h == [S \in Level(k) |-> IF S = {} THEN 0 ELSE f(First(S)) + g[S \ {First(S)}]]
  <2>5. \A S \in Level(k) : S # {} => S \ {First(S)} \in Level(k - 1) /\ First(S) \in U
    BY <1>1, <1>2, <1>3, <2>3
  <2>6. \A S \in Level(k - 1) : S \in Level(k) /\ h[S] = g[S]
    BY <1>1, <2>3, <2>4
  <2>7. h \in [Level(k) -> Int]
    <3>1. ASSUME NEW S \in Level(k), S # {} PROVE f(First(S)) + g[S \ {First(S)}] \in Int
      <4>1. g[S \ {First(S)}] \in Int
        BY <2>4, <2>5, <3>1
      <4>2. f(First(S)) \in Int
        BY <1>4, <2>5, <3>1
      <4> QED BY <4>1, <4>2
    <3> HIDE DEF Level
    <3> QED BY <3>1
  <2>8. \A S \in Level(k) : h[S] = IF S = {} THEN 0 ELSE f(First(S)) + h[S \ {First(S)}]
    <3> SUFFICES ASSUME NEW S \in Level(k)
                 PROVE  h[S] = IF S = {} THEN 0 ELSE f(First(S)) + h[S \ {First(S)}]
      OBVIOUS
    <3>1. h[S] = IF S = {} THEN 0 ELSE f(First(S)) + g[S \ {First(S)}]
      OBVIOUS
    <3> HIDE DEF h, Level
    <3> QED BY <2>5, <2>6, <3>1
  <2> HIDE DEF h
  <2>9. IsSum(h, k)
    BY <2>7, <2>8
  <2> HIDE DEF IsSum
  <2> QED BY <2>1, <2>9
<1>6. Cardinality(U) \in Nat /\ \A S \in SUBSET U : Cardinality(S) <= Cardinality(U)
  BY FS_Subset, FS_CardinalityType
<1>7. PICK g : IsSum(g, Cardinality(U))
  BY <1>5, <1>6
<1>8. Level(Cardinality(U)) = SUBSET U
  BY <1>6
<1> HIDE DEF Level
<1> QED BY <1>7, <1>8 DEF Sums, f

\* The sum takes one element after the other.
LEMMA SumStep ==
  ASSUME NEW U \in SUBSET Request, IsFiniteSet(U)
  PROVE  /\ PrioritySum({}) = 0
         /\ \A S \in SUBSET U :
              /\ PrioritySum(S) \in Int
              /\ S # {} => PrioritySum(S) = m_get_seq_item_priority(First(S))
                                            + PrioritySum(S \ {First(S)})
<1> DEFINE f(x) == m_get_seq_item_priority(x)
<1>0. PICK g : Sums(g, U)
  BY SumsExist
<1>1. /\ g \in [SUBSET U -> Int]
      /\ \A S \in SUBSET U : g[S] = IF S = {} THEN 0 ELSE f(First(S)) + g[S \ {First(S)}]
  BY <1>0 DEF Sums
<1>2. ASSUME NEW S \in SUBSET U PROVE PrioritySum(S) = g[S]
  <2> DEFINE Solves(u) == u = [s \in SUBSET S |-> IF s = {} THEN 0
                                                  ELSE f(First(s)) + u[s \ {First(s)}]]
             iter == CHOOSE u : Solves(u)
             part == [s \in SUBSET S |-> g[s]]
  <2>1. PrioritySum(S) = iter[S]
    BY DEF PrioritySum, MapThenSumSet, MapThenFoldSet, First
  <2> HIDE DEF f
  <2>2. \A s \in SUBSET S : s \in SUBSET U /\ s \ {First(s)} \in SUBSET S
    OBVIOUS
  <2>3. Solves(part)
    <3>1. \A s \in SUBSET S : part[s] = IF s = {} THEN 0 ELSE f(First(s)) + part[s \ {First(s)}]
      BY <1>1, <2>2
    <3> HIDE DEF part
    <3>2. part = [s \in SUBSET S |-> part[s]]
      BY DEF part
    <3> QED BY <3>1, <3>2
  <2>4. Solves(iter)
    BY <2>3
  <2> HIDE DEF iter, part
  <2> DEFINE P == {s \in SUBSET S : iter[s] = g[s]}
  <2>5. \A s \in SUBSET S : iter[s] = IF s = {} THEN 0 ELSE f(First(s)) + iter[s \ {First(s)}]
    BY <2>4
  <2>6. \A s \in SUBSET S : (\A x \in s : s \ {x} \in P) => s \in P
    <3> SUFFICES ASSUME NEW s \in SUBSET S, \A x \in s : s \ {x} \in P PROVE iter[s] = g[s]
      OBVIOUS
    <3>1. CASE s = {}
      BY <1>1, <2>5, <3>1
    <3>2. CASE s # {}
      <4>1. s \ {First(s)} \in P
        BY <3>2 DEF First
      <4> QED BY <1>1, <2>2, <2>5, <3>2, <4>1
    <3> QED BY <3>1, <3>2
  <2>7. IsFiniteSet(S)
    BY FS_Subset
  <2> HIDE DEF P
  <2>8. P \in SUBSET (SUBSET S)
    BY DEF P
  <2>9. P = SUBSET S
    BY ONLY <2>6, <2>7, <2>8, SetInduction
  <2>10. S \in P
    BY <2>9
  <2> QED BY <2>1, <2>10 DEF P
<1>3. \A S \in SUBSET U : S \ {First(S)} \in SUBSET U
  OBVIOUS
<1>4. PrioritySum({}) = 0
  <2>1. {} \in SUBSET U
    OBVIOUS
  <2> QED BY <1>1, <1>2, <2>1
<1>5. ASSUME NEW S \in SUBSET U
      PROVE  /\ PrioritySum(S) \in Int
             /\ S # {} => PrioritySum(S) = f(First(S)) + PrioritySum(S \ {First(S)})
  <2>1. PrioritySum(S) = g[S] /\ PrioritySum(S \ {First(S)}) = g[S \ {First(S)}]
    BY <1>2, <1>3
  <2> HIDE DEF f
  <2> QED BY <1>1, <2>1
<1> QED BY <1>4, <1>5

\* Whichever element is left out first.
LEMMA SumRemove ==
  ASSUME NEW U \in SUBSET Request, IsFiniteSet(U), NEW T \in SUBSET U, NEW z \in T
  PROVE  PrioritySum(T) = m_get_seq_item_priority(z) + PrioritySum(T \ {z})
<1> DEFINE f(x) == m_get_seq_item_priority(x)
           P == {S \in SUBSET U : \A x \in S : PrioritySum(S) = f(x) + PrioritySum(S \ {x})}
<1>1. \A x \in U : f(x) \in Nat
  BY PriorityType
<1>2. \A S \in SUBSET U :
        /\ PrioritySum(S) \in Int
        /\ S # {} => PrioritySum(S) = f(First(S)) + PrioritySum(S \ {First(S)})
  BY SumStep
<1> HIDE DEF f
<1>3. ASSUME NEW S \in SUBSET U, \A x \in S : S \ {x} \in P PROVE S \in P
  <2> SUFFICES ASSUME NEW x \in S PROVE PrioritySum(S) = f(x) + PrioritySum(S \ {x})
    OBVIOUS
  <2> DEFINE y == First(S)
             R == (S \ {x}) \ {y}
  <2>1. y \in S /\ PrioritySum(S) = f(y) + PrioritySum(S \ {y})
    BY <1>2 DEF First
  <2> HIDE DEF y
  <2>2. CASE x = y
    BY <2>1, <2>2
  <2>3. CASE x # y
    <3>1. (S \ {y}) \ {x} = R /\ R \in SUBSET U
      OBVIOUS
    <3>2. PrioritySum(S \ {y}) = f(x) + PrioritySum(R)
      <4>1. x \in S \ {y} /\ S \ {y} \in P
        BY <1>3, <2>1, <2>3
      <4> QED BY <3>1, <4>1
    <3>3. PrioritySum(S \ {x}) = f(y) + PrioritySum(R)
      <4>1. y \in S \ {x} /\ S \ {x} \in P
        BY <1>3, <2>1, <2>3
      <4> QED BY <4>1
    <3> HIDE DEF R, P
    <3>4. f(x) \in Nat /\ f(y) \in Nat /\ PrioritySum(R) \in Int
      BY <1>1, <1>2, <2>1, <3>1
    <3> QED BY <2>1, <3>2, <3>3, <3>4
  <2> QED BY <2>2, <2>3
<1> HIDE DEF P
<1>4. P \in SUBSET (SUBSET U)
  BY DEF P
<1>5. P = SUBSET U
  BY ONLY IsFiniteSet(U), <1>3, <1>4, SetInduction
<1> QED BY <1>5 DEF P, f

\* A sum is as large as the sum of a part, and zero if all priorities are.
LEMMA SumMore ==
  ASSUME NEW U \in SUBSET Request, IsFiniteSet(U), NEW T \in SUBSET U
  PROVE  /\ PrioritySum(T) \in Nat
         /\ \A S \in SUBSET T : PrioritySum(S) <= PrioritySum(T)
         /\ (\A x \in T : m_get_seq_item_priority(x) = 0) => PrioritySum(T) = 0
         /\ \A x \in T : m_get_seq_item_priority(x) <= PrioritySum(T)
<1> DEFINE f(x) == m_get_seq_item_priority(x)
           Holds(S) == /\ PrioritySum(S) \in Nat
                       /\ \A R \in SUBSET S : PrioritySum(R) <= PrioritySum(S)
                       /\ (\A x \in S : f(x) = 0) => PrioritySum(S) = 0
                       /\ \A x \in S : f(x) <= PrioritySum(S)
           P == {S \in SUBSET U : Holds(S)}
<1>1. \A x \in U : f(x) \in Nat
  BY PriorityType
<1>2. \A S \in SUBSET U : \A x \in S : PrioritySum(S) = f(x) + PrioritySum(S \ {x})
  BY SumRemove
<1>3. PrioritySum({}) = 0
  BY SumStep
<1> HIDE DEF f
<1>4. ASSUME NEW S \in SUBSET U, \A x \in S : S \ {x} \in P PROVE S \in P
  <2> SUFFICES Holds(S)
    OBVIOUS
  <2>1. CASE S = {}
    BY <1>3, <2>1
  <2>2. CASE S # {}
    <3>1. \A x \in S : /\ PrioritySum(S) = f(x) + PrioritySum(S \ {x})
                       /\ PrioritySum(S \ {x}) \in Nat /\ f(x) \in Nat
      BY <1>1, <1>2, <1>4
    <3>2. PrioritySum(S) \in Nat /\ \A x \in S : f(x) <= PrioritySum(S)
      <4>1. ASSUME NEW x \in S PROVE PrioritySum(S) \in Nat /\ f(x) <= PrioritySum(S)
        <5> DEFINE one == f(x)
                   rest == PrioritySum(S \ {x})
                   all == PrioritySum(S)
        <5>1. one \in Nat /\ rest \in Nat /\ all = one + rest
          BY ONLY <3>1, x \in S
        <5> HIDE DEF one, rest, all
        <5>2. all \in Nat /\ one <= all
          BY <5>1
        <5> QED BY <5>2 DEF one, all
      <4>2. \E x : x \in S
        BY <2>2
      <4> QED BY ONLY <4>1, <4>2
    <3>3. ASSUME NEW R \in SUBSET S PROVE PrioritySum(R) <= PrioritySum(S)
      <4>1. CASE R = S
        BY <3>2, <4>1
      <4>2. CASE R # S
        <5>1. PICK x \in S : R \in SUBSET (S \ {x})
          BY <4>2
        <5>2. PrioritySum(R) <= PrioritySum(S \ {x})
          <6>1. Holds(S \ {x})
            BY <1>4, <5>1
          <6> QED BY <5>1, <6>1
        <5>3. PrioritySum(R) \in Int
          BY SumStep
        <5> QED BY <3>1, <3>2, <5>2, <5>3
      <4> QED BY <4>1, <4>2
    <3>4. ASSUME \A x \in S : f(x) = 0 PROVE PrioritySum(S) = 0
      <4>1. PICK x \in S : Holds(S \ {x})
        BY <1>4, <2>2
      <4>2. f(x) = 0 /\ PrioritySum(S \ {x}) = 0
        BY <3>4, <4>1
      <4> QED BY ONLY <3>1, <4>2, x \in S
    <3> QED BY <3>2, <3>3, <3>4
  <2> QED BY <2>1, <2>2
<1> HIDE DEF P
<1>5. P \in SUBSET (SUBSET U)
  BY DEF P
<1>6. P = SUBSET U
  BY ONLY IsFiniteSet(U), <1>4, <1>5, SetInduction
<1> QED BY <1>6 DEF P, f

\* In the weighted mode r wins on the numbers from the sum of the priorities before
\* it to that sum and its own, of which the generator leaves out 0.
LEMMA Shares ==
  ASSUME NEW A, Ordered(A), Cardinality(A) > 1, NEW r \in A
  PROVE  Cardinality({x \in 0 .. PrioritySum(A) - 2 : Wins(r, A, "WEIGHTED", x)})
           = m_get_seq_item_priority(r)
             - (IF /\ m_get_seq_item_priority(r) > 0
                   /\ \A x \in Before(r, A) : m_get_seq_item_priority(x) = 0
                THEN 1 ELSE 0)
<1> DEFINE p == m_get_seq_item_priority(r)
           b == PrioritySum(Before(r, A))
           all == PrioritySum(A)
           turns == {x \in 0 .. all - 2 : Wins(r, A, "WEIGHTED", x)}
           first == p > 0 /\ \A x \in Before(r, A) : m_get_seq_item_priority(x) = 0
<1>1. A \in SUBSET Request /\ IsFiniteSet(A) /\ Before(r, A) \in SUBSET A /\ UpTo(r, A) \in SUBSET A
  BY DEF Ordered, Before, UpTo
<1>2. p \in Nat /\ b \in Nat /\ all \in Nat
  BY <1>1, PriorityType, SumMore
<1>3. PrioritySum(UpTo(r, A)) = b + p
  <2>1. \A x \in A : Pos(x) \in Int
    BY <1>1, PosType
  <2>2. r \in UpTo(r, A) /\ UpTo(r, A) \ {r} = Before(r, A)
    BY <2>1 DEF UpTo, Before, Ordered
  <2>3. PrioritySum(UpTo(r, A)) = p + PrioritySum(UpTo(r, A) \ {r})
    BY <1>1, <2>2, SumRemove
  <2> HIDE DEF p, b
  <2>4. PrioritySum(UpTo(r, A)) = p + b
    BY <2>2, <2>3 DEF b
  <2> QED BY <1>2, <2>4
<1>4. b + p <= all
  <2>1. PrioritySum(UpTo(r, A)) <= PrioritySum(A)
    BY <1>1, SumMore
  <2> QED BY <1>3, <2>1
<1>5. first <=> p > 0 /\ b = 0
  <2>1. (\A x \in Before(r, A) : m_get_seq_item_priority(x) = 0) => b = 0
    BY <1>1, SumMore
  <2>2. \A x \in Before(r, A) : /\ m_get_seq_item_priority(x) <= b
                                /\ m_get_seq_item_priority(x) \in Nat
    BY <1>1, PriorityType, SumMore
  <2>3. b = 0 => \A x \in Before(r, A) : m_get_seq_item_priority(x) = 0
    BY <2>2
  <2> QED BY <2>1, <2>3
<1>6. ASSUME NEW x \in 0 .. all - 2
      PROVE  Wins(r, A, "WEIGHTED", x) <=> b <= x + 1 /\ x + 1 < b + p
  <2> DEFINE temp == urandom_range(Unsigned(all - 1), 0, x)
  <2>1. Wins(r, A, "WEIGHTED", x) <=> b <= temp /\ temp < PrioritySum(UpTo(r, A))
    <3>1. Cardinality(A) # 1
      BY <1>1, FS_CardinalityType
    <3> QED BY <3>1 DEF Wins
  <2>2. all - 1 > 0 /\ x \in Nat /\ x < all - 1 /\ all - 1 \in Nat
    BY <1>2
  <2> HIDE DEF all
  <2>3. Unsigned(all - 1) = all - 1
    BY <2>2 DEF Unsigned
  <2>4. x % (all - 1 - 0) = x
    BY <2>2
  <2>5. temp = x + 1
    BY <2>2, <2>3, <2>4 DEF urandom_range
  <2> QED BY <1>3, <2>1, <2>5
<1> HIDE DEF p, b, all, first
<1>7. turns = {x \in 0 .. all - 2 : b <= x + 1 /\ x + 1 < b + p}
  BY <1>6
<1>8. CASE b = 0
  <2>1. turns = 0 .. p - 2
    BY <1>2, <1>4, <1>7, <1>8
  <2>2. Cardinality(0 .. p - 2) = IF 0 > p - 2 THEN 0 ELSE p - 2 - 0 + 1
    BY <1>2, FS_Interval
  <2> HIDE DEF turns
  <2>3. Cardinality(turns) = p - (IF p > 0 THEN 1 ELSE 0)
    BY <1>2, <2>1, <2>2
  <2> QED BY <1>5, <1>8, <2>3 DEF turns, first, p, all
<1>9. CASE b # 0
  <2>1. turns = b - 1 .. b + p - 2
    BY <1>2, <1>4, <1>7, <1>9
  <2>2. Cardinality(b - 1 .. b + p - 2)
          = IF b - 1 > b + p - 2 THEN 0 ELSE b + p - 2 - (b - 1) + 1
    BY <1>2, FS_Interval
  <2> HIDE DEF turns
  <2>3. Cardinality(turns) = p
    BY <1>2, <2>1, <2>2
  <2>4. ~first
    BY <1>5, <1>9
  <2>5. Cardinality(turns) = p - (IF first THEN 1 ELSE 0)
    BY <1>2, <2>3, <2>4
  <2> QED BY <2>5 DEF turns, first, p, all
<1> QED BY <1>8, <1>9

-----------------------------------------------------------------------------
(* The choice *)

\* Whoever wins in a strict mode is among the highest; a request that is alone is.
LEMMA StrictWinner ==
  ASSUME NEW A \in SUBSET Request, IsFiniteSet(A), NEW r \in A, NEW m, NEW rnd,
         m \in {"STRICT_FIFO", "STRICT_RANDOM"}, Wins(r, A, m, rnd)
  PROVE  r \in Highest(A)
<1>1. CASE Cardinality(A) = 1
  <2>1. \A x \in A : x = r
    BY <1>1, FS_CardinalityType, FS_Singleton
  <2>2. m_get_seq_item_priority(r) <= m_get_seq_item_priority(r)
    BY PriorityType, SMT
  <2> QED BY <2>1, <2>2 DEF Highest
<1>2. CASE Cardinality(A) # 1
  BY <1>2 DEF Wins
<1> QED BY <1>1, <1>2

-----------------------------------------------------------------------------
(* The round *)

\* Nothing is chosen before the locks are granted.
Unchosen == phase \in {"grant", "choose"} => chosen = NULL

RoundInv == TypeOK /\ QueueInv /\ Unchosen /\ GrantingIsComplete /\ StrictPriority

\* Before the round nothing is granted and nothing is chosen.
LEMMA RoundInit == Init => RoundInv
<1> SUFFICES ASSUME Init PROVE RoundInv
  OBVIOUS
<1>1. Ordered(queue)
  BY QueuesOrdered DEF Init
<1>2. QueueInv
  BY <1>1 DEF Init, QueueInv
<1>3. TypeOK
  BY <1>1, RoundAssumption DEF Init, TypeOK, Ordered, Chains
<1>4. GrantingIsComplete /\ StrictPriority
  BY DEF Init, GrantingIsComplete, StrictPriority
<1> QED BY <1>2, <1>3, <1>4 DEF RoundInv, Init, Unchosen

\* The walk grants what RoundInv says of it.
LEMMA RoundGrant == RoundInv /\ GrantLocks => RoundInv'
<1> SUFFICES ASSUME RoundInv, GrantLocks PROVE RoundInv'
  OBVIOUS
<1>1. PICK G \in SUBSET queue : /\ IsGrantSet(G, queue, holders)
                                /\ queue' = queue \ G
                                /\ holders' = holders \cup Owners(G)
  BY DEF GrantLocks
<1>2. phase = "grant" /\ phase' = "choose" /\ mode' = mode /\ chosen' = chosen
  BY DEF GrantLocks
<1>3. chosen = NULL
  BY <1>2 DEF RoundInv, Unchosen
<1>4. Ordered(queue')
  BY <1>1, FS_Subset DEF RoundInv, QueueInv, Ordered
<1>5. holders' \in Chains
  BY <1>1, GrantKeepsChain DEF RoundInv, QueueInv
<1>6. \A r \in queue' : r.request = "LOCK" => is_blocked(r.sequence, holders')
  BY <1>1, OneWalkIsEnough
<1>7. TypeOK'
  BY <1>2, <1>3, <1>4, <1>5 DEF RoundInv, TypeOK, Ordered, Chains
<1>8. Unchosen'
  BY <1>2, <1>3 DEF Unchosen
<1>9. GrantingIsComplete' /\ StrictPriority'
  BY <1>2, <1>5, <1>6 DEF GrantingIsComplete, StrictPriority, Chains, is_blocked
<1> QED BY <1>4, <1>5, <1>7, <1>8, <1>9 DEF RoundInv, QueueInv, Ordered

\* The choice changes no queue and no grant.
LEMMA RoundChoose == RoundInv /\ Choose => RoundInv'
<1> SUFFICES ASSUME RoundInv, Choose PROVE RoundInv'
  OBVIOUS
<1>1. queue' = queue /\ holders' = holders /\ mode' = mode
  BY DEF Choose
<1>2. phase = "choose" /\ phase' \in {"done", "fatal"}
  BY DEF Choose
<1>3. avail_sequences' = avail_sequences
  BY <1>1 DEF avail_sequences
<1>4. \/ chosen' = NULL
      \/ /\ chosen' \in avail_sequences
         /\ \E rnd : Wins(chosen', avail_sequences, mode, rnd)
  BY DEF Choose
<1>5. TypeOK'
  BY <1>1, <1>2, <1>4 DEF RoundInv, TypeOK, avail_sequences, Available
<1>6. QueueInv' /\ Unchosen'
  BY <1>1, <1>2 DEF RoundInv, QueueInv, Ordered, Chains, Unchosen
<1>7. GrantingIsComplete'
  BY <1>1, <1>2 DEF RoundInv, GrantingIsComplete, Chains
<1>8. StrictPriority'
  <2> SUFFICES ASSUME chosen' # NULL, mode \in {"STRICT_FIFO", "STRICT_RANDOM"},
                      NEW r \in avail_sequences
               PROVE  m_get_seq_item_priority(r) <= m_get_seq_item_priority(chosen')
    BY <1>1, <1>3 DEF StrictPriority
  <2>1. avail_sequences \subseteq queue /\ queue \subseteq Request /\ IsFiniteSet(queue)
    BY DEF RoundInv, QueueInv, Ordered, avail_sequences, Available
  <2>2. IsFiniteSet(avail_sequences)
    BY <2>1, FS_Subset
  <2>3. chosen' \in Highest(avail_sequences)
    BY <1>4, <2>1, <2>2, StrictWinner
  <2> QED BY <2>3 DEF Highest
<1> QED BY <1>5, <1>6, <1>7, <1>8 DEF RoundInv

\* A round keeps its invariant.
LEMMA RoundInductive == Spec => []RoundInv
<1>1. RoundInv /\ [Next]_vars => RoundInv'
  <2> SUFFICES ASSUME RoundInv, [Next]_vars PROVE RoundInv'
    OBVIOUS
  <2>1. CASE Next
    BY <2>1, RoundGrant, RoundChoose DEF Next
  <2>2. CASE UNCHANGED vars
    BY <2>2 DEF vars, RoundInv, TypeOK, QueueInv, Ordered, Chains, Unchosen,
                GrantingIsComplete, StrictPriority, avail_sequences
  <2> QED BY <2>1, <2>2
<1> QED BY <1>1, RoundInit, PTL DEF Spec

-----------------------------------------------------------------------------
(* Theorems *)

\* Types, in the sense of m_choose_next_request: what it returns is a request for
\* an item that is still in the queue, never a lock.
THEOREM RoundTypes == Spec => []TypeOK
BY RoundInductive, PTL DEF RoundInv

\* grant_queued_locks walks the queue once and removes locks while it walks: still
\* no queued lock is left that could be granted, and the holders are one chain.
THEOREM OneWalkGrantsAll == Spec => []GrantingIsComplete
BY RoundInductive, PTL DEF RoundInv

\* In the strict modes of m_choose_next_request no available request has a higher
\* priority than the one that is chosen, be there one or many, whatever rand returns.
THEOREM StrictModesAreStrict == Spec => []StrictPriority
BY RoundInductive, PTL DEF RoundInv

\* In the weighted mode every available request wins on as many values of rand as its
\* priority says, but for the first that has any, whose first one urandom_range never
\* returns: whatever the sum, the order and the priorities, zeros included.
THEOREM SharesAreByWeight == Spec => []WeightedShare
<1>1. RoundInv => WeightedShare
  <2> SUFFICES ASSUME RoundInv, mode = "WEIGHTED", Cardinality(avail_sequences) > 1,
                      NEW r \in avail_sequences
               PROVE  Cardinality({x \in 0 .. PrioritySum(avail_sequences) - 2 :
                                     Wins(r, avail_sequences, mode, x)})
                        = m_get_seq_item_priority(r)
                          - (IF /\ m_get_seq_item_priority(r) > 0
                                /\ \A x \in Before(r, avail_sequences) :
                                     m_get_seq_item_priority(x) = 0
                             THEN 1 ELSE 0)
    BY DEF WeightedShare
  <2>1. avail_sequences \subseteq queue /\ Ordered(queue)
    BY DEF RoundInv, QueueInv, avail_sequences, Available
  <2>2. Ordered(avail_sequences)
    BY <2>1, FS_Subset DEF Ordered
  <2> QED BY <2>2, Shares
<1> QED BY <1>1, RoundInductive, PTL

=============================================================================
