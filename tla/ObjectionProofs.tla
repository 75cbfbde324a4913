--------------------------- MODULE ObjectionProofs ---------------------------
(***************************************************************************)
(* An objection on any tree of components: contexts are never shared, an   *)
(* object drains once at a time and only while nothing is raised on it,    *)
(* seen from the root the whole is a RootObjection, and the counts of the  *)
(* tree are conserved.                                                     *)
(***************************************************************************)
EXTENDS Objection, FiniteSetTheorems, FunctionTheorems, SequenceTheorems,
        WellFoundedInduction, TLAPS

-----------------------------------------------------------------------------
(* The way to the root *)

\* A set of numbers has a least one.
LEMMA LeastOf ==
  ASSUME NEW T \in SUBSET Nat, T # {}
  PROVE  \E m \in T : \A n \in T : m <= n
<1>1. PICK m \in T : \A n \in T : <<n, m>> \notin OpToRel(<, Nat)
  BY NatLessThanWellFounded, WFMin
<1>2. \A n \in T : ~(n < m)
  BY <1>1 DEF OpToRel
<1> QED BY <1>2

\* The steps of m_propagate on the way to the root, within any set they stay in.
LEMMA ClimbTrace ==
  ASSUME NEW D, NEW st \in D, \A s \in D : s.at # NULL => m_propagate(s) \in D
  PROVE  \E up \in [0 .. Cardinality(Objs) -> D] :
           /\ up[0] = st /\ up[Cardinality(Objs)] = Climbed(st)
           /\ \A i \in 1 .. Cardinality(Objs) : up[i] = m_propagate(up[i - 1])
<1> DEFINE N == Cardinality(Objs)
           IsUp(f, k) == /\ f \in [0 .. k -> D] /\ f[0] = st
                         /\ \A i \in 1 .. k : f[i] = m_propagate(f[i - 1])
           Short == {k \in Nat : ~ \E f : IsUp(f, k)}
<1>1. N \in Nat
  BY FS_CardinalityType, TreeAssumption
<1> HIDE DEF N
<1>2. \A s \in D : m_propagate(s) \in D
  BY DEF m_propagate
<1>3. Short = {}
  <2> SUFFICES ASSUME Short # {} PROVE FALSE
    OBVIOUS
  <2>1. PICK k \in Short : \A j \in Short : k <= j
    BY LeastOf
  <2>2. k # 0
    <3> DEFINE f == [i \in 0 .. 0 |-> st]
    <3>1. IsUp(f, 0)
      OBVIOUS
    <3>2. \E h : IsUp(h, 0)
      BY <3>1
    <3> QED BY <3>2, <2>1
  <2>3. k - 1 \in Nat /\ k \in Nat /\ k - 1 \notin Short
    <3>1. k \in Nat
      BY <2>1
    <3> HIDE DEF Short
    <3> QED BY <2>1, <2>2, <3>1
  <2>4. PICK f : IsUp(f, k - 1)
    BY <2>3
  <2> DEFINE g == [i \in 0 .. k |-> IF i = k THEN m_propagate(f[k - 1]) ELSE f[i]]
  <2>5. \A i \in 0 .. k - 1 : g[i] = f[i] /\ f[i] \in D
    BY <2>4, <2>3
  <2>6. g[k] = m_propagate(g[k - 1]) /\ g[k] \in D
    <3>1. k - 1 \in 0 .. k - 1 /\ k \in 0 .. k
      BY <2>3
    <3> QED BY <2>5, <3>1, <1>2
  <2>7. \A i \in 1 .. k - 1 : g[i] = m_propagate(g[i - 1])
    BY <2>4, <2>5, <2>3
  <2> HIDE DEF g
  <2>8. \A i \in 0 .. k : g[i] \in D
    <3>1. \A i \in 0 .. k : i = k \/ i \in 0 .. k - 1
      BY <2>3
    <3> QED BY <2>5, <2>6, <3>1
  <2>9. g \in [0 .. k -> D] /\ g[0] = st
    <3>1. g[0] = f[0]
      BY <2>3, <2>5
    <3>2. g = [i \in 0 .. k |-> g[i]]
      BY DEF g
    <3> QED BY <2>4, <2>8, <3>1, <3>2
  <2>10. \A i \in 1 .. k : g[i] = m_propagate(g[i - 1])
    <3>1. \A i \in 1 .. k : i = k \/ i \in 1 .. k - 1
      BY <2>3
    <3> QED BY <2>6, <2>7, <3>1
  <2>11. \E h : IsUp(h, k)
    BY <2>9, <2>10
  <2> QED BY <2>11, <2>1
<1>4. PICK f : IsUp(f, N)
  BY <1>1, <1>3
<1> DEFINE Solves(u) == u = [i \in 0 .. N |-> IF i = 0 THEN st ELSE m_propagate(u[i - 1])]
           up == CHOOSE u : Solves(u)
<1>5. Solves(f)
  BY <1>1, <1>4
<1>6. Solves(up)
  BY <1>5
<1>7. Climbed(st) = up[N]
  BY DEF Climbed, N
<1> HIDE DEF up
<1>8. \A k \in 0 .. N : up[k] = f[k]
  <2> DEFINE Differ == {k \in 0 .. N : up[k] # f[k]}
  <2> SUFFICES ASSUME Differ # {} PROVE FALSE
    OBVIOUS
  <2>1. PICK k \in Differ : \A j \in Differ : k <= j
    <3>1. Differ \in SUBSET Nat
      BY <1>1
    <3> QED BY <3>1, LeastOf
  <2>2. up[0] = st /\ \A i \in 1 .. N : up[i] = m_propagate(up[i - 1])
    BY <1>1, <1>6
  <2>3. k # 0 /\ k \in 1 .. N
    BY <1>1, <1>4, <2>1, <2>2
  <2>4. k - 1 \in 0 .. N /\ k - 1 \notin Differ
    BY <1>1, <2>1, <2>3
  <2> QED BY <1>4, <2>1, <2>2, <2>3, <2>4
<1> QED BY <1>1, <1>4, <1>7, <1>8 DEF N

-----------------------------------------------------------------------------
(* Lists of contexts *)

\* No context is in a list twice.
Once(list) == \A i, j \in DOMAIN list : list[i] = list[j] => i = j

\* What a list holds are its elements.
LEMMA ListHolds ==
  ASSUME NEW S, NEW s \in Seq(S)
  PROVE  ToSet(s) \subseteq S /\ \A i \in DOMAIN s : s[i] \in ToSet(s)
BY DEF ToSet

\* push_back.
LEMMA ListAppend ==
  ASSUME NEW S, NEW s \in Seq(S), NEW c \in S
  PROVE  /\ Append(s, c) \in Seq(S) /\ ToSet(Append(s, c)) = ToSet(s) \cup {c}
         /\ Once(s) /\ c \notin ToSet(s) => Once(Append(s, c))
<1>1. /\ Append(s, c) \in Seq(S) /\ Len(s) \in Nat
      /\ DOMAIN s = 1 .. Len(s) /\ DOMAIN Append(s, c) = 1 .. Len(s) + 1
      /\ \A i \in 1 .. Len(s) : Append(s, c)[i] = s[i]
      /\ Append(s, c)[Len(s) + 1] = c
  OBVIOUS
<1>2. \A i \in 1 .. Len(s) + 1 : i \in 1 .. Len(s) \/ i = Len(s) + 1
  BY <1>1
<1>3. 1 .. Len(s) \subseteq 1 .. Len(s) + 1 /\ Len(s) + 1 \in 1 .. Len(s) + 1
  BY <1>1
<1> DEFINE t == Append(s, c)
<1> HIDE DEF t
<1>4. ToSet(t) = ToSet(s) \cup {c}
  BY <1>1, <1>2, <1>3 DEF ToSet, t
<1>5. Once(s) /\ c \notin ToSet(s) => Once(t)
  BY <1>1, <1>2, <1>3 DEF Once, ToSet, t
<1> QED BY <1>1, <1>4, <1>5 DEF t

\* The first of a list is taken.
LEMMA ListTail ==
  ASSUME NEW S, NEW s \in Seq(S), s # <<>>
  PROVE  /\ Tail(s) \in Seq(S) /\ Head(s) \in S /\ ToSet(s) = ToSet(Tail(s)) \cup {Head(s)}
         /\ Once(s) => Once(Tail(s)) /\ Head(s) \notin ToSet(Tail(s))
<1>1. /\ Tail(s) \in Seq(S) /\ Head(s) = s[1] /\ Len(s) \in Nat /\ Len(s) >= 1
      /\ DOMAIN s = 1 .. Len(s) /\ DOMAIN Tail(s) = 1 .. Len(s) - 1
      /\ \A i \in 1 .. Len(s) - 1 : Tail(s)[i] = s[i + 1]
  OBVIOUS
<1>2. \A i \in 1 .. Len(s) : i = 1 \/ (i - 1 \in 1 .. Len(s) - 1 /\ i = (i - 1) + 1)
  BY <1>1
<1>3. 1 \in 1 .. Len(s) /\ \A i \in 1 .. Len(s) - 1 : i + 1 \in 1 .. Len(s) /\ i + 1 # 1
  BY <1>1
<1> DEFINE t == Tail(s)
<1> HIDE DEF t
<1>5. ToSet(s) = ToSet(t) \cup {s[1]}
  <2>1. ToSet(s) \subseteq ToSet(t) \cup {s[1]}
    <3> SUFFICES ASSUME NEW i \in 1 .. Len(s), i # 1 PROVE s[i] \in ToSet(t)
      BY <1>1 DEF ToSet
    <3>1. i - 1 \in DOMAIN t /\ t[i - 1] = s[i]
      BY <1>1, <1>2 DEF t
    <3> QED BY <3>1 DEF ToSet
  <2>2. ToSet(t) \cup {s[1]} \subseteq ToSet(s)
    BY <1>1, <1>3 DEF ToSet, t
  <2> QED BY <2>1, <2>2
<1>6. Once(s) => Once(t)
  BY <1>1, <1>3 DEF Once, t
<1>7. Once(s) => s[1] \notin ToSet(t)
  BY <1>1, <1>3 DEF Once, ToSet, t
<1> QED BY <1>1, <1>5, <1>6, <1>7 DEF t

\* A list is put before another.
LEMMA ListConcat ==
  ASSUME NEW S, NEW s \in Seq(S), NEW t \in Seq(S)
  PROVE  /\ s \o t \in Seq(S) /\ ToSet(s \o t) = ToSet(s) \cup ToSet(t)
         /\ Once(s) /\ Once(t) /\ ToSet(s) \cap ToSet(t) = {} => Once(s \o t)
<1> DEFINE u == s \o t
           m == Len(s)
           n == Len(t)
<1>1. /\ u \in Seq(S) /\ m \in Nat /\ n \in Nat
      /\ DOMAIN s = 1 .. m /\ DOMAIN t = 1 .. n /\ DOMAIN u = 1 .. m + n
      /\ \A i \in 1 .. m : u[i] = s[i]
      /\ \A i \in m + 1 .. m + n : u[i] = t[i - m]
  OBVIOUS
<1> HIDE DEF u, m, n
<1>2. \A i \in 1 .. m + n : i \in 1 .. m \/ (i \in m + 1 .. m + n /\ i - m \in 1 .. n)
  BY <1>1
<1>3. \A i \in 1 .. n : i + m \in 1 .. m + n /\ u[i + m] = t[i]
  <2> SUFFICES ASSUME NEW i \in 1 .. n PROVE i + m \in 1 .. m + n /\ u[i + m] = t[i]
    OBVIOUS
  <2>1. i + m \in m + 1 .. m + n /\ (i + m) - m = i
    BY <1>1
  <2> QED BY <1>1, <2>1
<1>4. \A i \in 1 .. m : i \in 1 .. m + n
  BY <1>1
<1>5. ToSet(u) = ToSet(s) \cup ToSet(t)
  <2>1. ToSet(u) \subseteq ToSet(s) \cup ToSet(t)
    BY <1>1, <1>2 DEF ToSet
  <2>2. ToSet(s) \cup ToSet(t) \subseteq ToSet(u)
    <3>1. ToSet(s) \subseteq ToSet(u)
      BY <1>1, <1>4 DEF ToSet
    <3>2. ToSet(t) \subseteq ToSet(u)
      BY <1>1, <1>3 DEF ToSet
    <3> QED BY <3>1, <3>2
  <2> QED BY <2>1, <2>2
<1>6. Once(s) /\ Once(t) /\ ToSet(s) \cap ToSet(t) = {} => Once(u)
  <2> SUFFICES ASSUME Once(s), Once(t), ToSet(s) \cap ToSet(t) = {},
                      NEW i \in 1 .. m + n, NEW j \in 1 .. m + n, u[i] = u[j]
               PROVE  i = j
    BY <1>1 DEF Once
  <2>1. \A k \in 1 .. m : u[k] \in ToSet(s)
    BY <1>1 DEF ToSet
  <2>2. \A k \in m + 1 .. m + n : k - m \in 1 .. n => u[k] \in ToSet(t)
    BY <1>1 DEF ToSet
  <2>3. CASE i \in 1 .. m /\ j \in 1 .. m
    BY <1>1, <2>3 DEF Once
  <2>4. CASE (i \in m + 1 .. m + n /\ i - m \in 1 .. n) /\ (j \in m + 1 .. m + n /\ j - m \in 1 .. n)
    <3>1. t[i - m] = t[j - m]
      BY <1>1, <2>4
    <3>2. \A k, l \in 1 .. n : t[k] = t[l] => k = l
      BY <1>1 DEF Once
    <3>3. i - m = j - m
      BY <2>4, <3>1, <3>2
    <3> QED BY <1>1, <3>3
  <2> QED BY <1>2, <2>1, <2>2, <2>3, <2>4
<1> QED BY <1>1, <1>5, <1>6 DEF u

\* A list of one context.
LEMMA ListOne ==
  ASSUME NEW S, NEW c \in S
  PROVE  <<c>> \in Seq(S) /\ ToSet(<<c>>) = {c} /\ Once(<<c>>)
<1>1. <<c>> \in Seq(S) /\ DOMAIN <<c>> = {1} /\ <<c>>[1] = c
  OBVIOUS
<1> QED BY <1>1 DEF ToSet, Once

\* erase.
LEMMA ListRemove ==
  ASSUME NEW S, NEW s \in Seq(S), NEW i \in DOMAIN s, Once(s)
  PROVE  /\ RemoveAt(s, i) \in Seq(S) /\ Once(RemoveAt(s, i))
         /\ ToSet(RemoveAt(s, i)) = ToSet(s) \ {s[i]}
<1> DEFINE a == SubSeq(s, 1, i - 1)
           b == SubSeq(s, i + 1, Len(s))
<1>1. Len(s) \in Nat /\ DOMAIN s = 1 .. Len(s) /\ i \in 1 .. Len(s)
  OBVIOUS
<1>2. /\ a \in Seq(S) /\ DOMAIN a = 1 .. i - 1 /\ \A j \in 1 .. i - 1 : a[j] = s[j]
  BY <1>1
<1>3. /\ b \in Seq(S) /\ DOMAIN b = 1 .. Len(s) - i
      /\ \A j \in 1 .. Len(s) - i : b[j] = s[j + i]
  BY <1>1
<1> HIDE DEF a, b
<1>4. \A j \in 1 .. i - 1 : j \in 1 .. Len(s) /\ j # i
  BY <1>1
<1>5. \A j \in 1 .. Len(s) - i : j + i \in 1 .. Len(s) /\ j + i # i
  BY <1>1
<1>6. \A j \in 1 .. Len(s) : j \in 1 .. i - 1 \/ j = i \/ (j - i \in 1 .. Len(s) - i /\ (j - i) + i = j)
  BY <1>1
<1>7. Once(a)
  BY <1>1, <1>2, <1>4 DEF Once
<1>8. Once(b)
  <2> SUFFICES ASSUME NEW j \in 1 .. Len(s) - i, NEW k \in 1 .. Len(s) - i, b[j] = b[k] PROVE j = k
    BY <1>3 DEF Once
  <2>1. j + i = k + i
    BY <1>1, <1>3, <1>5 DEF Once
  <2> QED BY <1>1, <2>1
<1>9. ToSet(a) \cap ToSet(b) = {}
  <2> SUFFICES ASSUME NEW j \in 1 .. i - 1, NEW k \in 1 .. Len(s) - i, a[j] = b[k] PROVE FALSE
    BY <1>2, <1>3 DEF ToSet
  <2>1. j = k + i
    BY <1>1, <1>2, <1>3, <1>4, <1>5 DEF Once
  <2> QED BY <1>1, <2>1
<1>10. ToSet(a) \cup ToSet(b) = ToSet(s) \ {s[i]}
  <2>1. ToSet(a) \cup ToSet(b) \subseteq ToSet(s) \ {s[i]}
    BY <1>1, <1>2, <1>3, <1>4, <1>5 DEF ToSet, Once
  <2>2. ToSet(s) \ {s[i]} \subseteq ToSet(a) \cup ToSet(b)
    <3> SUFFICES ASSUME NEW j \in 1 .. Len(s), s[j] # s[i] PROVE s[j] \in ToSet(a) \cup ToSet(b)
      BY <1>1 DEF ToSet
    <3>1. CASE j \in 1 .. i - 1
      BY <1>2, <3>1 DEF ToSet
    <3>2. CASE j - i \in 1 .. Len(s) - i /\ (j - i) + i = j
      BY <1>3, <3>2 DEF ToSet
    <3> QED BY <1>6, <3>1, <3>2
  <2> QED BY <2>1, <2>2
<1>11. RemoveAt(s, i) = a \o b
  BY DEF RemoveAt, a, b
<1> QED BY <1>2, <1>3, <1>7, <1>8, <1>9, <1>10, <1>11, ListConcat

\* Find returns the place of a context of o, or 0 when there is none.
LEMMA FindIs ==
  ASSUME NEW st, NEW list \in Seq(Nat), NEW o
  PROVE  \/ /\ Find(st, list, o) \in DOMAIN list /\ Find(st, list, o) > 0
            /\ st.contexts[list[Find(st, list, o)]].obj = o
         \/ Find(st, list, o) = 0 /\ \A c \in ToSet(list) : st.contexts[c].obj # o
<1> DEFINE I == {i \in 1 .. Len(list) : st.contexts[list[i]].obj = o}
<1>1. Find(st, list, o) = IF I # {} THEN Min(I) ELSE 0
  BY DEF Find, SelectInSeq
<1>2. Len(list) \in Nat /\ DOMAIN list = 1 .. Len(list)
  OBVIOUS
<1>3. CASE I = {}
  BY <1>1, <1>2, <1>3 DEF ToSet
<1>4. CASE I # {}
  <2>1. I \in SUBSET Nat /\ \A x \in I : x > 0
    BY <1>2
  <2>2. Min(I) \in I
    <3> HIDE DEF I
    <3>1. PICK m \in I : \A n \in I : m <= n
      BY <1>4, <2>1, LeastOf
    <3> QED BY <3>1 DEF Min
  <2> QED BY <1>1, <1>2, <1>4, <2>1, <2>2
<1> QED BY <1>3, <1>4

-----------------------------------------------------------------------------
(* Sums *)

\* The sum of f over a finite set, as Conservation writes it.
SumOf(f, S) == MapThenSumSet(LAMBDA x : f[x], S)

\* The element of a set that a fold takes first.
First(S) == CHOOSE x \in S : TRUE

\* What holds of the empty set, and of a set when it holds without the element that
\* a fold takes first, holds of every finite set.
LEMMA SetInduction ==
  ASSUME NEW U, IsFiniteSet(U), NEW P \in SUBSET (SUBSET U), {} \in P,
         \A S \in SUBSET U : S # {} /\ S \ {First(S)} \in P => S \in P
  PROVE  P = SUBSET U
<1> SUFFICES ASSUME NEW T \in SUBSET U, T \notin P PROVE FALSE
  OBVIOUS
<1> DEFINE Sizes == {k \in Nat : \E S \in SUBSET U : S \notin P /\ Cardinality(S) = k}
<1>1. \A S \in SUBSET U : IsFiniteSet(S) /\ Cardinality(S) \in Nat
  BY FS_Subset, FS_CardinalityType
<1>2. Sizes \in SUBSET Nat /\ Sizes # {}
  BY <1>1
<1> HIDE DEF Sizes
<1>3. PICK k \in Sizes : \A j \in Sizes : k <= j
  BY <1>2, LeastOf
<1>4. PICK S \in SUBSET U : S \notin P /\ Cardinality(S) = k
  BY <1>3 DEF Sizes
<1> DEFINE x == First(S)
<1>5. S # {} /\ x \in S
  BY <1>4 DEF First
<1> HIDE DEF x
<1>6. Cardinality(S \ {x}) = k - 1 /\ k - 1 \in Nat /\ S \ {x} \in SUBSET U
  <2>1. IsFiniteSet(S) /\ Cardinality(S) \in Nat
    BY <1>1
  <2>2. Cardinality(S \ {x}) = Cardinality(S) - 1
    BY <1>5, <2>1, FS_RemoveElement
  <2>3. Cardinality(S) # 0
    BY <1>5, <2>1, FS_EmptySet
  <2> QED BY <1>4, <2>1, <2>2, <2>3
<1>7. S \ {x} \notin P
  BY <1>4, <1>5 DEF x
<1>8. k - 1 \in Sizes
  BY <1>6, <1>7 DEF Sizes
<1> QED BY <1>2, <1>3, <1>6, <1>8

\* g has the sum of f over each part of U.
Sums(g, f, U) ==
  /\ g \in [SUBSET U -> Int]
  /\ \A S \in SUBSET U : g[S] = IF S = {} THEN 0 ELSE f[First(S)] + g[S \ {First(S)}]

\* The recursion of a fold over a finite set has a solution.
LEMMA SumsExist ==
  ASSUME NEW U, IsFiniteSet(U), NEW f \in [U -> Int]
  PROVE  \E g : Sums(g, f, U)
<1> DEFINE Level(k) == {S \in SUBSET U : Cardinality(S) <= k}
           IsSum(g, k) == /\ g \in [Level(k) -> Int]
                          /\ \A S \in Level(k) :
                               g[S] = IF S = {} THEN 0 ELSE f[First(S)] + g[S \ {First(S)}]
           Short == {k \in Nat : ~ \E g : IsSum(g, k)}
<1>1. \A S \in SUBSET U : IsFiniteSet(S) /\ Cardinality(S) \in Nat
  BY FS_Subset, FS_CardinalityType
<1>2. \A S \in SUBSET U : S # {} => First(S) \in S /\ First(S) \in U
  BY DEF First
<1>3. \A S \in SUBSET U : S # {} =>
        S \ {First(S)} \in SUBSET U /\ Cardinality(S \ {First(S)}) = Cardinality(S) - 1
  <2> SUFFICES ASSUME NEW S \in SUBSET U, S # {}
               PROVE  Cardinality(S \ {First(S)}) = Cardinality(S) - 1
    OBVIOUS
  <2>1. IsFiniteSet(S) /\ First(S) \in S
    BY <1>1, <1>2
  <2> QED BY <2>1, FS_RemoveElement
<1>4. Short = {}
  <2> SUFFICES ASSUME Short # {} PROVE FALSE
    OBVIOUS
  <2>1. PICK k \in Short : \A j \in Short : k <= j
    <3>1. Short \in SUBSET Nat
      OBVIOUS
    <3> HIDE DEF Short
    <3> QED BY <3>1, LeastOf
  <2>2. k # 0
    <3> DEFINE g == [S \in Level(0) |-> 0]
    <3>1. \A S \in Level(0) : S = {}
      BY <1>1, FS_EmptySet
    <3>2. IsSum(g, 0)
      BY <3>1
    <3> HIDE DEF IsSum
    <3> QED BY <2>1, <3>2
  <2>3. k \in Nat /\ k - 1 \in Nat /\ k - 1 \notin Short
    <3>1. k \in Nat
      BY <2>1
    <3> HIDE DEF Short
    <3> QED BY <2>1, <2>2, <3>1
  <2>4. PICK g : IsSum(g, k - 1)
    BY <2>3
  <2> DEFINE h == [S \in Level(k) |-> IF S = {} THEN 0 ELSE f[First(S)] + g[S \ {First(S)}]]
  <2>5. \A S \in Level(k) : S # {} => S \ {First(S)} \in Level(k - 1) /\ First(S) \in U
    BY <1>1, <1>2, <1>3, <2>3
  <2>6. \A S \in Level(k - 1) : S \in Level(k) /\ h[S] = g[S]
    BY <1>1, <2>3, <2>4
  <2>7. h \in [Level(k) -> Int]
    <3>1. ASSUME NEW S \in Level(k), S # {} PROVE f[First(S)] + g[S \ {First(S)}] \in Int
      <4>1. g[S \ {First(S)}] \in Int
        BY <2>4, <2>5, <3>1
      <4>2. f[First(S)] \in Int
        BY <2>5, <3>1
      <4> QED BY <4>1, <4>2
    <3> HIDE DEF Level
    <3> QED BY <3>1
  <2>8. \A S \in Level(k) : h[S] = IF S = {} THEN 0 ELSE f[First(S)] + h[S \ {First(S)}]
    <3> SUFFICES ASSUME NEW S \in Level(k)
                 PROVE  h[S] = IF S = {} THEN 0 ELSE f[First(S)] + h[S \ {First(S)}]
      OBVIOUS
    <3>1. h[S] = IF S = {} THEN 0 ELSE f[First(S)] + g[S \ {First(S)}]
      OBVIOUS
    <3> HIDE DEF h, Level
    <3> QED BY <2>5, <2>6, <3>1
  <2> HIDE DEF h
  <2>9. IsSum(h, k)
    BY <2>7, <2>8
  <2> HIDE DEF IsSum
  <2> QED BY <2>1, <2>9
<1>5. Cardinality(U) \in Nat /\ \A S \in SUBSET U : Cardinality(S) <= Cardinality(U)
  BY FS_Subset, FS_CardinalityType
<1>6. PICK g : IsSum(g, Cardinality(U))
  BY <1>4, <1>5
<1>7. Level(Cardinality(U)) = SUBSET U
  BY <1>5
<1> HIDE DEF Level
<1> QED BY <1>6, <1>7 DEF Sums

\* The sum takes one element after the other.
LEMMA SumStep ==
  ASSUME NEW U, IsFiniteSet(U), NEW f \in [U -> Int]
  PROVE  /\ SumOf(f, {}) = 0
         /\ \A S \in SUBSET U :
              /\ SumOf(f, S) \in Int
              /\ S # {} => SumOf(f, S) = f[First(S)] + SumOf(f, S \ {First(S)})
<1>0. PICK g : Sums(g, f, U)
  BY SumsExist
<1>1. /\ g \in [SUBSET U -> Int]
      /\ \A S \in SUBSET U : g[S] = IF S = {} THEN 0 ELSE f[First(S)] + g[S \ {First(S)}]
  BY <1>0 DEF Sums
<1>2. ASSUME NEW S \in SUBSET U PROVE SumOf(f, S) = g[S]
  <2> DEFINE Solves(u) == u = [s \in SUBSET S |-> IF s = {} THEN 0
                                                  ELSE f[First(s)] + u[s \ {First(s)}]]
             iter == CHOOSE u : Solves(u)
             part == [s \in SUBSET S |-> g[s]]
  <2>1. SumOf(f, S) = iter[S]
    BY DEF SumOf, MapThenSumSet, MapThenFoldSet, First
  <2>2. \A s \in SUBSET S : s \in SUBSET U /\ s \ {First(s)} \in SUBSET S
    OBVIOUS
  <2>3. Solves(part)
    <3>1. \A s \in SUBSET S : part[s] = IF s = {} THEN 0 ELSE f[First(s)] + part[s \ {First(s)}]
      BY <1>1, <2>2
    <3> HIDE DEF part
    <3>2. part = [s \in SUBSET S |-> part[s]]
      BY DEF part
    <3> QED BY <3>1, <3>2
  <2>4. Solves(iter)
    BY <2>3
  <2> HIDE DEF iter, part
  <2> DEFINE P == {s \in SUBSET S : iter[s] = g[s]}
  <2>5. \A s \in SUBSET S : iter[s] = IF s = {} THEN 0 ELSE f[First(s)] + iter[s \ {First(s)}]
    BY <2>4
  <2>6. {} \in P
    BY <1>1, <2>5
  <2>7. \A s \in SUBSET S : s # {} /\ s \ {First(s)} \in P => s \in P
    BY <1>1, <2>2, <2>5
  <2>8. IsFiniteSet(S)
    BY FS_Subset
  <2> HIDE DEF P
  <2>9. P \in SUBSET (SUBSET S)
    BY DEF P
  <2>10. P = SUBSET S
    BY ONLY <2>6, <2>7, <2>8, <2>9, SetInduction
  <2>11. S \in P
    BY <2>10
  <2> QED BY <2>1, <2>11 DEF P
<1>3. \A S \in SUBSET U : S \ {First(S)} \in SUBSET U
  OBVIOUS
<1>4. SumOf(f, {}) = 0
  <2>1. {} \in SUBSET U
    OBVIOUS
  <2> QED BY <1>1, <1>2, <2>1
<1>5. ASSUME NEW S \in SUBSET U
      PROVE  /\ SumOf(f, S) \in Int
             /\ S # {} => SumOf(f, S) = f[First(S)] + SumOf(f, S \ {First(S)})
  <2>1. SumOf(f, S) = g[S] /\ SumOf(f, S \ {First(S)}) = g[S \ {First(S)}]
    BY <1>2, <1>3
  <2> QED BY <1>1, <2>1
<1> QED BY <1>4, <1>5

\* When f changes at one element, so does its sum over every set that has it.
LEMMA SumChange ==
  ASSUME NEW U, IsFiniteSet(U), NEW f \in [U -> Int], NEW h \in [U -> Int], NEW y \in U,
         \A x \in U : x # y => h[x] = f[x], NEW S \in SUBSET U
  PROVE  SumOf(h, S) = IF y \in S THEN SumOf(f, S) + (h[y] - f[y]) ELSE SumOf(f, S)
<1>0. \A T \in SUBSET U :
        /\ SumOf(f, T) \in Int /\ SumOf(h, T) \in Int
        /\ T # {} => /\ SumOf(f, T) = f[First(T)] + SumOf(f, T \ {First(T)})
                     /\ SumOf(h, T) = h[First(T)] + SumOf(h, T \ {First(T)})
  BY SumStep
<1> DEFINE Right(T) == SumOf(h, T) = IF y \in T THEN SumOf(f, T) + (h[y] - f[y]) ELSE SumOf(f, T)
           P == {T \in SUBSET U : Right(T)}
<1>1. SumOf(f, {}) = 0 /\ SumOf(h, {}) = 0
  BY SumStep
<1>2. ASSUME NEW T \in SUBSET U, T # {}, T \ {First(T)} \in P PROVE T \in P
  <2> DEFINE x == First(T)
             R == T \ {x}
  <2>1. x \in T /\ x \in U
    BY <1>2 DEF First
  <2> HIDE DEF x
  <2>0. R \in SUBSET U
    OBVIOUS
  <2> HIDE DEF R
  <2>2. SumOf(f, T) = f[x] + SumOf(f, R) /\ SumOf(f, R) \in Int
    BY ONLY <1>0, <1>2, <2>0 DEF x, R
  <2>3. SumOf(h, T) = h[x] + SumOf(h, R) /\ SumOf(h, R) \in Int
    BY ONLY <1>0, <1>2, <2>0 DEF x, R
  <2>4. Right(R)
    BY <1>2 DEF x, R
  <2>5. f[x] \in Int /\ h[x] \in Int /\ f[y] \in Int /\ h[y] \in Int
    BY <2>1
  <2>6. CASE x = y
    BY <2>1, <2>2, <2>3, <2>4, <2>5, <2>6 DEF R
  <2>7. CASE x # y
    <3>1. y \in T <=> y \in R
      BY <2>7 DEF R
    <3> QED BY <2>1, <2>2, <2>3, <2>4, <2>5, <2>7, <3>1
  <2> QED BY <2>6, <2>7
<1>3. {} \in P
  BY <1>1
<1> HIDE DEF P
<1>4. P \in SUBSET (SUBSET U)
  BY DEF P
<1>5. P = SUBSET U
  BY ONLY IsFiniteSet(U), <1>2, <1>3, <1>4, SetInduction
<1> QED BY <1>5 DEF P

\* A sum of natural numbers is one, and none of them is greater.
LEMMA SumNat ==
  ASSUME NEW U, IsFiniteSet(U), NEW f \in [U -> Nat], NEW S \in SUBSET U
  PROVE  /\ SumOf(f, S) \in Nat /\ \A y \in S : f[y] <= SumOf(f, S)
         /\ (\A y \in S : f[y] = 0) => SumOf(f, S) = 0
<1> DEFINE Right(T) == /\ SumOf(f, T) \in Nat /\ \A y \in T : f[y] <= SumOf(f, T)
                       /\ (\A y \in T : f[y] = 0) => SumOf(f, T) = 0
           P == {T \in SUBSET U : Right(T)}
<1>1. f \in [U -> Int]
  OBVIOUS
<1>2. ASSUME NEW T \in SUBSET U, T # {}, T \ {First(T)} \in P PROVE T \in P
  <2> DEFINE x == First(T)
             R == T \ {x}
  <2>1. x \in T /\ x \in U /\ f[x] \in Nat
    BY <1>2 DEF First
  <2> HIDE DEF x
  <2>2. SumOf(f, T) = f[x] + SumOf(f, R)
    BY <1>1, <1>2, SumStep DEF x
  <2>3. Right(R)
    BY <1>2 DEF x
  <2>4. SumOf(f, T) \in Nat
    BY <2>1, <2>2, <2>3
  <2>5. ASSUME NEW y \in T PROVE f[y] <= SumOf(f, T)
    <3>1. f[y] \in Nat
      BY <1>2, <2>5
    <3>2. CASE y = x
      BY <2>1, <2>2, <2>3, <3>2
    <3>3. CASE y \in R
      <4>1. f[y] <= SumOf(f, R) /\ SumOf(f, R) \in Nat
        BY <2>3, <3>3
      <4> QED BY <2>1, <2>2, <3>1, <4>1
    <3> QED BY <3>2, <3>3
  <2>6. (\A y \in T : f[y] = 0) => SumOf(f, T) = 0
    BY <2>1, <2>2, <2>3
  <2> QED BY <2>4, <2>5, <2>6
<1>3. {} \in P
  BY <1>1, SumStep
<1> HIDE DEF P
<1>4. P \in SUBSET (SUBSET U)
  BY DEF P
<1>5. P = SUBSET U
  BY ONLY IsFiniteSet(U), <1>2, <1>3, <1>4, SetInduction
<1> QED BY <1>5 DEF P

-----------------------------------------------------------------------------
(* What a change on its way preserves *)

Drain == [obj : Objs, count : Nat, ctxt : Nat]

State ==
  [n : Int, at : Objs \cup {NULL}, total : [Objs -> Nat], contexts : Seq(Context),
   pool : Seq(Nat), scheduled : Seq(Nat), forked : Seq(Nat), drains : [Objs -> Nat],
   procs : [Objs -> Procs \cup {NULL}], running : [Procs -> Drain \cup {NULL}],
   freed : Seq(Nat), cleared : BOOLEAN, halted : {"no", "fatal"}]

\* The contexts of drains that run, and of all that were not taken up by the parent.
InDrain(st) == Range(st.drains) \ {0}
Pending(st) == ToSet(st.scheduled) \cup ToSet(st.forked) \cup InDrain(st)

\* A context is in one place.
Apart(st) ==
  /\ ToSet(st.pool) \cup ToSet(st.freed) \cup Pending(st) \subseteq DOMAIN st.contexts
  /\ Once(st.pool) /\ Once(st.freed) /\ Once(st.scheduled) /\ Once(st.forked)
  /\ ToSet(st.pool) \cap (ToSet(st.freed) \cup Pending(st)) = {}
  /\ ToSet(st.freed) \cap Pending(st) = {}
  /\ ToSet(st.scheduled) \cap (ToSet(st.forked) \cup InDrain(st)) = {}
  /\ ToSet(st.forked) \cap InDrain(st) = {}

\* The contexts of the pool are cleared and no others.
Clean(st) ==
  \A c \in DOMAIN st.contexts :
    /\ c \in ToSet(st.pool) => st.contexts[c] = Cleared
    /\ c \notin ToSet(st.pool) => st.contexts[c].obj # NULL

\* An object is drained with one context, while its total is zero.
Idle(st) ==
  /\ \A c \in Pending(st) : st.total[st.contexts[c].obj] = 0
  /\ \A c, e \in Pending(st) : st.contexts[c].obj = st.contexts[e].obj => c = e
  /\ \A o \in Objs : st.drains[o] # 0 => st.contexts[st.drains[o]].obj = o

\* A drain process that waits drains the object it is the process of.
Driven(st) ==
  /\ \A p \in Procs : st.running[p] # NULL =>
       LET d == st.running[p] IN
       /\ d.ctxt # 0 /\ st.drains[d.obj] = d.ctxt /\ st.procs[d.obj] = p
       /\ st.contexts[d.ctxt] = [obj |-> d.obj, count |-> d.count]
  /\ \A o, x \in Objs : st.procs[o] = st.procs[x] /\ st.procs[o] # NULL => o = x

Good(st) ==
  /\ st \in State
  /\ Apart(st) /\ Clean(st) /\ Idle(st) /\ Driven(st)
  /\ st.n > 0 => st.forked = <<>>

\* The drains that were spawned, in the order in which they start.
Guarded ==
  /\ Len(guards) = Len(m_forked_list)
  /\ \A i \in DOMAIN guards :
       /\ guards[i].ctxt = m_forked_list[i]
       /\ guards[i].proc = m_drain_proc[contexts[m_forked_list[i]].obj]

Sound ==
  /\ Good(Current) /\ m_source_count \in [Objs -> 0 .. MaxCount]
  /\ guards \in Seq([proc : Procs, ctxt : Nat]) /\ Guarded
  /\ m_top_all_dropped \in BOOLEAN

\* What m_raise does: it takes a scheduled context of o from the list, or kills the
\* drain of o, or finds none.
LEMMA RaiseCases ==
  ASSUME NEW st, Good(st), NEW o \in Objs, st.n > 0
  PROVE  LET t == [st.total EXCEPT ![o] = @ + st.n] IN
         \/ \E i \in DOMAIN st.scheduled :
              /\ st.contexts[st.scheduled[i]].obj = o
              /\ m_raise(st, o) =
                   [st EXCEPT !.total = t, !.scheduled = RemoveAt(@, i),
                              !.n = @ - st.contexts[st.scheduled[i]].count,
                              !.freed = <<st.scheduled[i]>> \o @]
         \/ /\ st.drains[o] # 0
            /\ m_raise(st, o) =
                 [KillDrain(st, o) EXCEPT !.total = t,
                                          !.n = @ - st.contexts[st.drains[o]].count,
                                          !.freed = <<st.drains[o]>> \o @]
         \/ /\ \A c \in Pending(st) : st.contexts[c].obj # o
            /\ m_raise(st, o) = [st EXCEPT !.total = t]
<1> DEFINE s == [st EXCEPT !.total[o] = @ + st.n]
           t == [st.total EXCEPT ![o] = @ + st.n]
           i == Find(s, s.scheduled, o)
           j == Find(s, s.forked, o)
<1>1. st \in State
  BY DEF Good
<1>2. s = [st EXCEPT !.total = t] /\ s.contexts = st.contexts /\ s.scheduled = st.scheduled
      /\ s.forked = st.forked /\ s.drains = st.drains /\ s.n = st.n
  BY <1>1 DEF State
<1>3. st.forked = <<>> /\ st.scheduled \in Seq(Nat)
  BY <1>1 DEF Good, State
<1>4. \/ /\ i \in DOMAIN st.scheduled /\ i > 0
         /\ st.contexts[st.scheduled[i]].obj = o
      \/ i = 0 /\ \A c \in ToSet(st.scheduled) : st.contexts[c].obj # o
  <2>1. s.scheduled \in Seq(Nat)
    BY <1>2, <1>3
  <2> HIDE DEF s
  <2>2. \/ i \in DOMAIN s.scheduled /\ i > 0 /\ s.contexts[s.scheduled[i]].obj = o
        \/ i = 0 /\ \A c \in ToSet(s.scheduled) : s.contexts[c].obj # o
    BY <2>1, FindIs
  <2>3. s.scheduled = st.scheduled /\ s.contexts = st.contexts
    BY <1>2
  <2> HIDE DEF i
  <2> QED BY <2>2, <2>3
<1>5. j = 0
  <2>1. s.forked \in Seq(Nat) /\ DOMAIN s.forked = {}
    <3>1. DOMAIN <<>> = {}
      OBVIOUS
    <3>2. s.forked = <<>>
      BY <1>2, <1>3
    <3> HIDE DEF s
    <3> QED BY <3>1, <3>2
  <2> HIDE DEF s
  <2> QED BY <2>1, FindIs
<1> HIDE DEF i, j
<1>6. m_raise(st, o) =
        CASE i > 0 -> Settle([s EXCEPT !.scheduled = RemoveAt(@, i)], s.scheduled[i])
          [] i = 0 /\ j > 0 -> Settle([s EXCEPT !.forked = RemoveAt(@, j)], s.forked[j])
          [] i = 0 /\ j = 0 /\ s.drains[o] # 0 -> Settle(KillDrain(s, o), s.drains[o])
          [] OTHER -> s
  BY DEF m_raise, i, j
<1> HIDE DEF s
<1>7. CASE i > 0
  <2>1. m_raise(st, o) = Settle([s EXCEPT !.scheduled = RemoveAt(@, i)], s.scheduled[i])
    BY <1>5, <1>6, <1>7
  <2>2. Settle([s EXCEPT !.scheduled = RemoveAt(@, i)], s.scheduled[i]) =
          [st EXCEPT !.total = t, !.scheduled = RemoveAt(@, i),
                     !.n = @ - st.contexts[st.scheduled[i]].count,
                     !.freed = <<st.scheduled[i]>> \o @]
    BY <1>1, <1>2 DEF Settle, State
  <2>3. i \in DOMAIN st.scheduled /\ st.contexts[st.scheduled[i]].obj = o
    BY <1>4, <1>7
  <2> QED BY <2>1, <2>2, <2>3
<1>8. CASE i = 0 /\ st.drains[o] # 0
  <2>1. m_raise(st, o) = Settle(KillDrain(s, o), s.drains[o])
    BY <1>2, <1>5, <1>6, <1>8
  <2>2. Settle(KillDrain(s, o), s.drains[o]) =
          [KillDrain(st, o) EXCEPT !.total = t,
                                   !.n = @ - st.contexts[st.drains[o]].count,
                                   !.freed = <<st.drains[o]>> \o @]
    <3>1. KillDrain(s, o) = [KillDrain(st, o) EXCEPT !.total = t]
      BY <1>1, <1>2 DEF KillDrain, State
    <3>2. KillDrain(st, o).n = st.n /\ KillDrain(st, o).freed = st.freed
          /\ KillDrain(st, o).contexts = st.contexts
      BY <1>1 DEF KillDrain, State
    <3> QED BY <1>1, <1>2, <3>1, <3>2 DEF Settle, State, KillDrain
  <2> QED BY <1>8, <2>1, <2>2
<1>9. CASE i = 0 /\ st.drains[o] = 0
  <2>1. m_raise(st, o) = [st EXCEPT !.total = t]
    BY <1>2, <1>5, <1>6, <1>9
  <2>2. ASSUME NEW c \in Pending(st) PROVE st.contexts[c].obj # o
    <3>1. CASE c \in ToSet(st.scheduled)
      BY <1>4, <1>9, <3>1
    <3>2. CASE c \in ToSet(st.forked)
      BY <1>3, <3>2 DEF ToSet
    <3>3. CASE c \in InDrain(st)
      <4>1. PICK x \in Objs : st.drains[x] = c /\ c # 0
        BY <1>1, <3>3 DEF InDrain, Range, State
      <4>2. st.contexts[c].obj = x
        BY <4>1 DEF Good, Idle
      <4> QED BY <1>9, <4>1, <4>2
    <3> QED BY <3>1, <3>2, <3>3 DEF Pending
  <2> QED BY <2>1, <2>2
<1> QED BY <1>4, <1>7, <1>8, <1>9

\* Contexts are numbered from 1.
LEMMA ContextNumbers ==
  ASSUME NEW st \in State
  PROVE  /\ Len(st.contexts) \in Nat /\ DOMAIN st.contexts = 1 .. Len(st.contexts)
         /\ DOMAIN st.contexts \subseteq Nat \ {0}
         /\ \A c \in DOMAIN st.contexts : st.contexts[c] \in Context
<1>1. st.contexts \in Seq(Context)
  BY DEF State
<1> QED BY <1>1

\* What the objects count when o has heard of the change.
Counted(st, o) == [st.total EXCEPT ![o] = @ + st.n]

\* A context that a raise has caught is out of its place and not yet freed; its
\* object is no longer idle, and the others stay as they are.
LEMMA CaughtGood ==
  ASSUME NEW st, Good(st), NEW o \in Objs, st.n > 0,
         NEW c \in Pending(st), st.contexts[c].obj = o,
         NEW r \in State, r.contexts = st.contexts, r.pool = st.pool, r.forked = st.forked,
         r.freed = <<c>> \o st.freed, r.total = Counted(st, o),
         Once(r.scheduled), ToSet(r.scheduled) = ToSet(st.scheduled) \ {c},
         InDrain(r) = InDrain(st) \ {c},
         \A x \in Objs : r.drains[x] # 0 => r.drains[x] = st.drains[x],
         Driven(r)
  PROVE  Good(r) /\ Pending(r) = Pending(st) \ {c}
<1>1. st \in State /\ Apart(st) /\ Clean(st) /\ Idle(st) /\ st.forked = <<>>
  BY DEF Good
<1>2. ToSet(st.forked) = {}
  <2>1. DOMAIN <<>> = {}
    OBVIOUS
  <2> QED BY <1>1, <2>1 DEF ToSet
<1>3. Pending(r) = Pending(st) \ {c}
  BY <1>2 DEF Pending
<1>4. c \in DOMAIN st.contexts /\ c \in Nat /\ c \notin ToSet(st.freed)
  <2>1. c \in DOMAIN st.contexts /\ c \notin ToSet(st.freed)
    BY <1>1 DEF Apart
  <2> QED BY <1>1, <2>1, ContextNumbers
<1>5. /\ ToSet(r.freed) = ToSet(st.freed) \cup {c}
      /\ Once(r.freed)
  <2>1. st.freed \in Seq(Nat) /\ <<c>> \in Seq(Nat) /\ ToSet(<<c>>) = {c} /\ Once(<<c>>)
    BY <1>1, <1>4, ListOne DEF State
  <2>2. /\ ToSet(<<c>> \o st.freed) = ToSet(<<c>>) \cup ToSet(st.freed)
        /\ Once(<<c>>) /\ Once(st.freed) /\ ToSet(<<c>>) \cap ToSet(st.freed) = {}
           => Once(<<c>> \o st.freed)
    <3> DEFINE one == <<c>>
    <3>1. one \in Seq(Nat) /\ st.freed \in Seq(Nat)
      BY <2>1
    <3> HIDE DEF one
    <3>2. /\ ToSet(one \o st.freed) = ToSet(one) \cup ToSet(st.freed)
          /\ Once(one) /\ Once(st.freed) /\ ToSet(one) \cap ToSet(st.freed) = {}
             => Once(one \o st.freed)
      BY <3>1, ListConcat
    <3> QED BY <3>2 DEF one
  <2> QED BY <1>1, <1>4, <2>1, <2>2 DEF Apart
<1>6. Apart(r)
  BY <1>1, <1>3, <1>5, <1>2 DEF Apart, Pending
<1>7. Clean(r)
  BY <1>1 DEF Clean
<1>8. Idle(r)
  <2>1. \A e \in Pending(r) : r.total[r.contexts[e].obj] = 0
    <3> SUFFICES ASSUME NEW e \in Pending(r) PROVE r.total[r.contexts[e].obj] = 0
      OBVIOUS
    <3>1. st.contexts[e].obj # o /\ st.total[st.contexts[e].obj] = 0
      BY <1>1, <1>3 DEF Idle
    <3> QED BY <1>1, <3>1 DEF State, Counted
  <2> QED BY <1>1, <1>3, <2>1 DEF Idle
<1> QED BY <1>1, <1>3, <1>6, <1>7, <1>8 DEF Good

\* A drain that is killed leaves the other processes to their objects.
LEMMA KilledDriven ==
  ASSUME NEW st, st \in State, Idle(st), Driven(st), NEW o \in Objs, st.drains[o] # 0
  PROVE  LET r == KillDrain(st, o) IN
         /\ r \in State /\ Driven(r)
         /\ InDrain(r) = InDrain(st) \ {st.drains[o]}
         /\ \A x \in Objs : r.drains[x] # 0 => r.drains[x] = st.drains[x]
         /\ r.drains[o] = 0
<1> DEFINE r == KillDrain(st, o)
<1>1. /\ r.drains = [st.drains EXCEPT ![o] = 0] /\ r.procs = [st.procs EXCEPT ![o] = NULL]
      /\ r.running = [p \in Procs |-> IF p = st.procs[o] THEN NULL ELSE st.running[p]]
      /\ r.contexts = st.contexts
  BY DEF KillDrain, State
<1>2. r \in State
  BY DEF KillDrain, State
<1> HIDE DEF r
<1>3. st.drains \in [Objs -> Nat] /\ st.procs \in [Objs -> Procs \cup {NULL}]
  BY DEF State
<1>4. Driven(r)
  <2>1. ASSUME NEW p \in Procs, r.running[p] # NULL
        PROVE  LET d == r.running[p] IN
               /\ d.ctxt # 0 /\ r.drains[d.obj] = d.ctxt /\ r.procs[d.obj] = p
               /\ r.contexts[d.ctxt] = [obj |-> d.obj, count |-> d.count]
    <3> DEFINE d == st.running[p]
    <3>1. p # st.procs[o] /\ r.running[p] = d /\ d # NULL
      BY <1>1, <2>1
    <3>2. d \in Drain
      BY <3>1 DEF State
    <3>3. d.obj # o /\ d.obj \in Objs
      BY <3>1, <3>2 DEF Driven, Drain
    <3> QED BY <1>1, <1>3, <3>1, <3>3 DEF Driven
  <2>2. ASSUME NEW x \in Objs, NEW y \in Objs, r.procs[x] = r.procs[y], r.procs[x] # NULL
        PROVE  x = y
    BY <1>1, <1>3, <2>2 DEF Driven
  <2> QED BY <2>1, <2>2 DEF Driven
<1>5. \A x, y \in Objs : st.drains[x] = st.drains[y] /\ st.drains[x] # 0 => x = y
  BY DEF Idle
<1>6. InDrain(r) = InDrain(st) \ {st.drains[o]}
  BY <1>1, <1>3, <1>5 DEF InDrain, Range
<1> QED BY <1>1, <1>2, <1>3, <1>4, <1>6 DEF r

\* An object without a drain may count what it likes.
LEMMA TotalGood ==
  ASSUME NEW st, Good(st), NEW o \in Objs, NEW t \in [Objs -> Nat],
         \A x \in Objs : x # o => t[x] = st.total[x],
         \A c \in Pending(st) : st.contexts[c].obj # o,
         NEW r, r = [st EXCEPT !.total = t]
  PROVE  /\ Good(r) /\ r.n = st.n /\ Pending(r) = Pending(st) /\ r.total = t
         /\ r.contexts = st.contexts /\ r.at = st.at /\ r.cleared = st.cleared
         /\ r.halted = st.halted /\ r.freed = st.freed /\ r.pool = st.pool
         /\ r.scheduled = st.scheduled /\ r.forked = st.forked /\ r.drains = st.drains
         /\ r.procs = st.procs /\ r.running = st.running
<1>1. st \in State /\ Apart(st) /\ Idle(st) /\ Driven(st)
  BY DEF Good
<1>2. r \in State
  BY <1>1 DEF State
<1>3. /\ r.contexts = st.contexts /\ r.pool = st.pool /\ r.forked = st.forked
      /\ r.freed = st.freed /\ r.total = t /\ r.drains = st.drains
      /\ r.procs = st.procs /\ r.running = st.running /\ r.at = st.at
      /\ r.cleared = st.cleared /\ r.halted = st.halted
      /\ r.scheduled = st.scheduled /\ r.n = st.n
  BY <1>1 DEF State
<1>4. Pending(r) = Pending(st) /\ InDrain(r) = InDrain(st)
  BY <1>3 DEF Pending, InDrain
<1>5. \A c \in Pending(st) : st.contexts[c].obj \in Objs
  <2>1. \A c \in Pending(st) : c \notin ToSet(st.pool) /\ c \in DOMAIN st.contexts
    BY <1>1 DEF Apart
  <2> QED BY <1>1, <2>1, ContextNumbers DEF Good, Clean, Context
<1>6. Idle(r)
  BY <1>1, <1>3, <1>4, <1>5 DEF Idle
<1>7. Apart(r) /\ Clean(r) /\ Driven(r)
  BY <1>1, <1>3, <1>4 DEF Good, Apart, Clean, Driven
<1> QED BY <1>2, <1>3, <1>4, <1>6, <1>7 DEF Good

LEMMA CountedGood ==
  ASSUME NEW st, Good(st), NEW o \in Objs, Counted(st, o)[o] \in Nat,
         \A c \in Pending(st) : st.contexts[c].obj # o,
         NEW r, r = [st EXCEPT !.total = Counted(st, o)]
  PROVE  /\ Good(r) /\ r.n = st.n /\ Pending(r) = Pending(st) /\ r.total = Counted(st, o)
         /\ r.contexts = st.contexts /\ r.at = st.at /\ r.cleared = st.cleared
         /\ r.halted = st.halted /\ r.freed = st.freed
         /\ r.forked = st.forked /\ r.drains = st.drains
         /\ r.procs = st.procs /\ r.running = st.running
<1>1. st.total \in [Objs -> Nat]
  BY DEF Good, State
<1>2. Counted(st, o) \in [Objs -> Nat] /\ \A x \in Objs : x # o => Counted(st, o)[x] = st.total[x]
  BY <1>1 DEF Counted
<1> DEFINE t == Counted(st, o)
<1> HIDE DEF t
<1>3. t \in [Objs -> Nat] /\ (\A x \in Objs : x # o => t[x] = st.total[x]) /\ r = [st EXCEPT !.total = t]
  BY <1>2 DEF t
<1> QED BY <1>3, TotalGood DEF t

\* m_raise: o counts what is raised, and its drain, if it had one, is caught.
LEMMA RaiseGood ==
  ASSUME NEW st, Good(st), NEW o \in Objs, st.n > 0
  PROVE  LET r == m_raise(st, o) IN
         /\ Good(r) /\ r.total = Counted(st, o)
         /\ r.contexts = st.contexts /\ r.at = st.at /\ r.cleared = st.cleared
         /\ r.halted = st.halted /\ r.forked = st.forked
         /\ \/ /\ r.n = st.n /\ Pending(r) = Pending(st)
               /\ \A c \in Pending(st) : st.contexts[c].obj # o
            \/ \E c \in Pending(st) :
                 /\ st.contexts[c].obj = o /\ r.n = st.n - st.contexts[c].count
                 /\ Pending(r) = Pending(st) \ {c}
<1> DEFINE t == Counted(st, o)
           r == m_raise(st, o)
           Kept == /\ r.total = t /\ r.contexts = st.contexts /\ r.at = st.at
                   /\ r.cleared = st.cleared /\ r.halted = st.halted
                   /\ r.forked = st.forked
           Caught(c) == r.n = st.n - st.contexts[c].count /\ Pending(r) = Pending(st) \ {c}
<1>1. st \in State /\ Apart(st) /\ Idle(st) /\ Driven(st) /\ st.n \in Nat
  BY DEF Good, State
<1>2. t \in [Objs -> Nat]
  BY <1>1 DEF State, Counted
<1>3. \A c \in DOMAIN st.contexts : st.contexts[c].count \in Nat /\ c \in Nat
  BY <1>1, ContextNumbers DEF Context
<1>4. ASSUME NEW c \in DOMAIN st.contexts PROVE <<c>> \o st.freed \in Seq(Nat)
  <2>1. c \in Nat /\ st.freed \in Seq(Nat)
    BY <1>1, <1>3 DEF State
  <2> QED BY <2>1
<1>5. Pending(st) \subseteq DOMAIN st.contexts
  BY <1>1 DEF Apart
<1> HIDE DEF t
<1>6. ASSUME NEW i \in DOMAIN st.scheduled, st.contexts[st.scheduled[i]].obj = o,
             r = [st EXCEPT !.total = t, !.scheduled = RemoveAt(@, i),
                            !.n = @ - st.contexts[st.scheduled[i]].count,
                            !.freed = <<st.scheduled[i]>> \o @]
      PROVE  Good(r) /\ Kept /\ \E c \in Pending(st) : st.contexts[c].obj = o /\ Caught(c)
  <2> DEFINE c == st.scheduled[i]
  <2>1. c \in Pending(st) /\ c \in DOMAIN st.contexts /\ c \in ToSet(st.scheduled)
    BY <1>5 DEF Pending, ToSet
  <2>2. /\ RemoveAt(st.scheduled, i) \in Seq(Nat) /\ Once(RemoveAt(st.scheduled, i))
        /\ ToSet(RemoveAt(st.scheduled, i)) = ToSet(st.scheduled) \ {c}
    <3>1. st.scheduled \in Seq(Nat) /\ Once(st.scheduled)
      BY <1>1 DEF State, Apart
    <3> QED BY <3>1, ListRemove
  <2>3. st.n - st.contexts[c].count \in Int
    BY <1>1, <1>3, <2>1
  <2> HIDE DEF r, c
  <2>4. r \in State
    BY <1>1, <1>2, <1>4, <1>6, <2>1, <2>2, <2>3 DEF State, c
  <2>5. /\ r.contexts = st.contexts /\ r.pool = st.pool /\ r.forked = st.forked
        /\ r.freed = <<c>> \o st.freed /\ r.total = t /\ r.drains = st.drains
        /\ r.procs = st.procs /\ r.running = st.running /\ r.at = st.at
        /\ r.cleared = st.cleared /\ r.halted = st.halted
        /\ r.scheduled = RemoveAt(st.scheduled, i) /\ r.n = st.n - st.contexts[c].count
    BY <1>1, <1>6 DEF State, c
  <2>6. InDrain(r) = InDrain(st) \ {c}
    BY <1>1, <2>1, <2>5 DEF InDrain, Apart
  <2>7. Driven(r)
    BY <1>1, <2>5 DEF Driven
  <2>8. Good(r) /\ Pending(r) = Pending(st) \ {c}
    <3>1. st.contexts[c].obj = o
      BY <1>6 DEF c
    <3>2. r.total = Counted(st, o)
      BY <2>5 DEF t
    <3>3. \A x \in Objs : r.drains[x] # 0 => r.drains[x] = st.drains[x]
      BY <2>5
    <3>4. Once(r.scheduled) /\ ToSet(r.scheduled) = ToSet(st.scheduled) \ {c}
      BY <2>2, <2>5
    <3>5. /\ r.contexts = st.contexts /\ r.pool = st.pool /\ r.forked = st.forked
          /\ r.freed = <<c>> \o st.freed
      BY <2>5
    <3>6. c \in Pending(st)
      BY <2>1
    <3> QED BY <2>4, <2>6, <2>7, <3>1, <3>2, <3>3, <3>4, <3>5, <3>6, CaughtGood
  <2>9. st.contexts[c].obj = o
    BY <1>6 DEF c
  <2> QED BY <2>1, <2>5, <2>8, <2>9
<1>7. ASSUME st.drains[o] # 0,
             r = [KillDrain(st, o) EXCEPT !.total = t,
                                          !.n = @ - st.contexts[st.drains[o]].count,
                                          !.freed = <<st.drains[o]>> \o @]
      PROVE  Good(r) /\ Kept /\ \E c \in Pending(st) : st.contexts[c].obj = o /\ Caught(c)
  <2> DEFINE c == st.drains[o]
             k == KillDrain(st, o)
  <2>1. c \in Pending(st) /\ c \in DOMAIN st.contexts /\ c \in InDrain(st)
    <3>1. c \in InDrain(st)
      BY <1>1, <1>7 DEF InDrain, Range, State
    <3> QED BY <1>5, <3>1 DEF Pending
  <2>2. /\ k \in State /\ Driven(k) /\ InDrain(k) = InDrain(st) \ {c}
        /\ \A x \in Objs : k.drains[x] # 0 => k.drains[x] = st.drains[x]
    BY <1>1, <1>7, KilledDriven
  <2>3. st.n - st.contexts[c].count \in Int
    BY <1>1, <1>3, <2>1
  <2>4. /\ k.contexts = st.contexts /\ k.pool = st.pool /\ k.forked = st.forked
        /\ k.freed = st.freed /\ k.n = st.n /\ k.at = st.at
        /\ k.cleared = st.cleared /\ k.halted = st.halted /\ k.scheduled = st.scheduled
    BY <1>1 DEF State, KillDrain
  <2> HIDE DEF r, c, k
  <2>5. r \in State
    BY <1>2, <1>4, <1>7, <2>1, <2>2, <2>3, <2>4 DEF State, c, k
  <2>6. /\ r.contexts = st.contexts /\ r.pool = st.pool /\ r.forked = st.forked
        /\ r.freed = <<c>> \o st.freed /\ r.total = t /\ r.drains = k.drains
        /\ r.procs = k.procs /\ r.running = k.running /\ r.at = st.at
        /\ r.cleared = st.cleared /\ r.halted = st.halted
        /\ r.scheduled = st.scheduled /\ r.n = st.n - st.contexts[c].count
    BY <1>7, <2>2, <2>4 DEF State, c, k
  <2>7. InDrain(r) = InDrain(st) \ {c} /\ \A x \in Objs : r.drains[x] # 0 => r.drains[x] = st.drains[x]
    BY <2>2, <2>6 DEF InDrain
  <2>8. Driven(r)
    BY <2>2, <2>4, <2>6 DEF Driven
  <2>9. st.contexts[c].obj = o
    BY <1>1, <1>7 DEF c, Idle
  <2>10. Once(r.scheduled) /\ ToSet(r.scheduled) = ToSet(st.scheduled) \ {c}
    BY <1>1, <2>1, <2>6 DEF Apart
  <2>11. Good(r) /\ Pending(r) = Pending(st) \ {c}
    <3>1. r.total = Counted(st, o)
      BY <2>6 DEF t
    <3>2. /\ r.contexts = st.contexts /\ r.pool = st.pool /\ r.forked = st.forked
          /\ r.freed = <<c>> \o st.freed
      BY <2>6
    <3> QED BY <2>1, <2>5, <2>7, <2>8, <2>9, <2>10, <3>1, <3>2, CaughtGood
  <2> QED BY <2>1, <2>6, <2>9, <2>11
<1>8. ASSUME \A c \in Pending(st) : st.contexts[c].obj # o, r = [st EXCEPT !.total = t]
      PROVE  Good(r) /\ Kept /\ r.n = st.n /\ Pending(r) = Pending(st)
  <2>1. Counted(st, o)[o] \in Nat
    BY <1>2 DEF t
  <2>2. r = [st EXCEPT !.total = Counted(st, o)]
    BY <1>8 DEF t
  <2> HIDE DEF r
  <2> QED BY <1>8, <2>1, <2>2, CountedGood DEF t
<1> HIDE DEF r
<1>9. \/ /\ Good(r) /\ Kept /\ r.n = st.n /\ Pending(r) = Pending(st)
         /\ \A c \in Pending(st) : st.contexts[c].obj # o
      \/ Good(r) /\ Kept /\ \E c \in Pending(st) : st.contexts[c].obj = o /\ Caught(c)
  BY <1>6, <1>7, <1>8, RaiseCases DEF r, t, Counted
<1> QED BY <1>9 DEF r, t

\* A list of contexts is given another element at its end, or an element a new value.
Entered(s, c, e) == [i \in DOMAIN s \cup {c} |-> IF i = c THEN e ELSE s[i]]

LEMMA EnteredIs ==
  \A s \in Seq(Context) : \A c \in 1 .. Len(s) + 1 : \A e \in Context :
    LET t == Entered(s, c, e) IN
    /\ t \in Seq(Context) /\ DOMAIN t = DOMAIN s \cup {c} /\ t[c] = e
    /\ \A i \in DOMAIN s : i # c => t[i] = s[i]
<1> SUFFICES ASSUME NEW s \in Seq(Context), NEW c \in 1 .. Len(s) + 1, NEW e \in Context
             PROVE  LET t == Entered(s, c, e) IN
                    /\ t \in Seq(Context) /\ DOMAIN t = DOMAIN s \cup {c} /\ t[c] = e
                    /\ \A i \in DOMAIN s : i # c => t[i] = s[i]
  OBVIOUS
<1> DEFINE t == Entered(s, c, e)
<1> USE DEF Entered
<1>1. Len(s) \in Nat /\ DOMAIN s = 1 .. Len(s) /\ \A i \in 1 .. Len(s) : s[i] \in Context
  OBVIOUS
<1>2. \E n \in Nat : DOMAIN s \cup {c} = 1 .. n
  <2>1. CASE c \in 1 .. Len(s)
    BY <1>1, <2>1
  <2>2. CASE c = Len(s) + 1
    <3>1. (1 .. Len(s)) \cup {Len(s) + 1} = 1 .. Len(s) + 1
      BY <1>1
    <3> QED BY <1>1, <2>2, <3>1
  <2> QED BY <1>1, <2>1, <2>2
<1>3. PICK n \in Nat : DOMAIN s \cup {c} = 1 .. n
  BY <1>2
<1>4. t \in [1 .. n -> Context]
  BY <1>1, <1>3
<1>5. t \in Seq(Context)
  BY <1>3, <1>4
<1>6. c \in DOMAIN s \cup {c} /\ DOMAIN t = DOMAIN s \cup {c}
  OBVIOUS
<1>7. t[c] = e
  BY <1>6
<1>8. \A i \in DOMAIN s : i # c => t[i] = s[i]
  OBVIOUS
<1> QED BY <1>5, <1>6, <1>7, <1>8

\* A drain of o is scheduled in a context that nothing else is in.
LEMMA ScheduleGood ==
  ASSUME NEW st, Good(st), NEW o \in Objs, st.n < 0, st.total[o] = 0,
         \A e \in Pending(st) : st.contexts[e].obj # o
  PROVE  LET r == Schedule(st, o)
             c == Taken(st)
         IN  /\ Good(r) /\ r.n = 0 /\ r.total = st.total /\ r.at = st.at
             /\ r.cleared = st.cleared /\ r.halted = st.halted /\ r.freed = st.freed
             /\ r.forked = st.forked /\ r.drains = st.drains /\ r.procs = st.procs
             /\ r.running = st.running
             /\ Pending(r) = Pending(st) \cup {c} /\ c \notin Pending(st)
             /\ r.contexts[c] = [obj |-> o, count |-> -st.n]
             /\ \A e \in Pending(st) : r.contexts[e] = st.contexts[e]
<1> DEFINE c == Taken(st)
           r == Schedule(st, o)
           x == [obj |-> o, count |-> -st.n]
<1>1. /\ st \in State /\ Apart(st) /\ Clean(st) /\ Idle(st) /\ Driven(st)
      /\ st.contexts \in Seq(Context) /\ st.pool \in Seq(Nat) /\ st.scheduled \in Seq(Nat)
      /\ x \in Context
  BY DEF Good, State, Context
<1>2. Len(st.contexts) \in Nat /\ DOMAIN st.contexts = 1 .. Len(st.contexts)
  BY <1>1
<1>3. /\ c \in 1 .. Len(st.contexts) + 1 /\ c \in Nat \ {0}
      /\ c \notin ToSet(st.freed) \cup Pending(st)
      /\ ToSet(r.pool) = ToSet(st.pool) \ {c} /\ Once(r.pool) /\ r.pool \in Seq(Nat)
  <2>1. r.pool = IF st.pool # <<>> THEN Tail(st.pool) ELSE st.pool
    BY <1>1 DEF Schedule, State
  <2>2. CASE st.pool = <<>>
    <3>1. c = Len(st.contexts) + 1 /\ c \notin DOMAIN st.contexts
      BY <1>2, <2>2 DEF Taken
    <3> QED BY <1>1, <1>2, <2>1, <2>2, <3>1 DEF Apart
  <2>3. CASE st.pool # <<>>
    <3>1. c = Head(st.pool)
      BY <2>3 DEF Taken
    <3>2. /\ c \in Nat /\ ToSet(st.pool) = ToSet(Tail(st.pool)) \cup {c}
          /\ Once(Tail(st.pool)) /\ c \notin ToSet(Tail(st.pool)) /\ Tail(st.pool) \in Seq(Nat)
      BY <1>1, <2>3, <3>1, ListTail DEF Apart
    <3>3. c \in DOMAIN st.contexts /\ c \notin ToSet(st.freed) \cup Pending(st)
      BY <1>1, <3>2 DEF Apart
    <3> QED BY <1>2, <2>1, <2>3, <3>2, <3>3
  <2> QED BY <2>2, <2>3
<1> HIDE DEF c, r, x
<1>4. /\ r.contexts = Entered(st.contexts, c, x)
      /\ r.scheduled = Append(st.scheduled, c) /\ r.n = 0
      /\ r.forked = st.forked /\ r.freed = st.freed /\ r.total = st.total
      /\ r.drains = st.drains /\ r.procs = st.procs /\ r.running = st.running
      /\ r.at = st.at /\ r.cleared = st.cleared /\ r.halted = st.halted
  BY <1>1 DEF Schedule, State, Entered, c, r, x
<1>5. /\ r.contexts \in Seq(Context) /\ DOMAIN r.contexts = DOMAIN st.contexts \cup {c}
      /\ r.contexts[c] = x
      /\ \A e \in DOMAIN st.contexts : e # c => r.contexts[e] = st.contexts[e]
  <2>1. st.contexts \in Seq(Context) /\ c \in 1 .. Len(st.contexts) + 1 /\ x \in Context
    BY <1>1, <1>3
  <2>2. LET t == Entered(st.contexts, c, x) IN
        /\ t \in Seq(Context) /\ DOMAIN t = DOMAIN st.contexts \cup {c} /\ t[c] = x
        /\ \A i \in DOMAIN st.contexts : i # c => t[i] = st.contexts[i]
    BY ONLY <2>1, EnteredIs
  <2> QED BY <1>4, <2>2
<1>6. /\ r.scheduled \in Seq(Nat) /\ ToSet(r.scheduled) = ToSet(st.scheduled) \cup {c}
      /\ Once(r.scheduled)
  <2>1. c \notin ToSet(st.scheduled) /\ Once(st.scheduled) /\ c \in Nat
    BY <1>1, <1>3 DEF Apart, Pending
  <2> QED BY <1>1, <1>4, <2>1, ListAppend
<1>7. r \in State
  <2> DEFINE u == r.contexts
             v == r.pool
             w == r.scheduled
             z == 0
  <2>1. r = [st EXCEPT !.scheduled = w, !.n = z, !.pool = v, !.contexts = u]
    BY <1>1 DEF r, Schedule, State
  <2>2. u \in Seq(Context) /\ v \in Seq(Nat) /\ w \in Seq(Nat) /\ z \in Int
    BY <1>3, <1>5, <1>6
  <2> HIDE DEF u, v, w, z
  <2> QED BY <1>1, <2>1, <2>2 DEF State
<1>8. InDrain(r) = InDrain(st) /\ Pending(r) = Pending(st) \cup {c}
  BY <1>4, <1>6 DEF InDrain, Pending
<1>9. \A e \in Pending(st) : e \in DOMAIN st.contexts /\ e # c /\ r.contexts[e] = st.contexts[e]
  BY <1>1, <1>3, <1>5 DEF Apart
<1>10. Apart(r)
  <2>1. ToSet(r.pool) \cup ToSet(r.freed) \cup Pending(r) \subseteq DOMAIN r.contexts
    BY <1>1, <1>3, <1>4, <1>5, <1>8 DEF Apart
  <2>2. Once(r.freed) /\ Once(r.forked)
    BY <1>1, <1>4 DEF Apart
  <2>3. ToSet(r.pool) \cap (ToSet(r.freed) \cup Pending(r)) = {}
    BY <1>1, <1>3, <1>4, <1>8 DEF Apart
  <2>4. ToSet(r.freed) \cap Pending(r) = {}
    BY <1>1, <1>3, <1>4, <1>8 DEF Apart
  <2>5. c \notin ToSet(st.forked) \cup InDrain(st)
    BY <1>3 DEF Pending
  <2>6. /\ ToSet(r.scheduled) \cap (ToSet(r.forked) \cup InDrain(r)) = {}
        /\ ToSet(r.forked) \cap InDrain(r) = {}
    BY <1>1, <1>4, <1>6, <1>8, <2>5 DEF Apart
  <2> QED BY <1>3, <1>6, <2>1, <2>2, <2>3, <2>4, <2>6 DEF Apart
<1>11. Clean(r)
  <2>1. x.obj # NULL
    BY TreeAssumption DEF x
  <2> QED BY <1>1, <1>3, <1>5, <2>1 DEF Clean
<1>12. Idle(r)
  <2>1. r.contexts[c].obj = o /\ r.total[o] = 0
    BY <1>4, <1>5 DEF x
  <2>2. \A e \in Pending(r) : r.total[r.contexts[e].obj] = 0
    BY <1>1, <1>4, <1>8, <1>9, <2>1 DEF Idle
  <2>3. \A e, f \in Pending(r) : r.contexts[e].obj = r.contexts[f].obj => e = f
    BY <1>1, <1>8, <1>9, <2>1 DEF Idle
  <2>4. \A y \in Objs : r.drains[y] # 0 => r.contexts[r.drains[y]].obj = y
    <3> SUFFICES ASSUME NEW y \in Objs, st.drains[y] # 0 PROVE r.contexts[st.drains[y]].obj = y
      BY <1>4
    <3>1. st.drains[y] \in Pending(st)
      BY <1>1 DEF InDrain, Pending, Range, State
    <3> QED BY <1>1, <1>9, <3>1 DEF Idle
  <2> QED BY <2>2, <2>3, <2>4 DEF Idle
<1>13. Driven(r)
  <2>1. ASSUME NEW p \in Procs, st.running[p] # NULL
        PROVE  LET d == st.running[p] IN
               /\ d.ctxt # 0 /\ st.drains[d.obj] = d.ctxt /\ st.procs[d.obj] = p
               /\ r.contexts[d.ctxt] = [obj |-> d.obj, count |-> d.count]
    <3> DEFINE d == st.running[p]
    <3>1. d.obj \in Objs
      BY <1>1, <2>1 DEF State, Drain
    <3>2. /\ d.ctxt # 0 /\ st.drains[d.obj] = d.ctxt /\ st.procs[d.obj] = p
          /\ st.contexts[d.ctxt] = [obj |-> d.obj, count |-> d.count]
      BY <1>1, <2>1 DEF Driven
    <3>3. d.ctxt \in Pending(st)
      BY <1>1, <3>1, <3>2 DEF InDrain, Pending, Range, State
    <3> QED BY <1>9, <3>2, <3>3
  <2>2. \A y, z \in Objs : st.procs[y] = st.procs[z] /\ st.procs[y] # NULL => y = z
    BY <1>1 DEF Driven
  <2> QED BY <1>4, <2>1, <2>2 DEF Driven
<1>14. Good(r)
  BY <1>4, <1>7, <1>10, <1>11, <1>12, <1>13 DEF Good
<1> QED BY <1>3, <1>4, <1>5, <1>8, <1>9, <1>14 DEF c, r, x

\* m_drop: o counts less, or a drain of it is scheduled, or its count would fall
\* below zero.
LEMMA DropGood ==
  ASSUME NEW st, Good(st), NEW o \in Objs, st.n < 0
  PROVE  LET r == m_drop(st, o) IN
         /\ Good(r) /\ r.at = st.at /\ r.cleared = st.cleared /\ r.freed = st.freed
         /\ r.forked = st.forked /\ r.drains = st.drains /\ r.procs = st.procs
         /\ r.running = st.running
         /\ \/ /\ Counted(st, o)[o] < 0 /\ r.n = 0 /\ r.total = st.total
               /\ r.contexts = st.contexts /\ Pending(r) = Pending(st)
            \/ /\ Counted(st, o)[o] > 0 /\ r.n = st.n /\ r.total = Counted(st, o)
               /\ r.contexts = st.contexts /\ Pending(r) = Pending(st)
               /\ r.halted = st.halted
            \/ /\ Counted(st, o)[o] = 0 /\ r.n = 0 /\ r.total = Counted(st, o)
               /\ r.halted = st.halted
               /\ \E c : /\ c \notin Pending(st) /\ Pending(r) = Pending(st) \cup {c}
                         /\ r.contexts[c] = [obj |-> o, count |-> -st.n]
                         /\ \A e \in Pending(st) : r.contexts[e] = st.contexts[e]
<1> DEFINE s == [st EXCEPT !.total = Counted(st, o)]
           r == m_drop(st, o)
           k == Counted(st, o)[o]
<1>1. /\ st \in State /\ Idle(st) /\ st.n \in Int /\ st.total \in [Objs -> Nat]
      /\ k = st.total[o] + st.n /\ k \in Int
  BY DEF Good, State, Counted
<1>2. s.total = Counted(st, o) /\ s.n = st.n /\ r = CASE k < 0 -> [st EXCEPT !.n = 0, !.halted = IF st.cleared THEN @ ELSE "fatal"]
                                      [] k = 0 -> Schedule(s, o)
                                      [] k > 0 -> s
  <2>1. s = [st EXCEPT !.total[o] = @ + st.n] /\ s.total = Counted(st, o) /\ s.n = st.n
    BY <1>1 DEF State, Counted
  <2> HIDE DEF s
  <2>2. r = IF k < 0 THEN [st EXCEPT !.n = 0, !.halted = IF st.cleared THEN @ ELSE "fatal"]
            ELSE IF k = 0 THEN Schedule(s, o) ELSE s
    BY <2>1 DEF m_drop
  <2> HIDE DEF r
  <2> QED BY <1>1, <2>1, <2>2
<1> HIDE DEF r, k
<1>3. CASE k < 0
  <2> DEFINE z == 0
             h == IF st.cleared THEN st.halted ELSE "fatal"
  <2>1. r = [st EXCEPT !.n = z, !.halted = h]
    BY <1>1, <1>2, <1>3 DEF State
  <2>2. z \in Int /\ h \in {"no", "fatal"} /\ z = 0
    BY <1>1 DEF State
  <2> HIDE DEF z, h
  <2>3. r \in State
    BY <1>1, <2>1, <2>2 DEF State
  <2>4. /\ r.contexts = st.contexts /\ r.pool = st.pool /\ r.forked = st.forked
        /\ r.freed = st.freed /\ r.total = st.total /\ r.drains = st.drains
        /\ r.procs = st.procs /\ r.running = st.running /\ r.at = st.at
        /\ r.cleared = st.cleared /\ r.scheduled = st.scheduled /\ r.n = 0
    BY <1>1, <2>1, <2>2 DEF State
  <2>5. Pending(r) = Pending(st) /\ InDrain(r) = InDrain(st)
    BY <2>4 DEF Pending, InDrain
  <2>6. Apart(r) /\ Clean(r) /\ Driven(r) /\ Idle(r)
    BY <2>4, <2>5 DEF Good, Apart, Clean, Driven, Idle
  <2> QED BY <1>3, <2>3, <2>4, <2>5, <2>6 DEF Good, r, k
<1>4. \A c \in Pending(st) : k >= 0 => st.contexts[c].obj # o
  BY <1>1 DEF Idle
<1>5. CASE k >= 0
  <2>1. k \in Nat /\ \A c \in Pending(st) : st.contexts[c].obj # o
    BY <1>1, <1>4, <1>5
  <2>2. /\ Good(s) /\ s.n = st.n /\ Pending(s) = Pending(st) /\ s.total = Counted(st, o)
        /\ s.contexts = st.contexts /\ s.at = st.at /\ s.cleared = st.cleared
        /\ s.halted = st.halted /\ s.freed = st.freed
        /\ s.forked = st.forked /\ s.drains = st.drains
        /\ s.procs = st.procs /\ s.running = st.running
    <3> DEFINE u == s
    <3>1. u = [st EXCEPT !.total = Counted(st, o)]
      OBVIOUS
    <3> HIDE DEF u
    <3>2. /\ Good(u) /\ u.n = st.n /\ Pending(u) = Pending(st) /\ u.total = Counted(st, o)
          /\ u.contexts = st.contexts /\ u.at = st.at /\ u.cleared = st.cleared
          /\ u.halted = st.halted /\ u.freed = st.freed
          /\ u.forked = st.forked /\ u.drains = st.drains
          /\ u.procs = st.procs /\ u.running = st.running
      BY <2>1, <3>1, CountedGood DEF k
    <3> QED BY <3>2 DEF u
  <2> HIDE DEF s
  <2>3. CASE k > 0
    <3>1. r = s
      BY <1>1, <1>2, <2>3
    <3> QED BY <2>2, <2>3, <3>1 DEF r, k
  <2>4. CASE k = 0
    <3>1. r = Schedule(s, o)
      BY <1>2, <2>4
    <3>2. s.total[o] = 0 /\ \A e \in Pending(s) : s.contexts[e].obj # o
      BY <2>1, <2>2, <2>4 DEF k
    <3>3. Good(s) /\ s.n < 0
      BY <2>2
    <3>4. LET c == Taken(s) IN
          /\ Good(r) /\ r.n = 0 /\ r.total = s.total /\ r.at = s.at
          /\ r.cleared = s.cleared /\ r.halted = s.halted /\ r.freed = s.freed
          /\ r.forked = s.forked /\ r.drains = s.drains /\ r.procs = s.procs
          /\ r.running = s.running
          /\ Pending(r) = Pending(s) \cup {c} /\ c \notin Pending(s)
          /\ r.contexts[c] = [obj |-> o, count |-> -s.n]
          /\ \A e \in Pending(s) : r.contexts[e] = s.contexts[e]
      BY ONLY <3>1, <3>2, <3>3, o \in Objs, ScheduleGood
    <3> HIDE DEF s
    <3> QED BY ONLY <2>2, <2>4, <3>4 DEF r, k
  <2> QED BY <1>1, <1>5, <2>3, <2>4
<1> QED BY <1>1, <1>3, <1>5

\* What becomes of a change st.n that has reached st.at: it stops there, or goes on
\* unchanged, or takes a drain back, or starts one.
Stops(st, r) ==
  /\ st.n < 0 => Counted(st, st.at)[st.at] < 0
  /\ st.n = 0 => r.halted = st.halted
  /\ st.n <= 0 /\ r.n = 0 /\ r.total = st.total /\ r.contexts = st.contexts
  /\ Pending(r) = Pending(st)

GoesOn(st, r) ==
  /\ st.n # 0 /\ r.n = st.n /\ r.total = Counted(st, st.at) /\ r.contexts = st.contexts
  /\ Counted(st, st.at)[st.at] > 0 /\ Pending(r) = Pending(st) /\ r.halted = st.halted
  /\ \A c \in Pending(st) : st.contexts[c].obj # st.at

Catches(st, r) ==
  /\ st.n > 0 /\ r.total = Counted(st, st.at) /\ r.contexts = st.contexts
  /\ r.halted = st.halted
  /\ \E c \in Pending(st) : /\ st.contexts[c].obj = st.at /\ Pending(r) = Pending(st) \ {c}
                            /\ r.n = st.n - st.contexts[c].count

Drains(st, r) ==
  /\ st.n < 0 /\ r.n = 0 /\ r.total = Counted(st, st.at) /\ r.halted = st.halted
  /\ Counted(st, st.at)[st.at] = 0
  /\ \E c : /\ c \notin Pending(st) /\ Pending(r) = Pending(st) \cup {c}
            /\ r.contexts[c] = [obj |-> st.at, count |-> -st.n]
            /\ \A e \in Pending(st) : r.contexts[e] = st.contexts[e]

\* A drop leaves the drains that run alone.
Spares(st, r) ==
  r.freed = st.freed /\ r.forked = st.forked /\ r.drains = st.drains
    /\ r.procs = st.procs /\ r.running = st.running

Reaches(st, r) ==
  /\ Good(r) /\ r.at = Parent[st.at] /\ r.cleared = st.cleared /\ r.forked = st.forked
  /\ Stops(st, r) \/ GoesOn(st, r) \/ Catches(st, r) \/ Drains(st, r)
  /\ st.n <= 0 => Spares(st, r)

\* Where a change has come does not matter.
LEMMA AnywhereGood ==
  ASSUME NEW s, Good(s), NEW v \in Objs \cup {NULL}, NEW r, r = [s EXCEPT !.at = v]
  PROVE  /\ Good(r) /\ r.at = v /\ r.n = s.n /\ r.total = s.total /\ r.contexts = s.contexts
         /\ Pending(r) = Pending(s) /\ r.cleared = s.cleared /\ r.halted = s.halted
         /\ Spares(s, r)
<1>1. s \in State
  BY DEF Good
<1>2. r \in State
  BY <1>1 DEF State
<1>3. /\ r.contexts = s.contexts /\ r.pool = s.pool /\ r.forked = s.forked
      /\ r.freed = s.freed /\ r.total = s.total /\ r.drains = s.drains
      /\ r.procs = s.procs /\ r.running = s.running /\ r.at = v /\ r.halted = s.halted
      /\ r.cleared = s.cleared /\ r.scheduled = s.scheduled /\ r.n = s.n
  BY <1>1 DEF State
<1>4. Pending(r) = Pending(s) /\ InDrain(r) = InDrain(s)
  BY <1>3 DEF Pending, InDrain
<1>5. Apart(r) /\ Clean(r) /\ Driven(r) /\ Idle(r)
  BY <1>3, <1>4 DEF Good, Apart, Clean, Driven, Idle
<1> QED BY <1>2, <1>3, <1>4, <1>5 DEF Good, Spares

\* m_propagate.
LEMMA PropagateReaches ==
  ASSUME NEW st, Good(st), st.at # NULL
  PROVE  Reaches(st, m_propagate(st))
<1> DEFINE o == st.at
           s == IF st.n > 0 THEN m_raise(st, o) ELSE IF st.n < 0 THEN m_drop(st, o) ELSE st
           r == m_propagate(st)
<1>1. o \in Objs /\ st.n \in Int /\ st.total \in [Objs -> Nat]
  BY DEF Good, State
<1>2. Parent[o] \in Objs \cup {NULL}
  BY <1>1, TreeAssumption
<1>3. r = [s EXCEPT !.at = Parent[o]]
  BY DEF m_propagate
<1> SUFFICES Reaches(st, r)
  OBVIOUS
<1> HIDE DEF r
<1>4. Counted(st, o)[o] = st.total[o] + st.n
  BY <1>1 DEF Counted
<1>5. ASSUME NEW q, Good(q), q.cleared = st.cleared, q.forked = st.forked, r = [q EXCEPT !.at = Parent[o]],
             Stops(st, q) \/ GoesOn(st, q) \/ Catches(st, q) \/ Drains(st, q),
             st.n <= 0 => Spares(st, q)
      PROVE  Reaches(st, r)
  <2>1. /\ Good(r) /\ r.at = Parent[o] /\ r.n = q.n /\ r.total = q.total
        /\ r.contexts = q.contexts /\ Pending(r) = Pending(q) /\ r.cleared = q.cleared
        /\ r.halted = q.halted /\ Spares(q, r)
    BY <1>2, <1>5, AnywhereGood
  <2>2. Stops(st, r) \/ GoesOn(st, r) \/ Catches(st, r) \/ Drains(st, r)
    BY <1>5, <2>1 DEF Stops, GoesOn, Catches, Drains
  <2>3. st.n <= 0 => Spares(st, r)
    BY <1>5, <2>1 DEF Spares
  <2>4. r.forked = st.forked
    BY <1>5, <2>1 DEF Spares
  <2> QED BY <1>5, <2>1, <2>2, <2>3, <2>4 DEF Reaches
<1>6. CASE st.n > 0
  <2>1. s = m_raise(st, o)
    BY <1>6
  <2> HIDE DEF s
  <2>2. /\ Good(s) /\ s.total = Counted(st, o)
        /\ s.contexts = st.contexts /\ s.cleared = st.cleared /\ s.halted = st.halted
        /\ s.forked = st.forked
        /\ \/ /\ s.n = st.n /\ Pending(s) = Pending(st)
              /\ \A c \in Pending(st) : st.contexts[c].obj # o
           \/ \E c \in Pending(st) :
                /\ st.contexts[c].obj = o /\ s.n = st.n - st.contexts[c].count
                /\ Pending(s) = Pending(st) \ {c}
    BY <1>1, <1>6, <2>1, RaiseGood
  <2>3. Counted(st, o)[o] > 0
    BY <1>1, <1>4, <1>6
  <2>4. GoesOn(st, s) \/ Catches(st, s)
    BY <1>6, <2>2, <2>3 DEF GoesOn, Catches
  <2> QED BY <1>3, <1>5, <1>6, <1>1, <2>2, <2>4
<1>7. CASE st.n < 0
  <2>1. s = m_drop(st, o)
    BY <1>1, <1>7
  <2> HIDE DEF s
  <2>2. Good(s) /\ s.cleared = st.cleared /\ s.forked = st.forked /\ Spares(st, s)
    BY <1>1, <1>7, <2>1, DropGood DEF Spares
  <2>3. \/ /\ Counted(st, o)[o] < 0 /\ s.n = 0 /\ s.total = st.total
           /\ s.contexts = st.contexts /\ Pending(s) = Pending(st)
        \/ /\ Counted(st, o)[o] > 0 /\ s.n = st.n /\ s.total = Counted(st, o)
           /\ s.contexts = st.contexts /\ Pending(s) = Pending(st)
           /\ s.halted = st.halted
        \/ /\ Counted(st, o)[o] = 0 /\ s.n = 0 /\ s.total = Counted(st, o)
           /\ s.halted = st.halted
           /\ \E c : /\ c \notin Pending(st) /\ Pending(s) = Pending(st) \cup {c}
                     /\ s.contexts[c] = [obj |-> o, count |-> -st.n]
                     /\ \A e \in Pending(st) : s.contexts[e] = st.contexts[e]
    BY <1>1, <1>7, <2>1, DropGood
  <2>4. Counted(st, o)[o] > 0 => \A c \in Pending(st) : st.contexts[c].obj # o
    BY <1>1, <1>4, <1>7 DEF Good, Idle
  <2>5. Stops(st, s) \/ GoesOn(st, s) \/ Drains(st, s)
    BY <1>1, <1>7, <2>3, <2>4 DEF Stops, GoesOn, Drains
  <2> QED BY <1>3, <1>5, <2>2, <2>5
<1>8. CASE st.n = 0
  <2>1. s = st
    BY <1>8
  <2>2. Stops(st, st) /\ Spares(st, st)
    BY <1>8 DEF Stops, Spares
  <2> QED BY <1>3, <1>5, <2>1, <2>2
<1> QED BY <1>1, <1>6, <1>7, <1>8

\* The root in s, and in t after a change has gone up: it is as it was, or counts
\* something, or counted something and is drained.
DrainsTop(st) == \E c \in Pending(st) : st.contexts[c].obj = top

RootSame(s, t) == t.total[top] = s.total[top] /\ (DrainsTop(t) <=> DrainsTop(s))

RootMoves(s, t) ==
  \/ RootSame(s, t)
  \/ t.total[top] > 0
  \/ s.total[top] > 0 /\ DrainsTop(t)

\* The drains of s go on in t.
KeepsDrains(s, t) ==
  Spares(s, t) /\ \A c \in Pending(s) : c \in Pending(t) /\ t.contexts[c] = s.contexts[c]

\* A change that has not reached the root leaves it as it is.
LEMMA ReachesRoot ==
  ASSUME NEW st, Good(st), st.at \in Objs, NEW r, Reaches(st, r)
  PROVE  /\ st.at # top => RootSame(st, r)
         /\ st.at = top => RootMoves(st, r)
         /\ st.n <= 0 => KeepsDrains(st, r) /\ r.n <= 0
<1>1. /\ st \in State /\ st.n \in Int /\ top \in Objs
      /\ r.total = st.total \/ r.total = Counted(st, st.at)
  BY TreeAssumption DEF Good, State, Reaches, Stops, GoesOn, Catches, Drains
<1>2. \A x \in Objs : x # st.at => Counted(st, st.at)[x] = st.total[x]
  BY <1>1 DEF State, Counted
<1>3. st.at # top => r.total[top] = st.total[top]
  BY <1>1, <1>2
<1>4. st.at # top => (DrainsTop(r) <=> DrainsTop(st))
  <2> SUFFICES ASSUME st.at # top PROVE DrainsTop(r) <=> DrainsTop(st)
    OBVIOUS
  <2>1. CASE Stops(st, r) \/ GoesOn(st, r)
    BY <2>1 DEF Stops, GoesOn, DrainsTop
  <2>2. CASE Catches(st, r)
    BY <2>2 DEF Catches, DrainsTop
  <2>3. CASE Drains(st, r)
    BY <2>3 DEF Drains, DrainsTop
  <2> QED BY <2>1, <2>2, <2>3 DEF Reaches
<1>5. st.at = top => RootMoves(st, r)
  <2> SUFFICES ASSUME st.at = top PROVE RootMoves(st, r)
    OBVIOUS
  <2>0. Counted(st, top)[top] = st.total[top] + st.n /\ st.total[top] \in Nat
    BY <1>1 DEF State, Counted
  <2>1. CASE Stops(st, r)
    BY <2>1 DEF Stops, RootMoves, RootSame, DrainsTop
  <2>2. CASE GoesOn(st, r)
    BY <2>2 DEF GoesOn, RootMoves
  <2>3. CASE Catches(st, r)
    BY <1>1, <2>0, <2>3 DEF Catches, RootMoves
  <2>4. CASE Drains(st, r)
    BY <1>1, <2>0, <2>4 DEF Drains, RootMoves, DrainsTop
  <2> QED BY <2>1, <2>2, <2>3, <2>4 DEF Reaches
<1>6. st.n <= 0 => KeepsDrains(st, r) /\ r.n <= 0
  <2> SUFFICES ASSUME st.n <= 0 PROVE KeepsDrains(st, r) /\ r.n <= 0
    OBVIOUS
  <2>1. Spares(st, r)
    BY DEF Reaches
  <2>2. CASE Stops(st, r) \/ GoesOn(st, r)
    BY <2>1, <2>2 DEF Stops, GoesOn, KeepsDrains
  <2>3. CASE Drains(st, r)
    BY <2>1, <2>3 DEF Drains, KeepsDrains
  <2>4. ~Catches(st, r)
    BY <1>1 DEF Catches
  <2> QED BY <2>2, <2>3, <2>4 DEF Reaches
<1> QED BY <1>3, <1>4, <1>5, <1>6 DEF RootSame

\* A change on its way through the tree.
LEMMA ClimbGood ==
  ASSUME NEW st, Good(st), st.at \in Objs
  PROVE  LET r == Climbed(st) IN
         /\ Good(r) /\ r.cleared = st.cleared /\ r.forked = st.forked /\ RootMoves(st, r)
         /\ st.n <= 0 => KeepsDrains(st, r)
<1> DEFINE Way(s) == /\ Good(s) /\ s.cleared = st.cleared /\ s.forked = st.forked
                     /\ RootMoves(st, s)
                     /\ s.at # NULL => RootSame(st, s)
                     /\ st.n <= 0 => KeepsDrains(st, s) /\ s.n <= 0
           D == {s \in State : Way(s)}
<1>1. st \in D
  <2>1. st \in State /\ RootSame(st, st) /\ RootMoves(st, st) /\ KeepsDrains(st, st)
    BY DEF Good, RootSame, RootMoves, KeepsDrains, Spares
  <2> QED BY <2>1
<1>2. ASSUME NEW s \in D, s.at # NULL PROVE m_propagate(s) \in D
  <2> DEFINE r == m_propagate(s)
  <2>1. Good(s) /\ s.at \in Objs /\ RootSame(st, s) /\ s.cleared = st.cleared
        /\ s.forked = st.forked
        /\ (st.n <= 0 => KeepsDrains(st, s) /\ s.n <= 0)
    BY <1>2 DEF State
  <2>2. Reaches(s, r)
    BY <1>2, <2>1, PropagateReaches
  <2> HIDE DEF r
  <2>3. /\ Good(r) /\ r \in State /\ r.at = Parent[s.at] /\ r.cleared = st.cleared
        /\ r.forked = st.forked
    BY <2>1, <2>2 DEF Reaches, Good
  <2>4. /\ s.at # top => RootSame(s, r)
        /\ s.at = top => RootMoves(s, r)
        /\ s.n <= 0 => KeepsDrains(s, r) /\ r.n <= 0
    BY <2>1, <2>2, ReachesRoot
  <2>5. r.at # NULL <=> s.at # top
    BY <2>1, <2>3, TreeAssumption
  <2>6. RootMoves(st, r) /\ (r.at # NULL => RootSame(st, r))
    BY <2>1, <2>4, <2>5 DEF RootMoves, RootSame
  <2>7. st.n <= 0 => KeepsDrains(st, r) /\ r.n <= 0
    <3> SUFFICES ASSUME st.n <= 0 PROVE KeepsDrains(st, r) /\ r.n <= 0
      OBVIOUS
    <3>1. KeepsDrains(st, s) /\ KeepsDrains(s, r) /\ r.n <= 0
      BY <2>1, <2>4
    <3> QED BY <3>1 DEF KeepsDrains, Spares
  <2> QED BY <2>3, <2>6, <2>7 DEF r
<1> HIDE DEF D
<1>3. PICK up \in [0 .. Cardinality(Objs) -> D] : up[Cardinality(Objs)] = Climbed(st)
  BY <1>1, <1>2, ClimbTrace
<1>4. Climbed(st) \in D
  <2>1. Cardinality(Objs) \in Nat
    BY FS_CardinalityType, TreeAssumption
  <2> QED BY <1>3, <2>1
<1> QED BY <1>4 DEF D

\* The contexts of a list are freed, and with them all that were caught.
Freed(st, list) == [Free(st, list) EXCEPT !.freed = <<>>]

\* Contexts that are nowhere else go back to the pool.
LEMMA FreeGood ==
  ASSUME NEW st, Good(st), NEW list \in Seq(Nat), Once(list),
         ToSet(list) \subseteq DOMAIN st.contexts \ (ToSet(st.pool) \cup Pending(st))
  PROVE  LET r == Freed(st, list) IN
         /\ Good(r) /\ r.freed = <<>> /\ r.total = st.total /\ r.cleared = st.cleared
         /\ r.halted = st.halted /\ r.n = st.n /\ r.at = st.at
         /\ r.scheduled = st.scheduled /\ r.forked = st.forked /\ r.drains = st.drains
         /\ r.procs = st.procs /\ r.running = st.running /\ Pending(r) = Pending(st)
         /\ \A c \in Pending(st) : r.contexts[c] = st.contexts[c]
<1> DEFINE r == Freed(st, list)
           L == ToSet(list)
           u == [c \in DOMAIN st.contexts |-> IF c \in L THEN Cleared ELSE st.contexts[c]]
           v == st.pool \o list
           e == <<>>
<1>1. /\ st \in State /\ Apart(st) /\ Clean(st) /\ Idle(st) /\ Driven(st)
      /\ st.contexts \in Seq(Context) /\ st.pool \in Seq(Nat) /\ e \in Seq(Nat)
  BY DEF Good, State
<1>2. Cleared \in Context
  BY DEF Cleared, Context
<1>3. /\ u \in Seq(Context) /\ DOMAIN u = DOMAIN st.contexts
      /\ \A c \in DOMAIN st.contexts : u[c] = IF c \in L THEN Cleared ELSE st.contexts[c]
  <2>1. PICK n \in Nat : DOMAIN st.contexts = 1 .. n
    BY <1>1
  <2>2. \A i \in 1 .. n : st.contexts[i] \in Context
    BY <1>1, <2>1
  <2>3. u \in [1 .. n -> Context]
    BY <1>2, <2>1, <2>2
  <2>4. u \in Seq(Context)
    BY <2>1, <2>3
  <2> QED BY <2>4
<1>4. /\ v \in Seq(Nat) /\ ToSet(v) = ToSet(st.pool) \cup L /\ Once(v)
  <2>1. Once(st.pool) /\ ToSet(st.pool) \cap L = {}
    BY <1>1 DEF Apart
  <2> QED BY <1>1, <2>1, ListConcat
<1>5. ToSet(e) = {} /\ Once(e) /\ e = <<>>
  <2>1. DOMAIN <<>> = {}
    OBVIOUS
  <2> QED BY <2>1 DEF ToSet, Once
<1>6. r = [st EXCEPT !.contexts = u, !.pool = v, !.freed = e]
  BY <1>1 DEF Freed, Free, State
<1> HIDE DEF r, L, u, v, e
<1>7. r \in State
  BY <1>1, <1>3, <1>4, <1>6 DEF State
<1>8. /\ r.contexts = u /\ r.pool = v /\ r.forked = st.forked
      /\ r.freed = e /\ r.total = st.total /\ r.drains = st.drains
      /\ r.procs = st.procs /\ r.running = st.running /\ r.at = st.at /\ r.halted = st.halted
      /\ r.cleared = st.cleared /\ r.scheduled = st.scheduled /\ r.n = st.n
  BY <1>1, <1>6 DEF State
<1>9. Pending(r) = Pending(st) /\ InDrain(r) = InDrain(st)
  BY <1>8 DEF Pending, InDrain
<1>10. \A c \in Pending(st) : c \in DOMAIN st.contexts /\ r.contexts[c] = st.contexts[c]
  BY <1>1, <1>3, <1>8 DEF Apart, L
<1>11. L \subseteq DOMAIN st.contexts /\ L \cap Pending(st) = {}
  BY DEF L
<1>12. Apart(r)
  <2>1. ToSet(r.pool) \cup ToSet(r.freed) \cup Pending(r) \subseteq DOMAIN r.contexts
    BY <1>1, <1>3, <1>4, <1>5, <1>8, <1>9, <1>11 DEF Apart
  <2>2. Once(r.pool) /\ Once(r.freed) /\ Once(r.scheduled) /\ Once(r.forked)
    BY <1>1, <1>4, <1>5, <1>8 DEF Apart
  <2>3. /\ ToSet(r.pool) \cap (ToSet(r.freed) \cup Pending(r)) = {}
        /\ ToSet(r.freed) \cap Pending(r) = {}
    BY <1>1, <1>4, <1>5, <1>8, <1>9, <1>11 DEF Apart
  <2>4. /\ ToSet(r.scheduled) \cap (ToSet(r.forked) \cup InDrain(r)) = {}
        /\ ToSet(r.forked) \cap InDrain(r) = {}
    BY <1>1, <1>8, <1>9 DEF Apart
  <2> QED BY <2>1, <2>2, <2>3, <2>4 DEF Apart
<1>13. Clean(r)
  BY <1>1, <1>3, <1>4, <1>8 DEF Clean
<1>14. Idle(r)
  <2>1. \A x \in Objs : st.drains[x] # 0 => st.drains[x] \in Pending(st)
    BY <1>1 DEF State, InDrain, Pending, Range
  <2>2. \A c \in Pending(r) : r.total[r.contexts[c].obj] = 0
    BY <1>1, <1>8, <1>9, <1>10 DEF Idle
  <2>3. \A c, f \in Pending(r) : r.contexts[c].obj = r.contexts[f].obj => c = f
    BY <1>1, <1>9, <1>10 DEF Idle
  <2>4. \A x \in Objs : r.drains[x] # 0 => r.contexts[r.drains[x]].obj = x
    BY <1>1, <1>8, <1>10, <2>1 DEF Idle
  <2> QED BY <2>2, <2>3, <2>4 DEF Idle
<1>15. Driven(r)
  <2>1. ASSUME NEW p \in Procs, st.running[p] # NULL
        PROVE  LET d == st.running[p] IN
               /\ d.ctxt # 0 /\ st.drains[d.obj] = d.ctxt /\ st.procs[d.obj] = p
               /\ r.contexts[d.ctxt] = [obj |-> d.obj, count |-> d.count]
    <3> DEFINE d == st.running[p]
    <3>1. d.obj \in Objs
      BY <1>1, <2>1 DEF State, Drain
    <3>2. /\ d.ctxt # 0 /\ st.drains[d.obj] = d.ctxt /\ st.procs[d.obj] = p
          /\ st.contexts[d.ctxt] = [obj |-> d.obj, count |-> d.count]
      BY <1>1, <2>1 DEF Driven
    <3>3. d.ctxt \in Pending(st)
      BY <1>1, <3>1, <3>2 DEF InDrain, Pending, Range, State
    <3> QED BY <1>10, <3>2, <3>3
  <2>2. \A y, z \in Objs : st.procs[y] = st.procs[z] /\ st.procs[y] # NULL => y = z
    BY <1>1 DEF Driven
  <2> QED BY <1>8, <2>1, <2>2 DEF Driven
<1>16. r.n > 0 => r.forked = <<>>
  BY <1>8 DEF Good
<1>17. Good(r)
  BY <1>7, <1>12, <1>13, <1>14, <1>15, <1>16 DEF Good
<1> QED BY <1>5, <1>8, <1>9, <1>10, <1>17 DEF r

\* A change that reaches o.
LEMMA PropagatedGood ==
  ASSUME NEW st, Good(st), NEW n \in Int, NEW o \in Objs, n > 0 => st.forked = <<>>
  PROVE  LET r == Propagated(st, n, o) IN
         /\ Good(r) /\ r.freed = <<>> /\ r.cleared = st.cleared /\ r.forked = st.forked
         /\ RootMoves(st, r)
         /\ n <= 0 => /\ r.drains = st.drains /\ r.procs = st.procs
                      /\ r.running = st.running
                      /\ \A c \in Pending(st) : c \in Pending(r) /\ r.contexts[c] = st.contexts[c]
<1> DEFINE a == [st EXCEPT !.n = n, !.at = o]
           s == Climbed(a)
           r == Propagated(st, n, o)
<1>1. st \in State
  BY DEF Good
<1>2. /\ a \in State /\ a.contexts = st.contexts /\ a.pool = st.pool /\ a.forked = st.forked
      /\ a.freed = st.freed /\ a.total = st.total /\ a.drains = st.drains
      /\ a.procs = st.procs /\ a.running = st.running /\ a.at = o /\ a.halted = st.halted
      /\ a.cleared = st.cleared /\ a.scheduled = st.scheduled /\ a.n = n
  BY <1>1 DEF State
<1>3. r = Freed(s, s.freed)
  BY DEF Propagated, Freed
<1> HIDE DEF a, s, r
<1>4. Pending(a) = Pending(st) /\ InDrain(a) = InDrain(st)
  BY <1>2 DEF Pending, InDrain
<1>5. Good(a)
  <2>1. Apart(a) /\ Clean(a) /\ Idle(a) /\ Driven(a)
    BY <1>2, <1>4 DEF Good, Apart, Clean, Idle, Driven
  <2> QED BY <1>2, <2>1 DEF Good
<1>6. Good(s) /\ s.cleared = a.cleared /\ s.forked = a.forked /\ RootMoves(a, s) /\ (a.n <= 0 => KeepsDrains(a, s))
  BY <1>2, <1>5, ClimbGood DEF s
<1>7. /\ s.freed \in Seq(Nat) /\ Once(s.freed)
      /\ ToSet(s.freed) \subseteq DOMAIN s.contexts \ (ToSet(s.pool) \cup Pending(s))
  BY <1>6 DEF Good, State, Apart
<1>8. /\ Good(r) /\ r.freed = <<>> /\ r.total = s.total /\ r.cleared = s.cleared
      /\ r.forked = s.forked /\ r.drains = s.drains
      /\ r.procs = s.procs /\ r.running = s.running /\ Pending(r) = Pending(s)
      /\ \A c \in Pending(s) : r.contexts[c] = s.contexts[c]
  BY <1>3, <1>6, <1>7, FreeGood
<1>9. RootMoves(st, r)
  <2>1. DrainsTop(r) <=> DrainsTop(s)
    BY <1>8 DEF DrainsTop
  <2>2. DrainsTop(a) <=> DrainsTop(st)
    BY <1>2, <1>4 DEF DrainsTop
  <2> QED BY <1>2, <1>6, <1>8, <2>1, <2>2 DEF RootMoves, RootSame
<1>10. n <= 0 => /\ r.drains = st.drains /\ r.procs = st.procs
                 /\ r.running = st.running
                 /\ \A c \in Pending(st) : c \in Pending(r) /\ r.contexts[c] = st.contexts[c]
  BY <1>2, <1>4, <1>6, <1>8 DEF KeepsDrains, Spares
<1> QED BY <1>2, <1>6, <1>8, <1>9, <1>10 DEF r

\* The state of the objection after a step is what the step computed.
LEMMA BecomesGood ==
  ASSUME NEW st, Good(st), Becomes(st), m_cleared' \in BOOLEAN
  PROVE  /\ Good(Current') /\ Pending(Current') = Pending(st)
         /\ Current'.total = st.total /\ Current'.contexts = st.contexts
         /\ Current'.forked = st.forked /\ Current'.procs = st.procs
<1> DEFINE r == Current'
           z == 0
           e == <<>>
           k == m_cleared'
<1>1. st \in State
  BY DEF Good
<1>2. r = [n |-> z, at |-> NULL, total |-> st.total, contexts |-> st.contexts,
           pool |-> st.pool, scheduled |-> st.scheduled, forked |-> st.forked,
           drains |-> st.drains, procs |-> st.procs, running |-> st.running,
           freed |-> e, cleared |-> k, halted |-> st.halted]
  BY DEF Becomes, Current
<1>3. z \in Int /\ z = 0 /\ e \in Seq(Nat) /\ ToSet(e) = {} /\ Once(e) /\ k \in BOOLEAN
  <2>1. DOMAIN <<>> = {}
    OBVIOUS
  <2> QED BY <2>1 DEF ToSet, Once
<1> HIDE DEF r, z, e, k
<1>4. r \in State
  BY <1>1, <1>2, <1>3 DEF State
<1>5. /\ r.contexts = st.contexts /\ r.pool = st.pool /\ r.forked = st.forked
      /\ r.freed = e /\ r.total = st.total /\ r.drains = st.drains
      /\ r.procs = st.procs /\ r.running = st.running /\ r.halted = st.halted
      /\ r.scheduled = st.scheduled /\ r.n = 0
  BY <1>1, <1>2, <1>3 DEF State
<1>6. Pending(r) = Pending(st) /\ InDrain(r) = InDrain(st)
  BY <1>5 DEF Pending, InDrain
<1>7. Apart(r)
  BY <1>3, <1>5, <1>6 DEF Good, Apart
<1>8. Clean(r) /\ Idle(r) /\ Driven(r)
  BY <1>5, <1>6 DEF Good, Clean, Idle, Driven
<1>9. Good(r)
  BY <1>4, <1>5, <1>7, <1>8 DEF Good
<1> QED BY <1>5, <1>6, <1>9 DEF r

-----------------------------------------------------------------------------
(* The steps *)

\* What every step does: Sound is kept, and the root takes a step of its own.
Follows == Sound' /\ (Root!Next \/ AtRoot' = AtRoot)

LEMMA RootFollows ==
  ASSUME Good(Current), Good(Current'), RootMoves(Current, Current'),
         m_top_all_dropped \in BOOLEAN, m_top_all_dropped' \in {FALSE, m_top_all_dropped}
  PROVE  Root!Next \/ AtRoot' = AtRoot
<1> DEFINE T == m_total_count[top]
           D == Draining(top) # {}
<1>1. /\ D <=> DrainsTop(Current)
      /\ D' <=> DrainsTop(Current')
      /\ T = Current.total[top] /\ T' = Current'.total[top]
  BY DEF Draining, DrainsTop, Pending, InDrain, Current
<1>2. T \in Nat /\ T' \in Nat /\ ~(T > 0 /\ D) /\ ~(T' > 0 /\ D')
  <2>1. ASSUME NEW st, Good(st) PROVE st.total[top] \in Nat /\ (DrainsTop(st) => st.total[top] = 0)
    <3>1. st \in State /\ top \in Objs
      BY <2>1, TreeAssumption DEF Good
    <3>2. st.total[top] \in Nat
      BY <3>1 DEF State
    <3>3. DrainsTop(st) => st.total[top] = 0
      BY <2>1 DEF Good, Idle, DrainsTop
    <3> QED BY <3>2, <3>3
  <2>2. T \in Nat /\ (D => T = 0)
    BY <1>1, <2>1
  <2>3. T' \in Nat /\ (D' => T' = 0)
    BY <1>1, <2>1
  <2> HIDE DEF T, D
  <2> QED BY <2>2, <2>3
<1>3. \/ T' = T /\ (D' <=> D)
      \/ T' > 0
      \/ T > 0 /\ D'
  BY <1>1 DEF RootMoves, RootSame
<1>4. /\ AtRoot = IF T > 0 THEN "raised" ELSE IF D THEN "draining"
                  ELSE IF m_top_all_dropped THEN "told" ELSE "none"
      /\ AtRoot' = IF T' > 0 THEN "raised" ELSE IF D' THEN "draining"
                   ELSE IF m_top_all_dropped' THEN "told" ELSE "none"
  BY DEF AtRoot
<1> HIDE DEF T, D
<1>5. CASE T' > 0
  BY <1>4, <1>5 DEF Root!Next, Root!Raise
<1>6. CASE T > 0 /\ D'
  BY <1>2, <1>4, <1>6 DEF Root!Next, Root!Drop
<1>7. CASE T' = T /\ (D' <=> D)
  <2>1. CASE T' > 0 \/ D'
    BY <1>2, <1>4, <1>7, <2>1
  <2>2. CASE ~(T' > 0) /\ ~D'
    <3>1. CASE m_top_all_dropped' = FALSE
      BY <1>4, <2>2, <3>1 DEF Root!Next, Root!Clear
    <3>2. CASE m_top_all_dropped' = m_top_all_dropped
      BY <1>4, <1>7, <2>2, <3>2
    <3> QED BY <3>1, <3>2
  <2> QED BY <2>1, <2>2
<1> QED BY <1>3, <1>5, <1>6, <1>7

\* While the testbench runs, no drain waits for its start.
LEMMA NoneForked ==
  ASSUME Sound, "window" \notin Ops, MayCall
  PROVE  guards = <<>> /\ m_forked_list = <<>>
<1>1. guards = <<>>
  BY DEF MayCall
<1>2. m_forked_list \in Seq(Nat) /\ Len(m_forked_list) = 0
  BY <1>1 DEF Sound, Guarded, Good, State, Current
<1> QED BY <1>1, <1>2

\* A step without drains that wait for their start, before it and after it.
LEMMA ChangeSound ==
  ASSUME Sound, NEW st, Good(st), st.forked = <<>>, Becomes(st), guards' = <<>>,
         m_cleared' \in BOOLEAN, m_source_count' \in [Objs -> 0 .. MaxCount],
         m_top_all_dropped' \in BOOLEAN
  PROVE  Sound'
<1>1. Good(Current') /\ Current'.forked = <<>>
  BY BecomesGood
<1>2. Good(Current)'
  BY <1>1
<1>3. guards' \in Seq([proc : Procs, ctxt : Nat])
  OBVIOUS
<1>4. Guarded'
  <2>1. m_forked_list' = <<>> /\ DOMAIN <<>> = {}
    BY <1>1 DEF Current
  <2> QED BY <2>1 DEF Guarded
<1> QED BY <1>2, <1>3, <1>4 DEF Sound

\* A change from the testbench or from a drain that was waiting.
LEMMA ChangeFollows ==
  ASSUME Sound, NEW st, Good(st), RootMoves(Current, st),
         st.forked = <<>>, Becomes(st), guards' = <<>>, m_cleared' \in BOOLEAN,
         m_source_count' \in [Objs -> 0 .. MaxCount],
         m_top_all_dropped' \in {FALSE, m_top_all_dropped}
  PROVE  Follows
<1>1. /\ Good(Current') /\ Pending(Current') = Pending(st)
      /\ Current'.total = st.total /\ Current'.contexts = st.contexts
  BY BecomesGood
<1>2. RootMoves(Current, Current')
  BY <1>1 DEF RootMoves, RootSame, DrainsTop
<1>3. m_top_all_dropped \in BOOLEAN /\ m_top_all_dropped' \in BOOLEAN
  BY DEF Sound
<1>4. Sound'
  BY <1>3, ChangeSound
<1>5. Root!Next \/ AtRoot' = AtRoot
  BY <1>1, <1>2, <1>3, RootFollows DEF Sound
<1> QED BY <1>4, <1>5 DEF Follows

LEMMA RaiseFollows ==
  ASSUME Sound, "window" \notin Ops, NEW o \in Objs, NEW count \in 1 .. MaxCount,
         raise_objection(o, count)
  PROVE  Follows
<1> DEFINE k == FALSE
           a == [Current EXCEPT !.cleared = k]
           r == Propagated(a, count, o)
<1>1. guards = <<>> /\ m_forked_list = <<>> /\ guards' = <<>>
  BY NoneForked DEF raise_objection
<1>2. /\ Good(a) /\ a.forked = m_forked_list /\ a.total = Current.total
      /\ a.contexts = Current.contexts /\ Pending(a) = Pending(Current)
  <2> HIDE DEF k
  <2>1. Current \in State /\ k \in BOOLEAN
    BY DEF Sound, Good, k
  <2>2. a \in State
    BY <2>1 DEF State
  <2>3. /\ a.contexts = Current.contexts /\ a.pool = Current.pool
        /\ a.forked = Current.forked /\ a.freed = Current.freed
        /\ a.total = Current.total /\ a.drains = Current.drains
        /\ a.procs = Current.procs /\ a.running = Current.running
        /\ a.scheduled = Current.scheduled /\ a.n = Current.n
    BY <2>1 DEF State
  <2> HIDE DEF a
  <2>4. Pending(a) = Pending(Current) /\ InDrain(a) = InDrain(Current)
    BY <2>3 DEF Pending, InDrain
  <2>5. Apart(a) /\ Clean(a) /\ Idle(a) /\ Driven(a)
    BY <2>3, <2>4 DEF Sound, Good, Apart, Clean, Idle, Driven
  <2>6. a.n > 0 => a.forked = <<>>
    BY <2>3 DEF Sound, Good
  <2>7. Current.forked = m_forked_list
    BY DEF Current
  <2> QED BY <2>2, <2>3, <2>4, <2>5, <2>6, <2>7 DEF Good
<1>3. count \in Int /\ MaxCount \in Nat
  BY DrainAssumption
<1> HIDE DEF a
<1>4. Good(r) /\ r.forked = a.forked /\ RootMoves(a, r)
  BY <1>1, <1>2, <1>3, PropagatedGood
<1> HIDE DEF r
<1>5. RootMoves(Current, r)
  BY <1>2, <1>4 DEF RootMoves, RootSame, DrainsTop
<1>6. m_source_count' \in [Objs -> 0 .. MaxCount]
  <2>1. m_source_count \in [Objs -> 0 .. MaxCount] /\ m_source_count[o] + count <= MaxCount
    BY DEF Sound, raise_objection
  <2>2. m_source_count[o] + count \in 0 .. MaxCount
    BY <1>3, <2>1
  <2> QED BY <2>1, <2>2 DEF raise_objection
<1>7. Becomes(r) /\ m_cleared' = FALSE /\ m_top_all_dropped' = FALSE
  BY DEF raise_objection, r, a
<1> QED BY <1>1, <1>2, <1>4, <1>5, <1>6, <1>7, ChangeFollows

LEMMA DropFollows ==
  ASSUME Sound, "window" \notin Ops, NEW o \in Objs, NEW count \in 1 .. MaxCount,
         drop_objection(o, count)
  PROVE  Follows
<1> DEFINE r == Propagated(Current, -count, o)
<1>1. guards = <<>> /\ m_forked_list = <<>> /\ guards' = <<>>
  BY NoneForked DEF drop_objection
<1>2. -count \in Int /\ MaxCount \in Nat /\ Good(Current) /\ Current.forked = m_forked_list
  BY DrainAssumption DEF Sound, Current
<1>3. Good(r) /\ r.forked = Current.forked /\ RootMoves(Current, r)
  BY <1>1, <1>2, PropagatedGood
<1> HIDE DEF r
<1>4. m_source_count' \in [Objs -> 0 .. MaxCount]
  <2>1. m_source_count \in [Objs -> 0 .. MaxCount] /\ count <= m_source_count[o]
    BY DEF Sound, drop_objection
  <2>2. m_source_count[o] - count \in 0 .. MaxCount
    BY <1>2, <2>1
  <2> QED BY <2>1, <2>2 DEF drop_objection
<1>5. Becomes(r) /\ m_cleared' = m_cleared /\ m_top_all_dropped' = m_top_all_dropped
  BY DEF drop_objection, r
<1>6. m_cleared \in BOOLEAN
  BY <1>2 DEF Good, State, Current
<1> QED BY <1>1, <1>2, <1>3, <1>4, <1>5, <1>6, ChangeFollows

\* A drain that is killed leaves its context behind.
LEMMA KilledGood ==
  ASSUME NEW st, Good(st), NEW o \in Objs, st.drains[o] # 0
  PROVE  LET r == KillDrain(st, o)
             c == st.drains[o]
         IN  /\ Good(r) /\ Pending(r) = Pending(st) \ {c} /\ c \in Pending(st)
             /\ r.contexts = st.contexts /\ r.total = st.total /\ r.pool = st.pool
             /\ r.freed = st.freed /\ r.forked = st.forked /\ r.at = st.at /\ r.n = st.n
             /\ r.cleared = st.cleared /\ r.halted = st.halted /\ r.drains[o] = 0
<1> DEFINE r == KillDrain(st, o)
           c == st.drains[o]
<1>1. st \in State /\ Apart(st) /\ Clean(st) /\ Idle(st) /\ Driven(st)
  BY DEF Good
<1>2. /\ r \in State /\ Driven(r) /\ InDrain(r) = InDrain(st) \ {c}
      /\ \A x \in Objs : r.drains[x] # 0 => r.drains[x] = st.drains[x]
      /\ r.drains[o] = 0
  BY <1>1, KilledDriven
<1>3. /\ r.contexts = st.contexts /\ r.pool = st.pool /\ r.forked = st.forked
      /\ r.freed = st.freed /\ r.n = st.n /\ r.at = st.at /\ r.total = st.total
      /\ r.cleared = st.cleared /\ r.halted = st.halted /\ r.scheduled = st.scheduled
  BY <1>1 DEF State, KillDrain
<1> HIDE DEF r
<1>4. c \in InDrain(st)
  BY <1>1 DEF InDrain, Range, State
<1>5. Pending(r) = Pending(st) \ {c} /\ c \in Pending(st)
  BY <1>1, <1>2, <1>3, <1>4 DEF Pending, Apart
<1>6. Apart(r)
  BY <1>1, <1>2, <1>3, <1>5 DEF Apart
<1>7. Clean(r)
  BY <1>1, <1>3 DEF Clean
<1>8. Idle(r)
  BY <1>1, <1>2, <1>3, <1>5 DEF Idle
<1>9. Good(r)
  BY <1>2, <1>3, <1>6, <1>7, <1>8 DEF Good
<1> QED BY <1>2, <1>3, <1>5, <1>9 DEF r

\* Free and Freed are the same when nothing was caught.
LEMMA FreeIsFreed ==
  ASSUME NEW st \in State, st.freed = <<>>, NEW list
  PROVE  Free(st, list) = Freed(st, list)
BY DEF Free, Freed, State

LEMMA ClearFollows ==
  ASSUME Sound, "window" \notin Ops, clear
  PROVE  Follows
<1> DEFINE drained == {o \in Objs : m_forked_contexts[o] # 0}
           listed  == m_scheduled_list \o m_forked_list
           e == <<>>
           zero == [o \in Objs |-> 0]
           a == [Current EXCEPT !.scheduled = e, !.forked = e, !.total = zero]
           s == Free(a, listed)
           stopped(o) == Free(KillDrain(s, o), <<s.drains[o]>>)
           Quiet(st) == /\ Good(st) /\ st.total = zero /\ st.forked = e
                        /\ \A c \in Pending(st) : c \in Pending(Current)
                                                    /\ st.contexts[c] = contexts[c]
<1>1. guards = <<>> /\ m_forked_list = <<>> /\ guards' = <<>>
  BY NoneForked DEF clear
<1>2. Good(Current) /\ Current \in State
  BY DEF Sound, Good
<1>3. /\ a \in State /\ a.freed = <<>> /\ Good(a) /\ a.total = zero /\ a.forked = e
      /\ a.contexts = contexts /\ Pending(a) = InDrain(Current) /\ a.pool = m_context_pool
      /\ a.drains = m_forked_contexts
  <2>1. e \in Seq(Nat) /\ ToSet(e) = {} /\ Once(e)
    <3>1. DOMAIN <<>> = {}
      OBVIOUS
    <3> QED BY <3>1 DEF ToSet, Once
  <2>2. zero \in [Objs -> Nat] /\ \A o \in Objs : zero[o] = 0
    OBVIOUS
  <2> HIDE DEF e, zero
  <2>3. a \in State
    BY <1>2, <2>1, <2>2 DEF State
  <2>4. /\ a.contexts = contexts /\ a.pool = m_context_pool /\ a.forked = e
        /\ a.freed = <<>> /\ a.total = zero /\ a.drains = m_forked_contexts
        /\ a.procs = m_drain_proc /\ a.running = running /\ a.scheduled = e /\ a.n = 0
    BY DEF Current
  <2> HIDE DEF a
  <2>5. Pending(a) = InDrain(Current) /\ InDrain(a) = InDrain(Current)
    BY <2>1, <2>4 DEF Pending, InDrain, Current
  <2>6. InDrain(Current) \subseteq Pending(Current)
    BY DEF Pending
  <2>7. \A c \in Pending(a) : c \in DOMAIN contexts /\ contexts[c].obj \in Objs
    <3>1. \A c \in Pending(Current) : c \in DOMAIN Current.contexts /\ c \notin ToSet(Current.pool)
      BY <1>2 DEF Good, Apart
    <3>2. \A c \in Pending(Current) : Current.contexts[c].obj \in Objs
      BY <1>2, <3>1, ContextNumbers DEF Good, Clean, Context
    <3> QED BY <2>5, <2>6, <3>1, <3>2 DEF Current
  <2>8. Apart(a)
    <3>1. Apart(Current) /\ ToSet(<<>>) = {} /\ Once(<<>>)
      BY <1>2, <2>1 DEF Good, e
    <3>2. Current.pool = m_context_pool /\ Current.contexts = contexts
      BY DEF Current
    <3> QED BY <2>1, <2>4, <2>5, <2>6, <3>1, <3>2 DEF Apart
  <2>9. Clean(a)
    BY <1>2, <2>4 DEF Good, Clean, Current
  <2>10. Idle(a)
    <3>1. \A c, f \in Pending(Current) : contexts[c].obj = contexts[f].obj => c = f
      BY <1>2 DEF Good, Idle, Current
    <3>2. \A o \in Objs : m_forked_contexts[o] # 0 => contexts[m_forked_contexts[o]].obj = o
      BY <1>2 DEF Good, Idle, Current
    <3> QED BY <2>2, <2>4, <2>5, <2>6, <2>7, <3>1, <3>2 DEF Idle
  <2>11. Driven(a)
    BY <1>2, <2>4 DEF Good, Driven, Current
  <2> QED BY <2>3, <2>4, <2>5, <2>8, <2>9, <2>10, <2>11 DEF Good
<1>4. listed \in Seq(Nat) /\ Once(listed) /\ ToSet(listed) = ToSet(m_scheduled_list) \cup ToSet(m_forked_list)
  <2>1. m_scheduled_list \in Seq(Nat) /\ m_forked_list \in Seq(Nat)
    BY <1>2 DEF State, Current
  <2>2. Once(m_scheduled_list) /\ Once(m_forked_list)
        /\ ToSet(m_scheduled_list) \cap ToSet(m_forked_list) = {}
    BY <1>2 DEF Good, Apart, Current
  <2> QED BY <2>1, <2>2, ListConcat
<1> HIDE DEF a, listed, zero, e
<1>5. ToSet(listed) \subseteq DOMAIN a.contexts \ (ToSet(a.pool) \cup Pending(a))
  BY <1>2, <1>3, <1>4 DEF Good, Apart, Pending, Current
<1>6. s = Freed(a, listed)
  BY <1>3, FreeIsFreed
<1> HIDE DEF s
<1>7. /\ Good(s) /\ s.freed = <<>> /\ s.total = zero /\ s.forked = e
      /\ s.drains = m_forked_contexts /\ Pending(s) = InDrain(Current)
      /\ \A c \in Pending(s) : s.contexts[c] = contexts[c]
  BY <1>3, <1>4, <1>5, <1>6, FreeGood
<1>8. Quiet(s)
  BY <1>7 DEF Pending
<1>9. ASSUME NEW o \in drained PROVE Quiet(stopped(o))
  <2> DEFINE k == KillDrain(s, o)
             c == s.drains[o]
             one == <<c>>
  <2>1. o \in Objs /\ c # 0
    BY <1>7, <1>9
  <2>2. /\ Good(k) /\ Pending(k) = Pending(s) \ {c} /\ c \in Pending(s)
        /\ k.contexts = s.contexts /\ k.total = s.total /\ k.pool = s.pool
        /\ k.freed = s.freed /\ k.forked = s.forked
    BY <1>7, <2>1, KilledGood
  <2>3. c \in DOMAIN s.contexts /\ c \notin ToSet(s.pool) /\ c \in Nat
    <3>1. c \in DOMAIN s.contexts /\ c \notin ToSet(s.pool) /\ s \in State
      BY <1>7, <2>2 DEF Good, Apart
    <3> QED BY <3>1, ContextNumbers
  <2>4. one \in Seq(Nat) /\ ToSet(one) = {c} /\ Once(one)
    BY <2>3, ListOne
  <2> HIDE DEF k, c, one
  <2>5. stopped(o) = Freed(k, one)
    <3>1. k \in State /\ k.freed = <<>>
      BY <1>7, <2>2 DEF Good
    <3>2. stopped(o) = Free(k, one)
      BY DEF k, c, one
    <3> QED BY <3>1, <3>2, FreeIsFreed
  <2>6. ToSet(one) \subseteq DOMAIN k.contexts \ (ToSet(k.pool) \cup Pending(k))
    BY <2>2, <2>3, <2>4
  <2> DEFINE r == Freed(k, one)
  <2>7. /\ Good(r) /\ r.total = k.total /\ r.forked = k.forked /\ Pending(r) = Pending(k)
        /\ \A x \in Pending(k) : r.contexts[x] = k.contexts[x]
    BY <2>2, <2>4, <2>6, FreeGood
  <2> HIDE DEF r
  <2> SUFFICES Quiet(r)
    BY <2>5 DEF r
  <2> QED BY <1>7, <1>8, <2>2, <2>7
<1>10. PICK st : Becomes(st) /\ Quiet(st)
  <2>1. \E st \in (IF drained = {} THEN {s} ELSE {stopped(o) : o \in drained}) : Becomes(st)
    BY DEF clear, s, a, listed, e, zero
  <2> HIDE DEF Quiet, stopped, drained
  <2> QED BY <1>8, <1>9, <2>1
<1> HIDE DEF drained, stopped
<1>11. /\ m_cleared' = TRUE /\ m_top_all_dropped' = FALSE
       /\ m_source_count' = zero /\ zero \in [Objs -> 0 .. MaxCount]
  BY DrainAssumption DEF clear, zero
<1>12. Sound'
  BY <1>1, <1>10, <1>11, ChangeSound DEF e
<1>13. /\ Good(Current') /\ Pending(Current') = Pending(st)
       /\ Current'.total = st.total /\ Current'.contexts = st.contexts
  BY <1>10, <1>11, BecomesGood
<1>14. m_total_count'[top] = 0
  BY <1>10, <1>13, TreeAssumption DEF Current, zero
<1>15. Draining(top)' # {} => Draining(top) # {} /\ m_total_count[top] = 0
  <2>1. Draining(top)' # {} => DrainsTop(Current')
    BY DEF Draining, DrainsTop, Pending, InDrain, Current
  <2>2. DrainsTop(Current') => DrainsTop(Current)
    BY <1>10, <1>13 DEF DrainsTop, Current
  <2>3. DrainsTop(Current) => Draining(top) # {} /\ m_total_count[top] = 0
    BY <1>2 DEF Draining, DrainsTop, Pending, InDrain, Good, Idle, Current
  <2> QED BY <2>1, <2>2, <2>3
<1>16. Root!Next \/ AtRoot' = AtRoot
  <2>1. AtRoot' \in {"draining", "none"} /\ (AtRoot' = "draining" => Draining(top)' # {})
    BY <1>11, <1>14 DEF AtRoot
  <2>2. CASE AtRoot' = "none"
    BY <2>2 DEF Root!Next, Root!Clear
  <2>3. CASE AtRoot' = "draining"
    BY <1>15, <2>1, <2>3 DEF AtRoot
  <2> QED BY <2>1, <2>2, <2>3
<1> QED BY <1>12, <1>16 DEF Follows

\* The processes of a finite set, one after the other.
LEMMA SetInOrder ==
  ASSUME NEW S, IsFiniteSet(S)
  PROVE  LET f == SetToSeq(S) IN
         /\ f \in [1 .. Cardinality(S) -> S] /\ Cardinality(S) \in Nat
         /\ \A i, j \in 1 .. Cardinality(S) : f[i] = f[j] => i = j
<1>1. Cardinality(S) \in Nat /\ ExistsBijection(1 .. Cardinality(S), S)
  BY FS_CardinalityType
<1>2. \E f \in [1 .. Cardinality(S) -> S] : IsInjective(f)
  BY <1>1 DEF ExistsBijection, Bijection, Injection
<1>3. SetToSeq(S) \in [1 .. Cardinality(S) -> S] /\ IsInjective(SetToSeq(S))
  BY <1>2 DEF SetToSeq
<1> QED BY <1>1, <1>3 DEF IsInjective

LEMMA ForkFollows ==
  ASSUME Sound, m_execute_scheduled_forks
  PROVE  Follows
<1> DEFINE L == m_scheduled_list
           n == Len(L)
           procs == SetToSeq(FreeProcs)
           found(o) == Find(Current, L, o)
           new == [i \in DOMAIN Spawned |-> [proc |-> procs[i], ctxt |-> Spawned[i]]]
<1>1. /\ Good(Current) /\ Current \in State /\ Apart(Current) /\ Clean(Current)
      /\ Idle(Current) /\ Driven(Current)
  BY DEF Sound, Good
<1>2. guards = <<>> /\ m_forked_list = <<>>
  <2>1. guards = <<>>
    BY DEF m_execute_scheduled_forks
  <2>2. m_forked_list \in Seq(Nat) /\ Len(m_forked_list) = 0
    BY <1>1, <2>1 DEF Sound, Guarded, State, Current
  <2> QED BY <2>1, <2>2
<1>3. L \in Seq(Nat) /\ n \in Nat /\ DOMAIN L = 1 .. n /\ Once(L)
  BY <1>1 DEF State, Apart, Current
<1>4. /\ m_scheduled_list' = <<>> /\ m_forked_list' = L /\ guards' = <<>> \o new
      /\ m_drain_proc' = [o \in Objs |-> IF found(o) > 0 THEN procs[found(o)] ELSE m_drain_proc[o]]
      /\ Cardinality(FreeProcs) >= n
      /\ UNCHANGED <<counts, contexts, m_context_pool, m_forked_contexts, running,
                     m_top_all_dropped, m_cleared, halted>>
  <2>1. m_forked_list' = <<>> \o L
    BY <1>2 DEF m_execute_scheduled_forks, Spawned
  <2> QED BY <1>2, <1>3, <2>1 DEF m_execute_scheduled_forks, Spawned
<1>5. \A i \in 1 .. n : procs[i] \in FreeProcs /\ \A j \in 1 .. n : procs[i] = procs[j] => i = j
  <2>1. IsFiniteSet(FreeProcs)
    BY FS_Subset, TreeAssumption DEF FreeProcs
  <2>2. /\ procs \in [1 .. Cardinality(FreeProcs) -> FreeProcs] /\ Cardinality(FreeProcs) \in Nat
        /\ \A i, j \in 1 .. Cardinality(FreeProcs) : procs[i] = procs[j] => i = j
    BY <2>1, SetInOrder
  <2>3. \A i \in 1 .. n : i \in 1 .. Cardinality(FreeProcs)
    BY <1>3, <1>4, <2>2
  <2> HIDE DEF procs
  <2> QED BY <2>2, <2>3
<1> HIDE DEF procs
<1>6. new \in Seq([proc : Procs, ctxt : Nat]) /\ Len(new) = n
      /\ \A i \in 1 .. n : new[i] = [proc |-> procs[i], ctxt |-> L[i]]
  <2>1. \A i \in 1 .. n : procs[i] \in Procs /\ L[i] \in Nat
    BY <1>3, <1>5 DEF FreeProcs
  <2>2. new = [i \in 1 .. n |-> [proc |-> procs[i], ctxt |-> L[i]]]
    BY <1>3 DEF Spawned
  <2>3. new \in [1 .. n -> [proc : Procs, ctxt : Nat]]
    BY <2>1, <2>2
  <2> HIDE DEF n, new
  <2> QED BY <1>3, <2>2, <2>3
<1>7. \A o \in Objs : \/ found(o) \in 1 .. n /\ found(o) > 0 /\ contexts[L[found(o)]].obj = o
                      \/ found(o) = 0 /\ \A c \in ToSet(L) : contexts[c].obj # o
  <2>1. Current.contexts = contexts
    BY DEF Current
  <2> DEFINE st == Current
  <2> HIDE DEF st
  <2>2. \A o \in Objs : \/ Find(st, L, o) \in DOMAIN L /\ Find(st, L, o) > 0
                           /\ st.contexts[L[Find(st, L, o)]].obj = o
                        \/ Find(st, L, o) = 0 /\ \A c \in ToSet(L) : st.contexts[c].obj # o
    BY <1>3, FindIs
  <2> QED BY <1>3, <2>1, <2>2 DEF st
<1> HIDE DEF new, n
<1>8. guards' = new
  BY <1>4, <1>6
<1>9. \A i \in 1 .. n : /\ L[i] \in Pending(Current) /\ L[i] \in DOMAIN contexts
                        /\ contexts[L[i]].obj \in Objs
  <2>1. \A i \in 1 .. n : L[i] \in Pending(Current)
    BY <1>3, ListHolds DEF Pending, Current
  <2>2. \A c \in Pending(Current) : c \in DOMAIN Current.contexts /\ c \notin ToSet(Current.pool)
    BY <1>1 DEF Apart
  <2>3. \A c \in Pending(Current) : Current.contexts[c].obj \in Objs
    BY <1>1, <2>2, ContextNumbers DEF Clean, Context
  <2> QED BY <2>1, <2>2, <2>3 DEF Current
<1>10. \A i, j \in 1 .. n : contexts[L[i]].obj = contexts[L[j]].obj => i = j
  BY <1>1, <1>3, <1>9 DEF Idle, Once, Current
<1> HIDE DEF L, found
<1>11. \A i \in 1 .. n : found(contexts[L[i]].obj) = i
  <2> SUFFICES ASSUME NEW i \in 1 .. n PROVE found(contexts[L[i]].obj) = i
    OBVIOUS
  <2>1. L[i] \in ToSet(L)
    BY <1>3 DEF ToSet
  <2> QED BY <1>7, <1>9, <1>10, <2>1
<1>12. \A o \in Objs : m_drain_proc'[o] = IF found(o) > 0 THEN procs[found(o)] ELSE m_drain_proc[o]
  BY <1>4
<1>13. Guarded'
  <2>1. \A i \in 1 .. n : i > 0
    BY <1>3
  <2>2. \A i \in 1 .. n : m_drain_proc'[contexts[L[i]].obj] = procs[i]
    BY <1>9, <1>11, <1>12, <2>1
  <2>3. Len(guards') = n /\ Len(m_forked_list') = n /\ DOMAIN guards' = 1 .. n
    BY <1>4, <1>6, <1>8 DEF n
  <2>4. \A i \in 1 .. n : guards'[i].ctxt = m_forked_list'[i]
                          /\ guards'[i].proc = m_drain_proc'[contexts'[m_forked_list'[i]].obj]
    BY <1>4, <1>6, <1>8, <2>2
  <2> QED BY <2>3, <2>4 DEF Guarded
<1> DEFINE r == Current'
           e == <<>>
<1>14. /\ r.contexts = contexts /\ r.pool = m_context_pool /\ r.forked = L /\ r.scheduled = e
       /\ r.freed = e /\ r.total = m_total_count /\ r.drains = m_forked_contexts
       /\ r.procs = m_drain_proc' /\ r.running = running /\ r.n = 0
  BY <1>4 DEF Current, counts
<1>15. m_drain_proc' \in [Objs -> Procs \cup {NULL}]
  <2>1. m_drain_proc \in [Objs -> Procs \cup {NULL}]
    BY <1>1 DEF State, Current
  <2>2. \A o \in Objs : m_drain_proc'[o] \in Procs \cup {NULL}
    BY <1>5, <1>7, <1>12, <2>1 DEF FreeProcs
  <2> QED BY <1>4, <2>2
<1>16. r \in State
  <2>1. e \in Seq(Nat)
    OBVIOUS
  <2> DEFINE z == 0
  <2>2. z \in Int
    OBVIOUS
  <2>3. r = [n |-> z, at |-> NULL, total |-> m_total_count, contexts |-> contexts,
             pool |-> m_context_pool, scheduled |-> e, forked |-> L, drains |-> m_forked_contexts,
             procs |-> m_drain_proc', running |-> running,
             freed |-> e, cleared |-> m_cleared, halted |-> halted]
    BY <1>4 DEF Current, counts
  <2>4. /\ m_total_count \in [Objs -> Nat] /\ contexts \in Seq(Context)
        /\ m_context_pool \in Seq(Nat) /\ m_forked_contexts \in [Objs -> Nat]
        /\ running \in [Procs -> Drain \cup {NULL}] /\ m_cleared \in BOOLEAN
        /\ halted \in {"no", "fatal"}
    BY <1>1 DEF State, Current
  <2> HIDE DEF e, r, z
  <2> QED BY <1>3, <1>15, <2>1, <2>2, <2>3, <2>4 DEF State
<1>17. ToSet(e) = {} /\ Once(e)
  <2>1. DOMAIN <<>> = {}
    OBVIOUS
  <2> QED BY <2>1 DEF ToSet, Once
<1>18. /\ ToSet(Current.forked) = {} /\ Current.scheduled = L /\ Current.contexts = contexts
       /\ Current.pool = m_context_pool /\ Current.drains = m_forked_contexts
       /\ Current.total = m_total_count /\ Current.freed = e /\ Current.procs = m_drain_proc
       /\ Current.running = running
  BY <1>2, <1>17 DEF Current, L
<1> HIDE DEF r, e
<1>19. InDrain(r) = InDrain(Current) /\ Pending(r) = Pending(Current)
  BY <1>14, <1>17, <1>18 DEF InDrain, Pending
<1>20. Apart(r)
  BY <1>1, <1>3, <1>14, <1>17, <1>18, <1>19 DEF Apart
<1>21. Clean(r) /\ Idle(r)
  BY <1>1, <1>14, <1>18, <1>19 DEF Clean, Idle
<1>22. Driven(r)
  <2>1. ASSUME NEW p \in Procs, running[p] # NULL
        PROVE  LET d == running[p] IN
               /\ d.ctxt # 0 /\ m_forked_contexts[d.obj] = d.ctxt /\ m_drain_proc'[d.obj] = p
               /\ contexts[d.ctxt] = [obj |-> d.obj, count |-> d.count]
    <3> DEFINE d == running[p]
    <3>1. /\ d.ctxt # 0 /\ m_forked_contexts[d.obj] = d.ctxt /\ m_drain_proc[d.obj] = p
          /\ contexts[d.ctxt] = [obj |-> d.obj, count |-> d.count]
      BY <1>1, <1>18, <2>1 DEF Driven
    <3>2. d.obj \in Objs
      BY <1>1, <1>18, <2>1 DEF State, Drain
    <3>3. d.ctxt \in InDrain(Current)
      BY <1>1, <1>18, <3>1, <3>2 DEF InDrain, Range, State
    <3>4. d.ctxt \in Pending(Current) /\ contexts[d.ctxt].obj = d.obj
      BY <3>1, <3>3 DEF Pending
    <3>5. \A c \in ToSet(L) : c \in Pending(Current) /\ c # d.ctxt
      BY <1>1, <1>18, <3>3 DEF Apart, Pending
    <3>6. \A c \in ToSet(L) : contexts[c].obj # d.obj
      BY <1>1, <1>18, <3>4, <3>5 DEF Idle
    <3>7. found(d.obj) = 0
      <4>1. \A i \in 1 .. n : L[i] \in ToSet(L)
        BY <1>3 DEF ToSet
      <4> QED BY <1>7, <3>2, <3>6, <4>1
    <3> QED BY <1>12, <3>1, <3>2, <3>7
  <2>2. ASSUME NEW x \in Objs, NEW y \in Objs, m_drain_proc'[x] = m_drain_proc'[y],
               m_drain_proc'[x] # NULL
        PROVE  x = y
    <3>1. CASE found(x) > 0 /\ found(y) > 0
      BY <1>5, <1>7, <1>12, <2>2, <3>1
    <3>2. \A i \in 1 .. n : \A o \in Objs : m_drain_proc[o] # procs[i]
      BY <1>5 DEF FreeProcs
    <3>3. CASE found(x) > 0 /\ ~(found(y) > 0)
      BY <1>7, <1>12, <2>2, <3>2, <3>3
    <3>4. CASE ~(found(x) > 0) /\ found(y) > 0
      BY <1>7, <1>12, <2>2, <3>2, <3>4
    <3>5. CASE ~(found(x) > 0) /\ ~(found(y) > 0)
      BY <1>1, <1>12, <1>18, <2>2, <3>5 DEF Driven
    <3> QED BY <3>1, <3>3, <3>4, <3>5
  <2> QED BY <1>14, <2>1, <2>2 DEF Driven
<1>23. Good(r)
  BY <1>14, <1>16, <1>20, <1>21, <1>22 DEF Good
<1>24. Sound'
  <2>1. Good(Current)'
    BY <1>23 DEF r
  <2>2. guards' \in Seq([proc : Procs, ctxt : Nat])
    BY <1>6, <1>8
  <2> QED BY <1>4, <1>13, <2>1, <2>2 DEF Sound, counts
<1>25. RootMoves(Current, Current')
  <2>1. RootMoves(Current, r)
    BY <1>14, <1>18, <1>19 DEF RootMoves, RootSame, DrainsTop
  <2> QED BY <2>1 DEF r
<1>26. Root!Next \/ AtRoot' = AtRoot
  BY <1>1, <1>4, <1>23, <1>25, RootFollows DEF r, Sound
<1> QED BY <1>24, <1>26 DEF Follows

\* A drain p of d.obj that is at its end.
AtEnd(st, p, d) ==
  /\ d \in Drain /\ d.ctxt # 0 /\ st.drains[d.obj] = d.ctxt /\ st.procs[d.obj] = p
  /\ st.freed = <<>>

\* What the end of a drain leaves alone.
OthersKept(st, r, d) ==
  /\ r.forked = st.forked /\ r.cleared = st.cleared
  /\ \A x \in Objs : x # d.obj => r.procs[x] = st.procs[x]
  /\ \A c \in Pending(st) : c # d.ctxt => r.contexts[c] = st.contexts[c]

\* q and r differ in the context c, which is pending no more.
EndsWithout(q, r, c) ==
  /\ r.total = q.total /\ r.halted = q.halted /\ r.n = q.n /\ r.at = q.at
  /\ c \in Pending(q) /\ Pending(r) = Pending(q) \ {c}
  /\ \A e \in Pending(r) : r.contexts[e] = q.contexts[e]

\* all_dropped was called, the drop has reached the parent, the context is freed.
LEMMA FinishedGood ==
  ASSUME NEW st, Good(st), NEW p \in Procs, NEW d, AtEnd(st, p, d)
  PROVE  LET r == Finished(st, p, d)
             q == IF d.obj = top THEN st ELSE Propagated(st, -d.count, Parent[d.obj])
         IN
         /\ Good(r) /\ OthersKept(st, r, d) /\ EndsWithout(q, r, d.ctxt)
         /\ d.obj # top => RootMoves(st, r)
         /\ d.obj = top => /\ DrainsTop(st) /\ st.total[top] = 0
                           /\ ~DrainsTop(r) /\ r.total[top] = 0
<1> DEFINE s == IF d.obj \in {top, NULL} THEN st ELSE Propagated(st, -d.count, Parent[d.obj])
           o == s.contexts[d.ctxt].obj
           k == KillDrain(s, o)
           c == d.ctxt
           one == <<c>>
           r == Finished(st, p, d)
<1>1. /\ d.obj \in Objs /\ d.count \in Nat /\ -d.count \in Int /\ st \in State
      /\ c \in InDrain(st) /\ c \in Pending(st) /\ st.contexts[c].obj = d.obj
      /\ st.total[d.obj] = 0
  <2>1. d.obj \in Objs /\ d.count \in Nat /\ st \in State
    BY DEF AtEnd, Drain, Good
  <2>2. c \in InDrain(st) /\ st.contexts[c].obj = d.obj
    BY <2>1 DEF AtEnd, InDrain, Range, State, Good, Idle
  <2>3. c \in Pending(st) /\ st.total[d.obj] = 0
    BY <2>2 DEF Pending, Good, Idle
  <2>4. -d.count \in Int
    BY <2>1
  <2> QED BY <2>1, <2>2, <2>3, <2>4
<1>2. /\ Good(s) /\ s.freed = <<>> /\ s.cleared = st.cleared /\ s.forked = st.forked
      /\ s.drains = st.drains /\ s.procs = st.procs /\ s.running = st.running
      /\ \A e \in Pending(st) : e \in Pending(s) /\ s.contexts[e] = st.contexts[e]
      /\ RootMoves(st, s) /\ (d.obj = top => s = st)
  <2>1. CASE d.obj = top
    <3>1. s = st
      BY <2>1
    <3> HIDE DEF s
    <3> QED BY <3>1 DEF AtEnd, RootMoves, RootSame
  <2>2. CASE d.obj # top
    <3>1. Parent[d.obj] \in Objs /\ d.obj # NULL
      BY <1>1, <2>2, TreeAssumption
    <3>2. s = Propagated(st, -d.count, Parent[d.obj])
      BY <2>2, <3>1
    <3>3. -d.count <= 0 /\ (-d.count > 0 => st.forked = <<>>)
      BY <1>1
    <3> HIDE DEF s
    <3> DEFINE n == -d.count
    <3> HIDE DEF n
    <3>4. n \in Int /\ n <= 0 /\ (n > 0 => st.forked = <<>>)
      BY <1>1, <3>3 DEF n
    <3> DEFINE q == Propagated(st, n, Parent[d.obj])
    <3>5. /\ Good(q) /\ q.freed = <<>> /\ q.cleared = st.cleared /\ q.forked = st.forked
          /\ RootMoves(st, q)
          /\ n <= 0 => /\ q.drains = st.drains /\ q.procs = st.procs
                       /\ q.running = st.running
                       /\ \A e \in Pending(st) : e \in Pending(q) /\ q.contexts[e] = st.contexts[e]
      BY <3>1, <3>4, PropagatedGood
    <3>6. s = q
      BY <3>2 DEF n
    <3> QED BY <2>2, <3>4, <3>5, <3>6
  <2> QED BY <2>1, <2>2
<1> HIDE DEF s
<1>3. o = d.obj
  BY <1>1, <1>2
<1>4. /\ Good(k) /\ Pending(k) = Pending(s) \ {c} /\ c \in Pending(s)
      /\ k.contexts = s.contexts /\ k.total = s.total /\ k.pool = s.pool
      /\ k.freed = s.freed /\ k.forked = s.forked /\ k.cleared = s.cleared
      /\ k.halted = s.halted /\ k.n = s.n /\ k.at = s.at
  <2>1. s.drains[o] # 0 /\ o \in Objs /\ s.drains[o] = c
    BY <1>1, <1>2, <1>3 DEF AtEnd
  <2> HIDE DEF o, c
  <2> QED BY <1>2, <2>1, KilledGood
<1>5. \A x \in Objs : x # d.obj => k.procs[x] = st.procs[x]
  <2>1. s \in State /\ k.procs = [s.procs EXCEPT ![o] = NULL]
    BY <1>2 DEF KillDrain, Good, State
  <2> HIDE DEF k
  <2> QED BY <1>2, <1>3, <2>1 DEF State
<1>6. r = Free(k, one)
  <2> DEFINE w == [s EXCEPT !.drains = [x \in Objs |-> IF x = o THEN 0 ELSE @[x]],
                            !.procs = [x \in Objs |-> IF x = o THEN NULL ELSE @[x]],
                            !.running[p] = NULL]
  <2>1. r = Free(w, one)
    BY DEF Finished, s
  <2>2. s \in State /\ s.procs[o] = p
    BY <1>2, <1>3 DEF Good, AtEnd
  <2>3. w = k
    <3>1. [x \in Objs |-> IF x = o THEN 0 ELSE s.drains[x]] = [s.drains EXCEPT ![o] = 0]
      BY <2>2 DEF State
    <3>2. [x \in Objs |-> IF x = o THEN NULL ELSE s.procs[x]] = [s.procs EXCEPT ![o] = NULL]
      BY <2>2 DEF State
    <3>3. [q \in Procs |-> IF q = s.procs[o] THEN NULL ELSE s.running[q]]
            = [s.running EXCEPT ![p] = NULL]
      BY <2>2 DEF State
    <3> HIDE DEF o
    <3> QED BY <2>2, <3>1, <3>2, <3>3 DEF KillDrain, State
  <2> QED BY <2>1, <2>3
<1>7. c \in DOMAIN k.contexts /\ c \notin ToSet(k.pool) /\ c \in Nat
  <2>1. s \in State /\ c \in DOMAIN s.contexts /\ c \notin ToSet(s.pool)
    BY <1>2, <1>4 DEF Good, Apart
  <2> HIDE DEF k, c
  <2> QED BY <1>4, <2>1, ContextNumbers
<1>8. one \in Seq(Nat) /\ ToSet(one) = {c} /\ Once(one)
  <2> HIDE DEF c
  <2> QED BY <1>7, ListOne
<1> HIDE DEF k, one, r
<1>9. r = Freed(k, one)
  BY <1>2, <1>4, <1>6, FreeIsFreed DEF Good
<1>10. ToSet(one) \subseteq DOMAIN k.contexts \ (ToSet(k.pool) \cup Pending(k))
  BY <1>4, <1>7, <1>8
<1>11. /\ Good(r) /\ r.total = k.total /\ r.cleared = k.cleared /\ r.forked = k.forked
       /\ r.procs = k.procs /\ Pending(r) = Pending(k) /\ r.halted = k.halted
       /\ r.n = k.n /\ r.at = k.at
       /\ \A e \in Pending(k) : r.contexts[e] = k.contexts[e]
  BY <1>4, <1>8, <1>9, <1>10, FreeGood
<1>12. OthersKept(st, r, d)
  BY <1>2, <1>4, <1>5, <1>11 DEF OthersKept
<1>13. d.obj # top => RootMoves(st, r)
  <2> SUFFICES ASSUME d.obj # top PROVE RootMoves(st, r)
    OBVIOUS
  <2>1. s.contexts[c].obj # top
    BY <1>3
  <2>2. DrainsTop(r) <=> DrainsTop(s)
    BY <1>4, <1>11, <2>1 DEF DrainsTop
  <2> QED BY <1>2, <1>4, <1>11, <2>2 DEF RootMoves, RootSame
<1>14. d.obj = top => /\ DrainsTop(st) /\ st.total[top] = 0
                      /\ ~DrainsTop(r) /\ r.total[top] = 0
  <2> SUFFICES ASSUME d.obj = top
               PROVE  /\ DrainsTop(st) /\ st.total[top] = 0
                      /\ ~DrainsTop(r) /\ r.total[top] = 0
    OBVIOUS
  <2>1. s = st
    BY <1>2
  <2>2. \A e \in Pending(st) : st.contexts[e].obj = top => e = c
    BY <1>1 DEF Good, Idle
  <2> QED BY <1>1, <1>4, <1>11, <2>1, <2>2 DEF DrainsTop
<1>15. EndsWithout(s, r, c)
  BY <1>4, <1>11 DEF EndsWithout
<1>16. s = IF d.obj = top THEN st ELSE Propagated(st, -d.count, Parent[d.obj])
  BY <1>1, TreeAssumption DEF s
<1> QED BY <1>11, <1>12, <1>13, <1>14, <1>15, <1>16 DEF r, c

\* all_dropped raised objections on d.obj and killed its own process.
LEMMA AgainGood ==
  ASSUME NEW st, Good(st), NEW p \in Procs, NEW d, AtEnd(st, p, d), NEW count \in Nat, count > 0
  PROVE  LET r == KillDrain([st EXCEPT !.total[d.obj] = @ + count], d.obj) IN
         /\ Good(r) /\ OthersKept(st, r, d) /\ RootMoves(st, r)
         /\ r.total = [st.total EXCEPT ![d.obj] = @ + count] /\ r.halted = st.halted
         /\ r.n = st.n /\ r.at = st.at
         /\ d.ctxt \in Pending(st) /\ Pending(r) = Pending(st) \ {d.ctxt}
         /\ r.contexts = st.contexts
<1> DEFINE o == d.obj
           c == d.ctxt
           t == [st.total EXCEPT ![o] = @ + count]
           k == KillDrain(st, o)
           r == KillDrain([st EXCEPT !.total[o] = @ + count], o)
<1>1. /\ o \in Objs /\ st \in State /\ st.drains[o] = c /\ c # 0 /\ st.contexts[c].obj = o
  BY DEF AtEnd, Drain, Good, Idle
<1>2. /\ t \in [Objs -> Nat] /\ (\A x \in Objs : x # o => t[x] = st.total[x]) /\ t[o] > 0
  <2>1. st.total \in [Objs -> Nat]
    BY <1>1 DEF State
  <2>2. st.total[o] + count \in Nat /\ st.total[o] + count > 0
    BY <1>1, <2>1
  <2> QED BY <1>1, <2>1, <2>2
<1> HIDE DEF o, c
<1>3. /\ Good(k) /\ Pending(k) = Pending(st) \ {c} /\ c \in Pending(st)
      /\ k.contexts = st.contexts /\ k.total = st.total
      /\ k.forked = st.forked /\ k.cleared = st.cleared /\ k.halted = st.halted
      /\ k.n = st.n /\ k.at = st.at
  BY <1>1, KilledGood
<1>4. \A x \in Objs : x # o => k.procs[x] = st.procs[x]
  <2>1. k.procs = [st.procs EXCEPT ![o] = NULL]
    BY <1>1 DEF KillDrain, State
  <2> HIDE DEF k
  <2> QED BY <1>1, <2>1 DEF State
<1>5. \A e \in Pending(k) : k.contexts[e].obj # o
  BY <1>1, <1>3 DEF Good, Idle
<1>6. r = [k EXCEPT !.total = t]
  BY <1>1 DEF KillDrain, State
<1> HIDE DEF t, k, r
<1>7. /\ Good(r) /\ Pending(r) = Pending(k) /\ r.total = t /\ r.contexts = k.contexts
      /\ r.cleared = k.cleared /\ r.forked = k.forked /\ r.procs = k.procs
      /\ r.halted = k.halted /\ r.n = k.n /\ r.at = k.at
  <2>1. \A x \in Objs : x # o => t[x] = k.total[x]
    BY <1>2, <1>3
  <2> QED BY <1>1, <1>2, <1>3, <1>5, <1>6, <2>1, TotalGood
<1>8. OthersKept(st, r, d)
  BY <1>3, <1>4, <1>7 DEF OthersKept, o, c
<1>9. RootMoves(st, r)
  <2>1. CASE o = top
    BY <1>2, <1>7, <2>1 DEF RootMoves
  <2>2. CASE o # top
    <3>1. DrainsTop(r) <=> DrainsTop(st)
      BY <1>1, <1>3, <1>7, <2>2 DEF DrainsTop
    <3>2. r.total[top] = st.total[top]
      BY <1>2, <1>7, <2>2, TreeAssumption
    <3> QED BY <3>1, <3>2 DEF RootMoves, RootSame
  <2> QED BY <2>1, <2>2
<1> QED BY <1>3, <1>7, <1>8, <1>9 DEF r, o, c, t

\* A drain ends in a state that is, at the root, the current one.
LEMMA AllDroppedMoves ==
  ASSUME Sound, NEW st, Good(st), RootSame(Current, st), NEW p \in Procs, NEW d, AtEnd(st, p, d),
         st.cleared = m_cleared, AllDropped(st, p, d)
  PROVE  /\ \E r : Good(r) /\ OthersKept(st, r, d) /\ Becomes(r)
         /\ m_source_count' \in [Objs -> 0 .. MaxCount] /\ m_cleared' \in BOOLEAN
         /\ m_top_all_dropped' \in BOOLEAN
         /\ Root!Next \/ AtRoot' = AtRoot
<1>1. /\ Good(Current) /\ m_top_all_dropped \in BOOLEAN /\ m_cleared \in BOOLEAN
      /\ m_source_count \in [Objs -> 0 .. MaxCount]
  BY DEF Sound, Good, State, Current
<1>2. CASE Drained(st, p, d)
  <2> DEFINE r == Finished(st, p, d)
  <2>1. /\ Good(r) /\ OthersKept(st, r, d)
        /\ d.obj # top => RootMoves(st, r)
        /\ d.obj = top => /\ DrainsTop(st) /\ st.total[top] = 0
                          /\ ~DrainsTop(r) /\ r.total[top] = 0
    BY FinishedGood
  <2>2. /\ Becomes(r) /\ m_source_count' = m_source_count /\ m_cleared' = m_cleared
        /\ m_top_all_dropped' = (m_top_all_dropped \/ d.obj = top)
    BY <1>2 DEF Drained
  <2> HIDE DEF r
  <2>3. /\ Good(Current') /\ Pending(Current') = Pending(r)
        /\ Current'.total = r.total /\ Current'.contexts = r.contexts
    BY <1>1, <2>1, <2>2, BecomesGood
  <2>4. DrainsTop(Current') <=> DrainsTop(r)
    BY <2>3 DEF DrainsTop
  <2>5. CASE d.obj # top
    <3>1. RootMoves(Current, Current')
      BY <2>1, <2>3, <2>4, <2>5 DEF RootMoves, RootSame
    <3>2. m_top_all_dropped' = m_top_all_dropped
      BY <1>1, <2>2, <2>5
    <3>3. Root!Next \/ AtRoot' = AtRoot
      BY <1>1, <2>3, <3>1, <3>2, RootFollows
    <3> QED BY <1>1, <2>1, <2>2, <3>2, <3>3
  <2>6. CASE d.obj = top
    <3>1. DrainsTop(Current) /\ m_total_count[top] = 0
      BY <2>1, <2>6 DEF RootSame, Current
    <3>2. Draining(top) # {}
      BY <3>1 DEF Draining, DrainsTop, Pending, InDrain, Current
    <3>3. Draining(top)' = {} /\ m_total_count'[top] = 0
      <4>1. ~DrainsTop(Current') /\ Current'.total[top] = 0
        BY <2>1, <2>3, <2>4, <2>6
      <4> QED BY <4>1 DEF Draining, DrainsTop, Pending, InDrain, Current
    <3>4. m_top_all_dropped' = TRUE
      BY <2>2, <2>6
    <3>5. AtRoot = "draining"
      BY <3>1, <3>2 DEF AtRoot
    <3>6. AtRoot' = "told"
      BY <3>3, <3>4 DEF AtRoot
    <3>7. Root!Next
      BY <3>5, <3>6 DEF Root!Next, Root!AllDropped
    <3> QED BY <1>1, <2>1, <2>2, <3>4, <3>7
  <2> QED BY <2>5, <2>6
<1>3. ASSUME NEW count \in 1 .. MaxCount, DrainedAgain(st, p, d, count)
      PROVE  /\ \E r : Good(r) /\ OthersKept(st, r, d) /\ Becomes(r)
             /\ m_source_count' \in [Objs -> 0 .. MaxCount] /\ m_cleared' \in BOOLEAN
             /\ m_top_all_dropped' \in BOOLEAN
             /\ Root!Next \/ AtRoot' = AtRoot
  <2> DEFINE r == KillDrain([st EXCEPT !.total[d.obj] = @ + count], d.obj)
  <2>1. MaxCount \in Nat /\ count \in Nat /\ count > 0
    BY DrainAssumption
  <2>2. Good(r) /\ OthersKept(st, r, d) /\ RootMoves(st, r)
    BY <2>1, AgainGood
  <2>3. /\ Becomes(r) /\ m_cleared' = FALSE /\ m_top_all_dropped' = FALSE
        /\ m_source_count[d.obj] + count <= MaxCount
        /\ m_source_count' = [m_source_count EXCEPT ![d.obj] = @ + count]
    BY <1>3 DEF DrainedAgain
  <2> HIDE DEF r
  <2>4. /\ Good(Current') /\ Pending(Current') = Pending(r)
        /\ Current'.total = r.total /\ Current'.contexts = r.contexts
    BY <2>2, <2>3, BecomesGood
  <2>5. RootMoves(Current, Current')
    BY <2>2, <2>4 DEF RootMoves, RootSame, DrainsTop
  <2>6. Root!Next \/ AtRoot' = AtRoot
    BY <1>1, <2>3, <2>4, <2>5, RootFollows
  <2>7. m_source_count' \in [Objs -> 0 .. MaxCount]
    <3>1. d.obj \in Objs
      BY DEF AtEnd, Drain
    <3>2. m_source_count[d.obj] + count \in 0 .. MaxCount
      BY <1>1, <2>1, <2>3, <3>1
    <3> QED BY <1>1, <2>3, <3>2
  <2> QED BY <2>2, <2>3, <2>6, <2>7
<1> QED BY <1>2, <1>3 DEF AllDropped

LEMMA DrainFollows ==
  ASSUME Sound, NEW p \in Procs, m_forked_drain(p)
  PROVE  Follows
<1> DEFINE d == running[p]
<1>1. guards = <<>> /\ guards' = <<>> /\ d # NULL /\ AllDropped(Current, p, d)
  BY DEF m_forked_drain
<1>2. m_forked_list = <<>>
  <2>1. m_forked_list \in Seq(Nat) /\ Len(m_forked_list) = 0
    BY <1>1 DEF Sound, Guarded, Good, State, Current
  <2> QED BY <2>1
<1>3. Good(Current) /\ RootSame(Current, Current) /\ Current.cleared = m_cleared
      /\ Current.forked = m_forked_list
  BY DEF Sound, RootSame, Current
<1>4. AtEnd(Current, p, d)
  BY <1>1, <1>3 DEF AtEnd, Good, State, Driven, Current
<1> HIDE DEF d
<1>5. /\ \E r : Good(r) /\ OthersKept(Current, r, d) /\ Becomes(r)
      /\ m_source_count' \in [Objs -> 0 .. MaxCount] /\ m_cleared' \in BOOLEAN
      /\ m_top_all_dropped' \in BOOLEAN
      /\ Root!Next \/ AtRoot' = AtRoot
  BY <1>1, <1>3, <1>4, AllDroppedMoves
<1>6. PICK r : Good(r) /\ OthersKept(Current, r, d) /\ Becomes(r)
  BY <1>5
<1>7. r.forked = <<>>
  BY <1>2, <1>3, <1>6 DEF OthersKept
<1>8. Sound'
  BY <1>1, <1>5, <1>6, <1>7, ChangeSound
<1> QED BY <1>5, <1>8 DEF Follows

\* The first of the drains that were spawned starts.
LEMMA GuardStarts ==
  ASSUME Sound, guards # <<>>
  PROVE  LET p == Head(guards).proc
             c == Head(m_forked_list)
             o == contexts[c].obj
             d == [obj |-> o, count |-> contexts[c].count, ctxt |-> c]
             s == [Current EXCEPT !.forked = Tail(@), !.drains[o] = c]
         IN  /\ m_forked_list # <<>> /\ contexts[Head(guards).ctxt].obj # NULL
             /\ p \in Procs /\ o \in Objs /\ Good(s) /\ AtEnd(s, p, d)
             /\ s.total = m_total_count /\ s.contexts = contexts /\ Pending(s) = Pending(Current)
             /\ s.forked = Tail(m_forked_list) /\ s.cleared = m_cleared /\ s.procs = m_drain_proc
             /\ s.running = running /\ running[p] = NULL
<1> DEFINE p == Head(guards).proc
           c == Head(m_forked_list)
           o == contexts[c].obj
           d == [obj |-> o, count |-> contexts[c].count, ctxt |-> c]
           t == Tail(m_forked_list)
           v == [m_forked_contexts EXCEPT ![o] = c]
           s == [Current EXCEPT !.forked = Tail(@), !.drains[o] = c]
<1>1. /\ Good(Current) /\ Current \in State /\ Apart(Current) /\ Clean(Current)
      /\ Idle(Current) /\ Driven(Current)
  BY DEF Sound, Good
<1>2. /\ m_forked_list \in Seq(Nat) /\ m_forked_list # <<>> /\ Len(m_forked_list) = Len(guards)
      /\ guards \in Seq([proc : Procs, ctxt : Nat]) /\ 1 \in DOMAIN guards
      /\ Head(guards) = guards[1] /\ Head(m_forked_list) = m_forked_list[1]
  <2>1. m_forked_list \in Seq(Nat) /\ guards \in Seq([proc : Procs, ctxt : Nat])
        /\ Len(m_forked_list) = Len(guards)
    BY <1>1 DEF Sound, Guarded, State, Current
  <2>2. m_forked_list # <<>>
    BY <2>1
  <2> QED BY <2>1, <2>2
<1>3. guards[1].ctxt = c /\ p = m_drain_proc[o] /\ p \in Procs
  <2>1. /\ guards[1].ctxt = m_forked_list[1]
        /\ guards[1].proc = m_drain_proc[contexts[m_forked_list[1]].obj]
    BY <1>2 DEF Sound, Guarded
  <2>2. guards[1] \in [proc : Procs, ctxt : Nat]
    <3> DEFINE S == [proc : Procs, ctxt : Nat]
    <3>1. guards \in Seq(S) /\ 1 \in DOMAIN guards
      BY <1>2
    <3> HIDE DEF S
    <3>2. guards[1] \in S
      BY ONLY <3>1
    <3> QED BY <3>2 DEF S
  <2> QED BY <1>2, <2>1, <2>2
<1>4. /\ t \in Seq(Nat) /\ c \in Nat /\ ToSet(m_forked_list) = ToSet(t) \cup {c}
      /\ Once(t) /\ c \notin ToSet(t)
  BY <1>1, <1>2, ListTail DEF Apart, Current
<1>5. /\ c \in Pending(Current) /\ c \in DOMAIN contexts /\ c # 0
      /\ contexts[c] \in Context /\ o \in Objs /\ c \notin InDrain(Current)
      /\ c \notin ToSet(m_scheduled_list) /\ m_total_count[o] = 0
  <2>1. c \in Pending(Current)
    BY <1>4 DEF Pending, Current
  <2>2. c \in DOMAIN contexts /\ c \notin ToSet(m_context_pool)
    BY <1>1, <2>1 DEF Apart, Current
  <2>3. c # 0 /\ contexts[c] \in Context
    BY <1>1, <2>2, ContextNumbers DEF Current
  <2>4. o \in Objs
    BY <1>1, <2>2, <2>3 DEF Clean, Context, Current
  <2>5. c \notin InDrain(Current) /\ c \notin ToSet(m_scheduled_list)
    BY <1>1, <1>4 DEF Apart, Current
  <2>6. m_total_count[o] = 0
    BY <1>1, <2>1 DEF Idle, Current
  <2> QED BY <2>1, <2>2, <2>3, <2>4, <2>5, <2>6
<1>6. m_forked_contexts[o] = 0
  <2> SUFFICES ASSUME m_forked_contexts[o] # 0 PROVE FALSE
    OBVIOUS
  <2>1. m_forked_contexts[o] \in InDrain(Current) /\ contexts[m_forked_contexts[o]].obj = o
    BY <1>1, <1>5 DEF InDrain, Range, State, Idle, Current
  <2>2. m_forked_contexts[o] \in Pending(Current)
    BY <2>1 DEF Pending
  <2>3. m_forked_contexts[o] = c
    BY <1>1, <1>5, <2>1, <2>2 DEF Idle, Current
  <2> QED BY <1>5, <2>1, <2>3
<1>7. running[p] = NULL
  <2> SUFFICES ASSUME running[p] # NULL PROVE FALSE
    OBVIOUS
  <2> DEFINE e == running[p]
  <2>1. e.obj \in Objs
    BY <1>1, <1>3 DEF State, Drain, Current
  <2>2. e.ctxt # 0 /\ m_forked_contexts[e.obj] = e.ctxt /\ m_drain_proc[e.obj] = p
    BY <1>1, <1>3 DEF Driven, Current
  <2>3. p # NULL
    BY <1>3, TreeAssumption
  <2>4. e.obj = o
    BY <1>1, <1>3, <1>5, <2>1, <2>2, <2>3 DEF Driven, Current
  <2> QED BY <1>6, <2>2, <2>4
<1> HIDE DEF c, o, t, p
<1>8. m_forked_contexts \in [Objs -> Nat] /\ v \in [Objs -> Nat] /\ v[o] = c
      /\ \A x \in Objs : x # o => v[x] = m_forked_contexts[x]
  <2>1. m_forked_contexts \in [Objs -> Nat]
    BY <1>1 DEF State, Current
  <2> QED BY <1>4, <1>5, <2>1
<1> HIDE DEF v
<1>9. s = [Current EXCEPT !.forked = t, !.drains = v]
  BY DEF t, v, o, c, Current
<1> HIDE DEF s
<1>10. /\ s.contexts = contexts /\ s.pool = m_context_pool /\ s.forked = t
       /\ s.freed = <<>> /\ s.total = m_total_count /\ s.drains = v
       /\ s.procs = m_drain_proc /\ s.running = running /\ s.scheduled = m_scheduled_list
       /\ s.n = 0 /\ s.cleared = m_cleared
  BY <1>9 DEF Current
<1>11. s \in State
  BY <1>1, <1>4, <1>8, <1>9 DEF State
<1>12. InDrain(s) = InDrain(Current) \cup {c}
  BY <1>5, <1>6, <1>8, <1>10 DEF InDrain, Range, Current
<1>13. Pending(s) = Pending(Current)
  BY <1>4, <1>10, <1>12 DEF Pending, Current
<1>14. Apart(s)
  <2>1. Once(s.forked)
    BY <1>4, <1>10
  <2>2. /\ ToSet(s.scheduled) \cap (ToSet(s.forked) \cup InDrain(s)) = {}
        /\ ToSet(s.forked) \cap InDrain(s) = {}
    BY <1>1, <1>4, <1>5, <1>10, <1>12 DEF Apart, Current
  <2> QED BY <1>1, <1>10, <1>13, <2>1, <2>2 DEF Apart, Current
<1>15. Clean(s)
  BY <1>1, <1>10 DEF Clean, Current
<1>16. Idle(s)
  <2>1. \A x \in Objs : s.drains[x] # 0 => s.contexts[s.drains[x]].obj = x
    BY <1>1, <1>8, <1>10 DEF Idle, Current, o
  <2> QED BY <1>1, <1>10, <1>13, <2>1 DEF Idle, Current
<1>17. Driven(s)
  <2>1. ASSUME NEW q \in Procs, running[q] # NULL
        PROVE  LET e == running[q] IN
               /\ e.ctxt # 0 /\ v[e.obj] = e.ctxt /\ m_drain_proc[e.obj] = q
               /\ contexts[e.ctxt] = [obj |-> e.obj, count |-> e.count]
    <3> DEFINE e == running[q]
    <3>1. e.obj \in Objs
      BY <1>1, <2>1 DEF State, Drain, Current
    <3>2. /\ e.ctxt # 0 /\ m_forked_contexts[e.obj] = e.ctxt /\ m_drain_proc[e.obj] = q
          /\ contexts[e.ctxt] = [obj |-> e.obj, count |-> e.count]
      BY <1>1, <2>1 DEF Driven, Current
    <3>3. e.obj # o
      BY <1>6, <3>2
    <3> QED BY <1>8, <3>1, <3>2, <3>3
  <2>2. \A x, y \in Objs : m_drain_proc[x] = m_drain_proc[y] /\ m_drain_proc[x] # NULL => x = y
    BY <1>1 DEF Driven, Current
  <2> QED BY <1>10, <2>1, <2>2 DEF Driven
<1>18. Good(s)
  BY <1>10, <1>11, <1>14, <1>15, <1>16, <1>17 DEF Good
<1>19. AtEnd(s, p, d)
  BY <1>3, <1>4, <1>5, <1>8, <1>10 DEF AtEnd, Drain, Context
<1>20. contexts[Head(guards).ctxt].obj # NULL
  BY <1>2, <1>3, <1>5, TreeAssumption DEF o
<1> QED BY <1>2, <1>3, <1>5, <1>7, <1>10, <1>13, <1>18, <1>19, <1>20 DEF s, o, c, t, p

\* A drain waits for the drain time of its object.
LEMMA WaitsGood ==
  ASSUME NEW st, Good(st), NEW p \in Procs, NEW d, AtEnd(st, p, d),
         st.contexts[d.ctxt] = [obj |-> d.obj, count |-> d.count]
  PROVE  LET r == [st EXCEPT !.running[p] = d] IN
         /\ Good(r) /\ Pending(r) = Pending(st) /\ r.contexts = st.contexts
         /\ r.total = st.total /\ r.forked = st.forked /\ r.procs = st.procs
<1> DEFINE w == [st.running EXCEPT ![p] = d]
           r == [st EXCEPT !.running[p] = d]
<1>1. st \in State /\ st.running \in [Procs -> Drain \cup {NULL}] /\ d \in Drain
  BY DEF Good, State, AtEnd
<1>2. w \in [Procs -> Drain \cup {NULL}] /\ w[p] = d /\ \A q \in Procs : q # p => w[q] = st.running[q]
  BY <1>1
<1> HIDE DEF w
<1>3. r = [st EXCEPT !.running = w]
  BY <1>1 DEF State, w
<1> HIDE DEF r
<1>4. r \in State
  BY <1>1, <1>2, <1>3 DEF State
<1>5. /\ r.contexts = st.contexts /\ r.pool = st.pool /\ r.forked = st.forked
      /\ r.freed = st.freed /\ r.n = st.n /\ r.total = st.total /\ r.drains = st.drains
      /\ r.procs = st.procs /\ r.scheduled = st.scheduled /\ r.running = w
  BY <1>1, <1>3 DEF State
<1>6. Pending(r) = Pending(st) /\ InDrain(r) = InDrain(st)
  BY <1>5 DEF Pending, InDrain
<1>7. Apart(r) /\ Clean(r) /\ Idle(r)
  BY <1>5, <1>6 DEF Good, Apart, Clean, Idle
<1>8. Driven(r)
  <2>1. ASSUME NEW q \in Procs, w[q] # NULL
        PROVE  LET e == w[q] IN
               /\ e.ctxt # 0 /\ st.drains[e.obj] = e.ctxt /\ st.procs[e.obj] = q
               /\ st.contexts[e.ctxt] = [obj |-> e.obj, count |-> e.count]
    <3>1. CASE q = p
      BY <1>2, <3>1 DEF AtEnd
    <3>2. CASE q # p
      BY <1>2, <2>1, <3>2 DEF Good, Driven
    <3> QED BY <3>1, <3>2
  <2>2. \A x, y \in Objs : st.procs[x] = st.procs[y] /\ st.procs[x] # NULL => x = y
    BY DEF Good, Driven
  <2> QED BY <1>5, <2>1, <2>2 DEF Driven
<1> QED BY <1>4, <1>5, <1>6, <1>7, <1>8 DEF Good, r

\* The drains that were spawned move up.
LEMMA TailGuarded ==
  ASSUME Sound, guards # <<>>, m_forked_list # <<>>,
         guards' = Tail(guards), m_forked_list' = Tail(m_forked_list),
         NEW o, o = contexts[Head(m_forked_list)].obj,
         \A c \in Pending(Current) : c # Head(m_forked_list) => contexts'[c] = contexts[c],
         \A x \in Objs : x # o => m_drain_proc'[x] = m_drain_proc[x]
  PROVE  guards' \in Seq([proc : Procs, ctxt : Nat]) /\ Guarded'
<1> DEFINE S == [proc : Procs, ctxt : Nat]
           L == m_forked_list
           n == Len(guards)
<1>1. /\ L \in Seq(Nat) /\ Len(L) = n /\ guards \in Seq(S) /\ n \in Nat /\ n > 0
      /\ Good(Current) /\ Once(L)
      /\ \A i \in 1 .. n : guards[i].ctxt = L[i] /\ guards[i].proc = m_drain_proc[contexts[L[i]].obj]
  <2>1. L \in Seq(Nat) /\ guards \in Seq(S) /\ Len(L) = n /\ Good(Current) /\ Once(L)
    BY DEF Sound, Guarded, Good, State, Apart, Current
  <2> HIDE DEF S
  <2>2. n \in Nat /\ n > 0 /\ DOMAIN guards = 1 .. n
    BY <2>1
  <2> QED BY <2>1, <2>2 DEF Sound, Guarded
<1> HIDE DEF S
<1>2. /\ guards' \in Seq(S) /\ Len(guards') = n - 1 /\ DOMAIN guards' = 1 .. n - 1
      /\ \A i \in 1 .. n - 1 : guards'[i] = guards[i + 1]
  BY <1>1
<1>3. /\ Len(m_forked_list') = n - 1 /\ \A i \in 1 .. n - 1 : m_forked_list'[i] = L[i + 1]
  BY <1>1
<1>4. \A i \in 1 .. n - 1 : i + 1 \in 1 .. n /\ i + 1 # 1 /\ 1 \in 1 .. n
  BY <1>1
<1>5. DOMAIN L = 1 .. n /\ Head(L) = L[1]
  BY <1>1
<1> HIDE DEF L, n
<1>6. ASSUME NEW i \in 1 .. n - 1
      PROVE  /\ guards'[i].ctxt = m_forked_list'[i]
             /\ guards'[i].proc = m_drain_proc'[contexts'[m_forked_list'[i]].obj]
  <2> DEFINE c == L[i + 1]
  <2>1. i + 1 \in 1 .. n /\ i + 1 # 1 /\ 1 \in 1 .. n
    BY <1>4
  <2>2. c \in Pending(Current) /\ L[1] \in Pending(Current) /\ c # L[1]
    BY <1>1, <1>5, <2>1 DEF Pending, ToSet, Once, Current, L
  <2>3. contexts[c].obj # o /\ contexts[c].obj \in Objs
    <3>1. \A e \in Pending(Current) : e \in DOMAIN Current.contexts /\ e \notin ToSet(Current.pool)
      BY <1>1 DEF Good, Apart
    <3>2. \A e \in Pending(Current) : Current.contexts[e].obj \in Objs
      BY <1>1, <3>1, ContextNumbers DEF Good, Clean, Context
    <3>3. contexts[c].obj # contexts[L[1]].obj
      BY <1>1, <2>2 DEF Good, Idle, Current
    <3> QED BY <1>5, <2>2, <3>2, <3>3 DEF L, Current
  <2>4. contexts'[c] = contexts[c] /\ m_drain_proc'[contexts[c].obj] = m_drain_proc[contexts[c].obj]
    BY <1>5, <2>2, <2>3 DEF L
  <2>5. guards[i + 1].ctxt = c /\ guards[i + 1].proc = m_drain_proc[contexts[c].obj]
    BY <1>1, <2>1
  <2> QED BY <1>2, <1>3, <2>4, <2>5
<1> QED BY <1>2, <1>3, <1>6 DEF Guarded, S

LEMMA GuardFollows ==
  ASSUME Sound, m_forked_drain_guard
  PROVE  Follows
<1> DEFINE p == Head(guards).proc
           c == Head(m_forked_list)
           o == contexts[c].obj
           d == [obj |-> o, count |-> contexts[c].count, ctxt |-> c]
           s == [Current EXCEPT !.forked = Tail(@), !.drains[o] = c]
           w == [s EXCEPT !.running[p] = d]
<1>1. guards # <<>> /\ guards' = Tail(guards)
  BY DEF m_forked_drain_guard
<1>2. /\ m_forked_list # <<>> /\ contexts[Head(guards).ctxt].obj # NULL
      /\ p \in Procs /\ o \in Objs /\ Good(s) /\ AtEnd(s, p, d)
      /\ s.total = m_total_count /\ s.contexts = contexts /\ Pending(s) = Pending(Current)
      /\ s.forked = Tail(m_forked_list) /\ s.cleared = m_cleared /\ s.procs = m_drain_proc
  BY <1>1, GuardStarts
<1>3. \/ Becomes(w) /\ UNCHANGED <<m_source_count, m_top_all_dropped, m_cleared>>
      \/ AllDropped(s, p, d)
  BY <1>2 DEF m_forked_drain_guard
<1>4. d.ctxt = c /\ d.obj = o /\ contexts[c] = [obj |-> d.obj, count |-> d.count]
  <2>1. c \in Pending(Current)
    <3>1. m_forked_list \in Seq(Nat)
      BY DEF Sound, Good, State, Current
    <3>2. c \in ToSet(m_forked_list)
      BY <1>2, <3>1, ListTail
    <3> QED BY <3>2 DEF Pending, Current
  <2>2. contexts[c] \in Context
    <3>1. c \in DOMAIN Current.contexts /\ Current \in State
      BY <2>1 DEF Sound, Good, Apart
    <3> QED BY <3>1, ContextNumbers DEF Current
  <2> QED BY <2>2 DEF Context
<1>5. Good(Current) /\ RootSame(Current, s) /\ m_cleared \in BOOLEAN /\ m_top_all_dropped \in BOOLEAN
      /\ m_source_count \in [Objs -> 0 .. MaxCount]
  <2>1. DrainsTop(s) <=> DrainsTop(Current)
    BY <1>2 DEF DrainsTop, Current
  <2> QED BY <1>2, <2>1 DEF Sound, Good, State, RootSame, Current
<1> HIDE DEF s, d, o, p
<1>6. /\ \E r : Good(r) /\ OthersKept(s, r, d) /\ Becomes(r)
      /\ m_source_count' \in [Objs -> 0 .. MaxCount] /\ m_cleared' \in BOOLEAN
      /\ m_top_all_dropped' \in BOOLEAN
      /\ Root!Next \/ AtRoot' = AtRoot
  <2>1. CASE AllDropped(s, p, d)
    BY <1>2, <1>5, <2>1, AllDroppedMoves
  <2>2. CASE Becomes(w) /\ UNCHANGED <<m_source_count, m_top_all_dropped, m_cleared>>
    <3>1. s.contexts[d.ctxt] = [obj |-> d.obj, count |-> d.count]
      BY <1>2, <1>4
    <3>2. /\ Good(w) /\ Pending(w) = Pending(s) /\ w.contexts = s.contexts
          /\ w.total = s.total /\ w.forked = s.forked /\ w.procs = s.procs
      BY <1>2, <3>1, WaitsGood
    <3>3. w.cleared = s.cleared
      BY <1>2 DEF Good, State
    <3> HIDE DEF w
    <3>4. OthersKept(s, w, d)
      BY <3>2, <3>3 DEF OthersKept
    <3>5. /\ Good(Current') /\ Pending(Current') = Pending(w)
          /\ Current'.total = w.total /\ Current'.contexts = w.contexts
      BY <1>5, <2>2, <3>2, BecomesGood
    <3>6. RootMoves(Current, Current')
      BY <1>5, <3>2, <3>5 DEF RootMoves, RootSame, DrainsTop
    <3>7. Root!Next \/ AtRoot' = AtRoot
      BY <1>5, <2>2, <3>5, <3>6, RootFollows
    <3> QED BY <1>5, <2>2, <3>2, <3>4, <3>7
  <2> QED BY <1>3, <2>1, <2>2
<1>7. PICK r : Good(r) /\ OthersKept(s, r, d) /\ Becomes(r)
  BY <1>6
<1>8. /\ Good(Current') /\ Current'.contexts = r.contexts
      /\ Current'.forked = r.forked /\ Current'.procs = r.procs
  BY <1>6, <1>7, BecomesGood
<1>9. guards' \in Seq([proc : Procs, ctxt : Nat]) /\ Guarded'
  <2>1. m_forked_list' = Tail(m_forked_list)
    BY <1>2, <1>7, <1>8 DEF OthersKept, Current
  <2>2. \A e \in Pending(Current) : e # c => contexts'[e] = contexts[e]
    BY <1>2, <1>4, <1>7, <1>8 DEF OthersKept, Current
  <2>3. \A x \in Objs : x # o => m_drain_proc'[x] = m_drain_proc[x]
    BY <1>2, <1>4, <1>7, <1>8 DEF OthersKept, Current
  <2> QED BY <1>1, <1>2, <2>1, <2>2, <2>3, TailGuarded DEF o
<1>10. Sound'
  <2>1. Good(Current)'
    BY <1>8
  <2> QED BY <1>6, <1>9, <2>1 DEF Sound
<1> QED BY <1>6, <1>10 DEF Follows

-----------------------------------------------------------------------------
(* The counts balance *)

\* What o drains, the contexts of K aside.
Owes(st, K, o) == {c \in Pending(st) \ K : st.contexts[c].obj = o}
Owed(st, K, o) == IF Owes(st, K, o) = {} THEN 0 ELSE st.contexts[First(Owes(st, K, o))].count

\* What the parent of each object has heard of it.
Heard(st, K) == [o \in Objs |-> st.total[o] + Owed(st, K, o)]
Children(o) == {x \in Objs : Parent[x] = o}

\* Conservation, for counts src of the sources and a change st.n that has come to
\* st.at, when the contexts of K have been passed on.
Balanced(st, src, K) ==
  \A o \in Objs : st.total[o] + (IF o = st.at THEN st.n ELSE 0)
                    = src[o] + SumOf(Heard(st, K), Children(o))

Positive(st) == \A c \in Pending(st) : st.contexts[c].count > 0

\* An object owes the count of the one context it is drained with.
LEMMA OwedIs ==
  ASSUME NEW st, Good(st), NEW K, NEW o \in Objs
  PROVE  /\ Owed(st, K, o) \in Nat
         /\ \A c \in Owes(st, K, o) : Owed(st, K, o) = st.contexts[c].count
         /\ Owes(st, K, o) = {} => Owed(st, K, o) = 0
<1> DEFINE f == First(Owes(st, K, o))
<1>1. Owes(st, K, o) # {} => f \in Owes(st, K, o)
  BY DEF First
<1> HIDE DEF f
<1>2. \A c, e \in Owes(st, K, o) : c = e
  BY DEF Good, Idle, Owes
<1>3. \A c \in Owes(st, K, o) : st.contexts[c].count \in Nat
  <2>1. st \in State /\ \A c \in Pending(st) : c \in DOMAIN st.contexts
    BY DEF Good, Apart
  <2>2. \A c \in Pending(st) : st.contexts[c] \in Context
    BY <2>1, ContextNumbers
  <2> QED BY <2>2 DEF Owes, Context
<1> QED BY <1>1, <1>2, <1>3 DEF Owed, f

\* Objects drained with the same contexts owe the same.
LEMMA OwedSame ==
  ASSUME NEW st, Good(st), NEW r, Good(r), NEW K, NEW L, NEW o \in Objs,
         Owes(r, L, o) = Owes(st, K, o),
         \A c \in Owes(st, K, o) : r.contexts[c] = st.contexts[c]
  PROVE  Owed(r, L, o) = Owed(st, K, o)
<1>1. CASE Owes(st, K, o) = {}
  BY <1>1 DEF Owed
<1>2. CASE Owes(st, K, o) # {}
  <2>1. PICK c \in Owes(st, K, o) : TRUE
    BY <1>2
  <2>2. Owed(st, K, o) = st.contexts[c].count
    BY <2>1, OwedIs
  <2>3. Owed(r, L, o) = r.contexts[c].count
    BY <2>1, OwedIs
  <2> QED BY <2>1, <2>2, <2>3
<1> QED BY <1>1, <1>2

\* What has been heard are numbers.
LEMMA HeardType ==
  ASSUME NEW st, Good(st), NEW K
  PROVE  /\ Heard(st, K) \in [Objs -> Nat] /\ Heard(st, K) \in [Objs -> Int]
         /\ \A o \in Objs : st.total[o] \in Nat /\ Owed(st, K, o) \in Nat
                              /\ Heard(st, K)[o] = st.total[o] + Owed(st, K, o)
<1>1. \A o \in Objs : st.total[o] \in Nat
  BY DEF Good, State
<1>2. \A o \in Objs : Owed(st, K, o) \in Nat
  BY OwedIs
<1>3. \A o \in Objs : st.total[o] + Owed(st, K, o) \in Nat
  BY <1>1, <1>2
<1> QED BY <1>1, <1>2, <1>3 DEF Heard

\* A change leaves o, which has counted it, for the parent: what the parent hears
\* of o has changed by what is on its way now.
LEMMA BalanceMoves ==
  ASSUME NEW st, Good(st), NEW r, Good(r), NEW o \in Objs, st.at = o, r.at = Parent[o],
         NEW src \in [Objs -> Nat], NEW K, Balanced(st, src, K),
         r.total = Counted(st, o),
         \A x \in Objs : x # o => Owed(r, K, x) = Owed(st, K, x),
         r.n = (st.n + Owed(r, K, o)) - Owed(st, K, o)
  PROVE  Balanced(r, src, K)
<1> DEFINE h == Heard(st, K)
           k == Heard(r, K)
<1>1. /\ h \in [Objs -> Int] /\ k \in [Objs -> Int] /\ IsFiniteSet(Objs)
      /\ \A x \in Objs : /\ st.total[x] \in Nat /\ Owed(st, K, x) \in Nat
                         /\ h[x] = st.total[x] + Owed(st, K, x)
                         /\ r.total[x] \in Nat /\ Owed(r, K, x) \in Nat
                         /\ k[x] = r.total[x] + Owed(r, K, x)
  <2>1. h \in [Objs -> Int] /\ \A x \in Objs : /\ st.total[x] \in Nat /\ Owed(st, K, x) \in Nat
                                               /\ h[x] = st.total[x] + Owed(st, K, x)
    BY HeardType
  <2>2. k \in [Objs -> Int] /\ \A x \in Objs : /\ r.total[x] \in Nat /\ Owed(r, K, x) \in Nat
                                               /\ k[x] = r.total[x] + Owed(r, K, x)
    BY HeardType
  <2> QED BY <2>1, <2>2, TreeAssumption
<1>2. st.n \in Int /\ st.total \in [Objs -> Nat] /\ r.n \in Int
  BY DEF Good, State
<1>3. r.total[o] = st.total[o] + st.n /\ \A x \in Objs : x # o => r.total[x] = st.total[x]
  BY <1>2 DEF Counted
<1> HIDE DEF h, k
<1>4. (\A x \in Objs : x # o => k[x] = h[x]) /\ k[o] - h[o] = r.n
  <2>1. \A x \in Objs : x # o => k[x] = h[x]
    BY <1>1, <1>3
  <2>2. k[o] = (st.total[o] + st.n) + Owed(r, K, o) /\ h[o] = st.total[o] + Owed(st, K, o)
    BY <1>1, <1>3
  <2>3. st.total[o] \in Int /\ Owed(r, K, o) \in Int /\ Owed(st, K, o) \in Int
    BY <1>1
  <2> QED BY <1>2, <2>1, <2>2, <2>3
<1>5. Parent[o] # o
  <2>1. {o} \in SUBSET Objs /\ {o} # {}
    OBVIOUS
  <2> QED BY <2>1, TreeAssumption
<1>6. ASSUME NEW y \in Objs
      PROVE  r.total[y] + (IF y = r.at THEN r.n ELSE 0) = src[y] + SumOf(k, Children(y))
  <2>1. Children(y) \in SUBSET Objs /\ (o \in Children(y) <=> y = r.at)
    BY DEF Children
  <2>2. SumOf(k, Children(y)) = IF o \in Children(y) THEN SumOf(h, Children(y)) + (k[o] - h[o])
                                ELSE SumOf(h, Children(y))
    BY <1>1, <1>4, <2>1, SumChange
  <2>3. SumOf(h, Children(y)) \in Int
    BY <1>1, <2>1, SumStep
  <2>4. st.total[y] + (IF y = o THEN st.n ELSE 0) = src[y] + SumOf(h, Children(y))
    BY DEF Balanced, h
  <2>5. src[y] \in Nat /\ st.total[y] \in Nat /\ r.total[y] \in Nat
    BY <1>1
  <2>6. CASE y = r.at
    <3>1. y # o /\ r.total[y] = st.total[y]
      BY <1>3, <1>5, <2>6
    <3>2. SumOf(k, Children(y)) = SumOf(h, Children(y)) + r.n
      BY <1>4, <2>1, <2>2, <2>6
    <3>3. st.total[y] = src[y] + SumOf(h, Children(y))
      BY <2>4, <2>5, <3>1
    <3> QED BY <1>2, <2>3, <2>5, <2>6, <3>1, <3>2, <3>3
  <2>7. CASE y # r.at
    <3>1. SumOf(k, Children(y)) = SumOf(h, Children(y))
      BY <2>1, <2>2, <2>7
    <3>2. r.total[y] = st.total[y] + (IF y = o THEN st.n ELSE 0)
      BY <1>2, <1>3, <2>5
    <3> QED BY <2>3, <2>4, <2>5, <2>7, <3>1, <3>2
  <2> QED BY <2>6, <2>7
<1> QED BY <1>6 DEF Balanced, k

\* A drop does not fall below zero where the counts balance.
LEMMA BalanceCovers ==
  ASSUME NEW st, Good(st), NEW src \in [Objs -> Nat], NEW K, Balanced(st, src, K), st.at \in Objs
  PROVE  Counted(st, st.at)[st.at] >= 0
<1> DEFINE o == st.at
           h == Heard(st, K)
<1>1. st.n \in Int /\ st.total \in [Objs -> Nat]
  BY DEF Good, State
<1>2. h \in [Objs -> Nat] /\ IsFiniteSet(Objs) /\ Children(o) \in SUBSET Objs
  BY HeardType, TreeAssumption DEF Children
<1>3. st.total[o] + st.n = src[o] + SumOf(h, Children(o))
  BY DEF Balanced
<1> HIDE DEF h
<1>4. SumOf(h, Children(o)) \in Nat
  BY <1>2, SumNat
<1>5. Counted(st, o)[o] = st.total[o] + st.n
  BY <1>1 DEF Counted
<1> QED BY <1>3, <1>4, <1>5

\* What a balanced change keeps on its way: the contexts of K are pending, and only
\* a drop finds such contexts.
Weighed(st, src, K) ==
  /\ Good(st) /\ Balanced(st, src, K) /\ Positive(st) /\ st.halted = "no"
  /\ K \subseteq Pending(st) /\ (K = {} \/ st.n <= 0)

\* The balance of a change survives each object it comes to.
LEMMA ReachesWeighed ==
  ASSUME NEW st, st.at \in Objs, NEW r, Reaches(st, r), NEW src \in [Objs -> Nat], NEW K,
         Weighed(st, src, K)
  PROVE  Weighed(r, src, K)
<1> DEFINE o == st.at
<1>1. /\ Good(st) /\ Balanced(st, src, K) /\ Positive(st) /\ st.halted = "no"
      /\ K \subseteq Pending(st) /\ (K = {} \/ st.n <= 0)
  BY DEF Weighed
<1>2. Good(r) /\ r.at = Parent[o] /\ o \in Objs
  BY DEF Reaches
<1>3. st.n \in Int /\ st.total \in [Objs -> Nat] /\ r.n \in Int
  BY <1>1, <1>2 DEF Good, State
<1>4. Counted(st, o)[o] = st.total[o] + st.n /\ Counted(st, o)[o] >= 0 /\ st.total[o] \in Nat
  <2>1. Counted(st, o)[o] >= 0
    BY <1>1, BalanceCovers
  <2> QED BY <1>2, <1>3, <2>1 DEF Counted
<1>5. SUFFICES /\ r.total = Counted(st, o) /\ Positive(r) /\ r.halted = "no"
               /\ K \subseteq Pending(r) /\ (K = {} \/ r.n <= 0)
               /\ \A x \in Objs : x # o => Owed(r, K, x) = Owed(st, K, x)
               /\ r.n = (st.n + Owed(r, K, o)) - Owed(st, K, o)
  BY <1>1, <1>2, BalanceMoves DEF Weighed
<1>6. Owed(r, K, o) \in Nat /\ Owed(st, K, o) \in Nat
  BY <1>1, <1>2, OwedIs
<1>7. CASE Stops(st, r)
  <2>1. st.n = 0 /\ r.n = 0 /\ r.total = st.total /\ r.contexts = st.contexts
        /\ Pending(r) = Pending(st) /\ r.halted = st.halted
    BY <1>3, <1>4, <1>7 DEF Stops
  <2>2. r.total = Counted(st, o)
    <3>1. st.total[o] + st.n = st.total[o]
      BY <1>4, <2>1
    <3> QED BY <1>3, <2>1, <3>1 DEF Counted
  <2>3. \A x \in Objs : Owed(r, K, x) = Owed(st, K, x)
    BY <2>1 DEF Owed, Owes
  <2> QED BY <1>1, <1>2, <1>6, <2>1, <2>2, <2>3 DEF Positive
<1>8. CASE GoesOn(st, r)
  <2>1. r.n = st.n /\ r.total = Counted(st, o) /\ r.contexts = st.contexts
        /\ Pending(r) = Pending(st) /\ r.halted = st.halted
    BY <1>8 DEF GoesOn
  <2>2. \A x \in Objs : Owed(r, K, x) = Owed(st, K, x)
    BY <2>1 DEF Owed, Owes
  <2> QED BY <1>1, <1>2, <1>3, <1>6, <2>1, <2>2 DEF Positive
<1>9. CASE Catches(st, r)
  <2>1. st.n > 0 /\ r.total = Counted(st, o) /\ r.contexts = st.contexts /\ r.halted = st.halted
    BY <1>9 DEF Catches
  <2>2. PICK c \in Pending(st) : /\ st.contexts[c].obj = o /\ Pending(r) = Pending(st) \ {c}
                                 /\ r.n = st.n - st.contexts[c].count
    BY <1>9 DEF Catches
  <2>3. K = {}
    BY <1>1, <1>3, <2>1
  <2>4. Owed(st, K, o) = st.contexts[c].count
    <3>1. c \in Owes(st, K, o)
      BY <2>2, <2>3 DEF Owes
    <3> QED BY <1>1, <1>2, <3>1, OwedIs
  <2>5. Owed(r, K, o) = 0
    <3>1. \A e \in Pending(st) : st.contexts[e].obj = o => e = c
      BY <1>1, <2>2 DEF Good, Idle
    <3>2. Owes(r, K, o) = {}
      BY <2>1, <2>2, <3>1 DEF Owes
    <3> QED BY <1>2, <3>2, OwedIs
  <2>6. \A x \in Objs : x # o => Owed(r, K, x) = Owed(st, K, x)
    <3> SUFFICES ASSUME NEW x \in Objs, x # o PROVE Owed(r, K, x) = Owed(st, K, x)
      OBVIOUS
    <3>1. Owes(r, K, x) = Owes(st, K, x)
      BY <2>1, <2>2 DEF Owes
    <3> QED BY <1>1, <1>2, <2>1, <3>1, OwedSame
  <2> QED BY <1>1, <1>3, <1>6, <2>1, <2>2, <2>3, <2>4, <2>5, <2>6 DEF Positive
<1>10. CASE Drains(st, r)
  <2>1. st.n < 0 /\ r.n = 0 /\ r.total = Counted(st, o) /\ r.halted = st.halted
        /\ Counted(st, o)[o] = 0
    BY <1>10 DEF Drains
  <2>2. PICK c : /\ c \notin Pending(st) /\ Pending(r) = Pending(st) \cup {c}
                 /\ r.contexts[c] = [obj |-> o, count |-> -st.n]
                 /\ \A e \in Pending(st) : r.contexts[e] = st.contexts[e]
    BY <1>10 DEF Drains
  <2>3. \A e \in Pending(st) : st.contexts[e].obj # o
    BY <1>1, <1>3, <1>4, <2>1 DEF Good, Idle
  <2>4. Owed(st, K, o) = 0
    <3>1. Owes(st, K, o) = {}
      BY <2>3 DEF Owes
    <3> QED BY <1>1, <1>2, <3>1, OwedIs
  <2>5. Owed(r, K, o) = -st.n
    <3>1. c \in Owes(r, K, o)
      BY <1>1, <2>2 DEF Owes
    <3> QED BY <1>2, <2>2, <3>1, OwedIs
  <2>6. \A x \in Objs : x # o => Owed(r, K, x) = Owed(st, K, x)
    <3> SUFFICES ASSUME NEW x \in Objs, x # o PROVE Owed(r, K, x) = Owed(st, K, x)
      OBVIOUS
    <3>1. Owes(r, K, x) = Owes(st, K, x)
      BY <2>2 DEF Owes
    <3>2. \A e \in Owes(st, K, x) : r.contexts[e] = st.contexts[e]
      BY <2>2 DEF Owes
    <3> QED BY <1>1, <1>2, <3>1, <3>2, OwedSame
  <2>7. Positive(r)
    BY <1>1, <1>3, <2>1, <2>2 DEF Positive
  <2>8. K \subseteq Pending(r)
    BY <1>1, <2>2
  <2>9. r.n = (st.n + Owed(r, K, o)) - Owed(st, K, o)
    BY <1>3, <2>1, <2>4, <2>5
  <2> QED BY <1>1, <2>1, <2>6, <2>7, <2>8, <2>9
<1> QED BY <1>7, <1>8, <1>9, <1>10 DEF Reaches

\* On its way to the root a change comes to an end.
LEMMA ClimbEnds ==
  ASSUME NEW st, Good(st), st.at \in Objs
  PROVE  Climbed(st).at = NULL
<1> DEFINE D == {s \in State : Good(s)}
           N == Cardinality(Objs)
<1>1. st \in D
  BY DEF Good
<1>2. ASSUME NEW s \in D, s.at # NULL
      PROVE  m_propagate(s) \in D /\ m_propagate(s).at = Parent[s.at]
  <2>1. Reaches(s, m_propagate(s))
    BY <1>2, PropagateReaches
  <2> QED BY <2>1 DEF Reaches, Good
<1>3. \A s \in D : s.at \in Objs \cup {NULL}
  BY DEF State
<1> HIDE DEF D
<1>4. PICK up \in [0 .. N -> D] :
        up[N] = Climbed(st) /\ \A i \in 1 .. N : up[i] = m_propagate(up[i - 1])
  BY <1>1, <1>2, ClimbTrace
<1>5. N \in Nat
  BY FS_CardinalityType, TreeAssumption
<1> SUFFICES ASSUME up[N].at # NULL PROVE FALSE
  BY <1>4
<1> HIDE DEF N
<1>6. \A i \in 0 .. N : up[i].at # NULL
  <2> DEFINE Lost == {i \in Nat : i <= N /\ up[N - i].at = NULL}
  <2> SUFFICES Lost = {}
    <3> SUFFICES ASSUME NEW i \in 0 .. N, up[i].at = NULL PROVE FALSE
      OBVIOUS
    <3>1. N - i \in Nat /\ N - i <= N /\ N - (N - i) = i
      BY <1>5
    <3>2. N - i \in Lost
      BY <3>1
    <3> QED BY <3>2
  <2> SUFFICES ASSUME Lost # {} PROVE FALSE
    OBVIOUS
  <2>1. PICK i \in Lost : \A j \in Lost : i <= j
    <3>1. Lost \in SUBSET Nat
      OBVIOUS
    <3> HIDE DEF Lost
    <3> QED BY <3>1, LeastOf
  <2>2. i \in Nat /\ i # 0 /\ i <= N /\ N - i \in 0 .. N /\ (N - i) + 1 \in 1 .. N
        /\ up[N - i].at = NULL
    BY <1>5, <2>1
  <2>3. i - 1 \in Nat /\ i - 1 <= N /\ N - (i - 1) = (N - i) + 1
    BY <1>5, <2>2
  <2>4. up[(N - i) + 1] = m_propagate(up[N - i])
    <3>1. ((N - i) + 1) - 1 = N - i
      BY <1>5, <2>2
    <3> QED BY <1>4, <2>2, <3>1
  <2>5. m_propagate(up[N - i]) = up[N - i]
    BY <2>2 DEF m_propagate
  <2>6. i - 1 \in Lost
    BY <2>2, <2>3, <2>4, <2>5
  <2>7. ~(i <= i - 1)
    BY <2>2
  <2> HIDE DEF Lost
  <2> QED BY <2>1, <2>6, <2>7
<1>7. \A i \in 1 .. N : up[i].at = Parent[up[i - 1].at]
  <2> SUFFICES ASSUME NEW i \in 1 .. N PROVE up[i].at = Parent[up[i - 1].at]
    OBVIOUS
  <2>1. i - 1 \in 0 .. N
    BY <1>5
  <2>2. up[i - 1] \in D /\ up[i - 1].at # NULL
    BY <1>6, <2>1
  <2> QED BY <1>2, <1>4, <2>2
<1> DEFINE a == [i \in 0 .. N |-> up[i].at]
<1>8. a \in [0 .. N -> Objs]
  BY <1>3, <1>6
<1>9. PICK i \in 0 .. N, j \in 0 .. N : i < j /\ a[i] = a[j]
  <2>1. IsFiniteSet(0 .. N) /\ Cardinality(0 .. N) = N + 1
    BY <1>5, FS_Interval
  <2>2. Cardinality(Objs) < Cardinality(0 .. N)
    BY <1>5, <2>1 DEF N
  <2> HIDE DEF a
  <2>3. PICK k \in 0 .. N, l \in 0 .. N : k # l /\ a[k] = a[l]
    <3> DEFINE I == 0 .. N
    <3>1. IsFiniteSet(I) /\ IsFiniteSet(Objs) /\ Cardinality(Objs) < Cardinality(I) /\ a \in [I -> Objs]
      BY <1>8, <2>1, <2>2, TreeAssumption
    <3> HIDE DEF I
    <3>2. \E k, l \in I : k # l /\ a[k] = a[l]
      BY ONLY <3>1, FS_PigeonHole
    <3> QED BY <3>2 DEF I
  <2>4. k < l \/ l < k
    BY <1>5, <2>3
  <2> QED BY <2>3, <2>4
<1> DEFINE S == {a[k] : k \in i .. j - 1}
<1>10. S \in SUBSET Objs /\ S # {}
  <2>1. i \in i .. j - 1 /\ \A k \in i .. j - 1 : k \in 0 .. N
    BY <1>5, <1>9
  <2> HIDE DEF a
  <2> QED BY <1>8, <2>1
<1>11. ASSUME NEW k \in i .. j - 1 PROVE Parent[a[k]] \in S
  <2>1. k \in 0 .. N /\ k + 1 \in 1 .. N /\ k + 1 \in 0 .. N /\ (k + 1) - 1 = k
    BY <1>5, <1>9
  <2>2. a[k + 1] = Parent[a[k]]
    BY <1>7, <2>1
  <2> HIDE DEF a
  <2>3. CASE k + 1 = j
    <3>1. i \in i .. j - 1
      BY <1>5, <1>9
    <3> QED BY <1>9, <2>2, <2>3, <3>1
  <2>4. CASE k + 1 # j
    <3>1. k + 1 \in i .. j - 1
      BY <1>5, <1>9, <2>4
    <3> QED BY <2>2, <3>1
  <2> QED BY <2>3, <2>4
<1>12. \A o \in S : Parent[o] \in S
  BY <1>11
<1> HIDE DEF S
<1> QED BY <1>10, <1>12, TreeAssumption

\* A balanced change on its way through the tree.
LEMMA ClimbWeighed ==
  ASSUME NEW st, st.at \in Objs, NEW src \in [Objs -> Nat], NEW K, Weighed(st, src, K)
  PROVE  Weighed(Climbed(st), src, K)
<1> DEFINE D == {s \in State : Weighed(s, src, K)}
           N == Cardinality(Objs)
<1>1. st \in D
  BY DEF Weighed, Good
<1>2. ASSUME NEW s \in D, s.at # NULL PROVE m_propagate(s) \in D
  <2> DEFINE r == m_propagate(s)
  <2>1. Weighed(s, src, K) /\ Good(s) /\ s.at \in Objs
    BY <1>2 DEF State, Weighed
  <2>2. Reaches(s, r)
    BY <1>2, <2>1, PropagateReaches
  <2> HIDE DEF r
  <2>3. Weighed(r, src, K)
    BY <2>1, <2>2, ReachesWeighed
  <2> QED BY <2>3 DEF Weighed, Good, r
<1> HIDE DEF D
<1>3. PICK up \in [0 .. N -> D] : up[N] = Climbed(st)
  BY <1>1, <1>2, ClimbTrace
<1>4. Climbed(st) \in D
  <2>1. N \in Nat
    BY FS_CardinalityType, TreeAssumption
  <2> QED BY <1>3, <2>1
<1> QED BY <1>4 DEF D

\* What is balanced depends on the totals and on the contexts that are pending.
LEMMA BalanceSame ==
  ASSUME NEW st, Good(st), NEW src, NEW K, Balanced(st, src, K),
         NEW r, Good(r), NEW L, r.total = st.total,
         st.n = 0 \/ st.at = NULL, r.n = 0 \/ r.at = NULL,
         Pending(r) \ L = Pending(st) \ K,
         \A c \in Pending(st) \ K : r.contexts[c] = st.contexts[c]
  PROVE  Balanced(r, src, L)
<1>1. \A x \in Objs : Owed(r, L, x) = Owed(st, K, x)
  <2> SUFFICES ASSUME NEW x \in Objs PROVE Owed(r, L, x) = Owed(st, K, x)
    OBVIOUS
  <2>1. Owes(r, L, x) = Owes(st, K, x)
    BY DEF Owes
  <2>2. \A c \in Owes(st, K, x) : r.contexts[c] = st.contexts[c]
    BY DEF Owes
  <2> QED BY <2>1, <2>2, OwedSame
<1>2. Heard(r, L) = Heard(st, K)
  BY <1>1 DEF Heard
<1>3. \A o \in Objs : (IF o = st.at THEN st.n ELSE 0) = 0 /\ (IF o = r.at THEN r.n ELSE 0) = 0
  BY TreeAssumption
<1> QED BY <1>2, <1>3 DEF Balanced

\* A change n from the testbench, or from a drain whose context is in K, leaves the
\* counts balanced.
LEMMA PropagatedWeighed ==
  ASSUME NEW st, Good(st), NEW n \in Int, NEW o \in Objs, n > 0 => st.forked = <<>>,
         NEW src \in [Objs -> Nat], NEW K, K \subseteq Pending(st), K = {} \/ n <= 0,
         Positive(st), st.halted = "no",
         \A x \in Objs : st.total[x] + (IF x = o THEN n ELSE 0)
                           = src[x] + SumOf(Heard(st, K), Children(x))
  PROVE  LET r == Propagated(st, n, o) IN Weighed(r, src, K) /\ r.at = NULL
<1> DEFINE a == [st EXCEPT !.n = n, !.at = o]
           s == Climbed(a)
           r == Propagated(st, n, o)
<1>1. st \in State
  BY DEF Good
<1>2. /\ a \in State /\ a.contexts = st.contexts /\ a.pool = st.pool /\ a.forked = st.forked
      /\ a.freed = st.freed /\ a.total = st.total /\ a.drains = st.drains
      /\ a.procs = st.procs /\ a.running = st.running /\ a.at = o /\ a.halted = st.halted
      /\ a.cleared = st.cleared /\ a.scheduled = st.scheduled /\ a.n = n
  BY <1>1 DEF State
<1>3. r = Freed(s, s.freed)
  BY DEF Propagated, Freed
<1> HIDE DEF a, s, r
<1>4. Pending(a) = Pending(st) /\ InDrain(a) = InDrain(st)
  BY <1>2 DEF Pending, InDrain
<1>5. Good(a)
  <2>1. Apart(a) /\ Clean(a) /\ Idle(a) /\ Driven(a)
    BY <1>2, <1>4 DEF Good, Apart, Clean, Idle, Driven
  <2> QED BY <1>2, <2>1 DEF Good
<1>6. Weighed(a, src, K)
  <2>1. Heard(a, K) = Heard(st, K)
    BY <1>2, <1>4 DEF Heard, Owed, Owes
  <2>2. Balanced(a, src, K)
    BY <1>2, <2>1 DEF Balanced
  <2>3. Positive(a)
    BY <1>2, <1>4 DEF Positive
  <2> QED BY <1>2, <1>4, <1>5, <2>2, <2>3 DEF Weighed
<1>7. Weighed(s, src, K) /\ s.at = NULL
  BY <1>2, <1>5, <1>6, ClimbWeighed, ClimbEnds DEF s
<1>8. /\ s.freed \in Seq(Nat) /\ Once(s.freed) /\ Good(s)
      /\ ToSet(s.freed) \subseteq DOMAIN s.contexts \ (ToSet(s.pool) \cup Pending(s))
  BY <1>7 DEF Weighed, Good, State, Apart
<1>9. /\ Good(r) /\ r.total = s.total /\ r.halted = s.halted /\ r.n = s.n /\ r.at = s.at
      /\ Pending(r) = Pending(s)
      /\ \A c \in Pending(s) : r.contexts[c] = s.contexts[c]
  BY <1>3, <1>8, FreeGood
<1>10. Balanced(r, src, K)
  BY <1>7, <1>8, <1>9, BalanceSame DEF Weighed
<1>11. Positive(r)
  BY <1>7, <1>9 DEF Weighed, Positive
<1> QED BY <1>7, <1>9, <1>10, <1>11 DEF Weighed, r

\* Nothing is raised and nothing is draining.
Quiet(st) == Pending(st) = {} /\ \A o \in Objs : st.total[o] = 0

Even ==
  /\ Balanced(Current, m_source_count, {}) /\ Positive(Current) /\ halted = "no"
  /\ m_top_all_dropped \/ m_cleared => Quiet(Current)

\* What the testbench may do: the callbacks of all_dropped raise again no more than
\* was dropped, and clear meets one drain at most.
Conserves ==
  {"window", "reraise_any"} \cap Ops = {} /\ ("clear" \in Ops => MaxDrained <= 1)

\* In a balanced tree whose root is at rest, all is.
LEMMA QuietBelow ==
  ASSUME NEW st, Good(st), NEW src \in [Objs -> Nat], Balanced(st, src, {}), Positive(st),
         st.n = 0 \/ st.at = NULL, st.total[top] = 0, ~DrainsTop(st)
  PROVE  Quiet(st)
<1> DEFINE h == Heard(st, {})
           T == {o \in Objs : st.total[o] # 0 \/ Owes(st, {}, o) # {}}
<1>1. /\ h \in [Objs -> Nat] /\ IsFiniteSet(Objs)
      /\ \A o \in Objs : st.total[o] \in Nat /\ Owed(st, {}, o) \in Nat
                           /\ h[o] = st.total[o] + Owed(st, {}, o)
  BY HeardType, TreeAssumption
<1>2. \A o \in Objs : st.total[o] = src[o] + SumOf(h, Children(o))
  <2>1. \A o \in Objs : (IF o = st.at THEN st.n ELSE 0) = 0
    BY TreeAssumption
  <2> QED BY <1>1, <2>1 DEF Balanced
<1> HIDE DEF h
<1>3. T = {}
  <2> SUFFICES ASSUME T # {} PROVE FALSE
    OBVIOUS
  <2>1. PICK o \in T : Parent[o] \notin T
    <3>1. T \in SUBSET Objs
      OBVIOUS
    <3> HIDE DEF T
    <3> QED BY <3>1, TreeAssumption
  <2>2. o \in Objs /\ o # top
    BY <2>1 DEF Owes, DrainsTop
  <2> DEFINE p == Parent[o]
  <2>3. p \in Objs /\ st.total[p] = 0
    BY <2>1, <2>2, TreeAssumption
  <2> HIDE DEF p
  <2>4. o \in Children(p) /\ Children(p) \in SUBSET Objs
    BY <2>2 DEF Children, p
  <2>5. SumOf(h, Children(p)) \in Nat /\ h[o] <= SumOf(h, Children(p))
    BY <1>1, <2>4, SumNat
  <2>6. SumOf(h, Children(p)) = 0
    <3>1. src[p] \in Nat /\ src[p] + SumOf(h, Children(p)) = 0
      BY <1>2, <2>3
    <3> QED BY <2>5, <3>1
  <2>7. st.total[o] = 0 /\ Owed(st, {}, o) = 0
    BY <1>1, <2>2, <2>5, <2>6
  <2>8. PICK c \in Owes(st, {}, o) : TRUE
    BY <2>1, <2>7
  <2>9. st.contexts[c].count = 0
    BY <2>2, <2>7, <2>8, OwedIs
  <2> QED BY <2>8, <2>9 DEF Positive, Owes
<1>4. \A c \in Pending(st) : st.contexts[c].obj \in Objs
  <2>1. st \in State /\ \A c \in Pending(st) : c \in DOMAIN st.contexts /\ c \notin ToSet(st.pool)
    BY DEF Good, Apart
  <2> QED BY <2>1, ContextNumbers DEF Good, Clean, Context
<1>5. Pending(st) = {}
  BY <1>3, <1>4 DEF Owes
<1> QED BY <1>3, <1>5 DEF Quiet

\* While all is quiet nothing is left to drop.
LEMMA QuietSources ==
  ASSUME Sound, Even, Quiet(Current), NEW o \in Objs
  PROVE  m_source_count[o] = 0
<1> DEFINE h == Heard(Current, {})
<1>1. h \in [Objs -> Nat] /\ IsFiniteSet(Objs) /\ Children(o) \in SUBSET Objs
  BY HeardType, TreeAssumption DEF Sound, Children
<1>2. Current.total[o] + (IF o = Current.at THEN Current.n ELSE 0)
        = m_source_count[o] + SumOf(h, Children(o))
  BY DEF Even, Balanced
<1> HIDE DEF h
<1>3. Current.total[o] = 0 /\ Current.at # o
  BY TreeAssumption DEF Quiet, Current
<1>4. SumOf(h, Children(o)) \in Nat /\ m_source_count[o] \in Nat
  BY <1>1, SumNat DEF Sound
<1> QED BY <1>2, <1>3, <1>4

\* The counts of the sources are numbers, and Current is on no way.
LEMMA EvenCurrent ==
  ASSUME Sound, Even
  PROVE  /\ Good(Current) /\ m_source_count \in [Objs -> Nat]
         /\ \A x \in Objs : /\ m_total_count[x] \in Nat /\ m_source_count[x] \in Nat
                            /\ SumOf(Heard(Current, {}), Children(x)) \in Nat
                            /\ m_total_count[x] = m_source_count[x]
                                 + SumOf(Heard(Current, {}), Children(x))
<1>1. Good(Current) /\ m_source_count \in [Objs -> Nat]
  <2>1. m_source_count \in [Objs -> 0 .. MaxCount] /\ 0 .. MaxCount \subseteq Nat
    BY DEF Sound
  <2> QED BY <2>1 DEF Sound
<1> DEFINE h == Heard(Current, {})
<1>2. h \in [Objs -> Nat] /\ IsFiniteSet(Objs)
  BY <1>1, HeardType, TreeAssumption
<1>3. \A x \in Objs : SumOf(h, Children(x)) \in Nat
  <2> HIDE DEF h
  <2>1. \A x \in Objs : Children(x) \in SUBSET Objs
    BY DEF Children
  <2> QED BY <1>2, <2>1, SumNat
<1>4. Current.total = m_total_count /\ m_total_count \in [Objs -> Nat]
  BY <1>1 DEF Good, State, Current
<1>5. \A x \in Objs : Current.total[x] = m_source_count[x] + SumOf(h, Children(x))
  <2> SUFFICES ASSUME NEW x \in Objs
               PROVE  Current.total[x] = m_source_count[x] + SumOf(h, Children(x))
    OBVIOUS
  <2>1. Current.total[x] + (IF x = Current.at THEN Current.n ELSE 0)
          = m_source_count[x] + SumOf(h, Children(x))
    BY DEF Even, Balanced
  <2>2. x # Current.at /\ Current.total[x] \in Nat
    BY <1>4, TreeAssumption DEF Current
  <2> QED BY <2>1, <2>2
<1> QED BY <1>1, <1>3, <1>4, <1>5

\* A step that leaves the counts balanced.
LEMMA BecomesEven ==
  ASSUME NEW st, Weighed(st, m_source_count', {}), st.n = 0 \/ st.at = NULL,
         Becomes(st), m_cleared' \in BOOLEAN,
         m_top_all_dropped' \/ m_cleared' => Quiet(st)
  PROVE  Even'
<1>1. Good(st)
  BY DEF Weighed
<1>2. /\ Good(Current') /\ Pending(Current') = Pending(st)
      /\ Current'.total = st.total /\ Current'.contexts = st.contexts
  BY <1>1, BecomesGood
<1>3. Current'.at = NULL
  BY DEF Current
<1>4. Balanced(Current', m_source_count', {})
  BY <1>1, <1>2, <1>3, BalanceSame DEF Weighed
<1>5. Positive(Current')
  BY <1>2 DEF Weighed, Positive
<1>6. halted' = "no"
  BY DEF Becomes, Weighed
<1>7. m_top_all_dropped' \/ m_cleared' => Quiet(Current')
  BY <1>2 DEF Quiet
<1> QED BY <1>4, <1>5, <1>6, <1>7 DEF Even

\* raise_objection keeps the counts even.
LEMMA RaiseEven ==
  ASSUME Sound, Even, Conserves, NEW o \in Objs, NEW count \in 1 .. MaxCount,
         raise_objection(o, count)
  PROVE  Even'
<1> DEFINE k == FALSE
           a == [Current EXCEPT !.cleared = k]
           r == Propagated(a, count, o)
           src == m_source_count'
<1>1. guards = <<>> /\ m_forked_list = <<>>
  BY NoneForked DEF raise_objection, Conserves
<1>2. /\ Good(a) /\ a.forked = m_forked_list /\ a.total = m_total_count /\ a.halted = halted
      /\ a.contexts = contexts /\ Pending(a) = Pending(Current)
  <2> HIDE DEF k
  <2>1. Current \in State /\ k \in BOOLEAN
    BY DEF Sound, Good, k
  <2>2. a \in State
    BY <2>1 DEF State
  <2>3. /\ a.contexts = Current.contexts /\ a.pool = Current.pool
        /\ a.forked = Current.forked /\ a.freed = Current.freed
        /\ a.total = Current.total /\ a.drains = Current.drains
        /\ a.procs = Current.procs /\ a.running = Current.running
        /\ a.scheduled = Current.scheduled /\ a.n = Current.n /\ a.halted = Current.halted
    BY <2>1 DEF State
  <2> HIDE DEF a
  <2>4. Pending(a) = Pending(Current) /\ InDrain(a) = InDrain(Current)
    BY <2>3 DEF Pending, InDrain
  <2>5. Apart(a) /\ Clean(a) /\ Idle(a) /\ Driven(a)
    BY <2>3, <2>4 DEF Sound, Good, Apart, Clean, Idle, Driven
  <2>6. a.n > 0 => a.forked = <<>>
    BY <2>3 DEF Sound, Good
  <2>7. /\ Current.forked = m_forked_list /\ Current.total = m_total_count
        /\ Current.contexts = contexts /\ Current.halted = halted
    BY DEF Current
  <2> QED BY <2>2, <2>3, <2>4, <2>5, <2>6, <2>7 DEF Good
<1>3. count \in Int /\ count \in Nat /\ MaxCount \in Nat
  BY DrainAssumption
<1>4. Becomes(r) /\ m_cleared' = FALSE /\ m_top_all_dropped' = FALSE
      /\ src = [m_source_count EXCEPT ![o] = @ + count]
  BY DEF raise_objection
<1> HIDE DEF a
<1>5. src \in [Objs -> Nat] /\ src[o] = m_source_count[o] + count
      /\ \A x \in Objs : x # o => src[x] = m_source_count[x]
  <2>1. m_source_count \in [Objs -> Nat]
    BY EvenCurrent
  <2>2. m_source_count[o] + count \in Nat
    BY <1>3, <2>1
  <2> QED BY <1>4, <2>1, <2>2
<1>6. Positive(a) /\ a.halted = "no"
  BY <1>2 DEF Even, Positive, Current
<1>7. \A x \in Objs : a.total[x] + (IF x = o THEN count ELSE 0)
                        = src[x] + SumOf(Heard(a, {}), Children(x))
  <2>1. Heard(a, {}) = Heard(Current, {})
    BY <1>2 DEF Heard, Owed, Owes, Current
  <2>2. \A x \in Objs : /\ m_total_count[x] \in Nat /\ m_source_count[x] \in Nat
                        /\ SumOf(Heard(a, {}), Children(x)) \in Nat
                        /\ m_total_count[x] = m_source_count[x] + SumOf(Heard(a, {}), Children(x))
    BY <2>1, EvenCurrent
  <2> HIDE DEF src
  <2> QED BY <1>2, <1>3, <1>5, <2>2
<1> HIDE DEF src
<1>8. Weighed(r, src, {}) /\ r.at = NULL
  BY <1>1, <1>2, <1>3, <1>5, <1>6, <1>7, PropagatedWeighed
<1> HIDE DEF r
<1> QED BY <1>4, <1>8, BecomesEven DEF src

\* drop_objection keeps them even.
LEMMA DropEven ==
  ASSUME Sound, Even, Conserves, NEW o \in Objs, NEW count \in 1 .. MaxCount,
         drop_objection(o, count)
  PROVE  Even'
<1> DEFINE n == -count
           r == Propagated(Current, n, o)
           src == m_source_count'
<1>1. guards = <<>> /\ m_forked_list = <<>>
  BY NoneForked DEF drop_objection, Conserves
<1>2. /\ Good(Current) /\ Current.forked = m_forked_list /\ Current.total = m_total_count
      /\ Positive(Current) /\ Current.halted = "no"
  BY DEF Sound, Even, Current
<1>3. count \in Nat /\ count > 0 /\ n \in Int /\ n = -count /\ n <= 0 /\ ~(n > 0)
  BY DrainAssumption
<1>4. Becomes(r) /\ m_cleared' = m_cleared /\ m_top_all_dropped' = m_top_all_dropped
      /\ src = [m_source_count EXCEPT ![o] = @ - count] /\ count <= m_source_count[o]
  BY DEF drop_objection
<1> HIDE DEF n
<1>5. src \in [Objs -> Nat] /\ src[o] = m_source_count[o] - count
      /\ \A x \in Objs : x # o => src[x] = m_source_count[x]
  <2>1. m_source_count \in [Objs -> Nat]
    BY EvenCurrent
  <2>2. m_source_count[o] - count \in Nat
    BY <1>3, <1>4, <2>1
  <2> QED BY <1>4, <2>1, <2>2
<1>6. \A x \in Objs : Current.total[x] + (IF x = o THEN n ELSE 0)
                        = src[x] + SumOf(Heard(Current, {}), Children(x))
  <2>1. \A x \in Objs : /\ m_total_count[x] \in Nat /\ m_source_count[x] \in Nat
                        /\ SumOf(Heard(Current, {}), Children(x)) \in Nat
                        /\ m_total_count[x] = m_source_count[x]
                             + SumOf(Heard(Current, {}), Children(x))
    BY EvenCurrent
  <2> HIDE DEF src
  <2> QED BY <1>2, <1>3, <1>5, <2>1
<1> HIDE DEF src
<1>7. Weighed(r, src, {}) /\ r.at = NULL
  <2>1. {} \subseteq Pending(Current)
    OBVIOUS
  <2> QED BY <1>1, <1>2, <1>3, <1>5, <1>6, <2>1, PropagatedWeighed
<1>8. ~m_top_all_dropped /\ ~m_cleared
  <2>1. ~Quiet(Current)
    BY <1>3, <1>4, QuietSources
  <2> QED BY <2>1 DEF Even
<1>9. m_cleared \in BOOLEAN
  BY <1>2 DEF Good, State, Current
<1> HIDE DEF r
<1> QED BY <1>4, <1>7, <1>8, <1>9, BecomesEven DEF src

\* A drain ends in a state that owes what the current one owes.
LEMMA AllDroppedEven ==
  ASSUME Sound, Even, Conserves, NEW st, Weighed(st, m_source_count, {}), st.n = 0, st.at = NULL,
         NEW p \in Procs, NEW d, AtEnd(st, p, d), st.contexts[d.ctxt].count = d.count,
         ~m_cleared, ~m_top_all_dropped, AllDropped(st, p, d)
  PROVE  Even'
<1> DEFINE c == d.ctxt
           o == d.obj
           h == Heard(st, {})
           b == Heard(st, {c})
<1>1. Good(st) /\ Balanced(st, m_source_count, {}) /\ Positive(st) /\ st.halted = "no"
  BY DEF Weighed
<1>2. /\ st \in State /\ o \in Objs /\ d.count \in Nat /\ c \in Pending(st)
      /\ st.contexts[c].obj = o /\ st.total[o] = 0
  <2>1. st \in State /\ o \in Objs /\ d.count \in Nat
    BY <1>1 DEF AtEnd, Drain, Good
  <2>2. c \in Pending(st) /\ st.contexts[c].obj = o
    BY <1>1, <2>1 DEF AtEnd, Pending, InDrain, Range, State, Good, Idle
  <2> QED BY <1>1, <2>1, <2>2 DEF Good, Idle
<1>3. m_source_count \in [Objs -> Nat] /\ m_cleared \in BOOLEAN
  BY EvenCurrent DEF Sound, Good, State, Current
<1>4. Owed(st, {}, o) = d.count /\ Owed(st, {c}, o) = 0
      /\ \A x \in Objs : x # o => Owed(st, {c}, x) = Owed(st, {}, x)
  <2>1. c \in Owes(st, {}, o)
    BY <1>2 DEF Owes
  <2>2. Owes(st, {c}, o) = {}
    BY <1>1, <1>2 DEF Owes, Good, Idle
  <2>3. ASSUME NEW x \in Objs, x # o PROVE Owed(st, {c}, x) = Owed(st, {}, x)
    <3>1. Owes(st, {c}, x) = Owes(st, {}, x)
      BY <1>2, <2>3 DEF Owes
    <3> QED BY <1>1, <3>1, OwedSame
  <2> QED BY <1>1, <1>2, <2>1, <2>2, <2>3, OwedIs
<1>5. /\ h \in [Objs -> Int] /\ b \in [Objs -> Int] /\ IsFiniteSet(Objs)
      /\ b[o] = h[o] - d.count /\ \A x \in Objs : x # o => b[x] = h[x]
  <2>1. h \in [Objs -> Int] /\ \A x \in Objs : st.total[x] \in Nat
                                   /\ h[x] = st.total[x] + Owed(st, {}, x)
    BY <1>1, HeardType
  <2>2. b \in [Objs -> Int] /\ \A x \in Objs : b[x] = st.total[x] + Owed(st, {c}, x)
    BY <1>1, HeardType
  <2> HIDE DEF h, b, o, c
  <2>3. b[o] = st.total[o] /\ h[o] = st.total[o] + d.count /\ st.total[o] \in Nat
    BY <1>2, <1>4, <2>1, <2>2
  <2>4. b[o] = h[o] - d.count
    BY <1>2, <2>3
  <2>5. \A x \in Objs : x # o => b[x] = h[x]
    BY <1>4, <2>1, <2>2
  <2> QED BY <2>1, <2>2, <2>4, <2>5, TreeAssumption
<1> HIDE DEF h, b
<1>6. \A x \in Objs : /\ Children(x) \in SUBSET Objs /\ SumOf(h, Children(x)) \in Int
                      /\ SumOf(b, Children(x)) = SumOf(h, Children(x))
                           + (IF o \in Children(x) THEN -d.count ELSE 0)
                      /\ st.total[x] \in Nat
                      /\ st.total[x] = m_source_count[x] + SumOf(h, Children(x))
  <2> SUFFICES ASSUME NEW x \in Objs
               PROVE  /\ Children(x) \in SUBSET Objs /\ SumOf(h, Children(x)) \in Int
                      /\ SumOf(b, Children(x)) = SumOf(h, Children(x))
                           + (IF o \in Children(x) THEN -d.count ELSE 0)
                      /\ st.total[x] \in Nat
                      /\ st.total[x] = m_source_count[x] + SumOf(h, Children(x))
    OBVIOUS
  <2>1. Children(x) \in SUBSET Objs
    BY DEF Children
  <2>2. SumOf(h, Children(x)) \in Int
    BY <1>5, <2>1, SumStep
  <2>3. b[o] - h[o] = -d.count
    BY <1>2, <1>5
  <2>4. SumOf(b, Children(x)) = IF o \in Children(x) THEN SumOf(h, Children(x)) + (b[o] - h[o])
                                ELSE SumOf(h, Children(x))
    <3> HIDE DEF o
    <3> QED BY <1>2, <1>5, <2>1, SumChange
  <2>5. st.total[x] + (IF x = st.at THEN st.n ELSE 0) = m_source_count[x] + SumOf(h, Children(x))
    BY <1>1 DEF Balanced, h
  <2>6. st.total[x] \in Nat
    BY <1>2 DEF State
  <2> QED BY <2>1, <2>2, <2>3, <2>4, <2>5, <2>6
<1>7. CASE Drained(st, p, d)
  <2> DEFINE r == Finished(st, p, d)
             n == -d.count
             q == IF o = top THEN st ELSE Propagated(st, n, Parent[o])
  <2>1. /\ Good(r) /\ EndsWithout(q, r, c)
        /\ o = top => ~DrainsTop(r) /\ r.total[top] = 0
    BY <1>1, FinishedGood
  <2>2. /\ Becomes(r) /\ m_source_count' = m_source_count /\ m_cleared' = m_cleared
        /\ m_top_all_dropped' = (m_top_all_dropped \/ o = top)
    BY <1>7 DEF Drained
  <2>3. n \in Int /\ n <= 0 /\ ~(n > 0) /\ n = -d.count
    BY <1>2
  <2> HIDE DEF r, n
  <2>4. Weighed(q, m_source_count, {c}) /\ (q.n = 0 \/ q.at = NULL)
    <3>1. CASE o = top
      <4>1. \A x \in Objs : o \notin Children(x)
        BY <3>1, TreeAssumption DEF Children
      <4>2. \A x \in Objs : SumOf(b, Children(x)) = SumOf(h, Children(x))
        BY <1>6, <4>1
      <4>3. Balanced(st, m_source_count, {c})
        BY <1>1, <4>2 DEF Balanced, h, b
      <4> QED BY <1>1, <1>2, <3>1, <4>3 DEF Weighed
    <3>2. CASE o # top
      <4>1. Parent[o] \in Objs /\ \A x \in Objs : o \in Children(x) <=> x = Parent[o]
        BY <1>2, <3>2, TreeAssumption DEF Children
      <4>2. \A x \in Objs : st.total[x] + (IF x = Parent[o] THEN n ELSE 0)
                              = m_source_count[x] + SumOf(b, Children(x))
        BY <1>3, <1>6, <2>3, <4>1
      <4>3. {c} \subseteq Pending(st)
        BY <1>2
      <4> DEFINE y == Parent[o]
                 K == {c}
                 src == m_source_count
      <4>4. /\ y \in Objs /\ K \subseteq Pending(st) /\ src \in [Objs -> Nat]
            /\ \A x \in Objs : st.total[x] + (IF x = y THEN n ELSE 0)
                                = src[x] + SumOf(Heard(st, K), Children(x))
        BY <1>3, <4>1, <4>2, <4>3 DEF b
      <4> HIDE DEF y, K, src
      <4>5. Weighed(Propagated(st, n, y), src, K) /\ Propagated(st, n, y).at = NULL
        BY ONLY <1>1, <2>3, <4>4, PropagatedWeighed
      <4>6. Weighed(Propagated(st, n, Parent[o]), m_source_count, {c})
              /\ Propagated(st, n, Parent[o]).at = NULL
        BY <4>5 DEF y, K, src
      <4> QED BY <3>2, <4>6
    <3> QED BY <3>1, <3>2
  <2> HIDE DEF q
  <2>5. Good(q) /\ r.total = q.total /\ r.halted = q.halted /\ Pending(r) = Pending(q) \ {c}
        /\ \A e \in Pending(r) : r.contexts[e] = q.contexts[e]
    BY <2>1, <2>4 DEF EndsWithout, Weighed
  <2>6. Weighed(r, m_source_count, {})
    <3>1. Balanced(q, m_source_count, {c}) /\ Positive(q) /\ q.halted = "no"
      BY <2>4 DEF Weighed
    <3>2. Pending(r) \ {} = Pending(q) \ {c}
      BY <2>5
    <3>3. r.n = 0 \/ r.at = NULL
      BY <2>1, <2>4 DEF EndsWithout
    <3>4. Balanced(r, m_source_count, {})
      BY <2>1, <2>4, <2>5, <3>1, <3>2, <3>3, BalanceSame
    <3>5. Positive(r)
      BY <2>5, <3>1 DEF Positive
    <3> QED BY <2>1, <2>5, <3>1, <3>4, <3>5 DEF Weighed
  <2>7. m_top_all_dropped' \/ m_cleared' => Quiet(r)
    <3> SUFFICES ASSUME o = top PROVE Quiet(r)
      BY <2>2
    <3>1. r.total[top] = 0 /\ ~DrainsTop(r)
      BY <2>1
    <3>2. r.n = 0 \/ r.at = NULL
      BY <2>1, <2>4 DEF EndsWithout
    <3> QED BY <1>3, <2>6, <3>1, <3>2, QuietBelow DEF Weighed
  <2>8. r.n = 0 \/ r.at = NULL
    BY <2>1, <2>4 DEF EndsWithout
  <2>9. m_cleared' \in BOOLEAN
    BY <1>3, <2>2
  <2> QED BY <2>2, <2>6, <2>7, <2>8, <2>9, BecomesEven
<1>8. ASSUME NEW count \in 1 .. MaxCount, DrainedAgain(st, p, d, count) PROVE Even'
  <2> DEFINE r == KillDrain([st EXCEPT !.total[o] = @ + count], o)
             src == m_source_count'
             k == Heard(r, {})
  <2>1. /\ count = d.count /\ Becomes(r) /\ m_cleared' = FALSE /\ m_top_all_dropped' = FALSE
        /\ src = [m_source_count EXCEPT ![o] = @ + count]
    BY <1>8 DEF DrainedAgain, Conserves
  <2>2. count \in Nat /\ count > 0
    BY <1>2, <2>1, DrainAssumption
  <2>3. /\ Good(r) /\ r.total = [st.total EXCEPT ![o] = @ + count] /\ r.halted = st.halted
        /\ r.n = st.n /\ r.at = st.at /\ Pending(r) = Pending(st) \ {c}
        /\ r.contexts = st.contexts
    BY <1>1, <2>2, AgainGood
  <2> HIDE DEF r
  <2>4. \A x \in Objs : /\ r.total[x] = st.total[x] + (IF x = o THEN count ELSE 0)
                        /\ src[x] = m_source_count[x] + (IF x = o THEN count ELSE 0)
    <3>1. st.total \in [Objs -> Nat]
      BY <1>2 DEF State
    <3> HIDE DEF o, src
    <3> QED BY <1>2, <1>3, <2>1, <2>2, <2>3, <3>1
  <2>5. Owed(r, {}, o) = 0 /\ \A x \in Objs : x # o => Owed(r, {}, x) = Owed(st, {}, x)
    <3>1. Owes(r, {}, o) = {}
      BY <1>1, <1>2, <2>3 DEF Owes, Good, Idle
    <3>2. ASSUME NEW x \in Objs, x # o PROVE Owed(r, {}, x) = Owed(st, {}, x)
      <4>1. Owes(r, {}, x) = Owes(st, {}, x)
        BY <1>2, <2>3, <3>2 DEF Owes
      <4> QED BY <1>1, <2>3, <4>1, OwedSame
    <3> QED BY <1>2, <2>3, <3>1, <3>2, OwedIs
  <2>6. k = h
    <3>1. \A x \in Objs : r.total[x] + Owed(r, {}, x) = st.total[x] + Owed(st, {}, x)
      <4> SUFFICES ASSUME NEW x \in Objs
                   PROVE  r.total[x] + Owed(r, {}, x) = st.total[x] + Owed(st, {}, x)
        OBVIOUS
      <4>1. st.total[x] \in Nat /\ Owed(st, {}, x) \in Nat
        BY <1>1, HeardType
      <4>2. CASE x = o
        BY <1>2, <1>4, <2>1, <2>4, <2>5, <4>2
      <4>3. CASE x # o
        BY <2>4, <2>5, <4>1, <4>3
      <4> QED BY <4>2, <4>3
    <3> QED BY <3>1 DEF Heard, h
  <2>7. Balanced(r, src, {})
    <3> SUFFICES ASSUME NEW x \in Objs
                 PROVE  r.total[x] + (IF x = r.at THEN r.n ELSE 0) = src[x] + SumOf(h, Children(x))
      BY <2>6 DEF Balanced
    <3>1. (IF x = r.at THEN r.n ELSE 0) = 0
      BY <2>3
    <3>2. st.total[x] = m_source_count[x] + SumOf(h, Children(x)) /\ SumOf(h, Children(x)) \in Int
          /\ st.total[x] \in Nat /\ m_source_count[x] \in Nat
      BY <1>3, <1>6
    <3> HIDE DEF src, o
    <3> QED BY <2>2, <2>4, <3>1, <3>2
  <2>8. Weighed(r, src, {})
    <3>1. Positive(r)
      BY <1>1, <2>3 DEF Positive
    <3> QED BY <1>1, <2>3, <2>7, <3>1 DEF Weighed
  <2>9. r.n = 0 \/ r.at = NULL
    BY <2>3
  <2> QED BY <2>1, <2>8, <2>9, BecomesEven
<1> QED BY <1>7, <1>8 DEF AllDropped

\* A drain whose time is over keeps them even.
LEMMA DrainEven ==
  ASSUME Sound, Even, Conserves, NEW p \in Procs, m_forked_drain(p)
  PROVE  Even'
<1> DEFINE d == running[p]
<1>1. d # NULL /\ AllDropped(Current, p, d)
  BY DEF m_forked_drain
<1>2. Good(Current) /\ Weighed(Current, m_source_count, {}) /\ Current.n = 0 /\ Current.at = NULL
  BY DEF Sound, Even, Weighed, Current
<1>3. AtEnd(Current, p, d) /\ Current.contexts[d.ctxt].count = d.count
  <2>0. Good(Current)
    BY <1>2
  <2>3. d \in Drain
    BY <1>1, <2>0 DEF Good, State, Current
  <2>4. d.ctxt # 0 /\ m_forked_contexts[d.obj] = d.ctxt /\ m_drain_proc[d.obj] = p
    BY <1>1, <2>0 DEF Good, Driven, Current
  <2>1. AtEnd(Current, p, d)
    BY <2>3, <2>4 DEF AtEnd, Current
  <2>2. Current.contexts[d.ctxt] = [obj |-> d.obj, count |-> d.count]
    BY <1>1, <1>2 DEF Good, Driven, Current
  <2> QED BY <2>1, <2>2
<1>4. ~m_cleared /\ ~m_top_all_dropped
  <2>1. d.ctxt \in Pending(Current)
    BY <1>2, <1>3 DEF AtEnd, Drain, Pending, InDrain, Range, Good, State
  <2> QED BY <2>1 DEF Even, Quiet
<1> HIDE DEF d
<1> QED BY <1>1, <1>2, <1>3, <1>4, AllDroppedEven

\* So does a drain that starts.
LEMMA GuardEven ==
  ASSUME Sound, Even, Conserves, m_forked_drain_guard
  PROVE  Even'
<1> DEFINE p == Head(guards).proc
           c == Head(m_forked_list)
           o == contexts[c].obj
           d == [obj |-> o, count |-> contexts[c].count, ctxt |-> c]
           s == [Current EXCEPT !.forked = Tail(@), !.drains[o] = c]
           w == [s EXCEPT !.running[p] = d]
<1>1. guards # <<>>
  BY DEF m_forked_drain_guard
<1>2. /\ m_forked_list # <<>> /\ contexts[Head(guards).ctxt].obj # NULL
      /\ p \in Procs /\ o \in Objs /\ Good(s) /\ AtEnd(s, p, d)
      /\ s.total = m_total_count /\ s.contexts = contexts /\ Pending(s) = Pending(Current)
  BY <1>1, GuardStarts
<1>3. \/ Becomes(w) /\ UNCHANGED <<m_source_count, m_top_all_dropped, m_cleared>>
      \/ AllDropped(s, p, d)
  BY <1>2 DEF m_forked_drain_guard
<1>4. d.ctxt = c /\ d.obj = o /\ d.count = contexts[c].count /\ contexts[c] = [obj |-> d.obj, count |-> d.count]
      /\ c \in Pending(Current)
  <2>1. c \in Pending(Current)
    <3>1. m_forked_list \in Seq(Nat)
      BY DEF Sound, Good, State, Current
    <3>2. c \in ToSet(m_forked_list)
      BY <1>2, <3>1, ListTail
    <3> QED BY <3>2 DEF Pending, Current
  <2>2. contexts[c] \in Context
    <3>1. c \in DOMAIN Current.contexts /\ Current \in State
      BY <2>1 DEF Sound, Good, Apart
    <3> QED BY <3>1, ContextNumbers DEF Current
  <2> QED BY <2>1, <2>2 DEF Context
<1>5. s.n = 0 /\ s.at = NULL /\ s.halted = halted /\ m_cleared \in BOOLEAN
  BY DEF Current, Sound, Good, State
<1>6. ~m_cleared /\ ~m_top_all_dropped
  BY <1>4 DEF Even, Quiet
<1> HIDE DEF s, d, o, p, c
<1>7. Weighed(s, m_source_count, {})
  <2>1. Balanced(s, m_source_count, {})
    <3>1. /\ Good(Current) /\ Balanced(Current, m_source_count, {}) /\ s.total = Current.total
          /\ Current.n = 0 /\ s.contexts = Current.contexts
      BY <1>2 DEF Sound, Even, Current
    <3> QED BY <1>2, <1>5, <3>1, BalanceSame
  <2>2. Positive(s)
    BY <1>2 DEF Even, Positive, Current
  <2> QED BY <1>2, <1>5, <2>1, <2>2 DEF Weighed, Even
<1>8. CASE AllDropped(s, p, d)
  BY <1>2, <1>4, <1>5, <1>6, <1>7, <1>8, AllDroppedEven
<1>9. CASE Becomes(w) /\ UNCHANGED <<m_source_count, m_top_all_dropped, m_cleared>>
  <2>1. s.contexts[d.ctxt] = [obj |-> d.obj, count |-> d.count]
    BY <1>2, <1>4
  <2>2. /\ Good(w) /\ Pending(w) = Pending(s) /\ w.contexts = s.contexts /\ w.total = s.total
    BY <1>2, <2>1, WaitsGood
  <2>3. w.n = 0 /\ w.at = NULL /\ w.halted = "no"
    BY <1>2, <1>5 DEF Good, State, Even
  <2> HIDE DEF w
  <2>4. Balanced(w, m_source_count, {})
    BY <1>2, <1>5, <1>7, <2>2, <2>3, BalanceSame DEF Weighed
  <2>5. Positive(w)
    BY <1>7, <2>2 DEF Weighed, Positive
  <2>6. Weighed(w, m_source_count', {})
    BY <1>9, <2>2, <2>3, <2>4, <2>5 DEF Weighed
  <2> QED BY <1>5, <1>6, <1>9, <2>3, <2>6, BecomesEven
<1> QED BY <1>3, <1>8, <1>9

\* The background process does not change them.
LEMMA ForkEven ==
  ASSUME Sound, Even, m_execute_scheduled_forks
  PROVE  Even'
<1>1. Sound'
  BY ForkFollows DEF Follows
<1>2. /\ Good(Current) /\ Good(Current') /\ Current.n = 0 /\ Current'.n = 0
      /\ Current'.total = Current.total /\ Current'.contexts = Current.contexts
      /\ m_source_count' = m_source_count /\ halted' = halted
      /\ m_top_all_dropped' = m_top_all_dropped /\ m_cleared' = m_cleared
  BY <1>1 DEF Sound, Current, m_execute_scheduled_forks, counts
<1>3. Pending(Current') = Pending(Current)
  <2>1. /\ m_scheduled_list' = <<>> /\ m_forked_list' = m_forked_list \o m_scheduled_list
        /\ m_forked_contexts' = m_forked_contexts
    BY DEF m_execute_scheduled_forks, Spawned
  <2>2. m_forked_list \in Seq(Nat) /\ m_scheduled_list \in Seq(Nat)
    BY <1>2 DEF Good, State, Current
  <2>3. ToSet(m_forked_list') = ToSet(m_forked_list) \cup ToSet(m_scheduled_list)
    BY <2>1, <2>2, ListConcat
  <2>4. ToSet(m_scheduled_list') = {}
    <3>1. DOMAIN <<>> = {}
      OBVIOUS
    <3> QED BY <2>1, <3>1 DEF ToSet
  <2> QED BY <2>1, <2>3, <2>4 DEF Pending, InDrain, Current
<1>4. Balanced(Current', m_source_count', {})
  BY <1>2, <1>3, BalanceSame DEF Even
<1>5. Positive(Current') /\ (m_top_all_dropped' \/ m_cleared' => Quiet(Current'))
  BY <1>2, <1>3 DEF Even, Positive, Quiet
<1> QED BY <1>2, <1>4, <1>5 DEF Even

\* A set of one drain at most is the drain that clear stops.
\* Without objections the counts are balanced.
LEMMA NothingCounts ==
  ASSUME NEW st, Good(st), st.at = NULL, Pending(st) = {}, NEW zero,
         zero = [o \in Objs |-> 0], st.total = zero
  PROVE  Balanced(st, zero, {}) /\ Positive(st) /\ Quiet(st)
<1>1. Balanced(st, zero, {})
  <2> DEFINE h == Heard(st, {})
  <2>1. /\ h \in [Objs -> Nat] /\ IsFiniteSet(Objs)
        /\ \A x \in Objs : h[x] = st.total[x] + Owed(st, {}, x)
    BY HeardType, TreeAssumption
  <2>2. \A x \in Objs : Owed(st, {}, x) = 0
    BY DEF Owed, Owes
  <2>3. \A x \in Objs : h[x] = 0
    BY <2>1, <2>2
  <2> HIDE DEF h
  <2>4. \A x \in Objs : Children(x) \in SUBSET Objs /\ SumOf(h, Children(x)) = 0
    <3> SUFFICES ASSUME NEW x \in Objs PROVE Children(x) \in SUBSET Objs /\ SumOf(h, Children(x)) = 0
      OBVIOUS
    <3>1. Children(x) \in SUBSET Objs
      BY DEF Children
    <3> QED BY <2>1, <2>3, <3>1, SumNat
  <2>5. \A x \in Objs : x # st.at
    BY TreeAssumption
  <2> QED BY <2>4, <2>5 DEF Balanced, h
<1> QED BY <1>1 DEF Positive, Quiet

\* A set of at most one element.
LEMMA OneDrain ==
  ASSUME NEW S, IsFiniteSet(S), Cardinality(S) <= 1, NEW o \in S
  PROVE  S = {o}
<1>1. IsFiniteSet(S \ {o}) /\ Cardinality(S \ {o}) = Cardinality(S) - 1 /\ Cardinality(S) \in Nat
      /\ Cardinality(S \ {o}) \in Nat
  BY FS_RemoveElement, FS_CardinalityType
<1>2. S \ {o} = {}
  <2>1. Cardinality(S \ {o}) = 0
    BY <1>1
  <2> QED BY <1>1, <2>1, FS_EmptySet
<1> QED BY <1>2

\* clear, which meets one drain at most, stops it.
LEMMA ClearEven ==
  ASSUME Sound, Even, Conserves, clear
  PROVE  Even'
<1> DEFINE drained == {o \in Objs : m_forked_contexts[o] # 0}
           listed  == m_scheduled_list \o m_forked_list
           e == <<>>
           zero == [o \in Objs |-> 0]
           s == Free([Current EXCEPT !.scheduled = e, !.forked = e, !.total = zero], listed)
           stopped(o) == Free(KillDrain(s, o), <<s.drains[o]>>)
<1>1. Sound'
  BY ClearFollows DEF Follows, Conserves
<1>2. Cardinality(drained) <= 1 /\ IsFiniteSet(drained)
  <2>1. IsFiniteSet(drained)
    BY FS_Subset, TreeAssumption
  <2>2. Cardinality(drained) \in Nat /\ Cardinality(drained) <= MaxDrained /\ MaxDrained \in Nat
        /\ MaxDrained <= 1
    BY <2>1, FS_CardinalityType, DrainAssumption DEF clear, Conserves
  <2> QED BY <2>1, <2>2
<1>3. m_forked_contexts \in [Objs -> Nat]
  BY DEF Sound, Good, State, Current
<1>4. /\ s.scheduled = e /\ s.forked = e /\ s.total = zero /\ s.drains = m_forked_contexts
      /\ s.halted = halted
  BY DEF Free, Current
<1>5. \A o \in Objs :
        /\ stopped(o).scheduled = e /\ stopped(o).forked = e /\ stopped(o).total = zero
        /\ stopped(o).drains = [m_forked_contexts EXCEPT ![o] = 0] /\ stopped(o).halted = halted
  BY DEF Free, Current, KillDrain
<1> HIDE DEF s
<1>6. PICK st : /\ st.scheduled = e /\ st.forked = e /\ st.total = zero
                /\ \A x \in Objs : st.drains[x] = 0
                /\ DOMAIN st.drains = Objs /\ st.halted = halted /\ Becomes(st)
  <2>1. \E st \in (IF drained = {} THEN {s} ELSE {stopped(o) : o \in drained}) : Becomes(st)
    BY DEF clear, s
  <2>2. CASE drained = {}
    BY <1>3, <1>4, <2>1, <2>2
  <2>3. CASE drained # {}
    <3>1. PICK o \in drained : Becomes(stopped(o))
      BY <2>1, <2>3
    <3> HIDE DEF stopped
    <3>2. \A x \in Objs : x # o => m_forked_contexts[x] = 0
      <4> HIDE DEF drained
      <4>1. drained = {o}
        BY <1>2, OneDrain
      <4> QED BY <4>1 DEF drained
    <3>3. \A x \in Objs : [m_forked_contexts EXCEPT ![o] = 0][x] = 0
      BY <1>3, <3>2
    <3>4. DOMAIN [m_forked_contexts EXCEPT ![o] = 0] = Objs
      BY <1>3
    <3> QED BY <1>5, <3>1, <3>3, <3>4
  <2> QED BY <2>2, <2>3
<1>7. /\ m_scheduled_list' = <<>> /\ m_forked_list' = <<>> /\ m_total_count' = zero
      /\ \A x \in Objs : m_forked_contexts'[x] = 0 /\ DOMAIN m_forked_contexts' = Objs
      /\ halted' = halted /\ m_source_count' = zero
  BY <1>6 DEF Becomes, clear
<1>8. Pending(Current') = {}
  <2>1. DOMAIN <<>> = {}
    OBVIOUS
  <2>2. InDrain(Current') = {}
    <3>1. Current'.drains = m_forked_contexts'
      BY DEF Current
    <3>2. DOMAIN m_forked_contexts' = Objs
      <4>1. Good(Current')
        BY <1>1 DEF Sound
      <4> QED BY <3>1, <4>1 DEF Good, State
    <3>3. \A x \in Objs : m_forked_contexts'[x] = 0
      BY <1>7
    <3> HIDE <1>7
    <3> QED BY <3>1, <3>2, <3>3 DEF InDrain, Range
  <2> QED BY <1>7, <2>1, <2>2 DEF Pending, ToSet, Current
<1>9. Good(Current') /\ Current'.at = NULL /\ Current'.total = zero
  BY <1>1, <1>7 DEF Sound, Current
<1>10. Balanced(Current', zero, {}) /\ Positive(Current') /\ Quiet(Current')
  <2> HIDE DEF zero
  <2>1. zero = [o \in Objs |-> 0]
    BY DEF zero
  <2> QED BY <1>8, <1>9, <2>1, NothingCounts
<1> QED BY <1>7, <1>10 DEF Even

\* Nothing is raised in the beginning.
LEMMA EvenInit ==
  ASSUME Init, Sound
  PROVE  Even
<1> DEFINE zero == [o \in Objs |-> 0]
<1>1. Good(Current) /\ Current.total = zero /\ Current.at = NULL /\ Current.n = 0
  BY DEF Sound, Init, Current
<1>2. Pending(Current) = {}
  <2>1. DOMAIN <<>> = {}
    OBVIOUS
  <2>2. InDrain(Current) = {}
    BY DEF Init, InDrain, Range, Current
  <2> QED BY <2>1, <2>2 DEF Init, Pending, ToSet, Current
<1>3. zero = m_source_count /\ halted = "no"
  BY DEF Init
<1>4. zero = [o \in Objs |-> 0]
  OBVIOUS
<1> HIDE DEF zero
<1>5. Balanced(Current, zero, {}) /\ Positive(Current) /\ Quiet(Current)
  BY <1>1, <1>2, <1>4, NothingCounts
<1> QED BY <1>3, <1>5 DEF Even

\* Every step keeps the counts even.
LEMMA EvenNext ==
  ASSUME Sound, Even, Conserves, [Next]_vars
  PROVE  Even'
<1>1. CASE UNCHANGED vars
  BY <1>1 DEF vars, counts, lists, Even, Current, Weighed, Balanced, Positive, Quiet, Pending, InDrain
<1>2. CASE Next
  BY <1>2, RaiseEven, DropEven, ClearEven, ForkEven, GuardEven, DrainEven DEF Next
<1> QED BY <1>1, <1>2

\* The sums that Conservation writes are those of the lemmas.
LEMMA SumOfOne ==
  ASSUME NEW k, NEW D, \A c, e \in D : c = e, \A c \in D : k[c].count \in Nat
  PROVE  MapThenSumSet(LAMBDA c : k[c].count, D) = IF D = {} THEN 0 ELSE k[First(D)].count
<1> DEFINE Step(f, s) == IF s = {} THEN 0 ELSE k[CHOOSE x \in s : TRUE].count + f[s \ {CHOOSE x \in s : TRUE}]
           all == SUBSET D
           iter == CHOOSE f : f = [s \in all |-> Step(f, s)]
           sum == [s \in all |-> IF s = {} THEN 0 ELSE k[CHOOSE x \in s : TRUE].count]
<1>1. \A s \in all : s # {} => s \ {CHOOSE x \in s : TRUE} = {} /\ k[CHOOSE x \in s : TRUE].count \in Nat
  OBVIOUS
<1>2. \A s \in all : sum[s] = Step(sum, s)
  <2> SUFFICES ASSUME NEW s \in all PROVE sum[s] = Step(sum, s)
    OBVIOUS
  <2>1. CASE s = {}
    BY <2>1
  <2>2. CASE s # {}
    <3>1. s \ {CHOOSE x \in s : TRUE} = {} /\ k[CHOOSE x \in s : TRUE].count \in Nat
      BY <1>1, <2>2
    <3>2. {} \in all /\ sum[{}] = 0
      OBVIOUS
    <3>3. sum[s] = k[CHOOSE x \in s : TRUE].count
      BY <2>2
    <3> QED BY <2>2, <3>1, <3>2, <3>3
  <2> QED BY <2>1, <2>2
<1>3. sum = [s \in all |-> Step(sum, s)]
  BY <1>2
<1>4. iter = [s \in all |-> Step(iter, s)]
  <2> HIDE DEF sum
  <2>1. \E f : f = [s \in all |-> Step(f, s)]
    BY <1>3
  <2> QED BY <2>1
<1>5. MapThenSumSet(LAMBDA c : k[c].count, D) = iter[D]
  BY DEF MapThenSumSet, MapThenFoldSet
<1>6. D \in all /\ {} \in all
  OBVIOUS
<1>7. \A s \in all : iter[s] = Step(iter, s)
  <2> DEFINE right(s) == Step(iter, s)
  <2> HIDE DEF iter
  <2> HIDE DEF right
  <2>1. iter = [s \in all |-> right(s)]
    BY <1>4 DEF right
  <2>2. \A s \in all : iter[s] = right(s)
    BY <2>1
  <2> QED BY <2>2 DEF right
<1> HIDE DEF iter
<1>8. iter[{}] = 0
  BY <1>6, <1>7
<1>9. CASE D = {}
  BY <1>5, <1>8, <1>9
<1>10. CASE D # {}
  <2>1. D \ {CHOOSE x \in D : TRUE} = {} /\ k[CHOOSE x \in D : TRUE].count \in Nat
    BY <1>1, <1>6, <1>10
  <2>2. iter[D] = k[CHOOSE x \in D : TRUE].count + iter[D \ {CHOOSE x \in D : TRUE}]
    BY <1>6, <1>7, <1>10
  <2> QED BY <1>5, <1>8, <1>10, <2>1, <2>2 DEF First
<1> QED BY <1>9, <1>10

\* The drains of the properties are those of the invariant.
LEMMA DrainingIs ==
  ASSUME Sound
  PROVE  /\ \A o \in Objs : Draining(o) = Owes(Current, {}, o)
         /\ (\A o \in Objs : Draining(o) = {}) <=> Pending(Current) = {}
<1>1. \A o \in Objs : Draining(o) = Owes(Current, {}, o)
  BY DEF Draining, Owes, Pending, InDrain, Current
<1>2. \A c \in Pending(Current) : Current.contexts[c].obj \in Objs
  <2>1. /\ \A c \in Pending(Current) : c \in DOMAIN Current.contexts /\ c \notin ToSet(Current.pool)
        /\ \A c \in DOMAIN Current.contexts : c \notin ToSet(Current.pool) => Current.contexts[c].obj # NULL
    BY DEF Sound, Good, Apart, Clean
  <2>2. \A c \in DOMAIN Current.contexts : Current.contexts[c] \in Context
    BY ContextNumbers DEF Sound, Good
  <2> QED BY <2>1, <2>2 DEF Context
<1> QED BY <1>1, <1>2 DEF Owes

\* Even counts are conserved.
LEMMA EvenConserves ==
  ASSUME Sound, Even
  PROVE  Conservation
<1> DEFINE heard == [x \in Objs |-> m_total_count[x] +
                        MapThenSumSet(LAMBDA c : contexts[c].count, Draining(x))]
           children(o) == {x \in Objs : Parent[x] = o}
<1>1. Good(Current)
  BY DEF Sound
<1>2. \A x \in Objs : m_total_count[x] + MapThenSumSet(LAMBDA c : contexts[c].count, Draining(x))
                        = m_total_count[x] + Owed(Current, {}, x)
  <2> SUFFICES ASSUME NEW x \in Objs
               PROVE  MapThenSumSet(LAMBDA c : contexts[c].count, Draining(x)) = Owed(Current, {}, x)
    OBVIOUS
  <2> DEFINE D == Draining(x)
  <2>1. D = Owes(Current, {}, x)
    BY DrainingIs
  <2>2. \A c, e \in D : c = e
    BY <1>1, <2>1 DEF Good, Idle, Owes
  <2>3. \A c \in D : contexts[c].count \in Nat
    <3>1. \A c \in Pending(Current) : c \in DOMAIN Current.contexts
      BY <1>1 DEF Good, Apart
    <3>2. \A c \in Pending(Current) : Current.contexts[c] \in Context
      BY <1>1, <3>1, ContextNumbers DEF Good
    <3> QED BY <2>1, <3>2 DEF Owes, Context, Current
  <2> HIDE DEF D
  <2>4. MapThenSumSet(LAMBDA c : contexts[c].count, D) = IF D = {} THEN 0 ELSE contexts[First(D)].count
    BY <2>2, <2>3, SumOfOne
  <2>5. Owed(Current, {}, x) = IF D = {} THEN 0 ELSE contexts[First(D)].count
    BY <2>1 DEF Owed, Current
  <2> QED BY <2>4, <2>5 DEF D
<1>3. heard = Heard(Current, {})
  <2>1. Current.total = m_total_count
    BY DEF Current
  <2> QED BY <1>2, <2>1 DEF Heard
<1>4. \A o \in Objs : m_total_count[o] = m_source_count[o] + SumOf(Heard(Current, {}), Children(o))
  BY EvenCurrent
<1>5. \A o \in Objs : children(o) = Children(o)
  BY DEF Children
<1> HIDE DEF heard, children
<1>6. \A o \in Objs : m_total_count[o] = m_source_count[o] + SumOf(heard, children(o))
  BY <1>3, <1>4, <1>5
<1> QED BY <1>6 DEF Conservation, SumOf, heard, children


-----------------------------------------------------------------------------
(* The theorems *)

LEMMA SoundInit ==
  Init => Sound /\ Root!Init
<1> SUFFICES ASSUME Init PROVE Sound /\ Root!Init
  OBVIOUS
<1>1. DOMAIN <<>> = {} /\ ToSet(<<>>) = {} /\ Once(<<>>)
  <2>1. DOMAIN <<>> = {}
    OBVIOUS
  <2> QED BY <2>1 DEF ToSet, Once
<1> DEFINE r == Current
<1>2. /\ r.contexts = <<>> /\ r.pool = <<>> /\ r.forked = <<>> /\ r.scheduled = <<>>
      /\ r.freed = <<>> /\ r.n = 0 /\ r.total = [o \in Objs |-> 0] /\ r.drains = [o \in Objs |-> 0]
      /\ r.procs = [o \in Objs |-> NULL] /\ r.running = [p \in Procs |-> NULL]
  BY DEF Init, Current
<1>3. r \in State
  <2> DEFINE e == <<>>
             z == 0
  <2>1. r = [n |-> z, at |-> NULL, total |-> [o \in Objs |-> 0], contexts |-> e,
             pool |-> e, scheduled |-> e, forked |-> e, drains |-> [o \in Objs |-> 0],
             procs |-> [o \in Objs |-> NULL], running |-> [p \in Procs |-> NULL],
             freed |-> e, cleared |-> FALSE, halted |-> "no"]
    BY DEF Init, Current
  <2>2. e \in Seq(Nat) /\ e \in Seq(Context) /\ z \in Int
    OBVIOUS
  <2>3. [o \in Objs |-> 0] \in [Objs -> Nat] /\ [o \in Objs |-> NULL] \in [Objs -> Procs \cup {NULL}]
        /\ [p \in Procs |-> NULL] \in [Procs -> Drain \cup {NULL}]
    OBVIOUS
  <2> HIDE DEF e, z, r
  <2> QED BY <2>1, <2>2, <2>3 DEF State
<1> HIDE DEF r
<1>4. Pending(r) = {} /\ InDrain(r) = {}
  <2>1. InDrain(r) = {}
    BY <1>2 DEF InDrain, Range
  <2> QED BY <1>1, <1>2, <2>1 DEF Pending
<1>5. Apart(r) /\ Clean(r)
  BY <1>1, <1>2, <1>4 DEF Apart, Clean
<1>6. Idle(r) /\ Driven(r)
  BY <1>2, <1>4 DEF Idle, Driven
<1>7. Good(Current)
  BY <1>2, <1>3, <1>5, <1>6 DEF Good, r
<1>8. Guarded /\ guards \in Seq([proc : Procs, ctxt : Nat])
  BY <1>1 DEF Init, Guarded
<1>9. m_source_count \in [Objs -> 0 .. MaxCount] /\ m_top_all_dropped \in BOOLEAN
  <2>1. 0 \in 0 .. MaxCount
    BY DrainAssumption
  <2> QED BY <2>1 DEF Init
<1>10. AtRoot = "none"
  <2>1. m_total_count[top] = 0 /\ m_top_all_dropped = FALSE
    BY TreeAssumption DEF Init
  <2>2. Draining(top) = {}
    BY <1>4 DEF Draining, Pending, InDrain, Current, r
  <2> QED BY <2>1, <2>2 DEF AtRoot
<1> QED BY <1>7, <1>8, <1>9, <1>10 DEF Sound, Root!Init

\* Every action.
LEMMA SoundNext ==
  ASSUME "window" \notin Ops, Sound, [Next]_vars
  PROVE  Follows
<1>1. CASE UNCHANGED vars
  <2>1. Sound'
    BY <1>1 DEF vars, counts, lists, Sound, Guarded, Current
  <2>2. AtRoot' = AtRoot
    BY <1>1 DEF vars, counts, lists, AtRoot, Draining
  <2> QED BY <2>1, <2>2 DEF Follows
<1>2. CASE Next
  BY <1>2, RaiseFollows, DropFollows, ClearFollows, ForkFollows, GuardFollows, DrainFollows DEF Next
<1> QED BY <1>1, <1>2

\* Sound is inductive, and what holds of the contexts of an objection whatever is
\* raised, dropped and cleared follows from it.
THEOREM ContextsAreSound ==
  ASSUME "window" \notin Ops
  PROVE  Spec => []Sound
<1>1. Init => Sound
  BY SoundInit
<1>2. Sound /\ [Next]_vars => Sound'
  BY SoundNext DEF Follows
<1> QED BY <1>1, <1>2, PTL DEF Spec

\* What is seen from the root of an objection on any tree is a RootObjection:
\* every step of raise_objection, drop_objection, clear, the background process
\* and the drains is one of its steps or leaves the root as it is.
THEOREM RootIsImplemented ==
  ASSUME "window" \notin Ops
  PROVE  Spec => ImplementsRoot
<1>1. Init => Sound /\ Root!Init
  BY SoundInit
<1>2. Sound /\ [Next]_vars => Sound' /\ [Root!Next]_AtRoot
  BY SoundNext DEF Follows
<1> QED BY <1>1, <1>2, PTL DEF Spec, ImplementsRoot, Root!Spec

\* An object drains at most once at a time, and only while nothing is raised on it
\* or below it (m_raise and m_drop keep the total and the drain of an object apart).
THEOREM DrainsIdle ==
  ASSUME "window" \notin Ops
  PROVE  Spec => []DrainsAreIdle
<1>1. Sound => DrainsAreIdle
  <2> SUFFICES ASSUME Sound, NEW o \in Objs, Draining(o) # {}
               PROVE  m_total_count[o] = 0 /\ Cardinality(Draining(o)) = 1
    BY DEF DrainsAreIdle
  <2>1. Draining(o) = {c \in Pending(Current) : contexts[c].obj = o}
    BY DEF Draining, Pending, InDrain, Current
  <2>2. PICK c \in Draining(o) : TRUE
    OBVIOUS
  <2>3. m_total_count[o] = 0 /\ Draining(o) = {c}
    BY <2>1, <2>2 DEF Sound, Good, Idle, Current
  <2> QED BY <2>3, FS_Singleton
<1> QED BY <1>1, ContextsAreSound, PTL

\* A list that holds no context twice holds one once or not at all.
LEMMA Places ==
  ASSUME NEW S, NEW list \in Seq(S), Once(list), NEW c
  PROVE  Cardinality({i \in DOMAIN list : list[i] = c}) = IF c \in ToSet(list) THEN 1 ELSE 0
<1> DEFINE I == {i \in DOMAIN list : list[i] = c}
<1>1. CASE c \in ToSet(list)
  <2>1. PICK i \in DOMAIN list : list[i] = c
    BY <1>1 DEF ToSet
  <2>2. I = {i}
    BY <2>1 DEF Once
  <2> QED BY <1>1, <2>2, FS_Singleton
<1>2. CASE c \notin ToSet(list)
  <2>1. I = {}
    BY <1>2 DEF ToSet
  <2> QED BY <1>2, <2>1, FS_EmptySet
<1> QED BY <1>1, <1>2

\* A context object is never used for two purposes, although the drains, the raises
\* that catch them and clear all give them back to the pool.
THEOREM ContextsApart ==
  ASSUME "window" \notin Ops
  PROVE  Spec => []ContextsInOnePlace
<1>1. Sound => ContextsInOnePlace
  <2> SUFFICES ASSUME Sound, NEW c \in DOMAIN contexts
               PROVE  LET places(list) == Cardinality({i \in DOMAIN list : list[i] = c})
                      IN  /\ places(m_context_pool) + places(m_scheduled_list) + places(m_forked_list)
                               + Cardinality({o \in Objs : m_forked_contexts[o] = c}) <= 1
                          /\ places(m_context_pool) = 1 <=> contexts[c] = Cleared
    BY DEF ContextsInOnePlace
  <2> DEFINE places(list) == Cardinality({i \in DOMAIN list : list[i] = c})
             O == {o \in Objs : m_forked_contexts[o] = c}
  <2>1. Current \in State /\ Apart(Current) /\ Clean(Current) /\ Idle(Current)
    BY DEF Sound, Good
  <2>2. c # 0
    BY <2>1, ContextNumbers DEF Current
  <2>3. /\ places(m_context_pool) = IF c \in ToSet(m_context_pool) THEN 1 ELSE 0
        /\ places(m_scheduled_list) = IF c \in ToSet(m_scheduled_list) THEN 1 ELSE 0
        /\ places(m_forked_list) = IF c \in ToSet(m_forked_list) THEN 1 ELSE 0
    <3>1. /\ m_context_pool \in Seq(Nat) /\ Once(m_context_pool)
          /\ m_scheduled_list \in Seq(Nat) /\ Once(m_scheduled_list)
          /\ m_forked_list \in Seq(Nat) /\ Once(m_forked_list)
      BY <2>1 DEF State, Apart, Current
    <3> QED BY <3>1, Places
  <2>4. Cardinality(O) = IF c \in InDrain(Current) THEN 1 ELSE 0
    <3>1. CASE c \in InDrain(Current)
      <4>1. PICK o \in Objs : m_forked_contexts[o] = c
        BY <2>1, <3>1 DEF InDrain, Range, State, Current
      <4>2. O = {o}
        BY <2>1, <2>2, <4>1 DEF Idle, Current
      <4> QED BY <3>1, <4>2, FS_Singleton
    <3>2. CASE c \notin InDrain(Current)
      <4>1. O = {}
        BY <2>1, <2>2, <3>2 DEF InDrain, Range, State, Current
      <4> QED BY <3>2, <4>1, FS_EmptySet
    <3> QED BY <3>1, <3>2
  <2>5. /\ c \in ToSet(m_context_pool) => c \notin Pending(Current)
        /\ c \in ToSet(m_scheduled_list) => c \notin ToSet(m_forked_list) \cup InDrain(Current)
        /\ c \in ToSet(m_forked_list) => c \notin InDrain(Current)
        /\ c \in ToSet(m_scheduled_list) \cup ToSet(m_forked_list) \cup InDrain(Current)
             => c \in Pending(Current)
    BY <2>1 DEF Apart, Pending, Current
  <2>6. c \in ToSet(m_context_pool) <=> contexts[c] = Cleared
    <3>1. /\ c \in ToSet(m_context_pool) => contexts[c] = Cleared
          /\ c \notin ToSet(m_context_pool) => contexts[c].obj # NULL
      BY <2>1 DEF Clean, Current
    <3> QED BY <3>1 DEF Cleared
  <2> HIDE DEF places, O
  <2>7. /\ places(m_context_pool) + places(m_scheduled_list) + places(m_forked_list)
             + Cardinality(O) <= 1
        /\ places(m_context_pool) = 1 <=> contexts[c] = Cleared
    BY <2>3, <2>4, <2>5, <2>6
  <2> QED BY <2>7 DEF places, O
<1> QED BY <1>1, ContextsAreSound, PTL

\* A drain starts with a context that is in use, when no process runs between its
\* spawning and its start: with one that does, MCObjection_window.cfg shows the contrary.
THEOREM NoContextIsCleared ==
  ASSUME "window" \notin Ops
  PROVE  Spec => []NoClearedContext
<1>1. Sound => NoClearedContext
  BY DEF Sound, Good, State, Current, NoClearedContext
<1> QED BY <1>1, ContextsAreSound, PTL

\* What holds of the counts as long as the testbench keeps Conserves.
LEMMA CountsAreEven ==
  ASSUME Conserves
  PROVE  Spec => [](Sound /\ Even)
<1>1. Init => Sound /\ Even
  BY SoundInit, EvenInit
<1>2. Sound /\ Even /\ [Next]_vars => (Sound /\ Even)'
  <2>1. "window" \notin Ops
    BY DEF Conserves
  <2> QED BY <2>1, SoundNext, EvenNext DEF Follows
<1> QED BY <1>1, <1>2, PTL DEF Spec

\* The counts of a tree of any size and shape survive every interleaving of raises,
\* drops, drains and clears.
THEOREM CountsBalance ==
  ASSUME Conserves
  PROVE  Spec => []Conservation
<1>1. Sound /\ Even => Conservation
  BY EvenConserves
<1> QED BY <1>1, CountsAreEven, PTL

\* The root is told that all is dropped only when nothing is raised or draining
\* anywhere, and this is so until something is raised again.
THEOREM AllDroppedHolds ==
  ASSUME Conserves
  PROVE  Spec => []AllDroppedIsTrue
<1>1. Sound /\ Even => AllDroppedIsTrue
  BY DrainingIs DEF Even, Quiet, AllDroppedIsTrue, Current
<1> QED BY <1>1, CountsAreEven, PTL

\* m_drop never finds less than it drops, and no drain finds its context cleared.
THEOREM NothingHalts ==
  ASSUME Conserves
  PROVE  Spec => [](NeverBelowZero /\ NoClearedContext)
<1>1. Sound /\ Even => NeverBelowZero /\ NoClearedContext
  BY DEF Even, NeverBelowZero, NoClearedContext
<1> QED BY <1>1, CountsAreEven, PTL

\* A clear that meets one drain at most leaves nothing that goes on.
THEOREM ClearedRests ==
  ASSUME Conserves
  PROVE  Spec => []ClearedIsIdle
<1>1. Sound /\ Even => ClearedIsIdle
  BY DrainingIs DEF Even, Quiet, ClearedIsIdle
<1> QED BY <1>1, CountsAreEven, PTL

==============================================================================
