---------------------------- MODULE MemMamProofs ----------------------------
(***************************************************************************)
(* What uvm_mem_mam guarantees for every configuration and every sequence  *)
(* of calls, as long as no requested region reaches beyond 2^64: regions   *)
(* are disjoint and within the managed space.                              *)
(*                                                                         *)
(* reserve_region compares the new region only with the ones it meets      *)
(* before its place in m_in_use.  That is enough because m_in_use is       *)
(* sorted: the inductive invariant adds Sorted to the two properties.      *)
(***************************************************************************)
EXTENDS MemMam, SequenceTheorems, TLAPS

\* No region that may be asked for ends beyond the largest offset.
NoWrap == \A start \in Offsets \cup {0}, size \in Sizes :
            start + (size - 1) \div n_bytes < Wrap

\* m_in_use holds the regions from the highest to the lowest, without overlap.
Sorted == \A i, j \in DOMAIN m_in_use :
            i < j => m_in_use[j].end < m_in_use[i].start

MamInv == TypeOK /\ InManagedSpace /\ Sorted

-----------------------------------------------------------------------------
(* Inserting into and removing from a sequence *)

\* t is s with e at position i.
Inserted(t, s, i, e) ==
  /\ Len(t) = Len(s) + 1
  /\ \A j \in 1 .. Len(s) + 1 :
       /\ j < i => t[j] = s[j]
       /\ j = i => t[j] = e
       /\ j > i => t[j] = s[j - 1]

\* Inserting the new region shifts the later ones by one (std::vector::insert in
\* reserve_region).
LEMMA InsertAtElements ==
  ASSUME NEW S, NEW s \in Seq(S), NEW e \in S, NEW i \in 1 .. Len(s) + 1
  PROVE  /\ InsertAt(s, i, e) \in Seq(S)
         /\ Inserted(InsertAt(s, i, e), s, i, e)
<1> DEFINE a == SubSeq(s, 1, i - 1)
           b == SubSeq(s, i, Len(s))
           ae == a \o <<e>>
<1>1. Len(s) \in Nat /\ \A j \in 1 .. Len(s) : s[j] \in S
  BY LenProperties, ElementOfSeq
<1>2. /\ a \in Seq(S) /\ Len(a) = i - 1
      /\ \A j \in 1 .. i - 1 : a[j] = s[j]
  BY <1>1, SubSeqProperties
<1>3. /\ b \in Seq(S) /\ Len(b) = Len(s) - i + 1
      /\ \A j \in 1 .. Len(s) - i + 1 : b[j] = s[i + j - 1]
  BY <1>1, SubSeqProperties
<1>4. <<e>> \in Seq(S) /\ Len(<<e>>) = 1 /\ <<e>>[1] = e
  OBVIOUS
<1>5. /\ ae \in Seq(S) /\ Len(ae) = i
      /\ \A j \in 1 .. i : ae[j] = IF j < i THEN s[j] ELSE e
  <2> HIDE DEF a
  <2>1. /\ ae \in Seq(S) /\ Len(ae) = Len(a) + 1
        /\ \A j \in 1 .. Len(a) + 1 :
             ae[j] = IF j <= Len(a) THEN a[j] ELSE <<e>>[j - Len(a)]
    BY <1>2, <1>4, ConcatProperties
  <2> QED BY <2>1, <1>2, <1>4
<1> HIDE DEF ae, b
<1>6. /\ ae \o b \in Seq(S) /\ Len(ae \o b) = Len(ae) + Len(b)
      /\ \A j \in 1 .. Len(ae) + Len(b) :
           (ae \o b)[j] = IF j <= Len(ae) THEN ae[j] ELSE b[j - Len(ae)]
  BY <1>3, <1>5, ConcatProperties
<1>7. InsertAt(s, i, e) = ae \o b
  BY DEF InsertAt, ae, b
<1>8. Inserted(InsertAt(s, i, e), s, i, e)
  BY <1>1, <1>3, <1>5, <1>6, <1>7 DEF Inserted
<1> QED BY <1>6, <1>7, <1>8

\* Erasing a region shifts the later ones back (std::vector::erase in
\* release_region).
LEMMA RemoveAtElements ==
  ASSUME NEW S, NEW s \in Seq(S), NEW i \in 1 .. Len(s)
  PROVE  /\ RemoveAt(s, i) \in Seq(S)
         /\ Len(RemoveAt(s, i)) = Len(s) - 1
         /\ \A j \in 1 .. Len(s) - 1 :
              RemoveAt(s, i)[j] = IF j < i THEN s[j] ELSE s[j + 1]
<1> DEFINE a == SubSeq(s, 1, i - 1)
           b == SubSeq(s, i + 1, Len(s))
<1>1. Len(s) \in Nat /\ \A j \in 1 .. Len(s) : s[j] \in S
  BY LenProperties, ElementOfSeq
<1>2. /\ a \in Seq(S) /\ Len(a) = i - 1
      /\ \A j \in 1 .. i - 1 : a[j] = s[j]
  BY <1>1, SubSeqProperties
<1>3. /\ b \in Seq(S) /\ Len(b) = Len(s) - i
      /\ \A j \in 1 .. Len(s) - i : b[j] = s[i + j]
  BY <1>1, SubSeqProperties
<1> HIDE DEF a, b
<1>4. /\ a \o b \in Seq(S) /\ Len(a \o b) = Len(a) + Len(b)
      /\ \A j \in 1 .. Len(a) + Len(b) :
           (a \o b)[j] = IF j <= Len(a) THEN a[j] ELSE b[j - Len(a)]
  BY <1>2, <1>3, ConcatProperties
<1>5. RemoveAt(s, i) = a \o b
  BY DEF RemoveAt, a, b
<1>6. ASSUME NEW j \in 1 .. Len(s) - 1
      PROVE  (a \o b)[j] = IF j < i THEN s[j] ELSE s[j + 1]
  <2>1. CASE j < i
    BY <2>1, <1>1, <1>2, <1>3, <1>4
  <2>2. CASE j >= i
    <3>1. j - Len(a) \in 1 .. Len(s) - i /\ ~(j <= Len(a))
      BY <2>2, <1>1, <1>2
    <3>2. (a \o b)[j] = b[j - Len(a)]
      BY <3>1, <1>1, <1>2, <1>3, <1>4
    <3>3. i + (j - Len(a)) = j + 1
      BY <1>1, <1>2
    <3>4. b[j - Len(a)] = s[i + (j - Len(a))]
      BY <3>1, <1>3
    <3>5. ~(j < i)
      BY <2>2, <1>1
    <3> QED BY <3>2, <3>3, <3>4, <3>5, Zenon
  <2>3. j < i \/ j >= i
    BY <1>1
  <2> QED BY <2>1, <2>2, <2>3, Zenon
<1>7. Len(a \o b) = Len(s) - 1
  BY <1>1, <1>2, <1>3, <1>4
<1>8. \A j \in 1 .. Len(s) - 1 :
        RemoveAt(s, i)[j] = IF j < i THEN s[j] ELSE s[j + 1]
  BY <1>5, <1>6, Zenon
<1> QED BY <1>4, <1>5, <1>7, <1>8, Zenon

-----------------------------------------------------------------------------
(* The invariant *)

\* The four facts about a new region that reserve_region has established.
LEMMA NewRegion ==
  ASSUME NoWrap, MamInv, NEW start \in Offsets \cup {0}, NEW size \in Sizes,
         InSpace(start, size)
  PROVE  LET end == end_offset(start, size)
         IN  /\ start \in 0 .. Wrap - 1 /\ end \in 0 .. Wrap - 1
             /\ m_cfg.start <= start /\ start <= end /\ end <= m_cfg.end
<1>1. start \in 0 .. Wrap - 1 /\ size \in Nat \ {0} /\ Wrap \in Nat \ {0}
  BY ConfigAssumption, RequestAssumption DEF InSpace
<1>2. n_bytes \in Nat \ {0} /\ (size - 1) \div n_bytes \in Nat
  BY <1>1, ConfigAssumption
<1>3. start + (size - 1) \div n_bytes < Wrap
  BY DEF NoWrap
<1>4. end_offset(start, size) = start + (size - 1) \div n_bytes
  BY <1>1, <1>2, <1>3 DEF end_offset
<1> QED BY <1>1, <1>2, <1>3, <1>4 DEF InSpace

\* A new uvm_mem_mam has no regions.
THEOREM Initially == Init => MamInv
<1> SUFFICES ASSUME Init PROVE MamInv
  OBVIOUS
<1>1. DOMAIN m_in_use = {} /\ InUse = {}
  BY DEF Init, InUse
<1>2. TypeOK
  BY <1>1, EmptySeq DEF Init, TypeOK
<1> QED BY <1>1, <1>2 DEF MamInv, InManagedSpace, Sorted

\* reserve_region puts a new region between higher and lower ones.
LEMMA Reserve ==
  ASSUME NoWrap, MamInv, NEW start \in Offsets \cup {0}, NEW size \in Sizes,
         reserve_region(start, size)
  PROVE  MamInv'
<1> DEFINE end == end_offset(start, size)
<1>1. PICK i \in 1 .. Len(m_in_use) + 1, p \in Ptrs :
        LET region == [ptr |-> p, id |-> allocations, start |-> start, end |-> end]
        IN  /\ IsPlace(i, start) /\ NoOverlap(i, start, end)
            /\ m_in_use' = InsertAt(m_in_use, i, region)
            /\ held' = held \cup {region}
  BY Zenon DEF reserve_region
<1>2. /\ start \in 0 .. Wrap - 1 /\ end \in 0 .. Wrap - 1
      /\ m_cfg.start <= start /\ start <= end /\ end <= m_cfg.end
  BY NewRegion DEF reserve_region
<1> HIDE DEF end
<1>3. PICK e \in Regions :
        /\ e.start = start /\ e.end = end
        /\ m_in_use' = InsertAt(m_in_use, i, e)
        /\ held' = held \cup {e}
  <2> DEFINE r == [ptr |-> p, id |-> allocations, start |-> start, end |-> end]
  <2>1. r \in Regions /\ r.start = start /\ r.end = end
    BY <1>2 DEF Regions, MamInv, TypeOK
  <2> HIDE DEF r
  <2>2. m_in_use' = InsertAt(m_in_use, i, r) /\ held' = held \cup {r}
    BY <1>1 DEF r
  <2> QED BY <2>1, <2>2
<1> DEFINE n == Len(m_in_use)
<1>4. /\ m_in_use \in Seq(Regions) /\ n \in Nat /\ DOMAIN m_in_use = 1 .. n
      /\ i \in 1 .. n + 1
  BY <1>1, LenProperties DEF MamInv, TypeOK
<1>5. /\ m_in_use' \in Seq(Regions) /\ Len(m_in_use') = n + 1
      /\ DOMAIN m_in_use' = 1 .. n + 1
      /\ \A j \in 1 .. n + 1 : /\ j < i => m_in_use'[j] = m_in_use[j]
                               /\ j = i => m_in_use'[j] = e
                               /\ j > i => m_in_use'[j] = m_in_use[j - 1]
  <2> DEFINE t == InsertAt(m_in_use, i, e)
  <2>1. m_in_use' = t
    BY <1>3
  <2>2. t \in Seq(Regions) /\ Inserted(t, m_in_use, i, e)
    <3>1. e \in Regions /\ m_in_use \in Seq(Regions) /\ i \in 1 .. Len(m_in_use) + 1
      BY <1>3, <1>4
    <3> QED BY <3>1, InsertAtElements, Zenon
  <2> HIDE DEF t
  <2>3. DOMAIN t = 1 .. n + 1
    BY <2>2, LenProperties DEF Inserted
  <2> QED BY <2>1, <2>2, <2>3, Zenon DEF Inserted
<1>6. \A j \in 1 .. n : m_in_use[j] \in Regions
  BY <1>4, ElementOfSeq
<1>7. \A j \in 1 .. n : /\ m_in_use[j].start \in Nat /\ m_in_use[j].end \in Nat
                        /\ m_in_use[j].start <= m_in_use[j].end
  <2> TAKE j \in 1 .. n
  <2>1. m_in_use[j] \in InUse
    BY <1>4 DEF InUse
  <2>2. m_in_use[j].start <= m_in_use[j].end
    BY <2>1 DEF MamInv, InManagedSpace
  <2>3. m_in_use[j].start \in 0 .. Wrap - 1 /\ m_in_use[j].end \in 0 .. Wrap - 1
    BY <1>6 DEF Regions
  <2> QED BY <2>2, <2>3, ConfigAssumption
<1>8. \A j \in 1 .. n : j < i => end < m_in_use[j].start
  <2> SUFFICES ASSUME NEW j \in 1 .. n, j < i PROVE end < m_in_use[j].start
    OBVIOUS
  <2>1. m_in_use[j].start >= start
    BY <1>1, <1>4 DEF IsPlace
  <2>2. ~(start <= m_in_use[j].end /\ end >= m_in_use[j].start)
    BY <1>1, <1>4 DEF NoOverlap, Overlaps
  <2> QED BY <2>1, <2>2, <1>2, <1>7, ConfigAssumption
<1>9. \A j \in 1 .. n : j >= i => m_in_use[j].end < start
  <2>1. i <= n => m_in_use[i].end < start
    BY <1>1, <1>2, <1>4, <1>7, ConfigAssumption DEF IsPlace, NoOverlap, Overlaps
  <2>2. \A j \in 1 .. n : j > i => m_in_use[j].end < m_in_use[i].start
    BY <1>4 DEF MamInv, Sorted
  <2> QED BY <2>1, <2>2, <1>2, <1>4, <1>7
<1>10. Sorted'
  <2> SUFFICES ASSUME NEW j \in 1 .. n + 1, NEW k \in 1 .. n + 1, j < k
               PROVE  m_in_use'[k].end < m_in_use'[j].start
    BY <1>5 DEF Sorted
  <2>1. CASE k < i
    <3>1. m_in_use'[k] = m_in_use[k] /\ m_in_use'[j] = m_in_use[j] /\ k \in 1 .. n
      BY <2>1, <1>4, <1>5
    <3> QED BY <3>1, <1>4 DEF MamInv, Sorted
  <2>2. CASE k = i
    <3>1. m_in_use'[k] = e /\ m_in_use'[j] = m_in_use[j] /\ j \in 1 .. n /\ j < i
      BY <2>2, <1>4, <1>5
    <3> QED BY <3>1, <1>3, <1>8
  <2>3. CASE k > i /\ j < i
    <3>1. m_in_use'[k] = m_in_use[k - 1] /\ m_in_use'[j] = m_in_use[j]
      BY <2>3, <1>4, <1>5
    <3> QED BY <3>1, <2>3, <1>4 DEF MamInv, Sorted
  <2>4. CASE k > i /\ j = i
    <3>1. m_in_use'[k] = m_in_use[k - 1] /\ m_in_use'[j] = e
      BY <2>4, <1>4, <1>5
    <3> QED BY <3>1, <2>4, <1>3, <1>4, <1>9
  <2>5. CASE k > i /\ j > i
    <3>1. m_in_use'[k] = m_in_use[k - 1] /\ m_in_use'[j] = m_in_use[j - 1]
      BY <2>5, <1>4, <1>5
    <3> QED BY <3>1, <2>5, <1>4 DEF MamInv, Sorted
  <2> QED BY <2>1, <2>2, <2>3, <2>4, <2>5, <1>4
<1>11. InUse' = InUse \cup {e}
  <2>1. \A j \in 1 .. n + 1 : m_in_use'[j] \in InUse \cup {e}
    <3> TAKE j \in 1 .. n + 1
    <3>1. CASE j < i
      BY <3>1, <1>4, <1>5 DEF InUse
    <3>2. CASE j = i
      BY <3>2, <1>4, <1>5
    <3>3. CASE j > i
      <4>1. m_in_use'[j] = m_in_use[j - 1] /\ j - 1 \in 1 .. n
        BY <3>3, <1>4, <1>5
      <4> QED BY <4>1, <1>4 DEF InUse
    <3> QED BY <3>1, <3>2, <3>3, <1>4
  <2>2. \A j \in 1 .. n : \E k \in 1 .. n + 1 : m_in_use'[k] = m_in_use[j]
    <3> TAKE j \in 1 .. n
    <3>1. CASE j < i
      <4>1. j \in 1 .. n + 1 /\ m_in_use'[j] = m_in_use[j]
        BY <3>1, <1>4, <1>5
      <4> QED BY <4>1
    <3>2. CASE j >= i
      <4>1. /\ j + 1 \in 1 .. n + 1 /\ (j + 1) - 1 = j
            /\ ~(j + 1 < i) /\ j + 1 # i
        BY <3>2, <1>4
      <4>2. m_in_use'[j + 1] = m_in_use[(j + 1) - 1]
        BY <4>1, <1>5
      <4> QED BY <4>1, <4>2
    <3> QED BY <3>1, <3>2, <1>4
  <2>3. i \in 1 .. n + 1 /\ m_in_use'[i] = e
    BY <1>4, <1>5
  <2>4. InUse = {m_in_use[j] : j \in 1 .. n} /\ InUse' = {m_in_use'[j] : j \in 1 .. n + 1}
    BY <1>4, <1>5 DEF InUse
  <2> QED BY <2>1, <2>2, <2>3, <2>4, Zenon
<1>12. InManagedSpace'
  <2>1. m_cfg' = m_cfg
    BY DEF reserve_region
  <2>2. \A r \in InUse : m_cfg.start <= r.start /\ r.end <= m_cfg.end /\ r.start <= r.end
    BY DEF MamInv, InManagedSpace
  <2>3. m_cfg.start <= e.start /\ e.end <= m_cfg.end /\ e.start <= e.end
    BY <1>2, <1>3
  <2> QED BY <2>1, <2>2, <2>3, <1>11 DEF InManagedSpace
<1>13. TypeOK'
  BY <1>3, <1>5, <1>11 DEF MamInv, TypeOK, reserve_region
<1> QED BY <1>10, <1>12, <1>13 DEF MamInv

\* release_region leaves the others where they are.
LEMMA Release ==
  ASSUME MamInv, NEW r, release_region(r)
  PROVE  MamInv'
<1> DEFINE n == Len(m_in_use)
<1>1. PICK i \in DOMAIN m_in_use : m_in_use' = RemoveAt(m_in_use, i)
  BY DEF release_region
<1>2. /\ m_in_use \in Seq(Regions) /\ n \in Nat /\ DOMAIN m_in_use = 1 .. n
      /\ i \in 1 .. n
  BY <1>1, LenProperties DEF MamInv, TypeOK
<1>3. /\ m_in_use' \in Seq(Regions) /\ Len(m_in_use') = n - 1
      /\ DOMAIN m_in_use' = 1 .. n - 1
      /\ \A j \in 1 .. n - 1 :
           m_in_use'[j] = IF j < i THEN m_in_use[j] ELSE m_in_use[j + 1]
  <2> DEFINE t == RemoveAt(m_in_use, i)
  <2>1. /\ t \in Seq(Regions) /\ Len(t) = n - 1
        /\ \A j \in 1 .. n - 1 :
             t[j] = IF j < i THEN m_in_use[j] ELSE m_in_use[j + 1]
    BY <1>2, RemoveAtElements
  <2>2. m_in_use' = t
    BY <1>1
  <2> HIDE DEF t
  <2>3. DOMAIN t = 1 .. n - 1
    BY <2>1, LenProperties
  <2> QED BY <2>1, <2>2, <2>3, Zenon
<1>4. Sorted'
  <2> SUFFICES ASSUME NEW j \in 1 .. n - 1, NEW k \in 1 .. n - 1, j < k
               PROVE  m_in_use'[k].end < m_in_use'[j].start
    BY <1>3 DEF Sorted
  <2>1. PICK a \in 1 .. n : a \in {j, j + 1} /\ m_in_use'[j] = m_in_use[a] /\ (a = j + 1 => j >= i)
    BY <1>2, <1>3
  <2>2. PICK b \in 1 .. n : b \in {k, k + 1} /\ m_in_use'[k] = m_in_use[b] /\ (b = k => k < i)
    BY <1>2, <1>3
  <2>3. a < b
    BY <2>1, <2>2, <1>2
  <2> QED BY <2>1, <2>2, <2>3, <1>2 DEF MamInv, Sorted
<1>5. InUse' \subseteq InUse /\ InUse \subseteq InUse' \cup {m_in_use[i]}
  <2>1. InUse = {m_in_use[j] : j \in 1 .. n} /\ InUse' = {m_in_use'[j] : j \in 1 .. n - 1}
    BY <1>2, <1>3 DEF InUse
  <2>2. \A j \in 1 .. n - 1 : m_in_use'[j] \in {m_in_use[k] : k \in 1 .. n}
    BY <1>2, <1>3
  <2>3. ASSUME NEW j \in 1 .. n, j # i
        PROVE  \E k \in 1 .. n - 1 : m_in_use'[k] = m_in_use[j]
    <3>1. CASE j < i
      <4>1. j \in 1 .. n - 1 /\ m_in_use'[j] = m_in_use[j]
        BY <3>1, <1>2, <1>3
      <4> QED BY <4>1
    <3>2. CASE j > i
      <4>1. j - 1 \in 1 .. n - 1 /\ ~(j - 1 < i) /\ (j - 1) + 1 = j
        BY <3>2, <1>2
      <4>2. m_in_use'[j - 1] = m_in_use[(j - 1) + 1]
        BY <4>1, <1>3
      <4> QED BY <4>1, <4>2
    <3> QED BY <3>1, <3>2, <2>3, <1>2
  <2> QED BY <2>1, <2>2, <2>3, Zenon
<1>6. InManagedSpace'
  BY <1>5 DEF MamInv, InManagedSpace, release_region
<1>7. TypeOK'
  BY <1>3 DEF MamInv, TypeOK, release_region
<1> QED BY <1>4, <1>6, <1>7 DEF MamInv

\* release_all_regions empties m_in_use.
LEMMA ReleaseAll == ASSUME MamInv, release_all_regions PROVE MamInv'
<1>1. m_in_use' = <<>>
  BY DEF release_all_regions
<1>2. DOMAIN m_in_use' = {} /\ InUse' = {} /\ m_in_use' \in Seq(Regions)
  BY <1>1, EmptySeq DEF InUse
<1>3. TypeOK'
  BY <1>1, <1>2 DEF MamInv, TypeOK, release_all_regions
<1> QED BY <1>2, <1>3 DEF MamInv, Sorted, InManagedSpace

\* reconfigure refuses a space that one of the regions does not fit into.
LEMMA Reconfigure == ASSUME MamInv, NEW cfg \in Configs, reconfigure(cfg) PROVE MamInv'
<1>1. m_in_use' = m_in_use /\ InUse' = InUse
  BY DEF reconfigure, InUse
<1>2. Sorted'
  BY <1>1 DEF MamInv, Sorted
<1>3. InManagedSpace'
  BY <1>1 DEF MamInv, InManagedSpace, reconfigure, FitsInto
<1>4. TypeOK'
  BY <1>1 DEF MamInv, TypeOK, reconfigure
<1> QED BY <1>2, <1>3, <1>4 DEF MamInv

\* for_each moves its index only.
LEMMA ForEach == ASSUME MamInv, NEW reset \in BOOLEAN, for_each(reset) PROVE MamInv'
<1>1. /\ m_in_use' = m_in_use /\ InUse' = InUse /\ m_cfg' = m_cfg
      /\ held' = held /\ allocations' = allocations
  BY DEF for_each, InUse
<1>2. Sorted' /\ InManagedSpace'
  BY <1>1 DEF MamInv, Sorted, InManagedSpace
<1>3. m_for_each_idx' \in Nat \cup {-1}
  BY DEF MamInv, TypeOK, for_each
<1> QED BY <1>1, <1>2, <1>3 DEF MamInv, TypeOK

\* Every operation of uvm_mem_mam preserves the invariant.
THEOREM Step == NoWrap /\ MamInv /\ [Next]_vars => MamInv'
<1> SUFFICES ASSUME NoWrap, MamInv, [Next]_vars PROVE MamInv'
  OBVIOUS
<1>1. CASE \E start \in Offsets, size \in Sizes : reserve_region(start, size)
  BY <1>1, Reserve
<1>2. CASE \E size \in Sizes : request_region(size)
  BY <1>2, Reserve DEF request_region
<1>3. CASE \E r \in held : release_region(r)
  BY <1>3, Release
<1>4. CASE release_all_regions
  BY <1>4, ReleaseAll
<1>5. CASE \E cfg \in Configs : reconfigure(cfg)
  BY <1>5, Reconfigure
<1>6. CASE \E reset \in BOOLEAN : for_each(reset)
  BY <1>6, ForEach
<1>7. CASE UNCHANGED vars
  BY <1>7 DEF vars, MamInv, TypeOK, InManagedSpace, Sorted, InUse
<1> QED BY <1>1, <1>2, <1>3, <1>4, <1>5, <1>6, <1>7 DEF Next

-----------------------------------------------------------------------------
(* The theorems *)

\* uvm_mem_mam keeps m_in_use sorted and within the managed space, whatever is
\* reserved, requested, released or reconfigured.
THEOREM Inductive == NoWrap => (Spec => []MamInv)
<1> SUFFICES ASSUME NoWrap PROVE Spec => []MamInv
  OBVIOUS
<1>1. Init => MamInv
  BY Initially
<1>2. MamInv /\ [Next]_vars => MamInv'
  BY Step
<1> QED BY <1>1, <1>2, PTL DEF Spec

\* Comparing with a part of m_in_use is enough: no location of the memory is in
\* two regions (reserve_region).
THEOREM Disjoint == NoWrap => (Spec => []RegionsDisjoint)
<1> SUFFICES ASSUME NoWrap PROVE Spec => []RegionsDisjoint
  OBVIOUS
<1>1. MamInv => RegionsDisjoint
  <2> SUFFICES ASSUME MamInv, NEW i \in DOMAIN m_in_use, NEW j \in DOMAIN m_in_use, i # j
               PROVE  ~Overlaps(m_in_use[i], m_in_use[j].start, m_in_use[j].end)
    BY DEF RegionsDisjoint
  <2>1. /\ i \in 1 .. Len(m_in_use) /\ j \in 1 .. Len(m_in_use)
        /\ m_in_use[i] \in Regions /\ m_in_use[j] \in Regions
        /\ Len(m_in_use) \in Nat
    BY LenProperties, ElementOfSeq DEF MamInv, TypeOK
  <2>2. /\ m_in_use[i].start \in Nat /\ m_in_use[i].end \in Nat
        /\ m_in_use[j].start \in Nat /\ m_in_use[j].end \in Nat
    BY <2>1, ConfigAssumption DEF Regions
  <2>3. m_in_use[j].end < m_in_use[i].start \/ m_in_use[i].end < m_in_use[j].start
    BY <2>1 DEF MamInv, Sorted
  <2> QED BY <2>2, <2>3 DEF Overlaps
<1>2. Spec => []MamInv
  BY Inductive
<1> QED BY <1>1, <1>2, PTL

\* A region that is allocated lies in the address space of the configuration of
\* the moment (reserve_region, reconfigure).
THEOREM WithinSpace == NoWrap => (Spec => []InManagedSpace)
<1> SUFFICES ASSUME NoWrap PROVE Spec => []InManagedSpace
  OBVIOUS
<1>1. MamInv => InManagedSpace
  BY DEF MamInv
<1>2. Spec => []MamInv
  BY Inductive
<1> QED BY <1>1, <1>2, PTL

\* A region occupies its locations: what a burst may reach is among them.
LEMMA BurstReaches ==
  ASSUME NEW r \in Regions, r.start <= r.end,
         NEW offset \in 0 .. Wrap - 1, NEW length \in 1 .. Wrap - 1,
         offset + length < Wrap, MayBurst(r, offset, length)
  PROVE  Reached(r, offset, length) \subseteq Locations(r)
<1>1. /\ r.start \in Nat /\ r.end \in Nat /\ r.end < Wrap /\ Wrap \in Nat \ {0}
      /\ offset \in Nat /\ length \in Nat
  BY ConfigAssumption DEF Regions
<1>2. offset + length <= r.end - r.start + 1
  <2>1. (offset + length) % Wrap = offset + length
    BY <1>1
  <2>2. m_len(r) <= r.end - r.start + 1
    BY <1>1 DEF m_len
  <2> QED BY <2>1, <2>2, <1>1 DEF MayBurst, m_len
<1>3. ASSUME NEW k \in 0 .. length - 1
      PROVE  (r.start + offset + k) % Wrap \in r.start .. r.end
  <2>1. r.start + offset + k \in r.start .. r.end
    BY <1>1, <1>2
  <2> QED BY <2>1, <1>1
<1> QED BY <1>3 DEF Reached, Locations

\* A burst through a region reaches no location of another one (burst_write and
\* burst_read of uvm_mem_region against the regions of reserve_region).
THEOREM BurstIsolation == NoWrap => (Spec => []BurstsIsolated)
<1> SUFFICES ASSUME NoWrap PROVE Spec => []BurstsIsolated
  OBVIOUS
<1>1. TypeOK /\ InManagedSpace /\ RegionsDisjoint => BurstsIsolated
  <2> SUFFICES ASSUME TypeOK, InManagedSpace, RegionsDisjoint,
                      NEW r \in InUse, NEW x \in InUse, r # x,
                      NEW offset \in 0 .. Wrap - 1, NEW length \in 1 .. Wrap - 1,
                      offset + length < Wrap, MayBurst(r, offset, length)
               PROVE  Reached(r, offset, length) \cap Locations(x) = {}
    BY DEF BurstsIsolated
  <2>1. r \in Regions /\ x \in Regions /\ r.start <= r.end /\ x.start <= x.end
    BY LenProperties, ElementOfSeq DEF TypeOK, InUse, InManagedSpace
  <2>2. ~Overlaps(r, x.start, x.end)
    BY DEF RegionsDisjoint, InUse
  <2>3. Locations(r) \cap Locations(x) = {}
    BY <2>1, <2>2, ConfigAssumption DEF Locations, Overlaps, Regions
  <2>4. Reached(r, offset, length) \subseteq Locations(r)
    BY <2>1, BurstReaches
  <2> QED BY <2>3, <2>4
<1>2. Spec => []MamInv
  BY Inductive
<1>3. MamInv => TypeOK /\ InManagedSpace
  BY DEF MamInv
<1>4. Spec => []RegionsDisjoint
  BY Disjoint
<1> QED BY <1>1, <1>2, <1>3, <1>4, PTL

=============================================================================
