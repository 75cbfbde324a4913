----------------------------- MODULE BuildProofs -----------------------------
(***************************************************************************)
(* The build, for every hierarchy, any types and any calls.  A component   *)
(* reads the setting that was made highest: the pool holds the settings in *)
(* their order (PoolInv).  It is of the type that the calls promise: the   *)
(* queues and the list of overrides hold what the calls promise of each    *)
(* type (History), and the search follows the walk of the promises as far  *)
(* as it goes (Reached), to its end or until it takes an override whose    *)
(* original it has met.                                                    *)
(***************************************************************************)
EXTENDS Build, FiniteSetTheorems, SequenceTheorems, WellFoundedInduction, TLAPS

\* What set puts into the pool.
Resources == [scope : SUBSET Components, precedence : Int, value : Nat]

\* A resource is the setting of one of the calls cs.
IsSetting(r, cs) ==
  LET call == cs[r.value] IN
  /\ r.value \in DOMAIN cs /\ call.op = "config"
  /\ call.scope = r.scope
  /\ call.level \in Nat /\ r.precedence = default_precedence - call.level

\* The pool holds the settings of all calls, the last one first.
PoolInv ==
  /\ calls \in Seq(Range(calls)) /\ rtab \in Seq(Resources)
  /\ \A i \in DOMAIN rtab : IsSetting(rtab[i], calls)
  /\ \A i, j \in DOMAIN rtab : i < j => rtab[j].value < rtab[i].value
  /\ \A v \in Calls({"config"}) : \E i \in DOMAIN rtab : rtab[i].value = v

-----------------------------------------------------------------------------
(* The calls *)

\* A set of numbers has a least one.
LEMMA LeastOf ==
  ASSUME NEW T \in SUBSET Nat, T # {}
  PROVE  \E m \in T : \A n \in T : m <= n
<1>1. PICK m \in T : \A n \in T : <<n, m>> \notin OpToRel(<, Nat)
  BY NatLessThanWellFounded, WFMin
<1>2. \A n \in T : ~(n < m)
  BY <1>1 DEF OpToRel
<1> QED BY <1>2

\* A call is put behind the calls made so far.
LEMMA CallsGrow ==
  ASSUME calls \in Seq(Range(calls)), NEW call, Called(call)
  PROVE  /\ calls' \in Seq(Range(calls'))
         /\ Len(calls) \in Nat /\ DOMAIN calls = 1 .. Len(calls)
         /\ DOMAIN calls' = 1 .. Len(calls) + 1
         /\ \A i \in DOMAIN calls : calls'[i] = calls[i]
         /\ calls'[Len(calls) + 1] = call
<1> DEFINE S == Range(calls) \cup {call}
<1>1. calls \in Seq(S)
  BY DEF Range
<1>2. calls' = Append(calls, call)
  BY DEF Called
<1> HIDE DEF S
<1>3. /\ calls' \in Seq(S) /\ Len(calls) \in Nat /\ DOMAIN calls = 1 .. Len(calls)
      /\ Len(calls') = Len(calls) + 1
      /\ \A i \in 1 .. Len(calls) : calls'[i] = calls[i]
      /\ calls'[Len(calls) + 1] = call
  BY <1>1, <1>2, AppendProperties DEF S
<1>4. DOMAIN calls' = 1 .. Len(calls) + 1
  BY <1>3
<1>5. calls' \in Seq(Range(calls'))
  BY <1>3, <1>4 DEF Range
<1> QED BY <1>3, <1>4, <1>5

\* A call of the factory leaves the pool as it is.
LEMMA CallKeepsPool ==
  ASSUME PoolInv, NEW call, Called(call), call.op # "config", UNCHANGED rtab
  PROVE  PoolInv'
<1>1. /\ calls' \in Seq(Range(calls')) /\ Len(calls) \in Nat
      /\ DOMAIN calls = 1 .. Len(calls) /\ DOMAIN calls' = 1 .. Len(calls) + 1
      /\ \A i \in DOMAIN calls : calls'[i] = calls[i]
      /\ calls'[Len(calls) + 1] = call
  BY CallsGrow DEF PoolInv
<1>2. DOMAIN calls \subseteq DOMAIN calls'
  BY <1>1
<1>3. \A i \in DOMAIN rtab : IsSetting(rtab[i], calls')
  BY <1>1, <1>2 DEF PoolInv, IsSetting
<1>4. Calls({"config"})' = Calls({"config"})
  BY <1>1 DEF Calls
<1> QED BY <1>1, <1>3, <1>4 DEF PoolInv

\* A setting is put before the others.
LEMMA SetKeepsPool ==
  ASSUME PoolInv, NEW context \in Nat, NEW scope \in SUBSET Components,
         set_config(context, scope)
  PROVE  PoolInv'
<1> DEFINE level == IF Building THEN get_depth(context) ELSE 0
           call == [op |-> "config", level |-> level, scope |-> scope]
           new == [scope |-> scope, precedence |-> Precedence(Building, get_depth(context)),
                   value |-> Len(calls) + 1]
<1>1. Called(call) /\ rtab' = <<new>> \o rtab
  BY DEF set_config, set
<1>2. level \in Nat /\ Precedence(Building, get_depth(context)) = default_precedence - level
      /\ default_precedence - level \in Int
  BY DEF Precedence, default_precedence, get_depth
<1> HIDE DEF level
<1>3. /\ calls' \in Seq(Range(calls')) /\ Len(calls) \in Nat
      /\ DOMAIN calls = 1 .. Len(calls) /\ DOMAIN calls' = 1 .. Len(calls) + 1
      /\ \A i \in DOMAIN calls : calls'[i] = calls[i]
      /\ calls'[Len(calls) + 1] = call
  BY <1>1, CallsGrow DEF PoolInv
<1>4. new \in Resources
  BY <1>2, <1>3 DEF Resources
<1>5. /\ rtab' \in Seq(Resources)
      /\ Len(rtab) \in Nat /\ DOMAIN rtab = 1 .. Len(rtab)
      /\ DOMAIN rtab' = 1 .. Len(rtab) + 1
      /\ rtab'[1] = new
      /\ \A i \in DOMAIN rtab : rtab'[i + 1] = rtab[i]
      /\ \A i \in DOMAIN rtab' \ {1} : i - 1 \in DOMAIN rtab /\ rtab'[i] = rtab[i - 1]
  <2> HIDE DEF new
  <2>1. rtab \in Seq(Resources) /\ <<new>> \in Seq(Resources) /\ Len(<<new>>) = 1
    BY <1>4 DEF PoolInv
  <2> QED BY <1>1, <2>1, ConcatProperties
<1>6. IsSetting(new, calls')
  BY <1>2, <1>3 DEF IsSetting
<1>7. \A i \in DOMAIN rtab : /\ IsSetting(rtab[i], calls')
                             /\ rtab[i].value < new.value
  BY <1>3 DEF PoolInv, IsSetting
<1>8. \A i \in DOMAIN rtab' : IsSetting(rtab'[i], calls')
  BY <1>5, <1>6, <1>7
<1>9. ASSUME NEW i \in DOMAIN rtab', NEW j \in DOMAIN rtab', i < j
      PROVE  rtab'[j].value < rtab'[i].value
  <2>1. j - 1 \in DOMAIN rtab /\ rtab'[j] = rtab[j - 1]
    BY <1>5, <1>9
  <2>2. CASE i = 1
    BY <1>5, <1>7, <2>1, <2>2
  <2>3. CASE i # 1
    <3>1. i - 1 \in DOMAIN rtab /\ rtab'[i] = rtab[i - 1] /\ i - 1 < j - 1
      BY <1>5, <1>9, <2>3
    <3> QED BY <2>1, <3>1 DEF PoolInv
  <2> QED BY <2>2, <2>3
<1>10. ASSUME NEW v \in Calls({"config"})'
       PROVE  \E i \in DOMAIN rtab' : rtab'[i].value = v
  <2>1. CASE v = Len(calls) + 1
    BY <1>5, <2>1
  <2>2. CASE v # Len(calls) + 1
    <3>1. v \in Calls({"config"})
      BY <1>3, <1>10, <2>2 DEF Calls
    <3>2. PICK i \in DOMAIN rtab : rtab[i].value = v
      BY <3>1 DEF PoolInv
    <3>3. i + 1 \in DOMAIN rtab'
      BY <1>5
    <3> QED BY <1>5, <3>2, <3>3
  <2> QED BY <2>1, <2>2
<1> QED BY <1>3, <1>5, <1>8, <1>9, <1>10 DEF PoolInv

\* The pool follows the calls, whatever is made and read in between.
LEMMA PoolKept == PoolInv /\ [Next]_vars => PoolInv'
<1> SUFFICES ASSUME PoolInv, [Next]_vars PROVE PoolInv'
  OBVIOUS
<1>1. ASSUME UNCHANGED <<calls, rtab>> PROVE PoolInv'
  BY <1>1 DEF PoolInv, IsSetting, Calls
<1>2. ASSUME NEW op \in {"register", "type", "type_name", "inst", "inst_name"},
             NEW name, NEW ovrd, NEW paths, NEW flag,
             CallFactory(op, name, ovrd, paths, flag)
      PROVE  PoolInv'
  <2> DEFINE call == [op |-> op, name |-> name, ovrd |-> ovrd, paths |-> paths,
                      flag |-> flag, types |-> factory.types]
  <2>1. Called(call) /\ UNCHANGED rtab /\ call.op # "config"
    BY <1>2 DEF CallFactory
  <2> HIDE DEF call
  <2> QED BY <2>1, CallKeepsPool
<1>3. ASSUME NEW t, register(t) PROVE PoolInv'
  BY <1>2, <1>3 DEF register
<1>4. ASSUME NEW t, NEW v, NEW replace, set_type_override(t, v, replace) PROVE PoolInv'
  BY <1>2, <1>4 DEF set_type_override
<1>5. ASSUME NEW t, NEW v, NEW paths, set_inst_override(t, v, paths) PROVE PoolInv'
  BY <1>2, <1>5 DEF set_inst_override
<1>6. ASSUME NEW w, NEW v, NEW paths, set_wildcard_override(w, v, paths) PROVE PoolInv'
  BY <1>2, <1>6 DEF set_wildcard_override
<1>7. ASSUME NEW context \in 0 .. Len(Order) + 1, NEW scope \in SUBSET Components,
             set_config(context, scope)
      PROVE  PoolInv'
  BY <1>7, SetKeepsPool
<1>8. ASSUME \/ \E c \in Components : Read(c)
             \/ create_by_type \/ create_by_name \/ traverse
             \/ UNCHANGED vars
      PROVE  PoolInv'
  BY <1>1, <1>8 DEF Read, create_by_type, create_by_name, create, traverse, vars
<1> QED BY <1>3, <1>4, <1>5, <1>6, <1>7, <1>8 DEF Next

-----------------------------------------------------------------------------
(* What a component reads *)

\* The pool is a sequence of resources, each with its setting's level.
LEMMA PoolTypes ==
  ASSUME PoolInv, NEW i \in DOMAIN rtab
  PROVE  /\ i \in Nat /\ rtab[i].precedence \in Int /\ rtab[i].value \in Nat
         /\ default_precedence - rtab[i].precedence \in Nat
<1>1. i \in Nat /\ rtab[i] \in Resources /\ IsSetting(rtab[i], calls)
  BY DEF PoolInv
<1>2. rtab[i].precedence \in Int /\ rtab[i].value \in Nat
  BY <1>1 DEF Resources
<1>3. PICK level \in Nat : rtab[i].precedence = default_precedence - level
  BY <1>1 DEF IsSetting
<1> QED BY <1>1, <1>2, <1>3 DEF default_precedence

\* Among resources there is a first one of the highest precedence
\* (get_highest_precedence).
LEMMA HighestExists ==
  ASSUME PoolInv, NEW q \in SUBSET DOMAIN rtab, q # {}
  PROVE  LET i == get_highest_precedence(q) IN
         /\ i \in q
         /\ \A j \in q : \/ rtab[j].precedence < rtab[i].precedence
                         \/ rtab[j].precedence = rtab[i].precedence /\ i <= j
<1> DEFINE Level(i) == default_precedence - rtab[i].precedence
           Highest(i) == \A j \in q : \/ rtab[j].precedence < rtab[i].precedence
                                      \/ rtab[j].precedence = rtab[i].precedence /\ i <= j
<1>1. \A i \in q : /\ i \in Nat
                   /\ rtab[i].precedence \in Int /\ Level(i) \in Nat
  BY PoolTypes
<1>2. PICK k \in q : \A j \in q : Level(k) <= Level(j)
  <2>1. {Level(i) : i \in q} \in SUBSET Nat /\ {Level(i) : i \in q} # {}
    BY <1>1
  <2>2. PICK m \in {Level(i) : i \in q} : \A n \in {Level(i) : i \in q} : m <= n
    BY <2>1, LeastOf
  <2> QED BY <2>2
<1> DEFINE P == {i \in q : Level(i) = Level(k)}
<1>3. PICK i \in P : \A j \in P : i <= j
  <2>1. P \in SUBSET Nat /\ P # {}
    BY <1>1
  <2> QED BY <2>1, LeastOf
<1>4. Highest(i)
  BY <1>1, <1>2, <1>3 DEF default_precedence
<1> QED BY <1>3, <1>4 DEF get_highest_precedence

\* What a component gets is the setting made highest and, of these, last.
LEMMA GetsTheHighest ==
  ASSUME PoolInv, NEW c
  PROVE  IF Settings(c) = {} THEN get(c, 0) = 0
         ELSE /\ get(c, 0) \in Settings(c)
              /\ \A w \in Settings(c) \ {get(c, 0)} : Beats(get(c, 0), w)
<1> DEFINE q == {i \in DOMAIN rtab : c \in rtab[i].scope}
<1>1. \A i \in q : rtab[i].value \in Settings(c)
  BY DEF PoolInv, IsSetting, Settings, Calls
<1>2. \A v \in Settings(c) : \E i \in q : rtab[i].value = v
  BY DEF PoolInv, IsSetting, Settings
<1>3. CASE q = {}
  BY <1>2, <1>3 DEF get
<1>4. CASE q # {}
  <2> DEFINE i == get_highest_precedence(q)
             v == rtab[i].value
  <2>1. /\ i \in q
        /\ \A j \in q : \/ rtab[j].precedence < rtab[i].precedence
                        \/ rtab[j].precedence = rtab[i].precedence /\ i <= j
    BY <1>4, HighestExists
  <2>2. get(c, 0) = v
    BY <1>4 DEF get
  <2> HIDE DEF i
  <2>3. ASSUME NEW w \in Settings(c), w # v
        PROVE  Beats(v, w)
    <3>1. PICK j \in q : rtab[j].value = w
      BY <1>2
    <3>2. /\ i \in DOMAIN rtab /\ j \in DOMAIN rtab /\ i # j
          /\ i \in Int /\ j \in Int
      BY <2>1, <2>3, <3>1 DEF PoolInv
    <3>3. /\ calls[v].level \in Nat /\ rtab[i].precedence = default_precedence - calls[v].level
          /\ calls[w].level \in Nat /\ rtab[j].precedence = default_precedence - calls[w].level
      BY <3>1, <3>2 DEF PoolInv, IsSetting
    <3>4. CASE rtab[j].precedence < rtab[i].precedence
      BY <3>3, <3>4 DEF Beats, default_precedence
    <3>5. CASE rtab[j].precedence = rtab[i].precedence /\ i <= j
      <4>1. w < v
        BY <3>1, <3>2, <3>5 DEF PoolInv
      <4>2. v \in Int /\ w \in Int
        BY <3>1, <3>2, PoolTypes
      <4> QED BY <3>3, <3>5, <4>1, <4>2 DEF Beats, default_precedence
    <3> QED BY <2>1, <3>1, <3>4, <3>5
  <2> QED BY <1>1, <2>1, <2>2, <2>3
<1> QED BY <1>3, <1>4

\* What a component has read is the number of a call.
SeenIsCall ==
  /\ Len(calls) <= MaxCalls
  /\ seen \in [reader : Components \cup {NULL}, value : 0 .. MaxCalls]

\* Each step keeps it: what is read is 0 or the value of a setting, the number of its call.
LEMMA SeenKept == PoolInv /\ SeenIsCall /\ [Next]_vars => SeenIsCall'
<1> SUFFICES ASSUME PoolInv, SeenIsCall, [Next]_vars PROVE SeenIsCall'
  OBVIOUS
<1>1. MaxCalls \in Nat /\ Unread \in [reader : Components \cup {NULL}, value : 0 .. MaxCalls]
  BY BuildAssumption DEF Unread
<1>2. ASSUME NEW call, Called(call) PROVE SeenIsCall'
  <2>1. Len(calls) \in Nat /\ Len(calls) < MaxCalls /\ Len(calls') = Len(calls) + 1
    <3>1. calls \in Seq(Range(calls) \cup {call}) /\ calls' = Append(calls, call)
      BY <1>2 DEF PoolInv, Called, Range
    <3> QED BY <1>2, <3>1 DEF Called
  <2> QED BY <1>1, <1>2, <2>1 DEF Called, SeenIsCall
<1>3. ASSUME NEW c \in Components, Read(c) PROVE SeenIsCall'
  <2>1. get(c, 0) \in 0 .. MaxCalls
    <3>1. get(c, 0) = 0 \/ get(c, 0) \in Settings(c)
      BY GetsTheHighest
    <3>2. Settings(c) \subseteq 1 .. Len(calls) /\ Len(calls) \in Nat
      BY DEF Settings, Calls, PoolInv
    <3> QED BY <1>1, <3>1, <3>2 DEF SeenIsCall
  <2> QED BY <1>3, <2>1 DEF Read, SeenIsCall
<1>4. ASSUME create_by_type \/ create_by_name \/ traverse PROVE SeenIsCall'
  BY <1>1, <1>4 DEF create_by_type, create_by_name, create, traverse, SeenIsCall
<1>5. ASSUME UNCHANGED vars PROVE SeenIsCall'
  BY <1>5 DEF vars, SeenIsCall
<1> QED BY <1>2, <1>3, <1>4, <1>5 DEF Next, register, set_type_override, set_inst_override,
           set_wildcard_override, CallFactory, set_config

-----------------------------------------------------------------------------
(* The history of the factory *)

\* The types registered when the program starts, whichever start it is.
Always == {t \in Types : \A r \in Registrable : t \in r}

\* The instance overrides of a type, or of its name while it is not registered.
Queue(f, t) == (IF t \in f.types THEN f.insts ELSE f.names)[t]

\* An override of t, by its proxy if it had one.
Entry(f, o, t) ==
  /\ o \in Overrides /\ o.name = t /\ o.ovrd \in f.types
  /\ o.orig = t \/ (o.orig = NULL /\ t \notin Always /\ <<t, o.ovrd>> \in Pairs)

\* The first override for a path is that of the first call for it.
QueueRight(f, t) ==
  LET q == Queue(f, t) IN
  /\ \A i \in DOMAIN q : Entry(f, q[i], t)
  /\ \A p \in Paths :
       IF InstCalls(t, p) = {}
       THEN \A i \in DOMAIN q : p \notin q[i].paths
       ELSE \E i \in DOMAIN q : /\ p \in q[i].paths
                                /\ \A j \in DOMAIN q : p \in q[j].paths => i <= j
                                /\ q[i].ovrd = calls[Min(InstCalls(t, p))].ovrd

\* The override of the last call that replaces, else of the first call.
Replacing(t) == {i \in TypeCalls(t) : calls[i].flag}
TypePromise(t) ==
  IF Replacing(t) # {} THEN calls[Max(Replacing(t))].ovrd ELSE calls[Min(TypeCalls(t))].ovrd

\* Each type has one type override, if any.
ListRight(f) ==
  LET os == f.overrides IN
  /\ \A i \in DOMAIN os : os[i].name \in Types /\ Entry(f, os[i], os[i].name)
  /\ \A i, j \in DOMAIN os : os[i].name = os[j].name => i = j
  /\ \A t \in Types :
       IF TypeCalls(t) = {}
       THEN \A i \in DOMAIN os : os[i].name # t
       ELSE \E i \in DOMAIN os : os[i].name = t /\ os[i].ovrd = TypePromise(t)

\* Registered types wait for nothing, the others have no queue yet.
Clean(f) == \A t \in Types : (IF t \in f.types THEN f.names ELSE f.insts)[t] = <<>>

\* The wildcards are those of the calls.
WildcardsCalled(f) ==
  \A i \in DOMAIN f.wildcards : \E k \in Calls({"inst_name"}) :
    calls[k].name = f.wildcards[i].name /\ calls[k].name \in Wildcards

\* The queues and the list of f say what the calls promise.
History(f) ==
  /\ f \in FactoryType /\ Clean(f) /\ Always \subseteq f.types
  /\ \A k \in Calls({"inst_name"}) : calls[k].types \subseteq f.types
  /\ WildcardsCalled(f)
  /\ \A t \in Types \ Early : QueueRight(f, t)
  /\ ListRight(f)

\* What holds at the start of a list, and at each place if it does at the one before.
LEMMA Along ==
  ASSUME NEW N \in Nat, NEW I \in SUBSET (0 .. N), 0 \in I,
         \A i \in 1 .. N : i - 1 \in I => i \in I
  PROVE  I = 0 .. N
<1> SUFFICES ASSUME (0 .. N) \ I # {} PROVE FALSE
  OBVIOUS
<1> DEFINE T == (0 .. N) \ I
<1>1. T \in SUBSET Nat /\ T # {}
  OBVIOUS
<1> HIDE DEF T
<1>2. PICK k \in T : \A j \in T : k <= j
  BY <1>1, LeastOf
<1>3. k \in 0 .. N /\ k \notin I /\ k # 0
  BY <1>2 DEF T
<1>4. k \in 1 .. N /\ k - 1 \in 0 .. N /\ k - 1 \notin T
  BY <1>2, <1>3
<1> QED BY <1>3, <1>4 DEF T

\* A walk along a list that makes something of what it has at each place.
Walks(g, F, t, D, N) ==
  g \in [0 .. N -> D] /\ g[0] = t /\ \A i \in 1 .. N : g[i] = F[<<i, g[i - 1]>>]

\* There is one.
LEMMA WalkExists ==
  ASSUME NEW N \in Nat, NEW D, NEW t \in D, NEW F \in [(1 .. N) \X D -> D]
  PROVE  \E g : Walks(g, F, t, D, N)
<1> DEFINE IsWalk(f, k) == /\ f \in [0 .. k -> D] /\ f[0] = t
                           /\ \A i \in 1 .. k : f[i] = F[<<i, f[i - 1]>>]
           I == {k \in 0 .. N : \E f : IsWalk(f, k)}
<1>1. 0 \in I
  <2> DEFINE f == [i \in 0 .. 0 |-> t]
  <2>1. IsWalk(f, 0)
    OBVIOUS
  <2> HIDE DEF IsWalk, f
  <2> QED BY <2>1
<1>2. ASSUME NEW k \in 1 .. N, k - 1 \in I PROVE k \in I
  <2>1. PICK f : IsWalk(f, k - 1)
    BY <1>2
  <2> DEFINE g == [i \in 0 .. k |-> IF i = k THEN F[<<k, f[k - 1]>>] ELSE f[i]]
  <2>2. \A i \in 0 .. k - 1 : i \in 0 .. k /\ i # k /\ g[i] = f[i] /\ f[i] \in D
    BY <2>1
  <2>3. k - 1 \in 0 .. k - 1 /\ k \in 0 .. k /\ g[k] = F[<<k, f[k - 1]>>]
    OBVIOUS
  <2>4. g[k] \in D /\ g[k] = F[<<k, g[k - 1]>>]
    BY <2>2, <2>3
  <2>5. \A i \in 0 .. k : i = k \/ i \in 0 .. k - 1
    OBVIOUS
  <2>6. g = [i \in 0 .. k |-> g[i]]
    OBVIOUS
  <2> HIDE DEF g
  <2>7. \A i \in 0 .. k : g[i] \in D
    BY <2>2, <2>4, <2>5
  <2>8. \A i \in 1 .. k - 1 : g[i] = F[<<i, g[i - 1]>>]
    BY <2>1, <2>2
  <2>9. \A i \in 1 .. k : i = k \/ i \in 1 .. k - 1
    OBVIOUS
  <2>10. g[0] = t
    BY <2>1, <2>2
  <2>11. IsWalk(g, k)
    BY <2>4, <2>6, <2>7, <2>8, <2>9, <2>10
  <2> HIDE DEF IsWalk
  <2> QED BY <2>11
<1>3. I = 0 .. N
  <2>1. I \in SUBSET (0 .. N)
    OBVIOUS
  <2> HIDE DEF I
  <2> QED BY <1>1, <1>2, <2>1, Along
<1>4. N \in I
  BY <1>3
<1> QED BY <1>4 DEF Walks

\* The least and the greatest number of a set.
LEMMA MinIs ==
  ASSUME NEW T \in SUBSET Nat, T # {}
  PROVE  Min(T) \in T /\ \A n \in T : Min(T) <= n
BY LeastOf DEF Min

\* And a finite one a greatest.
LEMMA MaxIs ==
  ASSUME NEW n \in Nat, NEW T \in SUBSET (1 .. n), T # {}
  PROVE  Max(T) \in T /\ \A m \in T : m <= Max(T)
<1> DEFINE Above == {m \in Nat : \A i \in T : i <= m}
<1>1. n \in Above
  OBVIOUS
<1>2. Above \in SUBSET Nat /\ Above # {}
  BY <1>1
<1> HIDE DEF Above
<1>3. PICK m \in Above : \A j \in Above : m <= j
  BY <1>2, LeastOf
<1>4. m \in Nat /\ \A i \in T : i <= m
  BY <1>3 DEF Above
<1>5. m \in T
  <2> SUFFICES ASSUME m \notin T PROVE FALSE
    OBVIOUS
  <2>1. \A i \in T : i \in Nat /\ 1 <= i /\ i <= m - 1
    BY <1>4
  <2>2. m - 1 \in Nat
    <3>1. PICK i \in T : TRUE
      OBVIOUS
    <3> QED BY <1>4, <2>1, <3>1
  <2>3. m - 1 \in Above
    BY <2>1, <2>2 DEF Above
  <2> QED BY <1>3, <1>4, <2>3
<1> QED BY <1>4, <1>5 DEF Max

\* A number above a set is not its least, and becomes its greatest.
LEMMA OneAbove ==
  ASSUME NEW n \in Nat, NEW T \in SUBSET (1 .. n)
  PROVE  /\ Min({n + 1}) = n + 1
         /\ T # {} => Min(T) \in T /\ Min(T \cup {n + 1}) = Min(T)
         /\ Max(T \cup {n + 1}) = n + 1
<1> DEFINE U == T \cup {n + 1}
<1>1. n + 1 \in U /\ \A m \in U : m <= n + 1 /\ m \in Nat
  OBVIOUS
<1>2. Max(U) = n + 1
  <2>1. Max(U) \in U /\ \A m \in U : m <= Max(U)
    BY <1>1 DEF Max
  <2> HIDE DEF U
  <2> QED BY <1>1, <2>1
<1>3. Min({n + 1}) = n + 1
  BY MinIs
<1>4. ASSUME T # {} PROVE Min(T) \in T /\ Min(U) = Min(T)
  <2>1. Min(T) \in T /\ \A m \in T : Min(T) <= m
    BY <1>4, MinIs
  <2>2. Min(U) \in U /\ \A m \in U : Min(U) <= m
    BY <1>1, MinIs
  <2>3. Min(T) \in 1 .. n /\ Min(T) \in U /\ (Min(U) \in T \/ Min(U) = n + 1)
    BY <2>1, <2>2
  <2> HIDE DEF U
  <2>4. Min(U) <= Min(T) /\ Min(U) \in T
    BY <2>2, <2>3
  <2> DEFINE a == Min(T)
             b == Min(U)
  <2>5. a \in T /\ b \in T /\ a <= b /\ b <= a
    BY <2>1, <2>2, <2>4
  <2> HIDE DEF a, b
  <2>6. a \in Nat /\ b \in Nat
    BY <2>5
  <2>7. a = b
    BY <2>5, <2>6
  <2> QED BY <2>1, <2>7 DEF a, b
<1> QED BY <1>2, <1>3, <1>4

\* The overrides of a queue that match a type; none does, and there are none.
LEMMA MatchingIs ==
  ASSUME NEW s \in Seq(Overrides), NEW t
  PROVE  /\ Matching(s, t) \in Seq(Overrides)
         /\ (\A i \in DOMAIN s : ~NameMatches(s[i].name, t)) => Matching(s, t) = <<>>
<1> DEFINE N == Len(s)
           D == Seq(Overrides)
           F == [x \in (1 .. N) \X D |->
                   IF NameMatches(s[x[1]].name, t) THEN Append(x[2], s[x[1]]) ELSE x[2]]
           IsM(m) == m = [n \in 0 .. N |-> IF n = 0 THEN <<>>
                            ELSE IF NameMatches(s[n].name, t) THEN Append(m[n - 1], s[n])
                            ELSE m[n - 1]]
           matching == CHOOSE m : IsM(m)
<1>1. N \in Nat /\ DOMAIN s = 1 .. N /\ \A n \in 1 .. N : s[n] \in Overrides
  OBVIOUS
<1>2. F \in [(1 .. N) \X D -> D] /\ <<>> \in D
  <2>1. \A n \in 1 .. N, q \in D : Append(q, s[n]) \in D
    BY <1>1, AppendProperties
  <2> HIDE DEF N, D
  <2> QED BY <2>1 DEF D
<1>3. \E m : IsM(m) /\ m \in [0 .. N -> D]
  <2> HIDE DEF F, D, N
  <2>1. PICK m : Walks(m, F, <<>>, D, N)
    BY <1>1, <1>2, WalkExists
  <2>2. m \in [0 .. N -> D] /\ m[0] = <<>> /\ \A n \in 1 .. N : m[n] = F[<<n, m[n - 1]>>]
    BY <2>1 DEF Walks
  <2>3. \A n \in 0 .. N : m[n] = IF n = 0 THEN <<>>
                            ELSE IF NameMatches(s[n].name, t) THEN Append(m[n - 1], s[n])
                            ELSE m[n - 1]
    <3>1. ASSUME NEW n \in 1 .. N
          PROVE  n # 0 /\ m[n] = IF NameMatches(s[n].name, t) THEN Append(m[n - 1], s[n])
                                ELSE m[n - 1]
      <4>1. m[n - 1] \in D /\ <<n, m[n - 1]>> \in (1 .. N) \X D
        BY <1>1, <2>2
      <4>2. ASSUME NEW q \in D, <<n, q>> \in (1 .. N) \X D
            PROVE  F[<<n, q>>] = IF NameMatches(s[n].name, t) THEN Append(q, s[n]) ELSE q
        BY <4>2 DEF F
      <4> QED BY <2>2, <4>1, <4>2
    <3>2. \A n \in 0 .. N : n = 0 \/ n \in 1 .. N
      BY <1>1
    <3> QED BY <2>2, <3>1, <3>2
  <2> QED BY <2>2, <2>3
<1> HIDE DEF D, F
<1>4. IsM(matching)
  BY <1>3
<1> DEFINE I == {n \in 0 .. N : matching[n] \in D}
           J == {n \in 0 .. N : matching[n] = <<>>}
<1>5. Matching(s, t) = matching[N]
  BY DEF Matching
<1>6. \A n \in 0 .. N : matching[n] = IF n = 0 THEN <<>>
                            ELSE IF NameMatches(s[n].name, t) THEN Append(matching[n - 1], s[n])
                            ELSE matching[n - 1]
  BY <1>4
<1> HIDE DEF matching, IsM, N
<1>7. I = 0 .. N
  <2>1. 0 \in I
    BY <1>1, <1>2, <1>6
  <2>2. ASSUME NEW n \in 1 .. N, n - 1 \in I PROVE n \in I
    <3>1. matching[n - 1] \in D /\ s[n] \in Overrides
      BY <1>1, <2>2
    <3>2. Append(matching[n - 1], s[n]) \in D
      BY <3>1, AppendProperties DEF D
    <3> QED BY <1>1, <1>6, <3>1, <3>2
  <2>3. I \in SUBSET (0 .. N)
    OBVIOUS
  <2> HIDE DEF I
  <2> QED BY <1>1, <2>1, <2>2, <2>3, Along
<1>8. ASSUME \A i \in DOMAIN s : ~NameMatches(s[i].name, t) PROVE J = 0 .. N
  <2>1. 0 \in J
    BY <1>1, <1>6
  <2>2. ASSUME NEW n \in 1 .. N, n - 1 \in J PROVE n \in J
    BY <1>1, <1>6, <1>8, <2>2
  <2>3. J \in SUBSET (0 .. N)
    OBVIOUS
  <2> HIDE DEF J
  <2> QED BY <1>1, <2>1, <2>2, <2>3, Along
<1>9. N \in 0 .. N
  BY <1>1
<1> QED BY <1>5, <1>7, <1>8, <1>9 DEF D

\* A call that is one of InstCalls, or of TypeCalls.
Accepts(call) == call.op \in {"type_name", "inst_name"} => call.ovrd \in call.types
InstCall(call, t) ==
  call.op \in {"inst", "inst_name"} /\ Accepts(call) /\ NameMatches(call.name, t)
TypeCall(call, t) == call.op \in {"type", "type_name"} /\ Accepts(call) /\ call.name = t

\* What one more call adds to them.
LEMMA CallsMore ==
  ASSUME calls \in Seq(Range(calls)), NEW call, Called(call)
  PROVE  LET k == Len(calls) + 1 IN
         /\ \A t, p : /\ InstCalls(t, p) \in SUBSET (1 .. Len(calls))
                      /\ InstCalls(t, p)' =
                           InstCalls(t, p)
                             \cup (IF InstCall(call, t) /\ p \in call.paths THEN {k} ELSE {})
         /\ \A t : /\ TypeCalls(t) \in SUBSET (1 .. Len(calls))
                   /\ TypeCalls(t)' = TypeCalls(t) \cup (IF TypeCall(call, t) THEN {k} ELSE {})
                   /\ Replacing(t) \in SUBSET TypeCalls(t)
                   /\ Replacing(t)' =
                        Replacing(t) \cup (IF TypeCall(call, t) /\ call.flag THEN {k} ELSE {})
         /\ Calls({"inst_name"})' =
              Calls({"inst_name"}) \cup (IF call.op = "inst_name" THEN {k} ELSE {})
         /\ Early \subseteq Early'
         /\ call.op = "inst_name" /\ call.name \in Wildcards =>
              \A t \in Types \ Early' : t \in call.name => t \in call.types
<1> PICK n, k : n = Len(calls) /\ k = n + 1
  OBVIOUS
<1>1. /\ n \in Nat /\ k = n + 1 /\ DOMAIN calls = 1 .. n /\ DOMAIN calls' = 1 .. k
      /\ \A i \in 1 .. n : calls'[i] = calls[i]
      /\ calls'[k] = call
  BY CallsGrow
<1>2. /\ \A i \in 1 .. k : i = k \/ i \in 1 .. n
      /\ \A i \in 1 .. n : i \in 1 .. k /\ i # k
      /\ k \in 1 .. k
  BY <1>1
<1>3. \A op : /\ Calls(op) = {i \in 1 .. n : calls[i].op \in op}
              /\ Calls(op)' = Calls(op) \cup (IF call.op \in op THEN {k} ELSE {})
  BY <1>1, <1>2 DEF Calls
<1>4. /\ \A i \in 1 .. n : Accepted(i)' <=> Accepted(i)
      /\ Accepted(k)' <=> Accepts(call)
  BY <1>1 DEF Accepted, Accepts
<1>5. ASSUME NEW t, NEW p
      PROVE  /\ InstCalls(t, p) \in SUBSET (1 .. n)
             /\ InstCalls(t, p)' =
                  InstCalls(t, p) \cup (IF InstCall(call, t) /\ p \in call.paths THEN {k} ELSE {})
  BY <1>1, <1>2, <1>3, <1>4 DEF InstCalls, InstCall
<1>6. ASSUME NEW t
      PROVE  /\ TypeCalls(t) \in SUBSET (1 .. n)
             /\ TypeCalls(t)' = TypeCalls(t) \cup (IF TypeCall(call, t) THEN {k} ELSE {})
  BY <1>1, <1>2, <1>3, <1>4 DEF TypeCalls, TypeCall
<1>7. ASSUME NEW t
      PROVE  /\ Replacing(t) \in SUBSET TypeCalls(t)
             /\ Replacing(t)' =
                  Replacing(t) \cup (IF TypeCall(call, t) /\ call.flag THEN {k} ELSE {})
  <2>1. \A i \in TypeCalls(t) : calls'[i] = calls[i]
    BY <1>1, <1>6
  <2>2. k \notin TypeCalls(t)
    BY <1>2, <1>6
  <2>3. ASSUME NEW i
        PROVE  i \in Replacing(t)'
                 <=> i \in Replacing(t) \/ (i = k /\ TypeCall(call, t) /\ call.flag)
    BY <1>1, <1>6, <2>1, <2>2, Zenon DEF Replacing
  <2>4. Replacing(t) \in SUBSET TypeCalls(t)
    BY DEF Replacing
  <2> QED BY <2>3, <2>4, Zenon
<1>8. ASSUME NEW t \in Early PROVE t \in Early'
  BY <1>1, <1>3 DEF Early
<1>9. ASSUME call.op = "inst_name", call.name \in Wildcards,
             NEW t \in Types \ Early', t \in call.name
      PROVE  t \in call.types
  <2>1. k \in Calls({"inst_name"})'
    BY <1>3, <1>9
  <2> QED BY <1>1, <1>9, <2>1 DEF Early
<1> QED BY <1>3, <1>5, <1>6, <1>7, <1>8, <1>9

\* An override stays one when more types are registered.
LEMMA EntryStays ==
  ASSUME NEW f, NEW g, f.types \subseteq g.types, NEW o, NEW t, Entry(f, o, t)
  PROVE  Entry(g, o, t)
BY DEF Entry

\* The instance overrides of t after one more call: the override of the call comes
\* last, when it is one of t and it is new.
LEMMA QueueMore ==
  ASSUME calls \in Seq(Range(calls)), NEW call, Called(call), NEW t,
         QueueRight(factory, t), factory.types \subseteq factory'.types,
         Queue(factory, t) \in Seq(Overrides),
         LET q == Queue(factory, t)
             new == Queue(factory', t)
         IN \/ new = q /\ ~InstCall(call, t)
            \/ /\ new = q /\ InstCall(call, t)
               /\ \E i \in DOMAIN q : q[i].paths = call.paths /\ q[i].ovrd = call.ovrd
            \/ /\ InstCall(call, t)
               /\ \E o : /\ Entry(factory', o, t) /\ o.paths = call.paths /\ o.ovrd = call.ovrd
                         /\ new = Append(q, o)
  PROVE  QueueRight(factory, t)'
<1> DEFINE q == Queue(factory, t)
           new == Queue(factory', t)
<1> PICK n, k : n = Len(calls) /\ k = n + 1
  OBVIOUS
<1>1. /\ n \in Nat /\ k = n + 1 /\ \A i \in 1 .. n : calls'[i] = calls[i]
      /\ calls'[k] = call
  BY CallsGrow
<1>2. ASSUME NEW p \in Paths
      PROVE  /\ InstCalls(t, p) \in SUBSET (1 .. n)
             /\ InstCalls(t, p)' =
                  InstCalls(t, p) \cup (IF InstCall(call, t) /\ p \in call.paths THEN {k} ELSE {})
             /\ Min({k}) = k /\ calls'[k] = call
             /\ InstCalls(t, p) # {} =>
                  /\ calls'[Min(InstCalls(t, p))] = calls[Min(InstCalls(t, p))]
                  /\ Min(InstCalls(t, p) \cup {k}) = Min(InstCalls(t, p))
  <2>1. /\ InstCalls(t, p) \in SUBSET (1 .. n)
        /\ InstCalls(t, p)' =
             InstCalls(t, p) \cup (IF InstCall(call, t) /\ p \in call.paths THEN {k} ELSE {})
    BY CallsMore
  <2> DEFINE T == InstCalls(t, p)
  <2>2. /\ Min({n + 1}) = n + 1
        /\ T # {} => Min(T) \in T /\ Min(T \cup {n + 1}) = Min(T)
    <3>1. T \in SUBSET (1 .. n)
      BY <2>1
    <3> HIDE DEF T
    <3> QED BY <1>1, <3>1, OneAbove
  <2> QED BY <1>1, <2>1, <2>2
<1>3. /\ q \in Seq(Overrides) /\ Len(q) \in Nat /\ DOMAIN q = 1 .. Len(q)
      /\ \A i \in DOMAIN q : Entry(factory', q[i], t)
  <2>1. \A i \in DOMAIN q : Entry(factory, q[i], t)
    BY DEF QueueRight
  <2> HIDE DEF q
  <2>2. \A i \in DOMAIN q : Entry(factory', q[i], t)
    BY <2>1 DEF Entry
  <2> QED BY <2>2 DEF q
<1> DEFINE Firsts(s, I, f) ==
             \A p \in Paths :
               IF I[p] = {}
               THEN \A i \in DOMAIN s : p \notin s[i].paths
               ELSE \E i \in DOMAIN s : /\ p \in s[i].paths
                                        /\ \A j \in DOMAIN s : p \in s[j].paths => i <= j
                                        /\ s[i].ovrd = f[Min(I[p])].ovrd
           I == [p \in Paths |-> InstCalls(t, p)]
           J == [p \in Paths |-> InstCalls(t, p)']
<1>4. Firsts(q, I, calls)
  BY DEF QueueRight
<1>5. \A p \in Paths :
        /\ J[p] = I[p] \cup (IF InstCall(call, t) /\ p \in call.paths THEN {k} ELSE {})
        /\ Min({k}) = k /\ calls'[k] = call
        /\ I[p] # {} => calls'[Min(I[p])] = calls[Min(I[p])] /\ Min(I[p] \cup {k}) = Min(I[p])
  BY <1>2
<1> HIDE DEF I, J, q
<1>6. \A p \in Paths : ~(InstCall(call, t) /\ p \in call.paths) => J[p] = I[p]
  BY <1>5
<1>7. CASE new = q /\ ~InstCall(call, t)
  <2>1. \A p \in Paths : J[p] = I[p] /\ (I[p] # {} => calls'[Min(I[p])] = calls[Min(I[p])])
    BY <1>5, <1>6, <1>7
  <2>2. Firsts(q, J, calls')
    BY <1>4, <2>1
  <2> QED BY <1>3, <1>7, <2>2 DEF QueueRight, J
<1>8. CASE /\ new = q /\ InstCall(call, t)
           /\ \E i \in DOMAIN q : q[i].paths = call.paths /\ q[i].ovrd = call.ovrd
  <2>1. \A p \in call.paths : p \in Paths => I[p] # {}
    BY <1>4, <1>8
  <2>2. \A p \in Paths : I[p] = {} => J[p] = {}
    BY <1>5, <2>1
  <2>3. \A p \in Paths : I[p] # {} => J[p] # {} /\ calls'[Min(J[p])] = calls[Min(I[p])]
    BY <1>5
  <2>4. Firsts(q, J, calls')
    BY <1>4, <2>2, <2>3
  <2> QED BY <1>3, <1>8, <2>4 DEF QueueRight, J
<1>9. ASSUME InstCall(call, t), NEW o, Entry(factory', o, t), o.paths = call.paths,
             o.ovrd = call.ovrd, new = Append(q, o)
      PROVE  QueueRight(factory, t)'
  <2>1. /\ DOMAIN new = 1 .. Len(q) + 1 /\ new[Len(q) + 1] = o
        /\ \A i \in DOMAIN q : new[i] = q[i] /\ i \in DOMAIN new /\ i < Len(q) + 1
        /\ \A i \in DOMAIN new : i \in DOMAIN q \/ i = Len(q) + 1
    BY <1>3, <1>9, AppendProperties DEF Entry
  <2>2. \A i \in DOMAIN new : Entry(factory', new[i], t)
    BY <1>3, <1>9, <2>1
  <2> HIDE DEF new
  <2>3. ASSUME NEW p \in Paths, I[p] = {}, p \notin call.paths
        PROVE  J[p] = {} /\ \A i \in DOMAIN new : p \notin new[i].paths
    <3>1. J[p] = {}
      BY <1>6, <2>3
    <3>2. \A i \in DOMAIN q : p \notin q[i].paths
      BY <1>4, <2>3
    <3> QED BY <1>9, <2>1, <2>3, <3>1, <3>2
  <2>4. ASSUME NEW p \in Paths, I[p] = {}, p \in call.paths
        PROVE  /\ J[p] # {} /\ \E i \in DOMAIN new :
                    /\ p \in new[i].paths
                    /\ \A j \in DOMAIN new : p \in new[j].paths => i <= j
                    /\ new[i].ovrd = calls'[Min(J[p])].ovrd
    <3>1. J[p] = {k}
      BY <1>5, <1>9, <2>4
    <3>2. \A i \in DOMAIN q : p \notin q[i].paths
      BY <1>4, <2>4
    <3>3. Len(q) + 1 \in DOMAIN new /\ new[Len(q) + 1] = o
      BY <1>3, <2>1
    <3>4. calls'[Min(J[p])].ovrd = o.ovrd
      BY <1>5, <1>9, <3>1
    <3>5. \A j \in DOMAIN new : p \in new[j].paths => j = Len(q) + 1
      BY <2>1, <3>2
    <3>6. p \in new[Len(q) + 1].paths /\ Len(q) + 1 <= Len(q) + 1
      BY <1>3, <1>9, <2>4, <3>3
    <3>7. J[p] # {}
      BY <3>1
    <3> QED BY <3>3, <3>4, <3>5, <3>6, <3>7
  <2>5. ASSUME NEW p \in Paths, I[p] # {}
        PROVE  /\ J[p] # {} /\ \E i \in DOMAIN new :
                    /\ p \in new[i].paths
                    /\ \A j \in DOMAIN new : p \in new[j].paths => i <= j
                    /\ new[i].ovrd = calls'[Min(J[p])].ovrd
    <3>1. J[p] # {} /\ calls'[Min(J[p])] = calls[Min(I[p])]
      BY <1>5, <2>5
    <3>2. PICK i \in DOMAIN q : /\ p \in q[i].paths
                                /\ \A j \in DOMAIN q : p \in q[j].paths => i <= j
                                /\ q[i].ovrd = calls[Min(I[p])].ovrd
      BY <1>4, <2>5
    <3>3. \A j \in DOMAIN new : p \in new[j].paths => i <= j
      BY <1>3, <2>1, <3>2
    <3> QED BY <2>1, <3>1, <3>2, <3>3
  <2>6. Firsts(new, J, calls')
    BY <2>3, <2>4, <2>5
  <2> QED BY <2>2, <2>6 DEF QueueRight, J, new
<1> QED BY <1>7, <1>8, <1>9 DEF q

\* The override that the calls ask for of a type, after one more call.
LEMMA PromiseMore ==
  ASSUME calls \in Seq(Range(calls)), NEW call, Called(call), NEW t
  PROVE  /\ ~TypeCall(call, t) => /\ TypeCalls(t)' = TypeCalls(t)
                                  /\ TypeCalls(t) # {} => TypePromise(t)' = TypePromise(t)
         /\ TypeCall(call, t) =>
              /\ TypeCalls(t)' # {}
              /\ TypePromise(t)' = IF call.flag \/ TypeCalls(t) = {} THEN call.ovrd
                                   ELSE TypePromise(t)
<1> PICK n, k : n = Len(calls) /\ k = n + 1
  OBVIOUS
<1>1. /\ n \in Nat /\ k = n + 1 /\ \A i \in 1 .. n : calls'[i] = calls[i]
      /\ calls'[k] = call
  BY CallsGrow
<1> DEFINE T == TypeCalls(t)
           R == Replacing(t)
           TT == TypeCalls(t)'
           RR == Replacing(t)'
<1>2. /\ T \in SUBSET (1 .. n) /\ R \in SUBSET T
      /\ TT = T \cup (IF TypeCall(call, t) THEN {k} ELSE {})
      /\ RR = R \cup (IF TypeCall(call, t) /\ call.flag THEN {k} ELSE {})
  BY CallsMore
<1>3. /\ TypePromise(t) = IF R # {} THEN calls[Max(R)].ovrd ELSE calls[Min(T)].ovrd
      /\ TypePromise(t)' = IF RR # {} THEN calls'[Max(RR)].ovrd ELSE calls'[Min(TT)].ovrd
  BY DEF TypePromise
<1> DEFINE old == TypePromise(t)
           new == TypePromise(t)'
<1> HIDE DEF T, R, TT, RR, old, new
<1>4. /\ Min({k}) = k
      /\ T # {} => Min(T) \in T /\ Min(T \cup {k}) = Min(T) /\ calls'[Min(T)] = calls[Min(T)]
  BY <1>1, <1>2, OneAbove
<1>5. Max(R \cup {k}) = k
  <2>1. R \in SUBSET (1 .. n)
    BY <1>2
  <2> QED BY <1>1, <2>1, OneAbove
<1>6. R # {} => Max(R) \in R /\ calls'[Max(R)] = calls[Max(R)]
  <2>1. R \in SUBSET (1 .. n)
    BY <1>2
  <2> QED BY <1>1, <2>1, MaxIs
<1>7. ASSUME ~TypeCall(call, t) PROVE TT = T /\ (T # {} => new = old)
  <2>1. TT = T /\ RR = R
    BY <1>2, <1>7
  <2> QED BY <1>3, <1>4, <1>6, <2>1 DEF old, new
<1>8. ASSUME TypeCall(call, t), call.flag PROVE TT # {} /\ new = call.ovrd
  <2>1. TT = T \cup {k} /\ RR = R \cup {k}
    BY <1>2, <1>8, Zenon
  <2> QED BY <1>1, <1>3, <1>5, <2>1 DEF new
<1>9. ASSUME TypeCall(call, t), ~call.flag
      PROVE  TT # {} /\ new = IF T = {} THEN call.ovrd ELSE old
  <2>1. TT = T \cup {k} /\ RR = R
    <3>1. TT = T \cup {k} /\ RR = R \cup {}
      BY <1>2, <1>9, Zenon
    <3> QED BY <3>1
  <2>2. CASE T = {}
    <3>1. TT = {k} /\ R = {}
      BY <1>2, <2>1, <2>2
    <3> QED BY <1>1, <1>3, <1>4, <2>1, <2>2, <3>1 DEF new
  <2>3. CASE T # {}
    BY <1>3, <1>4, <1>6, <2>1, <2>3 DEF old, new
  <2> QED BY <2>2, <2>3
<1>10. ASSUME TypeCall(call, t)
       PROVE  TT # {} /\ new = IF call.flag \/ T = {} THEN call.ovrd ELSE old
  BY <1>8, <1>9, <1>10, Zenon
<1> QED BY <1>7, <1>10, Zenon DEF T, TT, old, new

\* The type overrides after a call that is none of a type.
LEMMA ListSame ==
  ASSUME calls \in Seq(Range(calls)), NEW call, Called(call),
         \A t \in Types : ~TypeCall(call, t),
         ListRight(factory), factory.types \subseteq factory'.types,
         factory'.overrides = factory.overrides
  PROVE  ListRight(factory)'
<1> DEFINE os == factory.overrides
           ns == factory'.overrides
           T == [t \in Types |-> TypeCalls(t)]
           TT == [t \in Types |-> TypeCalls(t)']
           P == [t \in Types |-> TypePromise(t)]
           PP == [t \in Types |-> TypePromise(t)']
<1>1. \A t \in Types : TT[t] = T[t] /\ (T[t] # {} => PP[t] = P[t])
  BY PromiseMore
<1>2. /\ \A i \in DOMAIN os : os[i].name \in Types /\ Entry(factory, os[i], os[i].name)
      /\ \A i, j \in DOMAIN os : os[i].name = os[j].name => i = j
      /\ \A t \in Types : IF T[t] = {}
                          THEN \A i \in DOMAIN os : os[i].name # t
                          ELSE \E i \in DOMAIN os : os[i].name = t /\ os[i].ovrd = P[t]
  BY DEF ListRight
<1>3. \A i \in DOMAIN os : Entry(factory', os[i], os[i].name)
  BY <1>2 DEF Entry
<1>4. ns = os
  OBVIOUS
<1> HIDE DEF os, ns, T, TT, P, PP
<1>5. \A t \in Types : IF TT[t] = {}
                       THEN \A i \in DOMAIN ns : ns[i].name # t
                       ELSE \E i \in DOMAIN ns : ns[i].name = t /\ ns[i].ovrd = PP[t]
  BY <1>1, <1>2, <1>4
<1> QED BY <1>2, <1>3, <1>4, <1>5 DEF ListRight, ns, TT, PP

\* The type overrides after a call of type t: the first call makes an entry, and one
\* that replaces changes it.
LEMMA ListMore ==
  ASSUME calls \in Seq(Range(calls)), NEW call, Called(call),
         NEW t \in Types, TypeCall(call, t),
         ListRight(factory), factory.types \subseteq factory'.types,
         factory.overrides \in Seq(Overrides),
         LET os == factory.overrides
             ns == factory'.overrides
             new(o) == Entry(factory', o, t) /\ o.ovrd = call.ovrd
         IN \/ ns = os /\ ~call.flag /\ \E i \in DOMAIN os : os[i].name = t
            \/ /\ call.flag /\ \E i \in DOMAIN os : os[i].name = t
               /\ DOMAIN ns = DOMAIN os
               /\ \A i \in DOMAIN os : IF os[i].name = t THEN new(ns[i]) ELSE ns[i] = os[i]
            \/ /\ \A i \in DOMAIN os : os[i].name # t
               /\ \E o : new(o) /\ ns = Append(os, o)
  PROVE  ListRight(factory)'
<1> DEFINE os == factory.overrides
           ns == factory'.overrides
           new(o) == Entry(factory', o, t) /\ o.ovrd = call.ovrd
           T == [u \in Types |-> TypeCalls(u)]
           TT == [u \in Types |-> TypeCalls(u)']
           P == [u \in Types |-> TypePromise(u)]
           PP == [u \in Types |-> TypePromise(u)']
           Named(u) == \A i \in DOMAIN ns : ns[i].name # u
           Right(u) == \E i \in DOMAIN ns : ns[i].name = u /\ ns[i].ovrd = PP[u]
<1>1. \A u \in Types \ {t} : TT[u] = T[u] /\ (T[u] # {} => PP[u] = P[u])
  <2>1. \A u \in Types \ {t} : ~TypeCall(call, u)
    BY DEF TypeCall
  <2> QED BY <2>1, PromiseMore
<1>2. /\ TT[t] # {}
      /\ PP[t] = IF call.flag \/ T[t] = {} THEN call.ovrd ELSE P[t]
  BY PromiseMore, Zenon
<1>3. /\ \A i \in DOMAIN os : os[i].name \in Types /\ Entry(factory, os[i], os[i].name)
      /\ \A i, j \in DOMAIN os : os[i].name = os[j].name => i = j
      /\ \A u \in Types : IF T[u] = {}
                          THEN \A i \in DOMAIN os : os[i].name # u
                          ELSE \E i \in DOMAIN os : os[i].name = u /\ os[i].ovrd = P[u]
  BY DEF ListRight
<1>4. \A i \in DOMAIN os : Entry(factory', os[i], os[i].name)
  BY <1>3 DEF Entry
<1>5. \A o : new(o) => o.name = t /\ o.name \in Types /\ Entry(factory', o, o.name)
  BY DEF Entry
<1> HIDE DEF T, TT, P, PP
<1>6. ASSUME /\ \A i \in DOMAIN ns : ns[i].name \in Types /\ Entry(factory', ns[i], ns[i].name)
             /\ \A i, j \in DOMAIN ns : ns[i].name = ns[j].name => i = j
             /\ \A u \in Types : IF TT[u] = {} THEN Named(u) ELSE Right(u)
      PROVE  ListRight(factory)'
  BY <1>6 DEF ListRight, TT, PP
<1>7. CASE ns = os /\ ~call.flag /\ \E i \in DOMAIN os : os[i].name = t
  <2>1. T[t] # {} /\ PP[t] = P[t]
    <3>1. T[t] # {}
      BY <1>3, <1>7
    <3> QED BY <1>2, <1>7, <3>1, Zenon
  <2>2. ns = os
    BY <1>7
  <2> HIDE DEF ns, os
  <2>3. \A u \in Types : IF TT[u] = {} THEN Named(u) ELSE Right(u)
    BY <1>1, <1>2, <1>3, <2>1, <2>2
  <2> QED BY <1>3, <1>4, <1>6, <2>2, <2>3
<1>8. CASE /\ call.flag /\ \E i \in DOMAIN os : os[i].name = t
           /\ DOMAIN ns = DOMAIN os
           /\ \A i \in DOMAIN os : IF os[i].name = t THEN new(ns[i]) ELSE ns[i] = os[i]
  <2>1. PP[t] = call.ovrd
    BY <1>2, <1>8, Zenon
  <2>2. /\ DOMAIN ns = DOMAIN os
        /\ \A i \in DOMAIN os : os[i].name # t => ns[i] = os[i]
        /\ \A i \in DOMAIN os : os[i].name = t => new(ns[i])
    BY <1>8
  <2>3. PICK k \in DOMAIN os : os[k].name = t
    BY <1>8
  <2>4. \A o : new(o) => o.ovrd = call.ovrd
    OBVIOUS
  <2> HIDE DEF ns, os, new
  <2>5. \A i \in DOMAIN ns : /\ ns[i].name \in Types /\ Entry(factory', ns[i], ns[i].name)
                             /\ ns[i].name = os[i].name
    BY <1>3, <1>4, <1>5, <2>2
  <2>6. Right(t)
    BY <1>5, <2>1, <2>2, <2>3, <2>4
  <2>7. ASSUME NEW u \in Types, u # t, TT[u] = {} PROVE Named(u)
    BY <1>1, <1>3, <2>2, <2>5, <2>7
  <2>8. ASSUME NEW u \in Types, u # t, TT[u] # {} PROVE Right(u)
    <3>1. PICK i \in DOMAIN os : os[i].name = u /\ os[i].ovrd = P[u]
      BY <1>1, <1>3, <2>8
    <3>2. PP[u] = P[u]
      BY <1>1, <2>8
    <3> QED BY <2>2, <2>8, <3>1, <3>2
  <2>9. \A u \in Types : IF TT[u] = {} THEN Named(u) ELSE Right(u)
    BY <1>2, <2>6, <2>7, <2>8
  <2>10. \A i, j \in DOMAIN ns : ns[i].name = ns[j].name => i = j
    BY <1>3, <2>2, <2>5
  <2> QED BY <1>6, <2>5, <2>9, <2>10
<1>9. ASSUME \A i \in DOMAIN os : os[i].name # t, NEW o, new(o), ns = Append(os, o)
      PROVE  ListRight(factory)'
  <2>1. PP[t] = call.ovrd
    <3>1. T[t] = {}
      BY <1>3, <1>9
    <3> QED BY <1>2, <3>1, Zenon
  <2>2. o \in Overrides /\ o.ovrd = call.ovrd
    BY <1>9 DEF Entry
  <2>3. /\ Len(os) \in Nat /\ DOMAIN os = 1 .. Len(os)
        /\ DOMAIN ns = 1 .. Len(os) + 1 /\ ns[Len(os) + 1] = o
        /\ \A i \in DOMAIN os : ns[i] = os[i]
    BY <1>9, <2>2, AppendProperties
  <2> HIDE DEF ns, os, new
  <2>4. /\ \A i \in DOMAIN os : i \in DOMAIN ns /\ i # Len(os) + 1
        /\ \A i \in DOMAIN ns : i \in DOMAIN os \/ i = Len(os) + 1
        /\ Len(os) + 1 \in DOMAIN ns
    BY <2>3
  <2>5. \A i \in DOMAIN ns : /\ ns[i].name \in Types /\ Entry(factory', ns[i], ns[i].name)
    BY <1>3, <1>4, <1>5, <1>9, <2>3, <2>4
  <2>6. Right(t)
    BY <1>5, <1>9, <2>1, <2>2, <2>3, <2>4
  <2>7. ASSUME NEW u \in Types, u # t, TT[u] = {} PROVE Named(u)
    BY <1>1, <1>3, <1>5, <1>9, <2>3, <2>4, <2>7
  <2>8. ASSUME NEW u \in Types, u # t, TT[u] # {} PROVE Right(u)
    <3>1. PICK i \in DOMAIN os : os[i].name = u /\ os[i].ovrd = P[u]
      BY <1>1, <1>3, <2>8
    <3>2. PP[u] = P[u]
      BY <1>1, <2>8
    <3> QED BY <2>3, <2>4, <2>8, <3>1, <3>2
  <2>9. \A u \in Types : IF TT[u] = {} THEN Named(u) ELSE Right(u)
    BY <1>2, <2>6, <2>7, <2>8
  <2>10. \A i, j \in DOMAIN ns : ns[i].name = ns[j].name => i = j
    BY <1>3, <1>5, <1>9, <2>3, <2>4
  <2> QED BY <1>6, <2>5, <2>9, <2>10
<1> QED BY <1>7, <1>8, <1>9

\* What a registration does with the queues.
LEMMA RegisteredIs ==
  ASSUME NEW f \in FactoryType, Clean(f), NEW t \in Types
  PROVE  LET g == Registered(f, t) IN
         /\ g \in FactoryType /\ Clean(g)
         /\ g.types = f.types \cup {t} /\ g.overrides = f.overrides /\ g.wildcards = f.wildcards
         /\ \A u \in Types :
              u # t \/ t \in f.types
                    \/ (\A i \in DOMAIN f.wildcards : ~NameMatches(f.wildcards[i].name, t))
                => Queue(g, u) = Queue(f, u)
<1> DEFINE g == Registered(f, t)
           m == Matching(f.wildcards, t)
           None == \A i \in DOMAIN f.wildcards : ~NameMatches(f.wildcards[i].name, t)
<1>1. CASE t \in f.types
  <2>1. g = f /\ f.types = f.types \cup {t}
    BY <1>1 DEF Registered
  <2> QED BY <2>1
<1>2. CASE t \notin f.types
  <2>1. /\ f.types \in SUBSET Types /\ f.overrides \in Seq(Overrides)
        /\ f.insts \in [Types -> Seq(Overrides)] /\ f.names \in [Types -> Seq(Overrides)]
        /\ f.wildcards \in Seq(Overrides)
    BY DEF FactoryType
  <2>2. m \in Seq(Overrides) /\ (None => m = <<>>)
    BY <2>1, MatchingIs
  <2>3. f.names[t] \o m \in Seq(Overrides) /\ (None => f.names[t] \o m = f.names[t])
    <3>1. f.names[t] \in Seq(Overrides)
      BY <2>1
    <3> HIDE DEF m, None
    <3>2. f.names[t] \o <<>> = f.names[t]
      BY <3>1, ConcatEmptySeq
    <3> QED BY <2>2, <3>1, <3>2, ConcatProperties
  <2>4. g = [types |-> f.types \cup {t}, overrides |-> f.overrides,
             insts |-> [f.insts EXCEPT ![t] = f.names[t] \o m],
             names |-> [f.names EXCEPT ![t] = <<>>], wildcards |-> f.wildcards]
    BY <1>2, <2>1 DEF Registered, FactoryType
  <2> HIDE DEF g, m, None
  <2>5. /\ g.types = f.types \cup {t} /\ g.overrides = f.overrides
        /\ g.wildcards = f.wildcards
        /\ g.insts = [f.insts EXCEPT ![t] = f.names[t] \o m]
        /\ g.names = [f.names EXCEPT ![t] = <<>>]
    BY <2>4
  <2>6. g \in FactoryType
    <3>1. <<>> \in Seq(Overrides)
      OBVIOUS
    <3>2. g.insts \in [Types -> Seq(Overrides)] /\ g.names \in [Types -> Seq(Overrides)]
      BY <2>1, <2>3, <2>5, <3>1
    <3> QED BY <2>1, <2>4, <2>5, <3>2 DEF FactoryType
  <2>7. Clean(g)
    BY <2>1, <2>5 DEF Clean
  <2>8. \A u \in Types : u # t => Queue(g, u) = Queue(f, u)
    BY <2>1, <2>5 DEF Queue
  <2>9. None => Queue(g, t) = Queue(f, t)
    BY <1>2, <2>1, <2>3, <2>5 DEF Queue
  <2> QED BY <1>2, <2>5, <2>6, <2>7, <2>8, <2>9 DEF g, None
<1> QED BY <1>1, <1>2

\* A type that is no wildcard's before its registration has none waiting for it.
LEMMA NoWildcard ==
  ASSUME NEW f, WildcardsCalled(f),
         \A k \in Calls({"inst_name"}) : calls[k].types \subseteq f.types,
         NEW t \in Types \ Early, t \notin f.types
  PROVE  \A i \in DOMAIN f.wildcards : ~NameMatches(f.wildcards[i].name, t)
<1> SUFFICES ASSUME NEW i \in DOMAIN f.wildcards, NameMatches(f.wildcards[i].name, t)
             PROVE  FALSE
  OBVIOUS
<1>1. PICK k \in Calls({"inst_name"}) :
        calls[k].name = f.wildcards[i].name /\ calls[k].name \in Wildcards
  BY DEF WildcardsCalled
<1>2. t \in calls[k].name
  BY <1>1, FactoryAssumption DEF NameMatches
<1>3. t \notin calls[k].types
  OBVIOUS
<1> QED BY <1>1, <1>2, <1>3 DEF Early

\* A registration alone keeps the history.
LEMMA RegisteredKeeps ==
  ASSUME NEW f, History(f), NEW t \in Types
  PROVE  History(Registered(f, t))
<1> DEFINE g == Registered(f, t)
<1>1. /\ f \in FactoryType /\ Clean(f) /\ Always \subseteq f.types
      /\ \A k \in Calls({"inst_name"}) : calls[k].types \subseteq f.types
      /\ WildcardsCalled(f) /\ ListRight(f)
      /\ \A u \in Types \ Early : QueueRight(f, u)
  BY DEF History
<1>2. /\ g \in FactoryType /\ Clean(g)
      /\ g.types = f.types \cup {t} /\ g.overrides = f.overrides /\ g.wildcards = f.wildcards
      /\ \A u \in Types :
           u # t \/ t \in f.types
                 \/ (\A i \in DOMAIN f.wildcards : ~NameMatches(f.wildcards[i].name, t))
             => Queue(g, u) = Queue(f, u)
  BY <1>1, RegisteredIs
<1>3. \A u \in Types \ Early : Queue(g, u) = Queue(f, u)
  BY <1>1, <1>2, NoWildcard
<1> HIDE DEF g
<1>4. \A o, u : Entry(f, o, u) => Entry(g, o, u)
  BY <1>2 DEF Entry
<1>5. ASSUME NEW u \in Types \ Early PROVE QueueRight(g, u)
  BY <1>1, <1>3, <1>4 DEF QueueRight
<1>6. ListRight(g)
  BY <1>1, <1>2, <1>4 DEF ListRight
<1>7. WildcardsCalled(g)
  BY <1>1, <1>2 DEF WildcardsCalled
<1> QED BY <1>1, <1>2, <1>5, <1>6, <1>7 DEF History, g

\* What the history keeps with any call: the rest depends on the call.
LEMMA HistoryMore ==
  ASSUME calls \in Seq(Range(calls)), NEW call, Called(call), History(factory),
         call.op = "inst_name" => call.types = factory.types,
         factory' \in FactoryType, Clean(factory)', factory.types \subseteq factory'.types,
         \/ factory'.wildcards = factory.wildcards
         \/ /\ call.op = "inst_name" /\ call.name \in Wildcards
            /\ \E o : /\ o \in Overrides /\ o.name = call.name
                      /\ factory'.wildcards = Append(factory.wildcards, o),
         \A t \in Types \ Early' : QueueRight(factory, t)',
         ListRight(factory)'
  PROVE  History(factory)'
<1> PICK n, k : n = Len(calls) /\ k = n + 1
  OBVIOUS
<1>1. /\ n \in Nat /\ k = n + 1 /\ DOMAIN calls = 1 .. n /\ \A i \in 1 .. n : calls'[i] = calls[i]
      /\ calls'[k] = call
  BY CallsGrow
<1>2. Calls({"inst_name"})' =
        Calls({"inst_name"}) \cup (IF call.op = "inst_name" THEN {k} ELSE {})
  BY CallsMore
<1>3. \A i \in Calls({"inst_name"}) : i \in 1 .. n
  BY <1>1 DEF Calls
<1>4. /\ Always \subseteq factory.types
      /\ \A i \in Calls({"inst_name"}) : calls[i].types \subseteq factory.types
      /\ \A i \in DOMAIN factory.wildcards : \E c \in Calls({"inst_name"}) :
           calls[c].name = factory.wildcards[i].name /\ calls[c].name \in Wildcards
      /\ factory.wildcards \in Seq(Overrides)
  BY DEF History, WildcardsCalled, FactoryType
<1>5. \A i \in Calls({"inst_name"})' : calls'[i].types \subseteq factory'.types
  BY <1>1, <1>2, <1>3, <1>4
<1>6. \A i \in DOMAIN factory.wildcards : \E c \in Calls({"inst_name"})' :
        calls'[c].name = factory.wildcards[i].name /\ calls'[c].name \in Wildcards
  BY <1>1, <1>2, <1>3, <1>4
<1>7. WildcardsCalled(factory)'
  <2>1. CASE factory'.wildcards = factory.wildcards
    BY <1>6, <2>1 DEF WildcardsCalled
  <2>2. ASSUME call.op = "inst_name", call.name \in Wildcards, NEW o \in Overrides,
               o.name = call.name, factory'.wildcards = Append(factory.wildcards, o)
        PROVE  WildcardsCalled(factory)'
    <3> DEFINE ws == factory.wildcards
               new == factory'.wildcards
    <3>1. /\ Len(ws) \in Nat /\ DOMAIN ws = 1 .. Len(ws)
          /\ DOMAIN new = 1 .. Len(ws) + 1
          /\ new[Len(ws) + 1] = o
          /\ \A i \in DOMAIN ws : new[i] = ws[i]
      BY <1>4, <2>2, AppendProperties
    <3>2. k \in Calls({"inst_name"})' /\ calls'[k].name = o.name /\ calls'[k].name \in Wildcards
      BY <1>1, <1>2, <2>2
    <3> HIDE DEF ws, new
    <3>3. \A i \in DOMAIN new : i \in DOMAIN ws \/ i = Len(ws) + 1
      BY <3>1
    <3>4. \A i \in DOMAIN new : \E c \in Calls({"inst_name"})' :
            calls'[c].name = new[i].name /\ calls'[c].name \in Wildcards
      BY <1>6, <3>1, <3>2, <3>3 DEF ws
    <3> QED BY <3>4 DEF WildcardsCalled, new
  <2> QED BY <2>1, <2>2
<1> QED BY <1>4, <1>5, <1>7 DEF History

\* The queues of a type stay when the call is no instance override of it.
LEMMA QueueSame ==
  ASSUME calls \in Seq(Range(calls)), NEW call, Called(call), History(factory),
         factory.types \subseteq factory'.types,
         NEW t \in Types \ Early', ~InstCall(call, t), Queue(factory', t) = Queue(factory, t)
  PROVE  QueueRight(factory, t)'
<1>1. t \notin Early
  BY CallsMore
<1>2. QueueRight(factory, t) /\ Queue(factory, t) \in Seq(Overrides)
  BY <1>1 DEF History, FactoryType, Queue
<1> QED BY <1>2, QueueMore

\* A call that is no override.
LEMMA OtherCall ==
  ASSUME calls \in Seq(Range(calls)), NEW call, Called(call), History(factory),
         call.op \in {"register", "config"},
         factory' = factory \/ (\E t \in Types : factory' = Registered(factory, t))
  PROVE  History(factory)'
<1>1. /\ factory \in FactoryType /\ Clean(factory) /\ ListRight(factory)
      /\ WildcardsCalled(factory)
      /\ \A k \in Calls({"inst_name"}) : calls[k].types \subseteq factory.types
  BY DEF History
<1>2. \A u : ~InstCall(call, u) /\ ~TypeCall(call, u)
  BY DEF InstCall, TypeCall
<1>3. Early \subseteq Early'
  BY CallsMore
<1>4. /\ factory' \in FactoryType /\ Clean(factory)' /\ factory.types \subseteq factory'.types
      /\ factory'.overrides = factory.overrides /\ factory'.wildcards = factory.wildcards
      /\ \A u \in Types \ Early' : Queue(factory', u) = Queue(factory, u)
  <2>1. CASE factory' = factory
    BY <1>1, <2>1 DEF Clean
  <2>2. ASSUME NEW t \in Types, factory' = Registered(factory, t)
        PROVE  /\ factory' \in FactoryType /\ Clean(factory)'
               /\ factory.types \subseteq factory'.types
               /\ factory'.overrides = factory.overrides
               /\ factory'.wildcards = factory.wildcards
               /\ \A u \in Types \ Early' : Queue(factory', u) = Queue(factory, u)
    <3>1. LET g == factory' IN
         /\ g \in FactoryType /\ Clean(g)
         /\ g.types = factory.types \cup {t} /\ g.overrides = factory.overrides
         /\ g.wildcards = factory.wildcards
         /\ \A u \in Types :
              u # t \/ t \in factory.types
                    \/ (\A i \in DOMAIN factory.wildcards : ~NameMatches(factory.wildcards[i].name, t))
                => Queue(g, u) = Queue(factory, u)
      BY <1>1, <2>2, RegisteredIs
    <3>2. ASSUME NEW u \in Types \ Early' PROVE Queue(factory', u) = Queue(factory, u)
      BY <1>1, <1>3, <3>1, <3>2, NoWildcard
    <3> QED BY <3>1, <3>2 DEF Clean
  <2> QED BY <2>1, <2>2
<1>5. \A t \in Types \ Early' : QueueRight(factory, t)'
  BY <1>2, <1>4, QueueSame
<1>6. ListRight(factory)'
  BY <1>1, <1>2, <1>4, ListSame
<1> QED BY <1>4, <1>5, <1>6, HistoryMore

\* The type overrides keep their shape, and the queues are not touched.
LEMMA ListCall ==
  ASSUME calls \in Seq(Range(calls)), NEW call, Called(call), History(factory),
         NEW t \in Types, call.op \in {"type", "type_name"}, call.name = t,
         NEW ns \in Seq(Overrides), factory' = [factory EXCEPT !.overrides = ns],
         IF Accepts(call)
         THEN LET os == factory.overrides
                  new(o) == Entry(factory, o, t) /\ o.ovrd = call.ovrd
              IN \/ ns = os /\ ~call.flag /\ \E i \in DOMAIN os : os[i].name = t
                 \/ /\ call.flag /\ \E i \in DOMAIN os : os[i].name = t
                    /\ DOMAIN ns = DOMAIN os
                    /\ \A i \in DOMAIN os : IF os[i].name = t THEN new(ns[i]) ELSE ns[i] = os[i]
                 \/ /\ \A i \in DOMAIN os : os[i].name # t
                    /\ \E o : new(o) /\ ns = Append(os, o)
         ELSE ns = factory.overrides
  PROVE  History(factory)'
<1>1. /\ factory \in FactoryType /\ Clean(factory) /\ ListRight(factory)
  BY DEF History
<1>2. /\ factory' \in FactoryType /\ factory'.types = factory.types
      /\ factory'.overrides = ns /\ factory'.wildcards = factory.wildcards
      /\ factory'.insts = factory.insts /\ factory'.names = factory.names
  BY <1>1 DEF FactoryType
<1>3. Clean(factory)'
  BY <1>1, <1>2 DEF Clean
<1>4. \A u \in Types \ Early' : QueueRight(factory, u)'
  <2>1. \A u \in Types : ~InstCall(call, u)
    BY DEF InstCall
  <2>2. \A u \in Types : Queue(factory', u) = Queue(factory, u)
    BY <1>2 DEF Queue
  <2> QED BY <1>2, <2>1, <2>2, QueueSame
<1>5. ListRight(factory)'
  <2>1. CASE Accepts(call)
    <3>1. TypeCall(call, t)
      BY <2>1 DEF TypeCall
    <3>2. \A o : Entry(factory', o, t) <=> Entry(factory, o, t)
      BY <1>2 DEF Entry
    <3>3. factory.overrides \in Seq(Overrides)
      BY <1>1 DEF FactoryType
    <3> DEFINE os == factory.overrides
               new(o) == Entry(factory', o, t) /\ o.ovrd = call.ovrd
               old(o) == Entry(factory, o, t) /\ o.ovrd = call.ovrd
    <3>4. \/ ns = os /\ ~call.flag /\ \E i \in DOMAIN os : os[i].name = t
          \/ /\ call.flag /\ \E i \in DOMAIN os : os[i].name = t
             /\ DOMAIN ns = DOMAIN os
             /\ \A i \in DOMAIN os : IF os[i].name = t THEN old(ns[i]) ELSE ns[i] = os[i]
          \/ /\ \A i \in DOMAIN os : os[i].name # t
             /\ \E o : old(o) /\ ns = Append(os, o)
      BY <2>1
    <3>5. \A o : new(o) <=> old(o)
      BY <3>2
    <3> HIDE DEF new, old
    <3>6. \/ ns = os /\ ~call.flag /\ \E i \in DOMAIN os : os[i].name = t
          \/ /\ call.flag /\ \E i \in DOMAIN os : os[i].name = t
             /\ DOMAIN ns = DOMAIN os
             /\ \A i \in DOMAIN os : IF os[i].name = t THEN new(ns[i]) ELSE ns[i] = os[i]
          \/ /\ \A i \in DOMAIN os : os[i].name # t
             /\ \E o : new(o) /\ ns = Append(os, o)
      BY <3>4, <3>5
    <3>7. ns = factory'.overrides /\ factory.types \subseteq factory'.types
      BY <1>2
    <3> DEFINE ps == factory'.overrides
    <3>8. \/ ps = os /\ ~call.flag /\ \E i \in DOMAIN os : os[i].name = t
          \/ /\ call.flag /\ \E i \in DOMAIN os : os[i].name = t
             /\ DOMAIN ps = DOMAIN os
             /\ \A i \in DOMAIN os : IF os[i].name = t THEN new(ps[i]) ELSE ps[i] = os[i]
          \/ /\ \A i \in DOMAIN os : os[i].name # t
             /\ \E o : new(o) /\ ps = Append(os, o)
      <4> HIDE DEF os, ps
      <4> QED BY <3>6, <3>7, Zenon DEF ps
    <3> QED BY ONLY <1>1, <3>1, <3>3, <3>7, <3>8, calls \in Seq(Range(calls)), Called(call),
                    t \in Types, ListMore, Zenon DEF new
  <2>2. CASE ~Accepts(call)
    <3>1. \A u \in Types : ~TypeCall(call, u)
      BY <2>2 DEF TypeCall
    <3>2. factory'.overrides = factory.overrides /\ factory.types \subseteq factory'.types
      BY <1>2, <2>2
    <3> QED BY <1>1, <3>1, <3>2, ListSame
  <2> QED BY <2>1, <2>2
<1> QED BY <1>2, <1>3, <1>4, <1>5, HistoryMore

\* A type override is of a type by its proxy or by its name: the one is the other.
LEMMA OfTypeIsName ==
  ASSUME NEW f, ListRight(f), NEW i \in DOMAIN f.overrides, NEW t \in Types
  PROVE  OfType(f.overrides[i], t) <=> f.overrides[i].name = t
BY FactoryAssumption DEF ListRight, Entry, OfType

\* set_type_override_by_type, set_type_override_by_name
LEMMA TypeCallKeeps ==
  ASSUME calls \in Seq(Range(calls)), History(factory), NEW r \in Pairs, NEW replace \in BOOLEAN,
         set_type_override(r[1], r[2], replace)
  PROVE  History(factory)'
<1> DEFINE t == r[1]
           v == r[2]
           os == factory.overrides
           call(op) == [op |-> op, name |-> t, ovrd |-> v, paths |-> Paths, flag |-> replace,
                        types |-> factory.types]
<1>1. t \in Types /\ v \in Types /\ <<t, v>> \in Pairs /\ r = <<t, v>>
  BY BuildAssumption DEF set_type_override
<1>2. /\ factory \in FactoryType /\ ListRight(factory) /\ Always \subseteq factory.types
      /\ os \in Seq(Overrides) /\ DOMAIN os = 1 .. Len(os)
  BY DEF History, FactoryType
<1>3. /\ \A i \in DOMAIN os : OfType(os[i], t) <=> os[i].name = t
      /\ \A i \in DOMAIN os : Entry(factory, os[i], os[i].name) /\ os[i] \in Overrides
  <2>1. \A i \in DOMAIN os : OfType(os[i], t) <=> os[i].name = t
    BY <1>1, <1>2, OfTypeIsName
  <2> QED BY <1>2, <2>1 DEF ListRight
<1>4. factory = [factory EXCEPT !.overrides = os]
  BY <1>2 DEF FactoryType
<1> DEFINE Listed == \E i \in 1 .. Len(os) : OfType(os[i], t)
<1>5. Listed <=> \E i \in DOMAIN os : os[i].name = t
  BY <1>2, <1>3
<1>6. CASE /\ Proxies({t, v}) /\ set_type_override_by_type(t, v, replace)
           /\ CallFactory("type", t, v, Paths, replace)
  <2> DEFINE c == call("type")
             new == Override(t, t, v, Paths)
             changed == [i \in DOMAIN os |->
                           IF OfType(os[i], t) THEN Override(t, t, v, os[i].paths) ELSE os[i]]
  <2>1. /\ Called(c) /\ c.op = "type" /\ c.name = t /\ c.ovrd = v /\ c.flag = replace
        /\ Accepts(c)
    BY <1>6 DEF CallFactory, Accepts
  <2>2. t \in factory.types /\ v \in factory.types
    BY <1>6 DEF Proxies
  <2>3. factory' = IF Listed THEN IF replace THEN [factory EXCEPT !.overrides = changed] ELSE factory
                   ELSE [factory EXCEPT !.overrides = Append(os, new)]
    BY <1>6, <2>2 DEF set_type_override_by_type, TypeOverridden, Registered
  <2>4. new \in Overrides /\ Entry(factory, new, t) /\ new.ovrd = v
    BY <1>1, <2>2 DEF Override, Overrides, Entry
  <2>5. /\ changed \in Seq(Overrides) /\ DOMAIN changed = DOMAIN os
        /\ \A i \in DOMAIN os : IF os[i].name = t
                                THEN Entry(factory, changed[i], t) /\ changed[i].ovrd = v
                                ELSE changed[i] = os[i]
    <3>1. \A i \in DOMAIN os : LET o == Override(t, t, v, os[i].paths) IN
            o \in Overrides /\ Entry(factory, o, t) /\ o.ovrd = v
      BY <1>1, <1>3, <2>2 DEF Override, Overrides, Entry
    <3>2. \A i \in DOMAIN os : changed[i] \in Overrides
      BY <1>3, <3>1
    <3>3. changed \in Seq(Overrides)
      <4>1. DOMAIN changed = 1 .. Len(os) /\ changed = [i \in 1 .. Len(os) |-> changed[i]]
        BY <1>2
      <4> HIDE DEF changed, os
      <4>2. Len(os) \in Nat /\ changed \in [1 .. Len(os) -> Overrides]
        BY <1>2, <3>2, <4>1
      <4> QED BY <4>2, SeqDef
    <3> QED BY <1>3, <3>1, <3>3
  <2>6. Append(os, new) \in Seq(Overrides)
    BY <1>2, <2>4, AppendProperties
  <2> HIDE DEF c, new, changed, Listed, os, t, v
  <2>7. CASE Listed /\ replace
    <3>1. factory' = [factory EXCEPT !.overrides = changed] /\ c.flag
      BY <2>1, <2>3, <2>7, Zenon
    <3> QED BY <1>1, <1>5, <2>1, <2>5, <2>7, <3>1, ListCall DEF os
  <2>8. CASE Listed /\ ~replace
    <3>1. factory' = [factory EXCEPT !.overrides = os] /\ ~c.flag
      BY <1>4, <2>1, <2>3, <2>8, Zenon
    <3> QED BY <1>1, <1>2, <1>5, <2>1, <2>8, <3>1, ListCall DEF os
  <2>9. CASE ~Listed
    <3>1. factory' = [factory EXCEPT !.overrides = Append(os, new)]
      BY <2>3, <2>9
    <3> QED BY <1>1, <1>5, <2>1, <2>4, <2>6, <2>9, <3>1, ListCall DEF os
  <2> QED BY <2>7, <2>8, <2>9
<1>7. CASE /\ set_type_override_by_name(t, v, replace)
           /\ CallFactory("type_name", t, v, Paths, replace)
  <2> DEFINE c == call("type_name")
             new == Override(Proxy(factory, t), t, v, Paths)
             changed == [i \in DOMAIN os |-> IF OfType(os[i], t) THEN [os[i] EXCEPT !.ovrd = v]
                                             ELSE os[i]]
  <2>1. /\ Called(c) /\ c.op = "type_name" /\ c.name = t /\ c.ovrd = v /\ c.flag = replace
        /\ Accepts(c) <=> v \in factory.types
    BY <1>7 DEF CallFactory, Accepts
  <2>2. CASE v \notin factory.types
    <3>1. factory' = [factory EXCEPT !.overrides = os]
      BY <1>4, <1>7, <2>2 DEF set_type_override_by_name
    <3> HIDE DEF c, os, t, v
    <3> QED BY <1>1, <1>2, <2>1, <2>2, <3>1, ListCall DEF os
  <2>3. CASE v \in factory.types
    <3>3. factory' = IF Listed THEN IF replace THEN [factory EXCEPT !.overrides = changed] ELSE factory
                     ELSE [factory EXCEPT !.overrides = Append(os, new)]
      BY <1>7, <2>3 DEF set_type_override_by_name, TypeOverridden
    <3>4. new \in Overrides /\ Entry(factory, new, t) /\ new.ovrd = v
      <4>1. /\ t \in factory.types => Proxy(factory, t) = t
            /\ t \notin factory.types => Proxy(factory, t) = NULL /\ t \notin Always
        BY <1>2 DEF Proxy
      <4> QED BY <1>1, <2>3, <4>1 DEF Override, Overrides, Entry
    <3>5. /\ changed \in Seq(Overrides) /\ DOMAIN changed = DOMAIN os
          /\ \A i \in DOMAIN os : IF os[i].name = t
                                  THEN Entry(factory, changed[i], t) /\ changed[i].ovrd = v
                                  ELSE changed[i] = os[i]
      <4>1. \A i \in DOMAIN os : LET o == [os[i] EXCEPT !.ovrd = v] IN
              /\ o = [orig |-> os[i].orig, name |-> os[i].name, ovrd |-> v, paths |-> os[i].paths]
              /\ o \in Overrides
        BY <1>1, <1>3 DEF Overrides
      <4>2. \A i \in DOMAIN os : os[i].name = t =>
              LET o == [os[i] EXCEPT !.ovrd = v] IN Entry(factory, o, t) /\ o.ovrd = v
        BY <1>1, <1>3, <2>3, <4>1 DEF Entry
      <4>3. changed \in Seq(Overrides)
        <5>1. \A i \in DOMAIN os : changed[i] \in Overrides
          BY <1>3, <4>1
        <5>2. DOMAIN changed = 1 .. Len(os) /\ changed = [i \in 1 .. Len(os) |-> changed[i]]
          BY <1>2
        <5> HIDE DEF changed, os
        <5>3. Len(os) \in Nat /\ changed \in [1 .. Len(os) -> Overrides]
          BY <1>2, <5>1, <5>2
        <5> QED BY <5>3, SeqDef
      <4> QED BY <1>3, <4>2, <4>3
    <3>6. Append(os, new) \in Seq(Overrides)
      BY <1>2, <3>4, AppendProperties
    <3> HIDE DEF c, new, changed, Listed, os, t, v
    <3>7. CASE Listed /\ replace
      <4>1. factory' = [factory EXCEPT !.overrides = changed] /\ c.flag
        BY <2>1, <3>3, <3>7, Zenon
      <4> QED BY <1>1, <1>5, <2>1, <2>3, <3>5, <3>7, <4>1, ListCall DEF os
    <3>8. CASE Listed /\ ~replace
      <4>1. factory' = [factory EXCEPT !.overrides = os] /\ ~c.flag
        BY <1>4, <2>1, <3>3, <3>8, Zenon
      <4> QED BY <1>1, <1>2, <1>5, <2>1, <2>3, <3>8, <4>1, ListCall DEF os
    <3>9. CASE ~Listed
      <4>1. factory' = [factory EXCEPT !.overrides = Append(os, new)]
        BY <3>3, <3>9
      <4> QED BY <1>1, <1>5, <2>1, <2>3, <3>4, <3>6, <3>9, <4>1, ListCall DEF os
    <3> QED BY <3>7, <3>8, <3>9
  <2> QED BY <2>2, <2>3
<1> QED BY <1>6, <1>7 DEF set_type_override

\* An override of t is put behind the others of its queue, if it is new there.
Queued(q, new, o) ==
  \/ new = q /\ \E i \in DOMAIN q : q[i].paths = o.paths /\ q[i].ovrd = o.ovrd
  \/ new = Append(q, o)

\* The queues after a call of instances: those of the types it is about.
LEMMA QueueCall ==
  ASSUME calls \in Seq(Range(calls)), NEW call, Called(call), History(factory),
         call.op \in {"inst", "inst_name"}, call.types = factory.types,
         factory' \in FactoryType, Clean(factory)', factory'.types = factory.types,
         factory'.overrides = factory.overrides,
         \/ factory'.wildcards = factory.wildcards
         \/ /\ call.op = "inst_name" /\ call.name \in Wildcards
            /\ \E o : /\ o \in Overrides /\ o.name = call.name
                      /\ factory'.wildcards = Append(factory.wildcards, o),
         \A t \in Types \ Early' :
           IF InstCall(call, t)
           THEN \E o : /\ Entry(factory, o, t) /\ o.paths = call.paths /\ o.ovrd = call.ovrd
                       /\ Queued(Queue(factory, t), Queue(factory', t), o)
           ELSE Queue(factory', t) = Queue(factory, t)
  PROVE  History(factory)'
<1>1. /\ factory \in FactoryType /\ ListRight(factory)
      /\ factory.types \subseteq factory'.types
  BY DEF History
<1>2. \A u \in Types : ~TypeCall(call, u)
  BY DEF TypeCall
<1>3. ListRight(factory)'
  BY <1>1, <1>2, ListSame
<1>4. ASSUME NEW t \in Types \ Early' PROVE QueueRight(factory, t)'
  <2>1. CASE ~InstCall(call, t)
    BY <1>1, <2>1, QueueSame
  <2>2. CASE InstCall(call, t)
    <3> DEFINE q == Queue(factory, t)
               new == Queue(factory', t)
    <3>1. PICK o : /\ Entry(factory, o, t) /\ o.paths = call.paths /\ o.ovrd = call.ovrd
                   /\ Queued(q, new, o)
      BY <2>2
    <3>2. Entry(factory', o, t)
      BY <3>1 DEF Entry
    <3>3. t \notin Early
      BY CallsMore
    <3>4. QueueRight(factory, t) /\ q \in Seq(Overrides)
      BY <1>1, <3>3 DEF History, FactoryType, Queue
    <3>5. \/ /\ new = q /\ InstCall(call, t)
             /\ \E i \in DOMAIN q : q[i].paths = call.paths /\ q[i].ovrd = call.ovrd
          \/ /\ InstCall(call, t)
             /\ \E x : /\ Entry(factory', x, t) /\ x.paths = call.paths /\ x.ovrd = call.ovrd
                       /\ new = Append(q, x)
      <4>1. CASE new = q /\ \E i \in DOMAIN q : q[i].paths = o.paths /\ q[i].ovrd = o.ovrd
        <5> HIDE DEF q, new
        <5> QED BY <2>2, <3>1, <4>1
      <4>2. CASE new = Append(q, o)
        <5> HIDE DEF q, new
        <5> QED BY <2>2, <3>1, <3>2, <4>2
      <4> QED BY <3>1, <4>1, <4>2 DEF Queued
    <3> QED BY <1>1, <3>4, <3>5, QueueMore
  <2> QED BY <2>1, <2>2
<1> QED BY <1>1, <1>3, <1>4, HistoryMore

\* The override of a registered type is put into its queue.
LEMMA InstOverriddenIs ==
  ASSUME NEW f \in FactoryType, NEW t \in Types, NEW v \in Types, NEW paths \in SUBSET Paths
  PROVE  LET g == InstOverridden(f, t, v, paths) IN
         /\ g \in FactoryType /\ g.types = f.types /\ g.overrides = f.overrides
         /\ g.wildcards = f.wildcards /\ g.names = f.names
         /\ \A u \in Types : u # t => g.insts[u] = f.insts[u]
         /\ Queued(f.insts[t], g.insts[t], Override(t, t, v, paths))
<1> DEFINE g == InstOverridden(f, t, v, paths)
           q == f.insts[t]
           o == Override(t, t, v, paths)
<1>1. /\ q \in Seq(Overrides) /\ DOMAIN q = 1 .. Len(q)
      /\ f.insts \in [Types -> Seq(Overrides)]
  BY DEF FactoryType
<1>2. o \in Overrides
  BY DEF Override, Overrides
<1>3. CASE Contains(q, o)
  <2>1. g = f
    BY <1>3 DEF InstOverridden
  <2>2. \E i \in DOMAIN q : q[i] = o
    BY <1>1, <1>3 DEF Contains
  <2>3. Queued(q, q, o)
    <3> HIDE DEF q, o
    <3> QED BY <2>2 DEF Queued
  <2> QED BY <2>1, <2>3
<1>4. CASE ~Contains(q, o)
  <2>1. g = [f EXCEPT !.insts = [f.insts EXCEPT ![t] = Append(q, o)]]
    BY <1>4 DEF InstOverridden
  <2>2. Append(q, o) \in Seq(Overrides)
    BY <1>1, <1>2, AppendProperties
  <2> DEFINE new == Append(q, o)
  <2>3. Queued(q, new, o)
    BY DEF Queued
  <2> HIDE DEF g, o, new
  <2>4. g.insts = [f.insts EXCEPT ![t] = new] /\ g.insts \in [Types -> Seq(Overrides)]
    BY <1>1, <2>1, <2>2 DEF FactoryType, new
  <2>5. g = [types |-> f.types, overrides |-> f.overrides, insts |-> g.insts,
             names |-> f.names, wildcards |-> f.wildcards]
    BY <2>1, <2>4 DEF FactoryType, new
  <2>6. g \in FactoryType
    <3>1. /\ f.types \in SUBSET Types /\ f.overrides \in Seq(Overrides)
          /\ f.names \in [Types -> Seq(Overrides)] /\ f.wildcards \in Seq(Overrides)
      BY DEF FactoryType
    <3> QED BY <2>4, <2>5, <3>1 DEF FactoryType
  <2> QED BY <1>1, <2>3, <2>4, <2>5, <2>6 DEF g, o
<1> QED BY <1>3, <1>4

\* set_inst_override_by_type, set_inst_override_by_name of a name without wildcards
LEMMA InstCallKeeps ==
  ASSUME calls \in Seq(Range(calls)), History(factory), NEW r \in Pairs, NEW paths \in Patterns,
         set_inst_override(r[1], r[2], paths)
  PROVE  History(factory)'
<1> DEFINE t == r[1]
           v == r[2]
           call(op) == [op |-> op, name |-> t, ovrd |-> v, paths |-> paths, flag |-> FALSE,
                        types |-> factory.types]
           o == Override(t, t, v, paths)
<1>1. /\ t \in Types /\ v \in Types /\ <<t, v>> \in Pairs /\ r = <<t, v>>
      /\ paths \in SUBSET Paths
  <2>1. t \in Types /\ v \in Types /\ <<t, v>> \in Pairs /\ r = <<t, v>>
    <3>1. t \in Types
      BY DEF set_inst_override
    <3>2. Pairs \subseteq (Types \cup Wildcards) \X Types
      BY BuildAssumption
    <3> QED BY <3>1, <3>2
  <2>2. paths \in SUBSET Paths
    BY BuildAssumption
  <2> QED BY <2>1, <2>2
<1>2. /\ factory \in FactoryType /\ Clean(factory) /\ Always \subseteq factory.types
  BY DEF History
<1>3. \A u \in Types : NameMatches(t, u) <=> u = t
  BY <1>1, FactoryAssumption DEF NameMatches
<1>4. ASSUME NEW op \in {"inst", "inst_name"}, Called(call(op)), t \in factory.types,
             v \in factory.types, factory' = InstOverridden(factory, t, v, paths)
      PROVE  History(factory)'
  <2> DEFINE c == call(op)
  <2>1. /\ Called(c) /\ c.op = op /\ c.types = factory.types /\ c.paths = paths /\ c.ovrd = v
        /\ \A u \in Types : InstCall(c, u) <=> u = t
    BY <1>3, <1>4 DEF InstCall, Accepts
  <2>2. LET g == factory' IN
         /\ g \in FactoryType /\ g.types = factory.types /\ g.overrides = factory.overrides
         /\ g.wildcards = factory.wildcards /\ g.names = factory.names
         /\ \A u \in Types : u # t => g.insts[u] = factory.insts[u]
         /\ Queued(factory.insts[t], g.insts[t], o)
    BY <1>1, <1>2, <1>4, InstOverriddenIs
  <2>3. Entry(factory, o, t) /\ o.paths = paths /\ o.ovrd = v
    BY <1>1, <1>4 DEF Override, Overrides, Entry
  <2>4. Clean(factory)'
    BY <1>2, <1>4, <2>2 DEF Clean
  <2>5. ASSUME NEW u \in Types, u # t PROVE Queue(factory', u) = Queue(factory, u)
    BY <2>2, <2>5 DEF Queue
  <2>6. Queued(Queue(factory, t), Queue(factory', t), o)
    BY <1>4, <2>2 DEF Queue
  <2> HIDE DEF c, t, v, o
  <2>7. \A u \in Types :
          IF InstCall(c, u)
          THEN \E x : /\ Entry(factory, x, u) /\ x.paths = c.paths /\ x.ovrd = c.ovrd
                      /\ Queued(Queue(factory, u), Queue(factory', u), x)
          ELSE Queue(factory', u) = Queue(factory, u)
    BY <2>1, <2>3, <2>5, <2>6
  <2> QED BY <1>4, <2>1, <2>2, <2>4, <2>7, QueueCall
<1>5. CASE /\ Proxies({t, v}) /\ set_inst_override_by_type(t, v, paths)
           /\ CallFactory("inst", t, v, paths, FALSE)
  <2>1. t \in factory.types /\ v \in factory.types
    BY <1>5 DEF Proxies
  <2>2. Called(call("inst")) /\ factory' = InstOverridden(factory, t, v, paths)
    BY <1>5, <2>1 DEF CallFactory, set_inst_override_by_type, Registered
  <2> QED BY <1>4, <2>1, <2>2
<1>6. CASE set_inst_override_by_name(t, v, paths) /\ CallFactory("inst_name", t, v, paths, FALSE)
  <2> DEFINE c == call("inst_name")
  <2>1. /\ Called(c) /\ c.op = "inst_name" /\ c.types = factory.types /\ c.paths = paths
        /\ c.ovrd = v /\ \A u \in Types : InstCall(c, u) <=> v \in factory.types /\ u = t
    BY <1>3, <1>6 DEF CallFactory, InstCall, Accepts
  <2>2. CASE v \notin factory.types
    <3>1. factory' = factory
      BY <1>6, <2>2 DEF set_inst_override_by_name
    <3>2. \A u \in Types : ~InstCall(c, u) /\ Queue(factory', u) = Queue(factory, u)
      BY <2>1, <2>2, <3>1
    <3>3. Clean(factory)'
      BY <1>2, <3>1 DEF Clean
    <3> HIDE DEF c
    <3> QED BY <1>2, <2>1, <3>1, <3>2, <3>3, QueueCall
  <2>3. CASE v \in factory.types /\ t \in factory.types
    <3>1. factory' = InstOverridden(factory, t, v, paths)
      BY <1>6, <2>3 DEF set_inst_override_by_name
    <3> QED BY <1>4, <2>1, <2>3, <3>1
  <2>4. CASE v \in factory.types /\ t \notin factory.types
    <3> DEFINE x == Override(NULL, t, v, paths)
               q == factory.names[t]
               new == Append(q, x)
    <3>1. factory' = [factory EXCEPT !.names = [factory.names EXCEPT ![t] = new]]
      BY <1>6, <2>4 DEF set_inst_override_by_name
    <3>2. /\ Entry(factory, x, t) /\ x.paths = paths /\ x.ovrd = v /\ x \in Overrides
      BY <1>1, <1>2, <2>4 DEF Override, Overrides, Entry
    <3>3. /\ factory.names \in [Types -> Seq(Overrides)] /\ new \in Seq(Overrides)
      <4>1. factory.names \in [Types -> Seq(Overrides)]
        BY <1>2 DEF FactoryType
      <4> HIDE DEF x
      <4> QED BY <1>1, <3>2, <4>1, AppendProperties
    <3> HIDE DEF new, x
    <3>4. /\ factory' \in FactoryType /\ factory'.types = factory.types
          /\ factory'.overrides = factory.overrides /\ factory'.wildcards = factory.wildcards
          /\ factory'.insts = factory.insts
          /\ factory'.names = [factory.names EXCEPT ![t] = new]
      BY <1>2, <3>1, <3>3 DEF FactoryType
    <3>5. Clean(factory)'
      BY <1>2, <2>4, <3>3, <3>4 DEF Clean
    <3>6. \A u \in Types : u # t => Queue(factory', u) = Queue(factory, u)
      BY <3>3, <3>4 DEF Queue
    <3>7. Queued(Queue(factory, t), Queue(factory', t), x)
      <4>1. Queue(factory, t) = q /\ Queue(factory', t) = new
        BY <1>1, <2>4, <3>3, <3>4 DEF Queue
      <4> QED BY <4>1 DEF Queued, new
    <3> HIDE DEF c, t, v
    <3>8. \A u \in Types :
            IF InstCall(c, u)
            THEN \E y : /\ Entry(factory, y, u) /\ y.paths = c.paths /\ y.ovrd = c.ovrd
                        /\ Queued(Queue(factory, u), Queue(factory', u), y)
            ELSE Queue(factory', u) = Queue(factory, u)
      BY <2>1, <2>4, <3>2, <3>6, <3>7
    <3> QED BY <2>1, <3>4, <3>5, <3>8, QueueCall
  <2> QED BY <2>2, <2>3, <2>4
<1> QED BY <1>5, <1>6 DEF set_inst_override

\* set_inst_override_by_name of a name with wildcards
LEMMA WildcardCallKeeps ==
  ASSUME calls \in Seq(Range(calls)), History(factory), NEW r \in Pairs, NEW paths \in Patterns,
         set_wildcard_override(r[1], r[2], paths)
  PROVE  History(factory)'
<1> DEFINE w == r[1]
           v == r[2]
           c == [op |-> "inst_name", name |-> w, ovrd |-> v, paths |-> paths, flag |-> FALSE,
                 types |-> factory.types]
<1>1. w \in Wildcards /\ v \in Types /\ paths \in SUBSET Paths
  BY BuildAssumption DEF set_wildcard_override
<1>2. factory \in FactoryType /\ Clean(factory)
  BY DEF History
<1>3. \A u \in Types : NameMatches(w, u) <=> u \in w
  BY <1>1, FactoryAssumption DEF NameMatches
<1>4. /\ Called(c) /\ c.op = "inst_name" /\ c.types = factory.types /\ c.paths = paths
      /\ c.ovrd = v /\ c.name = w
      /\ \A u \in Types : InstCall(c, u) <=> v \in factory.types /\ u \in w
  BY <1>3 DEF set_wildcard_override, CallFactory, InstCall, Accepts
<1>5. CASE v \notin factory.types
  <2>1. factory' = factory
    BY <1>5 DEF set_wildcard_override, set_wildcard_override_by_name
  <2>2. \A u \in Types : ~InstCall(c, u) /\ Queue(factory', u) = Queue(factory, u)
    BY <1>4, <1>5, <2>1
  <2>3. Clean(factory)'
    BY <1>2, <2>1 DEF Clean
  <2> HIDE DEF c
  <2> QED BY <1>2, <1>4, <2>1, <2>2, <2>3, QueueCall
<1>6. CASE v \in factory.types
  <2> DEFINE x == Override(NULL, w, v, paths)
             insts == [t \in Types |->
                         IF t \in factory.types /\ NameMatches(w, t)
                         THEN InstOverridden(factory, t, v, paths).insts[t]
                         ELSE factory.insts[t]]
             new == Append(factory.wildcards, x)
  <2>1. factory' = [factory EXCEPT !.insts = insts, !.wildcards = new]
    BY <1>6 DEF set_wildcard_override, set_wildcard_override_by_name
  <2>2. x \in Overrides /\ x.name = w
    BY <1>1 DEF Override, Overrides
  <2>3. new \in Seq(Overrides)
    <3>1. factory.wildcards \in Seq(Overrides)
      BY <1>2 DEF FactoryType
    <3> HIDE DEF x
    <3> QED BY <2>2, <3>1, AppendProperties
  <2>4. \A t \in Types : LET g == InstOverridden(factory, t, v, paths) IN
          /\ g.insts[t] \in Seq(Overrides)
          /\ Queued(factory.insts[t], g.insts[t], Override(t, t, v, paths))
    <3> SUFFICES ASSUME NEW t \in Types
                 PROVE  LET g == InstOverridden(factory, t, v, paths) IN
                        /\ g.insts[t] \in Seq(Overrides)
                        /\ Queued(factory.insts[t], g.insts[t], Override(t, t, v, paths))
      OBVIOUS
    <3> DEFINE g == InstOverridden(factory, t, v, paths)
    <3>1. g \in FactoryType /\ Queued(factory.insts[t], g.insts[t], Override(t, t, v, paths))
      BY <1>1, <1>2, InstOverriddenIs
    <3> HIDE DEF g
    <3>2. g.insts[t] \in Seq(Overrides)
      BY <3>1 DEF FactoryType
    <3> QED BY <3>1, <3>2 DEF g
  <2>5. /\ factory.insts \in [Types -> Seq(Overrides)]
        /\ insts \in [Types -> Seq(Overrides)]
        /\ \A t \in Types :
             IF t \in factory.types /\ t \in w
             THEN Queued(factory.insts[t], insts[t], Override(t, t, v, paths))
             ELSE insts[t] = factory.insts[t]
    <3>1. factory.insts \in [Types -> Seq(Overrides)]
      BY <1>2 DEF FactoryType
    <3> QED BY <1>3, <2>4, <3>1
  <2> HIDE DEF insts, new, x
  <2>6. /\ factory' \in FactoryType /\ factory'.types = factory.types
        /\ factory'.overrides = factory.overrides /\ factory'.names = factory.names
        /\ factory'.insts = insts /\ factory'.wildcards = new
    BY <1>2, <2>1, <2>3, <2>5 DEF FactoryType
  <2>7. Clean(factory)'
    BY <1>2, <2>5, <2>6 DEF Clean
  <2>8. ASSUME NEW t \in Types \ Early', t \in w PROVE t \in factory.types
    <3> HIDE DEF c
    <3> QED BY <1>1, <1>4, <2>8, CallsMore
  <2>9. \A t \in Types \ Early' :
          IF InstCall(c, t)
          THEN \E o : /\ Entry(factory, o, t) /\ o.paths = c.paths /\ o.ovrd = c.ovrd
                      /\ Queued(Queue(factory, t), Queue(factory', t), o)
          ELSE Queue(factory', t) = Queue(factory, t)
    <3>1. ASSUME NEW t \in Types \ Early', t \in w
          PROVE  \E o : /\ Entry(factory, o, t) /\ o.paths = c.paths /\ o.ovrd = c.ovrd
                        /\ Queued(Queue(factory, t), Queue(factory', t), o)
      <4> DEFINE o == Override(t, t, v, paths)
      <4>1. t \in factory.types
        BY <2>8, <3>1
      <4>2. Entry(factory, o, t) /\ o.paths = c.paths /\ o.ovrd = c.ovrd
        BY <1>1, <1>6, <4>1 DEF Override, Overrides, Entry
      <4>3. Queued(Queue(factory, t), Queue(factory', t), o)
        BY <2>5, <2>6, <3>1, <4>1 DEF Queue
      <4> HIDE DEF o, c
      <4> QED BY <4>2, <4>3
    <3>2. ASSUME NEW t \in Types \ Early', t \notin w
          PROVE  Queue(factory', t) = Queue(factory, t)
      BY <2>5, <2>6, <3>2 DEF Queue
    <3> HIDE DEF c
    <3> QED BY <1>4, <1>6, <3>1, <3>2
  <2> HIDE DEF c
  <2>10. \E o : /\ o \in Overrides /\ o.name = c.name
                /\ factory'.wildcards = Append(factory.wildcards, o)
    BY <1>4, <2>2, <2>6 DEF new
  <2> QED BY <1>1, <1>4, <2>6, <2>7, <2>9, <2>10, QueueCall
<1> QED BY <1>5, <1>6

\* The invariant of the factory.
Sane == calls \in Seq(Range(calls)) /\ History(factory)

\* The history starts empty.
LEMMA HistoryStarts == Init => Sane
<1> SUFFICES ASSUME Init PROVE Sane
  OBVIOUS
<1>1. PICK r \in Registrable : FactoryInit(r)
  BY DEF Init
<1>2. calls = <<>>
  BY DEF Init
<1>3. /\ r \in SUBSET Types /\ Always \subseteq r
  BY BuildAssumption DEF Always
<1>4. factory \in FactoryType
  BY <1>1, <1>3 DEF FactoryInit, FactoryType
<1>5. \A op : Calls(op) = {}
  BY <1>2 DEF Calls
<1>6. \A t, p : InstCalls(t, p) = {} /\ TypeCalls(t) = {}
  BY <1>5 DEF InstCalls, TypeCalls
<1>7. /\ factory.types = r /\ factory.overrides = <<>> /\ factory.wildcards = <<>>
      /\ \A t \in Types : factory.insts[t] = <<>> /\ factory.names[t] = <<>>
  BY <1>1 DEF FactoryInit
<1>8. Clean(factory) /\ \A t \in Types : Queue(factory, t) = <<>>
  BY <1>7 DEF Clean, Queue
<1>9. \A t \in Types : QueueRight(factory, t)
  BY <1>6, <1>8 DEF QueueRight
<1>10. ListRight(factory)
  BY <1>6, <1>7 DEF ListRight
<1>11. WildcardsCalled(factory)
  BY <1>7 DEF WildcardsCalled
<1>12. calls \in Seq(Range(calls))
  BY <1>2
<1> QED BY <1>3, <1>4, <1>5, <1>7, <1>8, <1>9, <1>10, <1>11, <1>12 DEF Sane, History

\* Each step keeps it.
LEMMA HistoryKept == Sane /\ [Next]_vars => Sane'
<1> SUFFICES ASSUME Sane, [Next]_vars PROVE Sane'
  OBVIOUS
<1>1. calls \in Seq(Range(calls)) /\ History(factory)
  BY DEF Sane
<1>2. (calls \in Seq(Range(calls)))'
  <2>1. calls' = calls \/ \E call : Called(call)
    BY DEF Next, register, set_type_override, set_inst_override, set_wildcard_override,
           CallFactory, set_config, Read, create_by_type, create_by_name, create, traverse, vars
  <2> QED BY <1>1, <2>1, CallsGrow
<1>3. ASSUME calls' = calls, History(factory') PROVE History(factory)'
  <2>1. /\ \A op : Calls(op)' = Calls(op)
        /\ \A i : Accepted(i)' <=> Accepted(i)
    BY <1>3 DEF Calls, Accepted
  <2>2. /\ \A t, p : InstCalls(t, p)' = InstCalls(t, p)
        /\ \A t : TypeCalls(t)' = TypeCalls(t)
        /\ Early' = Early
    BY <1>3, <2>1 DEF InstCalls, TypeCalls, Early
  <2>3. \A t : Replacing(t)' = Replacing(t)
    BY <1>3, <2>2, Zenon DEF Replacing
  <2>4. \A t : TypePromise(t)' = TypePromise(t)
    BY <1>3, <2>2, <2>3 DEF TypePromise
  <2>5. \A t \in Types \ Early' : QueueRight(factory, t)'
    BY <1>3, <2>2 DEF History, QueueRight
  <2>6. ListRight(factory)'
    BY <1>3, <2>2, <2>4 DEF History, ListRight
  <2>7. WildcardsCalled(factory)' /\ Clean(factory)'
    BY <1>3, <2>1 DEF History, WildcardsCalled, Clean
  <2> QED BY <1>3, <2>1, <2>5, <2>6, <2>7 DEF History
<1>4. ASSUME NEW t \in Types, register(t) PROVE History(factory)'
  <2> DEFINE c == [op |-> "register", name |-> t, ovrd |-> t, paths |-> {}, flag |-> FALSE,
                   types |-> factory.types]
  <2>1. Called(c) /\ c.op = "register" /\ factory' = Registered(factory, t)
    BY <1>4 DEF register, CallFactory, do_register
  <2> HIDE DEF c
  <2> QED BY <1>1, <2>1, OtherCall
<1>5. ASSUME NEW r \in Pairs, NEW replace \in BOOLEAN, set_type_override(r[1], r[2], replace)
      PROVE  History(factory)'
  BY <1>1, <1>5, TypeCallKeeps
<1>6. ASSUME NEW r \in Pairs, NEW paths \in Patterns, set_inst_override(r[1], r[2], paths)
      PROVE  History(factory)'
  BY <1>1, <1>6, InstCallKeeps
<1>7. ASSUME NEW r \in Pairs, NEW paths \in Patterns, set_wildcard_override(r[1], r[2], paths)
      PROVE  History(factory)'
  BY <1>1, <1>7, WildcardCallKeeps
<1>8. ASSUME NEW context, NEW scope, set_config(context, scope) PROVE History(factory)'
  <2> DEFINE c == [op |-> "config", level |-> IF Building THEN get_depth(context) ELSE 0,
                   scope |-> scope]
  <2>1. Called(c) /\ c.op = "config" /\ factory' = factory
    BY <1>8 DEF set_config
  <2> HIDE DEF c
  <2> QED BY <1>1, <2>1, OtherCall
<1>9. ASSUME (\E c \in Components : Read(c)) \/ traverse \/ UNCHANGED vars
      PROVE  History(factory)'
  BY <1>1, <1>3, <1>9 DEF Read, traverse, vars
<1>10. ASSUME create_by_type \/ create_by_name PROVE History(factory)'
  <2>1. calls' = calls
    BY <1>10 DEF create_by_type, create_by_name, create
  <2>2. factory' = factory \/ \E t \in Types : factory' = Registered(factory, t)
    <3>1. turn \in DOMAIN Order
      BY <1>10, BuildAssumption DEF create_by_type, create_by_name, create
    <3>2. Request[Order[turn]] \in Types
      BY <3>1, BuildAssumption
    <3> QED BY <1>10, <3>2 DEF create_by_type, create_by_name, create
  <2> QED BY <1>1, <1>3, <2>1, <2>2, RegisteredKeeps
<1> QED BY <1>2, <1>4, <1>5, <1>6, <1>7, <1>8, <1>9, <1>10 DEF Next, Sane

-----------------------------------------------------------------------------
(* The search *)

\* The override o that the search takes for t at p is the one that was promised.
Takes(f, o, t, p) ==
  IF o = NULL THEN Promised(t, p) = t ELSE Entry(f, o, t) /\ o.ovrd = Promised(t, p)

\* In three steps: the instance, the type, the type itself.
LEMMA PromisedIs ==
  ASSUME NEW t, NEW p
  PROVE  Promised(t, p) = IF InstCalls(t, p) # {} THEN calls[Min(InstCalls(t, p))].ovrd
                          ELSE IF TypeCalls(t) # {} THEN TypePromise(t) ELSE t
<1>1. Replacing(t) \subseteq TypeCalls(t)
  BY DEF Replacing
<1>2. Promised(t, p) = IF InstCalls(t, p) # {} THEN calls[Min(InstCalls(t, p))].ovrd
                       ELSE IF Replacing(t) # {} THEN calls[Max(Replacing(t))].ovrd
                       ELSE IF TypeCalls(t) # {} THEN calls[Min(TypeCalls(t))].ovrd ELSE t
  BY Zenon DEF Promised, Replacing
<1> QED BY <1>1, <1>2 DEF TypePromise

\* The first override for p in the queue q, and the one of t in the list os.
FirstRight(f, q, os, t, p) ==
  LET found == {i \in DOMAIN q : p \in q[i].paths}
      listed == {i \in DOMAIN os : os[i].name = t}
  IN /\ IF InstCalls(t, p) = {} THEN found = {}
        ELSE /\ found # {} /\ Entry(f, q[Min(found)], t)
             /\ q[Min(found)].ovrd = calls[Min(InstCalls(t, p))].ovrd
     /\ IF TypeCalls(t) = {} THEN listed = {}
        ELSE /\ listed # {} /\ Entry(f, os[Min(listed)], t)
             /\ os[Min(listed)].ovrd = TypePromise(t)

\* The history says what comes first.
LEMMA FirstOverrides ==
  ASSUME NEW f, History(f), NEW t \in Types \ Early, NEW p \in Paths
  PROVE  FirstRight(f, Queue(f, t), f.overrides, t, p)
<1> DEFINE q == Queue(f, t)
           found == {i \in DOMAIN q : p \in q[i].paths}
           os == f.overrides
           listed == {i \in DOMAIN os : os[i].name = t}
<1>1. /\ QueueRight(f, t) /\ ListRight(f)
      /\ q \in Seq(Overrides) /\ os \in Seq(Overrides)
  BY DEF History, Queue, FactoryType
<1>2. /\ \A i \in DOMAIN q : i \in Nat /\ Entry(f, q[i], t)
      /\ \A i \in DOMAIN os : i \in Nat /\ Entry(f, os[i], os[i].name)
  BY <1>1 DEF QueueRight, ListRight
<1>3. ASSUME InstCalls(t, p) # {}
      PROVE  /\ found # {} /\ Entry(f, q[Min(found)], t)
             /\ q[Min(found)].ovrd = calls[Min(InstCalls(t, p))].ovrd
  <2>1. PICK i \in DOMAIN q : /\ p \in q[i].paths
                              /\ \A j \in DOMAIN q : p \in q[j].paths => i <= j
                              /\ q[i].ovrd = calls[Min(InstCalls(t, p))].ovrd
    BY <1>1, <1>3 DEF QueueRight
  <2>2. found \in SUBSET Nat /\ found # {} /\ i \in found
    BY <1>2, <2>1
  <2>3. Min(found) \in found /\ \A j \in found : Min(found) <= j
    <3> HIDE DEF found
    <3> QED BY <2>2, MinIs
  <2>4. Min(found) = i
    <3> DEFINE m == Min(found)
    <3>1. m \in Nat /\ i \in Nat /\ m <= i /\ i <= m
      BY <1>2, <2>1, <2>2, <2>3
    <3> HIDE DEF m
    <3>2. m = i
      BY <3>1
    <3> QED BY <3>2 DEF m
  <2> QED BY <1>2, <2>1, <2>2, <2>4
<1>4. ASSUME InstCalls(t, p) = {} PROVE found = {}
  BY <1>1, <1>4 DEF QueueRight
<1>5. ASSUME TypeCalls(t) = {} PROVE listed = {}
  BY <1>1, <1>5 DEF ListRight
<1>6. ASSUME TypeCalls(t) # {}
      PROVE  /\ listed # {} /\ Entry(f, os[Min(listed)], t)
             /\ os[Min(listed)].ovrd = TypePromise(t)
  <2>1. PICK i \in DOMAIN os : os[i].name = t /\ os[i].ovrd = TypePromise(t)
    BY <1>1, <1>6 DEF ListRight
  <2>2. listed = {i}
    BY <1>1, <2>1 DEF ListRight
  <2>3. Min({i}) = i
    <3>1. Min({i}) \in {i}
      BY <1>2, MinIs
    <3> QED BY <3>1
  <2>4. Min(listed) = i
    BY <2>2, <2>3
  <2> QED BY <1>2, <2>1, <2>2, <2>4
<1> HIDE DEF q, os
<1> QED BY <1>3, <1>4, <1>5, <1>6 DEF FirstRight, q, os

\* What the search takes is what the calls promise.
LEMMA TakesPromised ==
  ASSUME NEW f, History(f), NEW t \in Types \ Early, NEW p \in Paths
  PROVE  /\ Takes(f, OverrideOfName(f, t, p), t, p)
         /\ t \in f.types => Takes(f, OverrideOfType(f, t, p), t, p)
<1> DEFINE q == Queue(f, t)
           found == {i \in DOMAIN q : p \in q[i].paths}
           os == f.overrides
           listed == {i \in DOMAIN os : os[i].name = t}
           inst == IF found = {} THEN NULL ELSE q[Min(found)]
           type == IF listed = {} THEN NULL ELSE os[Min(listed)]
<1>1. /\ IF InstCalls(t, p) = {} THEN found = {}
         ELSE /\ found # {} /\ Entry(f, q[Min(found)], t)
              /\ q[Min(found)].ovrd = calls[Min(InstCalls(t, p))].ovrd
      /\ IF TypeCalls(t) = {} THEN listed = {}
         ELSE /\ listed # {} /\ Entry(f, os[Min(listed)], t)
              /\ os[Min(listed)].ovrd = TypePromise(t)
  <2>1. FirstRight(f, q, os, t, p)
    BY FirstOverrides
  <2> HIDE DEF q, os
  <2> QED BY <2>1 DEF FirstRight
<1>2. /\ QueueRight(f, t) /\ ListRight(f)
  BY DEF History
<1>3. /\ \A i \in DOMAIN q : OfType(q[i], t) /\ NameMatches(q[i].name, t)
      /\ \A i \in DOMAIN os : OfType(os[i], t) <=> os[i].name = t
  <2>1. \A i \in DOMAIN q : q[i].name = t
    BY <1>2 DEF QueueRight, Entry
  <2> QED BY <1>2, <2>1, OfTypeIsName DEF OfType, NameMatches
<1>4. \A o : Entry(f, o, t) => o # NULL
  BY FactoryAssumption DEF Entry
<1>5. OverrideOfName(f, t, p) = Prefer(inst, type)
  <2>1. found = {i \in DOMAIN q : NameMatches(q[i].name, t) /\ p \in q[i].paths}
    BY <1>3
  <2>2. q = IF t \in f.types THEN f.insts[t] ELSE f.names[t]
    BY DEF Queue
  <2> HIDE DEF q
  <2>3. First(q, LAMBDA o : NameMatches(o.name, t) /\ p \in o.paths) = inst
    BY <2>1 DEF First
  <2>4. First(os, LAMBDA o : o.name = t) = type
    BY DEF First
  <2> QED BY <2>2, <2>3, <2>4 DEF OverrideOfName
<1>6. ASSUME t \in f.types PROVE OverrideOfType(f, t, p) = Prefer(inst, type)
  <2>1. found = {i \in DOMAIN q : OfType(q[i], t) /\ p \in q[i].paths}
    BY <1>3
  <2>2. q = f.insts[t]
    BY <1>6 DEF Queue
  <2> HIDE DEF q
  <2>3. First(q, LAMBDA o : OfType(o, t) /\ p \in o.paths) = inst
    BY <2>1 DEF First
  <2>4. listed = {i \in DOMAIN os : OfType(os[i], t)}
    BY <1>3
  <2>5. First(os, LAMBDA o : OfType(o, t)) = type
    BY <2>4 DEF First
  <2> QED BY <2>2, <2>3, <2>5 DEF OverrideOfType
<1>7. Takes(f, Prefer(inst, type), t, p)
  <2> HIDE DEF q, found, os, listed
  <2>1. IF InstCalls(t, p) = {} THEN inst = NULL
        ELSE /\ Entry(f, inst, t) /\ inst # NULL
             /\ inst.ovrd = calls[Min(InstCalls(t, p))].ovrd
    BY <1>1, <1>4
  <2>2. IF TypeCalls(t) = {} THEN type = NULL
        ELSE Entry(f, type, t) /\ type # NULL /\ type.ovrd = TypePromise(t)
    BY <1>1, <1>4
  <2> HIDE DEF inst, type
  <2> QED BY <2>1, <2>2, PromisedIs DEF Prefer, Takes
<1> HIDE DEF inst, type
<1> QED BY <1>5, <1>6, <1>7

\* What a search can find.
Results == [type : Types \cup {NULL}, loop : BOOLEAN]

\* A solution of the recursion of find_override_by_type, at the overrides info
\* taken so far.
Result(s, f, p, t, info) ==
  LET o == OverrideOfType(f, t, p) IN
  IF \E i \in DOMAIN info : info[i].orig = t THEN Found(t, TRUE)
  ELSE IF Len(info) > 2 * Cardinality(Types) THEN Found(NULL, FALSE)
  ELSE IF o = NULL \/ o.ovrd = t THEN Found(t, FALSE)
  ELSE s[<<o.ovrd, Append(info, o)>>]

\* s is a solution.
Solves(s, f, p) ==
  s = [x \in Types \X Seq(Overrides) |-> Result(s, f, p, x[1], x[2])]

\* One of a queue is an override.
LEMMA FirstIsOne ==
  ASSUME NEW q \in Seq(Overrides), NEW found \in SUBSET DOMAIN q, found # {}
  PROVE  q[Min(found)] \in Overrides
<1>1. found \in SUBSET Nat
  OBVIOUS
<1>2. Min(found) \in found
  BY <1>1, MinIs
<1> DEFINE m == Min(found)
<1>3. m \in DOMAIN q
  BY <1>2
<1> HIDE DEF m
<1>4. q[m] \in Overrides
  BY <1>3
<1> QED BY <1>4 DEF m

\* What the search takes is an override.
LEMMA TakenType ==
  ASSUME NEW f \in FactoryType, NEW t \in Types, NEW p,
         NEW o \in {OverrideOfType(f, t, p), OverrideOfName(f, t, p)}, o # NULL
  PROVE  o \in Overrides /\ o.ovrd \in Types
<1> DEFINE First1(q, S) == IF S = {} THEN NULL ELSE q[Min(S)]
<1>1. \A q \in Seq(Overrides) : \A S \in SUBSET DOMAIN q :
        First1(q, S) = NULL \/ First1(q, S) \in Overrides
  BY FirstIsOne
<1>2. /\ f.insts[t] \in Seq(Overrides) /\ f.overrides \in Seq(Overrides)
      /\ f.names[t] \in Seq(Overrides)
  BY DEF FactoryType
<1>3. CASE o = OverrideOfType(f, t, p)
  <2> DEFINE inst == {i \in DOMAIN f.insts[t] :
                        OfType(f.insts[t][i], t) /\ p \in f.insts[t][i].paths}
             type == {i \in DOMAIN f.overrides : OfType(f.overrides[i], t)}
  <2>1. o = Prefer(First1(f.insts[t], inst), First1(f.overrides, type))
    BY <1>3 DEF OverrideOfType, First
  <2>2. inst \subseteq DOMAIN f.insts[t] /\ type \subseteq DOMAIN f.overrides
    OBVIOUS
  <2> HIDE DEF inst, type, First1
  <2>3. o \in Overrides
    BY <1>1, <1>2, <2>1, <2>2 DEF Prefer
  <2> QED BY <2>3 DEF Overrides
<1>4. CASE o = OverrideOfName(f, t, p)
  <2> DEFINE q == IF t \in f.types THEN f.insts[t] ELSE f.names[t]
             inst == {i \in DOMAIN q : NameMatches(q[i].name, t) /\ p \in q[i].paths}
             type == {i \in DOMAIN f.overrides : f.overrides[i].name = t}
  <2>1. o = Prefer(First1(q, inst), First1(f.overrides, type))
    BY <1>4 DEF OverrideOfName, First
  <2>2. inst \subseteq DOMAIN q /\ type \subseteq DOMAIN f.overrides /\ q \in Seq(Overrides)
    BY <1>2
  <2> HIDE DEF inst, type, q, First1
  <2>3. o \in Overrides
    BY <1>1, <1>2, <2>1, <2>2 DEF Prefer
  <2> QED BY <2>3 DEF Overrides
<1> QED BY <1>3, <1>4

\* It is the function the search computes.
Searches(s, f, p) ==
  /\ Solves(s, f, p)
  /\ s \in [Types \X Seq(Overrides) -> Results]
  /\ \A t \in Types, taken \in Seq(Overrides) :
       find_override_by_type(f, t, p, taken) = s[<<t, taken>>]

\* The recursion has one.
LEMMA SearchIs == ASSUME NEW f \in FactoryType, NEW p PROVE \E s : Searches(s, f, p)
<1> DEFINE N == Cardinality(Types)
           M == 2 * N + 1
           D == Types \X Seq(Overrides)
           Partly(s, k) == /\ s \in [D -> Results]
                           /\ \A t \in Types, info \in Seq(Overrides) :
                                Len(info) >= M - k => s[<<t, info>>] = Result(s, f, p, t, info)
           I == {k \in 0 .. M : \E s : Partly(s, k)}
<1>1. N \in Nat /\ M \in Nat
  <2>1. N \in Nat
    BY FactoryAssumption, FS_CardinalityType
  <2> HIDE DEF N
  <2> QED BY <2>1
<1>2. \A info \in Seq(Overrides) : Len(info) \in Nat
  OBVIOUS
<1>3. ASSUME NEW s \in [D -> Results], NEW t \in Types, NEW info \in Seq(Overrides)
      PROVE  Result(s, f, p, t, info) \in Results
  <2> DEFINE o == OverrideOfType(f, t, p)
  <2>1. o # NULL => o.ovrd \in Types /\ Append(info, o) \in Seq(Overrides)
    BY TakenType, AppendProperties
  <2>2. /\ Found(t, TRUE) \in Results /\ Found(t, FALSE) \in Results
        /\ Found(NULL, FALSE) \in Results
    BY DEF Found, Results
  <2>3. o # NULL => s[<<o.ovrd, Append(info, o)>>] \in Results
    BY <2>1
  <2> HIDE DEF o
  <2> QED BY <2>2, <2>3 DEF Result, o
<1>4. 0 \in I
  <2> DEFINE s == [x \in D |-> Found(IF \E i \in DOMAIN x[2] : x[2][i].orig = x[1]
                                       THEN x[1] ELSE NULL,
                                     \E i \in DOMAIN x[2] : x[2][i].orig = x[1])]
  <2>1. s \in [D -> Results]
    BY DEF Found, Results
  <2>2. ASSUME NEW t \in Types, NEW info \in Seq(Overrides), Len(info) >= M - 0
        PROVE  s[<<t, info>>] = Result(s, f, p, t, info)
    <3>1. <<t, info>> \in D
      OBVIOUS
    <3>2. s[<<t, info>>] = Found(IF \E i \in DOMAIN info : info[i].orig = t THEN t ELSE NULL,
                                 \E i \in DOMAIN info : info[i].orig = t)
      BY <3>1
    <3>3. Len(info) > 2 * N
      <4> HIDE DEF N
      <4> QED BY <1>1, <1>2, <2>2
    <3> HIDE DEF s
    <3> QED BY <3>2, <3>3 DEF Result, Found
  <2> HIDE DEF s
  <2> QED BY <1>1, <2>1, <2>2
<1>5. ASSUME NEW k \in 1 .. M, k - 1 \in I PROVE k \in I
  <2>1. PICK s : Partly(s, k - 1)
    BY <1>5
  <2> DEFINE g == [x \in D |-> Result(s, f, p, x[1], x[2])]
  <2>2. s \in [D -> Results] /\ g \in [D -> Results]
    BY <1>3, <2>1
  <2>3. \A t \in Types, info \in Seq(Overrides) : g[<<t, info>>] = Result(s, f, p, t, info)
    OBVIOUS
  <2> HIDE DEF g
  <2>4. ASSUME NEW t \in Types, NEW info \in Seq(Overrides), Len(info) >= M - k
        PROVE  Result(s, f, p, t, info) = Result(g, f, p, t, info)
    <3> DEFINE o == OverrideOfType(f, t, p)
               more == Append(info, o)
    <3>1. CASE o # NULL
      <4>1. o \in Overrides /\ o.ovrd \in Types
        BY <3>1, TakenType
      <4>2. more \in Seq(Overrides) /\ Len(more) = Len(info) + 1
        BY <4>1, AppendProperties
      <4>3. Len(more) >= M - (k - 1)
        <5> HIDE DEF M, more
        <5> QED BY <1>1, <1>2, <2>4, <4>2
      <4>4. s[<<o.ovrd, more>>] = g[<<o.ovrd, more>>]
        <5> HIDE DEF M, more, o
        <5> QED BY <2>1, <2>3, <4>1, <4>2, <4>3
      <4> HIDE DEF N
      <4> QED BY <4>4 DEF Result
    <3>2. CASE o = NULL
      BY <3>2 DEF Result
    <3> QED BY <3>1, <3>2
  <2>5. Partly(g, k)
    BY <2>2, <2>3, <2>4
  <2> HIDE DEF Partly
  <2> QED BY <2>5
<1>6. M \in I
  <2>1. I \in SUBSET (0 .. M)
    OBVIOUS
  <2> HIDE DEF I, M
  <2>2. I = 0 .. M
    BY <1>1, <1>4, <1>5, <2>1, Along
  <2> QED BY <1>1, <2>2
<1>7. PICK s : Partly(s, M)
  BY <1>6
<1>8. \A t \in Types, info \in Seq(Overrides) : s[<<t, info>>] = Result(s, f, p, t, info)
  <2>1. \A info \in Seq(Overrides) : Len(info) >= M - M
    <3> HIDE DEF M
    <3> QED BY <1>1, <1>2
  <2> HIDE DEF M
  <2> QED BY <1>7, <2>1
<1>9. s \in [D -> Results]
  BY <1>7
<1>10. Solves(s, f, p)
  <2>1. \A x \in D : s[x] = Result(s, f, p, x[1], x[2])
    <3>1. \A x \in D : x[1] \in Types /\ x[2] \in Seq(Overrides) /\ x = <<x[1], x[2]>>
      OBVIOUS
    <3> QED BY <1>8, <3>1
  <2> QED BY <1>9, <2>1 DEF Solves
<1> DEFINE c == CHOOSE x : Solves(x, f, p)
<1>11. Solves(c, f, p)
  BY <1>10
<1>12. \A t \in Types, taken \in Seq(Overrides) :
         find_override_by_type(f, t, p, taken) = c[<<t, taken>>]
  BY DEF find_override_by_type, Solves, Result
<1>13. \A t \in Types, info \in Seq(Overrides) : c[<<t, info>>] = Result(c, f, p, t, info)
  BY <1>11 DEF Solves
<1>14. c = [x \in D |-> c[x]]
  BY <1>11 DEF Solves
<1> HIDE DEF c
<1> DEFINE J == {k \in 0 .. M : \A t \in Types, info \in Seq(Overrides) :
                                 Len(info) >= M - k => c[<<t, info>>] \in Results}
<1>15. \A t \in Types : Found(t, TRUE) \in Results /\ Found(t, FALSE) \in Results
  BY DEF Found, Results
<1>16. Found(NULL, FALSE) \in Results
  BY DEF Found, Results
<1>17. 0 \in J
  <2>1. ASSUME NEW t \in Types, NEW info \in Seq(Overrides), Len(info) >= M - 0
        PROVE  c[<<t, info>>] \in Results
    <3>1. Len(info) > 2 * N
      <4> HIDE DEF N
      <4> QED BY <1>1, <1>2, <2>1
    <3> QED BY <1>13, <1>15, <1>16, <3>1 DEF Result
  <2> QED BY <1>1, <2>1
<1>18. ASSUME NEW k \in 1 .. M, k - 1 \in J PROVE k \in J
  <2>1. ASSUME NEW t \in Types, NEW info \in Seq(Overrides), Len(info) >= M - k
        PROVE  c[<<t, info>>] \in Results
    <3> DEFINE o == OverrideOfType(f, t, p)
               more == Append(info, o)
    <3>1. CASE o # NULL
      <4>1. o \in Overrides /\ o.ovrd \in Types
        BY <3>1, TakenType
      <4>2. more \in Seq(Overrides) /\ Len(more) = Len(info) + 1
        BY <4>1, AppendProperties
      <4>3. Len(more) >= M - (k - 1)
        <5> HIDE DEF M, more
        <5> QED BY <1>1, <1>2, <2>1, <4>2
      <4>4. c[<<o.ovrd, more>>] \in Results
        <5> HIDE DEF M, more, o
        <5> QED BY <1>18, <4>1, <4>2, <4>3
      <4> HIDE DEF N
      <4> QED BY <1>13, <1>15, <1>16, <4>4 DEF Result
    <3>2. CASE o = NULL
      BY <1>13, <1>15, <1>16, <3>2 DEF Result
    <3> QED BY <3>1, <3>2
  <2> HIDE DEF M
  <2> QED BY <2>1
<1>19. M \in J
  <2>1. J \in SUBSET (0 .. M)
    OBVIOUS
  <2> HIDE DEF J, M
  <2>2. J = 0 .. M
    BY <1>1, <1>17, <1>18, <2>1, Along
  <2> QED BY <1>1, <2>2
<1>20. \A t \in Types, info \in Seq(Overrides) : c[<<t, info>>] \in Results
  <2>1. \A info \in Seq(Overrides) : Len(info) >= M - M
    <3> HIDE DEF M
    <3> QED BY <1>1, <1>2
  <2> HIDE DEF M
  <2> QED BY <1>19, <2>1
<1>21. c \in [D -> Results]
  <2>1. \A x \in D : c[x] \in Results
    BY <1>20
  <2> QED BY <1>14, <2>1
<1>22. Searches(c, f, p)
  BY <1>11, <1>12, <1>21 DEF Searches
<1> QED BY <1>22

-----------------------------------------------------------------------------
(* Walks from type to type *)

\* A walk of M steps, each of which depends on the type it starts at.
Follows(w, M) ==
  /\ w \in [0 .. M -> Types]
  /\ \A i, j \in 0 .. M - 1 : w[i] = w[j] => w[i + 1] = w[j + 1]

\* From the same type on, two parts of it are the same.
LEMMA Periodic ==
  ASSUME NEW M \in Nat, NEW w, Follows(w, M), NEW a \in 0 .. M, NEW b \in a .. M, w[a] = w[b]
  PROVE  \A d \in 0 .. M - b : w[a + d] = w[b + d]
<1> DEFINE I == {d \in 0 .. M - b : w[a + d] = w[b + d]}
<1>1. 0 \in I
  OBVIOUS
<1>2. ASSUME NEW d \in 1 .. M - b, d - 1 \in I PROVE d \in I
  <2>1. w[a + (d - 1)] = w[b + (d - 1)]
    BY <1>2
  <2>2. a + (d - 1) \in 0 .. M - 1 /\ b + (d - 1) \in 0 .. M - 1
    OBVIOUS
  <2>3. w[a + (d - 1) + 1] = w[b + (d - 1) + 1]
    BY <2>1, <2>2 DEF Follows
  <2>4. a + (d - 1) + 1 = a + d /\ b + (d - 1) + 1 = b + d
    OBVIOUS
  <2> QED BY <2>3, <2>4
<1>3. I \in SUBSET (0 .. M - b) /\ M - b \in Nat
  OBVIOUS
<1> HIDE DEF I
<1>4. I = 0 .. M - b
  BY <1>1, <1>2, <1>3, Along
<1> QED BY <1>4 DEF I

\* It cannot visit more types than there are.
LEMMA Repeats ==
  ASSUME NEW M \in Nat, NEW w, Follows(w, M), Cardinality(Types) <= M
  PROVE  \E i, j \in 0 .. Cardinality(Types) : i < j /\ w[i] = w[j]
<1> DEFINE N == Cardinality(Types)
           S == 0 .. N
           v == [i \in S |-> w[i]]
<1>1. N \in Nat /\ IsFiniteSet(Types)
  BY FactoryAssumption, FS_CardinalityType
<1>2. IsFiniteSet(S) /\ Cardinality(S) = N + 1
  <2> HIDE DEF N
  <2>1. N - 0 + 1 = N + 1
    BY <1>1
  <2> QED BY <1>1, <2>1, FS_Interval
<1>3. v \in [S -> Types]
  <2>1. S \subseteq 0 .. M
    <3>1. N <= M
      OBVIOUS
    <3> HIDE DEF N
    <3> QED BY <1>1, <3>1
  <2> QED BY <2>1 DEF Follows
<1>4. Cardinality(Types) < Cardinality(S)
  <2> HIDE DEF S, N
  <2>1. N < N + 1
    BY <1>1
  <2> QED BY <1>2, <2>1 DEF N
<1>5. PICK x \in S, y \in S : x # y /\ v[x] = v[y]
  <2> HIDE DEF S, v, N
  <2> QED BY <1>1, <1>2, <1>3, <1>4, FS_PigeonHole
<1>6. w[x] = w[y]
  BY <1>5
<1>7. x < y \/ y < x
  BY <1>1, <1>5
<1> QED BY <1>6, <1>7

\* Where it stops, it stays.
LEMMA Stays ==
  ASSUME NEW M \in Nat, NEW w, Follows(w, M), NEW n \in 0 .. M - 1, w[n + 1] = w[n]
  PROVE  \A m \in n .. M : w[m] = w[n]
<1> DEFINE I == {d \in 0 .. M - n : w[n + d] = w[n]}
<1>1. \A d \in 0 .. M - (n + 1) : w[n + d] = w[n + 1 + d]
  BY Periodic
<1>2. 0 \in I
  OBVIOUS
<1>3. ASSUME NEW d \in 1 .. M - n, d - 1 \in I PROVE d \in I
  <2>1. w[n + (d - 1)] = w[n + 1 + (d - 1)]
    BY <1>1
  <2>2. n + 1 + (d - 1) = n + d
    OBVIOUS
  <2> QED BY <1>3, <2>1, <2>2
<1>4. I \in SUBSET (0 .. M - n) /\ M - n \in Nat
  OBVIOUS
<1> HIDE DEF I
<1>5. I = 0 .. M - n
  BY <1>2, <1>3, <1>4, Along
<1>6. \A m \in n .. M : m - n \in I /\ n + (m - n) = m
  BY <1>5
<1> QED BY <1>6 DEF I

\* Up to its first stop it visits no type twice.
LEMMA NoReturn ==
  ASSUME NEW M \in Nat, NEW w, Follows(w, M), NEW k \in 0 .. M - 1, w[k + 1] = w[k],
         \A n \in 0 .. k - 1 : w[n + 1] # w[n]
  PROVE  \A n, m \in 0 .. k : n < m => w[n] # w[m]
<1> SUFFICES ASSUME NEW n \in 0 .. k, NEW m \in 0 .. k, n < m, w[n] = w[m] PROVE FALSE
  OBVIOUS
<1>1. /\ n \in 0 .. M /\ m \in n .. M /\ k - m \in 0 .. M - m /\ k + 1 - m \in 0 .. M - m
  OBVIOUS
<1>2. w[n + (k - m)] = w[m + (k - m)] /\ w[n + (k + 1 - m)] = w[m + (k + 1 - m)]
  BY <1>1, Periodic
<1> DEFINE x == n + (k - m)
<1>3. /\ x \in 0 .. k - 1 /\ m + (k - m) = k /\ m + (k + 1 - m) = k + 1
      /\ n + (k + 1 - m) = x + 1
  OBVIOUS
<1> HIDE DEF x
<1>4. w[x] = w[k] /\ w[x + 1] = w[k + 1]
  BY <1>2, <1>3 DEF x
<1> QED BY <1>3, <1>4

\* A walk that stops has stopped when it has seen as many types as there are.
LEMMA StopsEarly ==
  ASSUME NEW M \in Nat, NEW w, Follows(w, M), Cardinality(Types) < M,
         NEW k \in 0 .. M - 1, w[k + 1] = w[k], \A n \in 0 .. k - 1 : w[n + 1] # w[n]
  PROVE  LET N == Cardinality(Types) IN w[N] = w[k] /\ w[N + 1] = w[N]
<1> DEFINE N == Cardinality(Types)
<1>1. N \in Nat
  BY FactoryAssumption, FS_CardinalityType
<1>2. PICK i, j \in 0 .. N : i < j /\ w[i] = w[j]
  <2>1. N <= M
    <3>1. N < M
      OBVIOUS
    <3> HIDE DEF N
    <3> QED BY <1>1, <3>1
  <2> QED BY <2>1, Repeats
<1>3. \A n, m \in 0 .. k : n < m => w[n] # w[m]
  BY NoReturn
<1>4. N < M
  OBVIOUS
<1> HIDE DEF N
<1>5. k < N
  BY <1>1, <1>2, <1>3
<1>6. \A m \in k .. M : w[m] = w[k]
  BY Stays
<1>7. N \in k .. M /\ N + 1 \in k .. M
  BY <1>1, <1>4, <1>5
<1>8. w[N] = w[k] /\ w[N + 1] = w[k]
  BY <1>6, <1>7
<1> QED BY <1>8 DEF N

\* A walk that comes back to a type without a stop never stops.
LEMMA NeverStops ==
  ASSUME NEW M \in Nat, NEW w, Follows(w, M), NEW n \in 0 .. M, NEW m \in 0 .. M, n < m,
         w[n] = w[m], \A x \in 0 .. m - 1 : w[x + 1] # w[x]
  PROVE  \A k \in 0 .. M - 1 : w[k + 1] # w[k]
<1> DEFINE K == {k \in 0 .. M - 1 : w[k + 1] = w[k]}
<1> SUFFICES ASSUME K # {} PROVE FALSE
  OBVIOUS
<1>1. K \in SUBSET Nat
  OBVIOUS
<1>2. PICK k \in K : \A j \in K : k <= j
  <2> HIDE DEF K
  <2> QED BY <1>1, LeastOf
<1>3. k \in 0 .. M - 1 /\ w[k + 1] = w[k] /\ \A x \in 0 .. k - 1 : w[x + 1] # w[x]
  <2>1. k \in 0 .. M - 1 /\ w[k + 1] = w[k]
    OBVIOUS
  <2>2. ASSUME NEW x \in 0 .. k - 1, w[x + 1] = w[x] PROVE FALSE
    <3>1. x \in K
      BY <2>1, <2>2
    <3> QED BY <1>2, <2>1, <3>1
  <2> QED BY <2>1, <2>2
<1> HIDE DEF K
<1>4. \A x, y \in 0 .. k : x < y => w[x] # w[y]
  BY <1>3, NoReturn
<1>5. ~(k < m)
  BY <1>3
<1> QED BY <1>3, <1>4, <1>5

\* It visits all its types early.
LEMMA AllEarly ==
  ASSUME NEW M \in Nat, NEW w, Follows(w, M), Cardinality(Types) <= M
  PROVE  \A n \in 0 .. M : \E m \in 0 .. Cardinality(Types) : w[n] = w[m]
<1> DEFINE N == Cardinality(Types)
<1>1. N \in Nat
  BY FactoryAssumption, FS_CardinalityType
<1>2. PICK i, j \in 0 .. N : i < j /\ w[i] = w[j]
  BY Repeats
<1>3. N <= M
  OBVIOUS
<1> HIDE DEF N
<1> DEFINE I == {n \in 0 .. M : \E m \in 0 .. j - 1 : w[n] = w[m]}
<1>4. 0 \in I
  BY <1>1, <1>2
<1>5. ASSUME NEW n \in 1 .. M, n - 1 \in I PROVE n \in I
  <2>1. PICK m \in 0 .. j - 1 : w[n - 1] = w[m]
    BY <1>5
  <2>2. n - 1 \in 0 .. M - 1 /\ m \in 0 .. M - 1 /\ n - 1 + 1 = n
    BY <1>1, <1>2, <1>3
  <2>3. w[n] = w[m + 1]
    BY <2>1, <2>2 DEF Follows
  <2>4. CASE m + 1 = j
    BY <1>1, <1>2, <2>3, <2>4
  <2>5. CASE m + 1 # j
    BY <1>1, <1>2, <2>3, <2>5
  <2> QED BY <2>4, <2>5
<1>6. I \in SUBSET (0 .. M)
  OBVIOUS
<1> HIDE DEF I
<1>7. I = 0 .. M
  BY <1>4, <1>5, <1>6, Along
<1>8. 0 .. j - 1 \subseteq 0 .. N
  BY <1>1, <1>2
<1> QED BY <1>7, <1>8 DEF I, N

\* The overrides of all calls are types.
CallsTyped ==
  \A i \in Calls({"type", "type_name", "inst", "inst_name"}) : calls[i].ovrd \in Types

\* More steps than the search can make.
Steps == 2 * Cardinality(Types) + 2

\* The walk of the promises, further than it must go.
IsWalk(w, t, p) ==
  /\ w \in [0 .. Steps -> Types] /\ w[0] = t
  /\ \A i \in 0 .. Steps - 1 : w[i + 1] = Promised(w[i], p)

\* What is promised of a type is a type.
LEMMA PromisedType ==
  ASSUME calls \in Seq(Range(calls)), CallsTyped, NEW t \in Types, NEW p
  PROVE  Promised(t, p) \in Types
<1> DEFINE T == TypeCalls(t)
           R == Replacing(t)
           I == InstCalls(t, p)
           C == Calls({"type", "type_name", "inst", "inst_name"})
<1>1. /\ T \subseteq C /\ I \subseteq C /\ R \subseteq T
      /\ C \subseteq 1 .. Len(calls) /\ Len(calls) \in Nat
  <2>1. T \subseteq C /\ I \subseteq C
    BY DEF Calls, TypeCalls, InstCalls
  <2>2. R \subseteq T
    BY DEF Replacing
  <2>3. C \subseteq 1 .. Len(calls) /\ Len(calls) \in Nat
    BY DEF Calls
  <2> QED BY <2>1, <2>2, <2>3
<1>2. \A i \in C : calls[i].ovrd \in Types
  BY DEF CallsTyped
<1> HIDE DEF T, R, I, C
<1>3. (T # {} => Min(T) \in T) /\ (I # {} => Min(I) \in I)
  <2>1. T \in SUBSET Nat /\ I \in SUBSET Nat
    BY <1>1
  <2> QED BY <2>1, MinIs
<1>4. R # {} => Max(R) \in R
  <2>1. R \in SUBSET (1 .. Len(calls))
    BY <1>1
  <2> QED BY <1>1, <2>1, MaxIs
<1>5. TypePromise(t) = IF R # {} THEN calls[Max(R)].ovrd ELSE calls[Min(T)].ovrd
  BY DEF TypePromise, R, T
<1>6. T # {} => TypePromise(t) \in Types
  BY <1>1, <1>2, <1>3, <1>4, <1>5
<1>7. I # {} => calls[Min(I)].ovrd \in Types
  BY <1>1, <1>2, <1>3
<1> QED BY <1>6, <1>7, PromisedIs DEF T, I

\* Finitely many types: the bounds are numbers.
LEMMA StepsType == Cardinality(Types) \in Nat /\ Steps \in Nat /\ Cardinality(Types) + 1 < Steps
<1> DEFINE N == Cardinality(Types)
<1>1. N \in Nat
  BY FactoryAssumption, FS_CardinalityType
<1> HIDE DEF N
<1>2. 2 * N + 2 \in Nat /\ N + 1 < 2 * N + 2
  BY <1>1
<1> QED BY <1>1, <1>2 DEF N, Steps

\* There is such a walk, and Walk is its beginning.
LEMMA WalkIs ==
  ASSUME calls \in Seq(Range(calls)), CallsTyped, NEW t \in Types, NEW p
  PROVE  \E w : /\ IsWalk(w, t, p) /\ Follows(w, Steps)
                /\ \A n \in 0 .. Cardinality(Types) : Walk(t, p)[n] = w[n]
<1> DEFINE N == Cardinality(Types)
           M == Steps
           F == [x \in (1 .. M) \X Types |-> Promised(x[2], p)]
<1>1. N \in Nat /\ M \in Nat /\ N < M
  <2>1. N \in Nat /\ M \in Nat /\ N + 1 < M
    BY StepsType
  <2> HIDE DEF N, M
  <2> QED BY <2>1
<1>2. F \in [(1 .. M) \X Types -> Types]
  BY PromisedType
<1>3. \E w : Walks(w, F, t, Types, M)
  <2> HIDE DEF F, M
  <2> QED BY <1>1, <1>2, WalkExists
<1>4. PICK w : Walks(w, F, t, Types, M)
  BY <1>3
<1> HIDE DEF M, N
<1>5. w \in [0 .. M -> Types] /\ w[0] = t
  BY <1>4 DEF Walks
<1>6. \A i \in 0 .. M - 1 : w[i + 1] = Promised(w[i], p)
  <2> SUFFICES ASSUME NEW i \in 0 .. M - 1 PROVE w[i + 1] = Promised(w[i], p)
    OBVIOUS
  <2>1. i + 1 \in 1 .. M /\ i + 1 - 1 = i /\ w[i] \in Types
    BY <1>1, <1>5
  <2>2. w[i + 1] = F[<<i + 1, w[i + 1 - 1]>>]
    <3> HIDE DEF F
    <3> QED BY <1>4, <2>1 DEF Walks
  <2> QED BY <2>1, <2>2
<1>7. IsWalk(w, t, p) /\ Follows(w, M)
  BY <1>5, <1>6 DEF IsWalk, Follows, M
<1> DEFINE IsPart(v) == v = [n \in 0 .. N |-> IF n = 0 THEN t ELSE Promised(v[n - 1], p)]
           part == [n \in 0 .. N |-> w[n]]
           walk == CHOOSE v : IsPart(v)
<1>8. IsPart(part)
  <2>1. ASSUME NEW n \in 1 .. N PROVE part[n] = Promised(part[n - 1], p)
    <3>1. n - 1 \in 0 .. M - 1 /\ n - 1 + 1 = n /\ n \in 0 .. N /\ n - 1 \in 0 .. N
      BY <1>1
    <3>2. part[n] = w[n] /\ part[n - 1] = w[n - 1]
      BY <3>1
    <3>3. w[n - 1 + 1] = Promised(w[n - 1], p)
      BY <1>6, <3>1
    <3> QED BY <3>1, <3>2, <3>3
  <2>2. part[0] = t
    BY <1>1, <1>5
  <2>3. part = [n \in 0 .. N |-> part[n]]
    OBVIOUS
  <2> HIDE DEF part
  <2>4. \A n \in 0 .. N : part[n] = IF n = 0 THEN t ELSE Promised(part[n - 1], p)
    <3>1. \A n \in 0 .. N : n = 0 \/ n \in 1 .. N
      BY <1>1
    <3> QED BY <2>1, <2>2, <3>1
  <2> QED BY <2>3, <2>4
<1>9. IsPart(walk)
  BY <1>8
<1>10. Walk(t, p) = walk
  BY DEF Walk, N
<1>11. \A n \in 0 .. N : walk[n] = IF n = 0 THEN t ELSE Promised(walk[n - 1], p)
  BY <1>9
<1> DEFINE I == {n \in 0 .. N : walk[n] = w[n]}
<1> HIDE DEF walk, IsPart
<1>12. 0 \in I
  BY <1>1, <1>5, <1>11
<1>13. ASSUME NEW n \in 1 .. N, n - 1 \in I PROVE n \in I
  <2>1. n - 1 \in 0 .. M - 1 /\ n - 1 + 1 = n /\ n \in 0 .. N /\ n # 0
    BY <1>1
  <2>2. w[n - 1 + 1] = Promised(w[n - 1], p)
    BY <1>6, <2>1
  <2> QED BY <1>11, <1>13, <2>1, <2>2
<1>14. I \in SUBSET (0 .. N)
  OBVIOUS
<1>15. I = 0 .. N
  <2> HIDE DEF I
  <2> QED BY <1>1, <1>12, <1>13, <1>14, Along
<1> QED BY <1>7, <1>10, <1>15 DEF M, N

-----------------------------------------------------------------------------
(* The search follows the walk *)

\* No loop of overrides set by name of types that may be registered later.
NoLateLoop ==
  \A S \in SUBSET (Types \ Always) :
    S # {} => \E t \in S : \A v \in S : <<t, v>> \notin Pairs

\* The search has taken info on the first n steps of the walk w, without a stop and
\* without a loop, and will return what it finds from there on.
Reached(s, f, w, result, info, n) ==
  /\ info \in Seq(Overrides) /\ Len(info) = n
  /\ \A i \in 1 .. n : Entry(f, info[i], w[i - 1]) /\ info[i].ovrd = w[i]
  /\ \A b \in 0 .. n - 1 : \A i \in 1 .. b : info[i].orig # w[b]
  /\ \A m \in 0 .. n - 1 : w[m + 1] # w[m]
  /\ w[n] \in f.types
  /\ result = s[<<w[n], info>>]

\* The end of the walk, or a loop that is reported.
Outcome(result, w) ==
  LET N == Cardinality(Types) IN
  \/ w[N + 1] # w[N] /\ \E t : result = Found(t, TRUE)
  \/ w[N + 1] = w[N] /\ result = Found(w[N], FALSE)

\* A walk this long goes round a loop, and has an override with a proxy on it, which
\* the search has taken before: it is found.
LEMMA LoopIsFound ==
  ASSUME NoLateLoop, NEW s, NEW f, NEW t, NEW p, NEW w, IsWalk(w, t, p), Follows(w, Steps),
         NEW result, NEW info, NEW n \in 0 .. Steps - 1, n > 2 * Cardinality(Types),
         Reached(s, f, w, result, info, n)
  PROVE  \E i \in DOMAIN info : info[i].orig = w[n]
<1> DEFINE N == Cardinality(Types)
           M == Steps
<1>1. N \in Nat /\ M \in Nat /\ N < M /\ M = 2 * N + 2 /\ n > 2 * N
  <2>1. N \in Nat /\ M \in Nat /\ N + 1 < M
    BY StepsType
  <2>2. M = 2 * N + 2 /\ n > 2 * N
    BY DEF Steps
  <2> HIDE DEF N, M
  <2> QED BY <2>1, <2>2
<1>2. PICK i, j \in 0 .. N : i < j /\ w[i] = w[j]
  <2>1. N <= M
    <3> HIDE DEF N, M
    <3> QED BY <1>1
  <2> QED BY <1>1, <2>1, Repeats
<1>3. /\ \A k \in 1 .. n : Entry(f, info[k], w[k - 1]) /\ info[k].ovrd = w[k]
      /\ \A b \in 0 .. n - 1 : \A k \in 1 .. b : info[k].orig # w[b]
  BY DEF Reached
<1>4. w \in [0 .. M -> Types] /\ Follows(w, M)
  BY DEF IsWalk
<1> HIDE DEF M, N
<1>5. \A d \in 0 .. M - j : w[i + d] = w[j + d]
  <2>1. i \in 0 .. M /\ j \in i .. M
    BY <1>1, <1>2
  <2> QED BY <1>1, <1>2, <1>4, <2>1, Periodic
<1>6. ASSUME NEW m \in i .. j - 1
      PROVE  w[m] \in Types \ Always /\ <<w[m], w[m + 1]>> \in Pairs
  <2> DEFINE d == m - i
             b == j + d
  <2>1. /\ d \in 0 .. M - j /\ i + d = m /\ b \in 0 .. n - 1 /\ m + 1 \in 1 .. b
        /\ m + 1 \in 1 .. n /\ m + 1 - 1 = m /\ m \in 0 .. M
    BY <1>1, <1>2
  <2>2. w[m] = w[b]
    <3>1. w[i + d] = w[j + d]
      BY <1>5, <2>1
    <3> QED BY <2>1, <3>1
  <2> HIDE DEF b, d
  <2>3. info[m + 1].orig # w[m]
    BY <1>3, <2>1, <2>2
  <2>4. Entry(f, info[m + 1], w[m]) /\ info[m + 1].ovrd = w[m + 1]
    BY <1>3, <2>1
  <2>5. w[m] \in Types
    BY <1>4, <2>1
  <2> QED BY <2>3, <2>4, <2>5 DEF Entry
<1> DEFINE S == {w[m] : m \in i .. j - 1}
<1>7. S \in SUBSET (Types \ Always) /\ S # {}
  <2>1. i \in i .. j - 1
    BY <1>1, <1>2
  <2> QED BY <1>6, <2>1
<1>8. PICK m \in i .. j - 1 : \A v \in S : <<w[m], v>> \notin Pairs
  <2> HIDE DEF S
  <2>1. PICK x \in S : \A v \in S : <<x, v>> \notin Pairs
    BY <1>7 DEF NoLateLoop
  <2> QED BY <2>1 DEF S
<1>9. w[m + 1] \in S
  <2>1. CASE m + 1 = j
    <3>1. i \in i .. j - 1
      BY <1>1, <1>2
    <3> QED BY <1>2, <2>1, <3>1
  <2>2. CASE m + 1 # j
    <3>1. m + 1 \in i .. j - 1
      BY <1>1, <1>2, <2>2
    <3> QED BY <3>1
  <2> QED BY <2>1, <2>2
<1> QED BY <1>6, <1>8, <1>9

\* One more step of the search.
LEMMA SearchStep ==
  ASSUME NoLateLoop, NEW f, History(f), NEW p \in Paths,
         NEW s, Solves(s, f, p), NEW t, NEW w, IsWalk(w, t, p), Follows(w, Steps),
         \A k \in 0 .. Steps : w[k] \notin Early,
         NEW result, NEW info, NEW n \in 0 .. Steps - 1, Reached(s, f, w, result, info, n)
  PROVE  \/ Outcome(result, w)
         \/ n + 1 \in 0 .. Steps - 1 /\ \E more : Reached(s, f, w, result, more, n + 1)
<1> DEFINE N == Cardinality(Types)
           M == Steps
           o == OverrideOfType(f, w[n], p)
<1>1. N \in Nat /\ M \in Nat /\ N < M /\ N + 1 < M /\ M = 2 * N + 2
  <2>1. N \in Nat /\ M \in Nat /\ N + 1 < M
    BY StepsType
  <2>2. M = 2 * N + 2
    BY DEF Steps
  <2> HIDE DEF N, M
  <2> QED BY <2>1, <2>2
<1>2. /\ info \in Seq(Overrides) /\ Len(info) = n /\ DOMAIN info = 1 .. n
      /\ \A i \in 1 .. n : Entry(f, info[i], w[i - 1]) /\ info[i].ovrd = w[i]
      /\ \A b \in 0 .. n - 1 : \A i \in 1 .. b : info[i].orig # w[b]
      /\ \A m \in 0 .. n - 1 : w[m + 1] # w[m]
      /\ w[n] \in f.types
      /\ result = s[<<w[n], info>>]
  <2>1. info \in Seq(Overrides) /\ Len(info) = n
    BY DEF Reached
  <2>2. DOMAIN info = 1 .. n
    BY <2>1
  <2> QED BY <2>1, <2>2 DEF Reached
<1>3. /\ w \in [0 .. M -> Types] /\ Follows(w, M)
      /\ \A i \in 0 .. M - 1 : w[i + 1] = Promised(w[i], p)
  BY DEF IsWalk
<1>4. n \in 0 .. M /\ n + 1 \in 0 .. M /\ n \in 0 .. M - 1
  <2>1. n \in 0 .. M - 1
    OBVIOUS
  <2> HIDE DEF M
  <2> QED BY <1>1, <2>1
<1>5. result = Result(s, f, p, w[n], info)
  BY <1>2, <1>3, <1>4 DEF Solves
<1>6. w[n] \in Types \ Early
  BY <1>3, <1>4
<1>7. Takes(f, o, w[n], p)
  BY <1>2, <1>6, TakesPromised
<1>8. w[n + 1] = Promised(w[n], p)
  BY <1>3, <1>4
<1>9. CASE \E i \in DOMAIN info : info[i].orig = w[n]
  <2>1. PICK i \in 1 .. n : info[i].orig = w[n]
    BY <1>2, <1>9
  <2>2. w[i - 1] = w[n]
    <3>1. w[n] # NULL
      BY <1>6, FactoryAssumption
    <3> QED BY <1>2, <2>1, <3>1 DEF Entry
  <2>3. \A k \in 0 .. M - 1 : w[k + 1] # w[k]
    <3>1. i - 1 \in 0 .. M /\ i - 1 < n
      <4> HIDE DEF M
      <4> QED BY <1>1, <1>4
    <3> HIDE DEF M
    <3>2. M \in Nat /\ Follows(w, M) /\ n \in 0 .. M
      BY <1>1, <1>3, <1>4
    <3>3. \A m \in 0 .. n - 1 : w[m + 1] # w[m]
      BY <1>2
    <3> QED BY ONLY <2>2, <3>1, <3>2, <3>3, NeverStops
  <2>4. N \in 0 .. M - 1
    <3> HIDE DEF N, M
    <3> QED BY <1>1
  <2>5. result = Found(w[n], TRUE)
    BY <1>5, <1>9 DEF Result
  <2>6. w[N + 1] # w[N]
    <3> HIDE DEF N, M
    <3> QED BY <2>3, <2>4
  <2> QED BY <2>5, <2>6 DEF Outcome
<1>10. CASE ~(\E i \in DOMAIN info : info[i].orig = w[n])
  <2>1. ~(n > 2 * N)
    BY <1>10, LoopIsFound
  <2>2. ~(Len(info) > 2 * Cardinality(Types))
    BY <1>2, <2>1
  <2>3. CASE o = NULL \/ o.ovrd = w[n]
    <3>1. w[n + 1] = w[n]
      BY <1>7, <1>8, <2>3 DEF Takes
    <3>2. result = Found(w[n], FALSE)
      BY <1>5, <1>10, <2>2, <2>3, Zenon DEF Result
    <3>3. w[N] = w[n] /\ w[N + 1] = w[N]
      <4>1. Cardinality(Types) < M
        BY <1>1
      <4> HIDE DEF M
      <4> QED BY <1>1, <1>2, <1>3, <1>4, <3>1, <4>1, StopsEarly
    <3> QED BY <3>2, <3>3 DEF Outcome
  <2>4. CASE ~(o = NULL \/ o.ovrd = w[n])
    <3> DEFINE more == Append(info, o)
    <3>1. Entry(f, o, w[n]) /\ o.ovrd = w[n + 1] /\ o.ovrd # w[n] /\ o \in Overrides
      <4>1. Entry(f, o, w[n]) /\ o.ovrd = w[n + 1] /\ o.ovrd # w[n]
        BY <1>7, <1>8, <2>4 DEF Takes
      <4> QED BY <4>1 DEF Entry
    <3>2. result = s[<<w[n + 1], more>>]
      BY <1>5, <1>10, <2>2, <2>4, <3>1, Zenon DEF Result
    <3>3. n + 1 \in 0 .. M - 1
      <4> HIDE DEF N, M
      <4> QED BY <1>1, <1>4, <2>1
    <3> HIDE DEF o
    <3>4. /\ more \in Seq(Overrides) /\ Len(more) = n + 1 /\ more[n + 1] = o
          /\ \A i \in 1 .. n : more[i] = info[i]
      BY <1>2, <3>1, AppendProperties
    <3>5. \A i \in 1 .. n + 1 : i \in 1 .. n \/ i = n + 1
      OBVIOUS
    <3> HIDE DEF more
    <3>6. \A i \in 1 .. n + 1 : Entry(f, more[i], w[i - 1]) /\ more[i].ovrd = w[i]
      <4>1. n + 1 - 1 = n
        OBVIOUS
      <4> QED BY <1>2, <3>1, <3>4, <3>5, <4>1
    <3>7. \A b \in 0 .. n + 1 - 1 : \A i \in 1 .. b : more[i].orig # w[b]
      <4>1. ASSUME NEW b \in 0 .. n, NEW i \in 1 .. b PROVE more[i].orig # w[b]
        <5>1. i \in 1 .. n /\ more[i] = info[i]
          BY <3>4
        <5>2. CASE b = n
          BY <1>2, <1>10, <5>1, <5>2
        <5>3. CASE b # n
          <6>1. b \in 0 .. n - 1
            BY <5>3
          <6> QED BY <1>2, <5>1, <6>1
        <5> QED BY <5>2, <5>3
      <4>2. n + 1 - 1 = n
        OBVIOUS
      <4> QED BY <4>1, <4>2
    <3>8. \A m \in 0 .. n + 1 - 1 : w[m + 1] # w[m]
      <4>1. \A m \in 0 .. n + 1 - 1 : m \in 0 .. n - 1 \/ m = n
        OBVIOUS
      <4> QED BY <1>2, <3>1, <4>1
    <3>9. w[n + 1] \in f.types
      BY <3>1 DEF Entry
    <3>10. Reached(s, f, w, result, more, n + 1)
      BY <3>2, <3>4, <3>6, <3>7, <3>8, <3>9 DEF Reached
    <3> QED BY <3>3, <3>10
  <2> QED BY <2>3, <2>4
<1> QED BY <1>9, <1>10

\* From its first step the search goes on to an outcome.
LEMMA SearchEnds ==
  ASSUME NoLateLoop, NEW f, History(f), NEW p \in Paths,
         NEW s, Solves(s, f, p), NEW t, NEW w, IsWalk(w, t, p), Follows(w, Steps),
         \A k \in 0 .. Steps : w[k] \notin Early,
         NEW result, NEW info, NEW n \in {0, 1}, Reached(s, f, w, result, info, n)
  PROVE  Outcome(result, w)
<1> SUFFICES ASSUME ~Outcome(result, w) PROVE FALSE
  OBVIOUS
<1> DEFINE M == Steps - 1
           I == {d \in 0 .. M - n : \E more : Reached(s, f, w, result, more, n + d)}
<1>1. M \in Nat /\ n \in 0 .. M
  <2> DEFINE N == Cardinality(Types)
  <2>1. N \in Nat /\ Steps \in Nat /\ N + 1 < Steps
    BY StepsType
  <2> HIDE DEF N
  <2> QED BY <2>1
<1> HIDE DEF M
<1>2. 0 \in I
  BY <1>1
<1>3. ASSUME NEW d \in 0 .. M - n, NEW more, Reached(s, f, w, result, more, n + d)
      PROVE  n + d + 1 \in 0 .. M /\ \E x : Reached(s, f, w, result, x, n + d + 1)
  <2>1. n + d \in 0 .. Steps - 1
    BY <1>1 DEF M
  <2> QED BY <1>3, <2>1, SearchStep DEF M
<1>4. ASSUME NEW d \in 1 .. M - n, d - 1 \in I PROVE d \in I
  <2>1. d - 1 \in 0 .. M - n /\ n + (d - 1) + 1 = n + d
    BY <1>1
  <2>2. PICK more : Reached(s, f, w, result, more, n + (d - 1))
    BY <1>4
  <2>3. \E x : Reached(s, f, w, result, x, n + (d - 1) + 1)
    BY <1>3, <2>1, <2>2
  <2> QED BY <2>1, <2>3
<1>5. I \in SUBSET (0 .. M - n) /\ M - n \in Nat
  BY <1>1
<1>6. M - n \in I
  <2> HIDE DEF I
  <2>1. I = 0 .. M - n
    BY <1>2, <1>4, <1>5, Along
  <2> QED BY <1>5, <2>1
<1>7. PICK more : Reached(s, f, w, result, more, n + (M - n))
  BY <1>6
<1>8. n + (M - n) + 1 \in 0 .. M
  BY <1>3, <1>5, <1>7
<1> QED BY <1>1, <1>8

\* What an outcome says of what was made.
LEMMA OutcomeFulfils ==
  ASSUME NEW t, NEW p, NEW w, IsWalk(w, t, p),
         \A n \in 0 .. Cardinality(Types) : Walk(t, p)[n] = w[n],
         NEW found, Outcome(found, w)
  PROVE  Fulfils(found, t, p)
<1> DEFINE N == Cardinality(Types)
<1>1. N \in 0 .. N /\ N \in 0 .. Steps - 1
  <2>1. N \in Nat /\ Steps \in Nat /\ N + 1 < Steps
    BY StepsType
  <2> HIDE DEF N
  <2> QED BY <2>1
<1>2. Walk(t, p)[N] = w[N] /\ w[N + 1] = Promised(w[N], p)
  BY <1>1 DEF IsWalk
<1>3. CASE w[N + 1] # w[N] /\ \E u : found = Found(u, TRUE)
  <2>1. found.loop = TRUE
    BY <1>3 DEF Found
  <2> QED BY <1>2, <1>3, <2>1 DEF Fulfils
<1>4. CASE w[N + 1] = w[N] /\ found = Found(w[N], FALSE)
  <2>1. found.loop = FALSE /\ found.type = w[N]
    BY <1>4 DEF Found
  <2> QED BY <1>2, <1>4, <2>1 DEF Fulfils
<1> QED BY <1>3, <1>4 DEF Outcome

\* What is created by type, or by name, is what the calls promise.
LEMMA CreatedIs ==
  ASSUME NoLateLoop, calls \in Seq(Range(calls)), CallsTyped,
         NEW f, History(f), NEW p \in Paths, NEW t \in Types,
         \A n \in 0 .. Cardinality(Types) : Walk(t, p)[n] \notin Early
  PROVE  /\ t \in f.types => Fulfils(find_override_by_type(f, t, p, <<>>), t, p)
         /\ Fulfils(find_override_by_name(f, t, p), t, p)
<1> DEFINE N == Cardinality(Types)
<1>1. PICK w : /\ IsWalk(w, t, p) /\ Follows(w, Steps)
               /\ \A n \in 0 .. N : Walk(t, p)[n] = w[n]
  BY WalkIs
<1>2. N \in Nat /\ Steps \in Nat /\ N + 1 < Steps /\ N <= Steps /\ 0 \in 0 .. Steps - 1
      /\ N \in 0 .. Steps - 1
  <2>1. N \in Nat /\ Steps \in Nat /\ N + 1 < Steps
    BY StepsType
  <2> HIDE DEF N
  <2> QED BY <2>1
<1>3. \A k \in 0 .. Steps : w[k] \notin Early
  <2>1. \A k \in 0 .. Steps : \E m \in 0 .. N : w[k] = w[m]
    BY <1>1, <1>2, AllEarly
  <2> QED BY <1>1, <2>1
<1>4. f \in FactoryType
  BY DEF History
<1>5. PICK s : Searches(s, f, p)
  BY <1>4, SearchIs
<1>6. w \in [0 .. Steps -> Types] /\ w[0] = t /\ w[0 + 1] = Promised(t, p)
  BY <1>1, <1>2 DEF IsWalk
<1>7. ASSUME w[0 + 1] = w[0] PROVE w[N] = t /\ w[N + 1] = w[N]
  <2>1. \A n \in 0 .. 0 - 1 : w[n + 1] # w[n]
    OBVIOUS
  <2>2. w[N] = w[0] /\ w[N + 1] = w[N]
    <3>1. Cardinality(Types) < Steps
      <4>1. N < Steps
        <5> HIDE DEF N
        <5> QED BY <1>2
      <4> QED BY <4>1
    <3> QED BY <1>1, <1>2, <1>7, <2>1, <3>1, StopsEarly
  <2> QED BY <1>6, <2>2
<1>8. ASSUME t \in f.types PROVE Fulfils(find_override_by_type(f, t, p, <<>>), t, p)
  <2> DEFINE result == find_override_by_type(f, t, p, <<>>)
  <2>1. <<>> \in Seq(Overrides)
    OBVIOUS
  <2>2. result = s[<<w[0], <<>> >>]
    BY <1>5, <1>6, <2>1 DEF Searches
  <2> HIDE DEF result
  <2>3. Reached(s, f, w, result, <<>>, 0)
    BY <1>6, <1>8, <2>1, <2>2 DEF Reached
  <2>4. Outcome(result, w)
    <3>1. Solves(s, f, p)
      BY <1>5 DEF Searches
    <3> QED BY <1>1, <1>3, <2>3, <3>1, SearchEnds
  <2> QED BY <1>1, <2>4, OutcomeFulfils DEF result
<1>9. Fulfils(find_override_by_name(f, t, p), t, p)
  <2> DEFINE result == find_override_by_name(f, t, p)
             o == OverrideOfName(f, t, p)
  <2>1. t \in Types \ Early
    BY <1>2, <1>3, <1>6
  <2>2. Takes(f, o, t, p)
    BY <2>1, TakesPromised
  <2>3. CASE o = NULL
    <3>1. w[0 + 1] = w[0]
      BY <1>6, <2>2, <2>3 DEF Takes
    <3>2. result = Found(Proxy(f, t), FALSE)
      BY <2>3 DEF find_override_by_name
    <3>3. result.loop = FALSE /\ (result.type = t \/ result.type = NULL)
      BY <3>2 DEF Found, Proxy
    <3> HIDE DEF result
    <3>4. Walk(t, p)[N] = t /\ Promised(t, p) = t
      <4>1. N \in 0 .. N
        <5> HIDE DEF N
        <5> QED BY <1>2
      <4> QED BY <1>1, <1>6, <1>7, <3>1, <4>1
    <3> QED BY <3>3, <3>4 DEF Fulfils, result
  <2>4. CASE o # NULL /\ o.ovrd = t
    <3>1. w[0 + 1] = w[0]
      BY <1>6, <2>2, <2>4 DEF Takes
    <3>2. result = Found(t, FALSE)
      BY <2>4 DEF find_override_by_name
    <3>3. Outcome(result, w)
      BY <1>7, <3>1, <3>2 DEF Outcome
    <3> HIDE DEF result
    <3> QED BY <1>1, <3>3, OutcomeFulfils DEF result
  <2>5. CASE o # NULL /\ o.ovrd # t
    <3>1. Entry(f, o, t) /\ o.ovrd = w[1] /\ o \in Overrides /\ o.ovrd \in Types
      <4>1. Entry(f, o, t) /\ o.ovrd = w[1]
        BY <1>6, <2>2, <2>5 DEF Takes
      <4> QED BY <4>1 DEF Entry, Overrides
    <3> DEFINE info == <<o>>
    <3>2. info \in Seq(Overrides) /\ Len(info) = 1 /\ info[1] = o
      <4> HIDE DEF o
      <4> QED BY <3>1
    <3>3. result = s[<<w[1], info>>]
      <4>1. result = find_override_by_type(f, o.ovrd, p, info)
        BY <2>5 DEF find_override_by_name
      <4> HIDE DEF result, info, o
      <4> QED BY <1>5, <3>1, <3>2, <4>1 DEF Searches
    <3> HIDE DEF result, info, o
    <3>4. Reached(s, f, w, result, info, 1)
      <4>1. /\ \A i \in 1 .. 1 : i = 1 /\ i - 1 = 0
            /\ \A b \in 0 .. 1 - 1 : b = 0 /\ 0 + 1 = 1
        OBVIOUS
      <4>2. w[1] \in f.types
        BY <3>1 DEF Entry
      <4>3. w[0 + 1] # w[0]
        BY <1>6, <2>5, <3>1
      <4> QED BY <1>6, <3>1, <3>2, <3>3, <4>1, <4>2, <4>3 DEF Reached
    <3>5. Outcome(result, w)
      <4>1. Solves(s, f, p)
        BY <1>5 DEF Searches
      <4> QED BY <1>1, <1>3, <3>4, <4>1, SearchEnds
    <3> QED BY <1>1, <3>5, OutcomeFulfils DEF result
  <2> QED BY <2>3, <2>4, <2>5
<1> QED BY <1>8, <1>9

-----------------------------------------------------------------------------
(* What is made *)

\* What was made, and the overrides of the calls, are types.
Typed ==
  /\ turn \in 0 .. Built
  /\ made \in [Components -> Results]
  /\ CallsTyped

\* What a search finds is a type of the factory, or NULL.
LEMMA FoundType ==
  ASSUME NEW f \in FactoryType, NEW t \in Types, NEW p
  PROVE  /\ find_override_by_type(f, t, p, <<>>) \in Results
         /\ find_override_by_name(f, t, p) \in Results
<1>1. PICK s : Searches(s, f, p)
  BY SearchIs
<1>2. \A u \in Types, info \in Seq(Overrides) : find_override_by_type(f, u, p, info) \in Results
  <2>1. \A u \in Types, info \in Seq(Overrides) : <<u, info>> \in Types \X Seq(Overrides)
    OBVIOUS
  <2> QED BY <1>1, <2>1 DEF Searches
<1>3. <<>> \in Seq(Overrides) /\ \A o \in Overrides : <<o>> \in Seq(Overrides)
  OBVIOUS
<1>4. Found(Proxy(f, t), FALSE) \in Results /\ Found(t, FALSE) \in Results
  BY DEF Found, Proxy, Results
<1> DEFINE o == OverrideOfName(f, t, p)
<1>5. o # NULL => o \in Overrides /\ o.ovrd \in Types
  BY TakenType
<1>6. find_override_by_name(f, t, p) =
        IF o = NULL THEN Found(Proxy(f, t), FALSE)
        ELSE IF o.ovrd = t THEN Found(t, FALSE)
        ELSE find_override_by_type(f, o.ovrd, p, <<o>>)
  BY DEF find_override_by_name
<1> HIDE DEF o
<1>7. find_override_by_name(f, t, p) \in Results
  BY <1>2, <1>3, <1>4, <1>5, <1>6
<1> QED BY <1>2, <1>3, <1>7

\* The component that is created, and the type asked for it.
LEMMA Creating ==
  ASSUME turn \in 1 .. Len(Order)
  PROVE  /\ Order[turn] \in Components /\ Order[turn] \in Paths
         /\ Request[Order[turn]] \in Types
<1>1. turn \in DOMAIN Order /\ Order \in Seq(Paths)
  BY BuildAssumption
<1> QED BY <1>1, BuildAssumption DEF Components

\* A creation makes what the search finds.
LEMMA CreateIs ==
  ASSUME Sane, Typed, create_by_type \/ create_by_name
  PROVE  LET c == Order[turn]
             t == Request[c]
             f == Registered(factory, t)
         IN /\ turn \in 1 .. Len(Order) /\ calls' = calls
            /\ \/ /\ History(f) /\ t \in f.types
                  /\ made' = [made EXCEPT ![c] = find_override_by_type(f, t, c, <<>>)]
               \/ made' = [made EXCEPT ![c] = find_override_by_name(factory, t, c)]
            /\ turn' \in 0 .. Built
<1>1. turn \in 1 .. Len(Order)
  BY DEF create_by_type, create_by_name, create
<1>2. /\ Order[turn] \in Components /\ Request[Order[turn]] \in Types
  BY <1>1, Creating
<1> DEFINE c == Order[turn]
           t == Request[c]
           f == Registered(factory, t)
<1>3. Len(Order) \in Nat /\ Built = Len(Order) + 2
  BY BuildAssumption DEF Built
<1>4. Built \in 0 .. Built /\ turn + 1 \in 0 .. Built
  BY <1>1, <1>3
<1>5. History(f)
  <2>1. History(factory)
    BY DEF Sane
  <2> QED BY <1>2, <2>1, RegisteredKeeps
<1>6. t \in f.types
  <2>1. factory \in FactoryType /\ Clean(factory)
    BY DEF Sane, History
  <2>2. f.types = factory.types \cup {t}
    BY <1>2, <2>1, RegisteredIs
  <2> QED BY <2>2
<1>7. calls' = calls /\ (turn' = Built \/ turn' = turn + 1)
  BY Zenon DEF create_by_type, create_by_name, create
<1>8. ASSUME create_by_type
      PROVE  made' = [made EXCEPT ![c] = find_override_by_type(f, t, c, <<>>)]
  BY <1>8, Zenon DEF create_by_type, create
<1>9. ASSUME create_by_name
      PROVE  made' = [made EXCEPT ![c] = find_override_by_name(factory, t, c)]
  BY <1>9, Zenon DEF create_by_name, create
<1>10. turn' \in 0 .. Built
  BY <1>4, <1>7
<1> HIDE DEF c, t, f
<1>11. \/ /\ History(f) /\ t \in f.types
          /\ made' = [made EXCEPT ![c] = find_override_by_type(f, t, c, <<>>)]
       \/ made' = [made EXCEPT ![c] = find_override_by_name(factory, t, c)]
  BY <1>5, <1>6, <1>8, <1>9
<1> QED BY <1>1, <1>7, <1>10, <1>11 DEF c, t, f

\* A call is of an override to a type, or of something else.
LEMMA TypedCall ==
  ASSUME Sane, Typed, NEW call, Called(call),
         call.op \in {"type", "type_name", "inst", "inst_name"} => call.ovrd \in Types
  PROVE  Typed'
<1> DEFINE k == Len(calls) + 1
<1>1. /\ DOMAIN calls = 1 .. Len(calls) /\ DOMAIN calls' = 1 .. k
      /\ \A i \in DOMAIN calls : calls'[i] = calls[i]
      /\ calls'[k] = call /\ Len(calls) \in Nat
  BY CallsGrow DEF Sane
<1>2. \A i \in DOMAIN calls' : i = k \/ i \in DOMAIN calls
  BY <1>1
<1> HIDE DEF k
<1>3. CallsTyped'
  BY <1>1, <1>2 DEF Typed, CallsTyped, Calls
<1>4. UNCHANGED <<turn, made>>
  BY DEF Called
<1> QED BY <1>3, <1>4 DEF Typed

\* Each step keeps the types.
LEMMA TypedKept == Sane /\ Typed /\ [Next]_vars => Typed'
<1> SUFFICES ASSUME Sane, Typed, [Next]_vars PROVE Typed'
  OBVIOUS
<1>1. ASSUME NEW op, NEW name, NEW ovrd, NEW paths, NEW flag,
             CallFactory(op, name, ovrd, paths, flag),
             ovrd \in Types \/ op = "register"
      PROVE  Typed'
  <2> DEFINE call == [op |-> op, name |-> name, ovrd |-> ovrd, paths |-> paths,
                      flag |-> flag, types |-> factory.types]
  <2>1. Called(call) /\ call.op = op /\ call.ovrd = ovrd
    BY <1>1 DEF CallFactory
  <2> HIDE DEF call
  <2> QED BY <1>1, <2>1, TypedCall
<1>2. \A r \in Pairs : r[2] \in Types
  BY BuildAssumption
<1>3. ASSUME NEW t, register(t) PROVE Typed'
  BY <1>1, <1>3 DEF register
<1>4. ASSUME NEW r \in Pairs, NEW replace, set_type_override(r[1], r[2], replace) PROVE Typed'
  BY <1>1, <1>2, <1>4 DEF set_type_override
<1>5. ASSUME NEW r \in Pairs, NEW paths, set_inst_override(r[1], r[2], paths) PROVE Typed'
  BY <1>1, <1>2, <1>5 DEF set_inst_override
<1>6. ASSUME NEW r \in Pairs, NEW paths, set_wildcard_override(r[1], r[2], paths) PROVE Typed'
  BY <1>1, <1>2, <1>6 DEF set_wildcard_override
<1>7. ASSUME NEW context, NEW scope, set_config(context, scope) PROVE Typed'
  <2> DEFINE call == [op |-> "config", level |-> IF Building THEN get_depth(context) ELSE 0,
                      scope |-> scope]
  <2>1. Called(call) /\ call.op = "config"
    BY <1>7 DEF set_config
  <2> HIDE DEF call
  <2> QED BY <2>1, TypedCall
<1>8. ASSUME (\E c \in Components : Read(c)) \/ UNCHANGED vars PROVE Typed'
  BY <1>8 DEF Read, vars, Typed, CallsTyped, Calls
<1>9. ASSUME traverse PROVE Typed'
  <2>1. turn' \in 0 .. Built
    <3>1. Built \in Nat /\ turn \in {0, Built - 1} /\ turn' = turn + 1 /\ Built # 0
      BY <1>9, BuildAssumption DEF traverse, Built
    <3> QED BY <3>1
  <2>2. UNCHANGED <<made, calls>>
    BY <1>9 DEF traverse
  <2> QED BY <2>1, <2>2 DEF Typed, CallsTyped, Calls
<1>10. ASSUME create_by_type \/ create_by_name PROVE Typed'
  <2> DEFINE c == Order[turn]
             t == Request[c]
             f == Registered(factory, t)
             byType == find_override_by_type(f, t, c, <<>>)
             byName == find_override_by_name(factory, t, c)
  <2>1. /\ turn \in 1 .. Len(Order) /\ calls' = calls
        /\ \/ History(f) /\ made' = [made EXCEPT ![c] = byType]
           \/ made' = [made EXCEPT ![c] = byName]
        /\ turn' \in 0 .. Built
    BY <1>10, CreateIs
  <2>2. t \in Types
    BY <2>1, Creating
  <2>3. factory \in FactoryType
    BY DEF Sane, History
  <2>4. byName \in Results
    BY <2>2, <2>3, FoundType
  <2>5. History(f) => byType \in Results
    <3>1. ASSUME History(f) PROVE f \in FactoryType
      BY <3>1 DEF History
    <3> HIDE DEF f
    <3> QED BY <2>2, <3>1, FoundType
  <2> HIDE DEF byType, byName, c, f
  <2>6. made' \in [Components -> Results]
    BY <2>1, <2>4, <2>5 DEF Typed
  <2> QED BY <2>1, <2>6 DEF Typed, CallsTyped, Calls
<1> QED BY <1>3, <1>4, <1>5, <1>6, <1>7, <1>8, <1>9, <1>10 DEF Next


\* The step.
LEMMA CreationFulfils ==
  ASSUME NoLateLoop, Sane, Typed, [Next]_vars, NEW c \in Components, Creates(c),
         \A n \in 0 .. Cardinality(Types) : Walk(Request[c], c)[n] \notin Early
  PROVE  Fulfils(made'[c], Request[c], c)
<1>1. turn \in 1 .. Len(Order) /\ c = Order[turn] /\ turn' # turn
  BY DEF Creates
<1>2. ~traverse
  <2>1. turn # 0 /\ turn # Built - 1
    BY <1>1, BuildAssumption DEF Built
  <2> QED BY <2>1 DEF traverse
<1>3. create_by_type \/ create_by_name
  BY <1>1, <1>2 DEF Next, register, set_type_override, set_inst_override,
     set_wildcard_override, CallFactory, set_config, Called, Read, vars
<1> DEFINE t == Request[c]
           f == Registered(factory, t)
           byType == find_override_by_type(f, t, c, <<>>)
           byName == find_override_by_name(factory, t, c)
<1>4. \/ History(f) /\ t \in f.types /\ made' = [made EXCEPT ![c] = byType]
      \/ made' = [made EXCEPT ![c] = byName]
  BY <1>1, <1>3, CreateIs
<1>5. t \in Types /\ c \in Paths
  BY <1>1, Creating
<1>6. calls \in Seq(Range(calls)) /\ CallsTyped /\ History(factory)
  BY DEF Sane, Typed
<1>7. Fulfils(byName, t, c)
  BY <1>5, <1>6, CreatedIs
<1>8. ASSUME History(f), t \in f.types PROVE Fulfils(byType, t, c)
  <2> HIDE DEF f
  <2> QED BY <1>5, <1>6, <1>8, CreatedIs
<1> HIDE DEF byType, byName, f
<1>9. made'[c] = byName \/ (made'[c] = byType /\ History(f) /\ t \in f.types)
  BY <1>4 DEF Typed
<1> QED BY <1>7, <1>8, <1>9

-----------------------------------------------------------------------------

\* The pool of resources holds the settings made so far, in the order uvm_config_db::set
\* has put them into it, each with the precedence of its level: 0 outside the build
\* phase, the depth of its context in it.
THEOREM PoolIsHistory == Spec => []PoolInv
<1>1. Init => PoolInv
  BY DEF Init, ConfigInit, PoolInv, Calls, Range
<1> QED BY <1>1, PoolKept, PTL DEF Spec

\* In every hierarchy, whatever was set, made and read before, a component reads a
\* setting made outside the build phase, else the one made highest - uvm_top is as
\* deep as the test -, of equals the latest, and nothing if there is none.
THEOREM HighestIsRead == Spec => ReadsTheHighest
<1> DEFINE Reads ==
      seen' \notin {seen, Unread} =>
        LET settings == Settings(seen'.reader) IN
        IF settings = {}
          THEN seen'.value = 0
          ELSE /\ seen'.value \in settings
               /\ \A j \in settings \ {seen'.value} : Beats(seen'.value, j)
<1>1. ASSUME PoolInv, [Next]_vars PROVE Reads
  <2> SUFFICES ASSUME seen' \notin {seen, Unread}
               PROVE  LET settings == Settings(seen'.reader) IN
                      IF settings = {}
                        THEN seen'.value = 0
                        ELSE /\ seen'.value \in settings
                             /\ \A j \in settings \ {seen'.value} : Beats(seen'.value, j)
    OBVIOUS
  <2>1. PICK c \in Components : Read(c)
    BY <1>1 DEF Next, register, set_type_override, set_inst_override, set_wildcard_override,
                CallFactory, set_config, Called, create_by_type, create_by_name, create,
                traverse, vars
  <2>2. seen'.reader = c /\ seen'.value = get(c, 0)
    BY <2>1 DEF Read
  <2> QED BY <1>1, <2>2, GetsTheHighest
<1>2. Reads => [Reads]_vars
  OBVIOUS
<1>3. Spec => [][Reads]_vars
  BY <1>1, <1>2, PoolIsHistory, PTL DEF Spec
<1> QED BY <1>3 DEF ReadsTheHighest

\* The history of the factory: the overrides that wait and those that are registered are
\* those of the calls, in an order in which the one taken first is the one promised.
THEOREM FactoryIsHistory == Spec => [](Sane /\ Typed)
<1>1. Init => Typed
  <2> SUFFICES ASSUME Init PROVE Typed
    OBVIOUS
  <2>1. 0 \in 0 .. Built
    BY BuildAssumption DEF Built
  <2>2. Found(NULL, FALSE) \in Results
    BY DEF Found, Results
  <2>3. CallsTyped
    BY DEF Init, CallsTyped, Calls
  <2> QED BY <2>1, <2>2, <2>3 DEF Init, Typed
<1> QED BY <1>1, HistoryStarts, HistoryKept, TypedKept, PTL DEF Spec

\* Every variable keeps its type, and the overrides of a type are where its registration
\* puts them (do_register).
THEOREM TypesAreKept == Spec => []TypeOK
<1>1. Init => SeenIsCall
  BY BuildAssumption DEF Init, SeenIsCall, Unread
<1>2. PoolInv /\ Sane /\ Typed /\ SeenIsCall => TypeOK
  <2> SUFFICES ASSUME PoolInv, Sane, Typed, SeenIsCall PROVE TypeOK
    OBVIOUS
  <2>1. factory \in FactoryType
    BY DEF Sane, History
  <2>2. \A t \in Types :
          (IF t \in factory.types THEN factory.names ELSE factory.insts)[t] = <<>>
    BY DEF Sane, History, Clean
  <2>3. \A i \in DOMAIN rtab : rtab[i].scope \subseteq Components
    <3>1. \A i \in DOMAIN rtab : rtab[i] \in Resources
      BY DEF PoolInv
    <3> QED BY <3>1 DEF Resources
  <2>4. turn \in 0 .. Built /\ \A c \in Components : made[c].type \in Types \cup {NULL}
    BY DEF Typed, Results
  <2> QED BY <2>1, <2>2, <2>3, <2>4 DEF TypeOK, SeenIsCall
<1> QED BY <1>1, <1>2, PoolIsHistory, FactoryIsHistory, SeenKept, PTL DEF Spec

\* Whatever was registered, overridden and made before, a component is of the type that the
\* calls promise, and loops are reported.
THEOREM TypesAreAsPromised == ASSUME NoLateLoop PROVE Spec => MadeAsPromised
<1> DEFINE Made ==
      \A c \in Components :
        Creates(c) =>
          \/ \E n \in 0 .. Cardinality(Types) : Walk(Request[c], c)[n] \in Early
          \/ Fulfils(made'[c], Request[c], c)
<1>1. Sane /\ Typed /\ [Next]_vars => Made
  BY CreationFulfils
<1>2. Made => [Made]_vars
  OBVIOUS
<1>3. Spec => [][Made]_vars
  BY <1>1, <1>2, FactoryIsHistory, PTL DEF Spec
<1> QED BY <1>3 DEF MadeAsPromised

=============================================================================
