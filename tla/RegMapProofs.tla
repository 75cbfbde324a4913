---------------------------- MODULE RegMapProofs ----------------------------
(***************************************************************************)
(* The tables of an address map, for any registers, memories and offsets:  *)
(* as long as no clash was reported they say what the offsets say,         *)
(* whatever was placed, moved and unmapped before and after lock_model.    *)
(***************************************************************************)
EXTENDS RegMap, FiniteSetTheorems, NaturalsInduction, WellFoundedInduction, TLAPS

Tables == [regs : [Addresses -> Regs \cup {NULL}], wo : [Addresses -> Regs \cup {NULL}],
           mems : SUBSET [mem : Mems, min : Nat, max : Nat],
           read_only : SUBSET Regs, write_only : SUBSET Regs, warned : BOOLEAN]

Offset == [Elements -> Offsets \cup {NULL}]

\* The registers at a when the offsets are off.
PlacedAt(off, a) == {r \in Regs : off[r] # NULL /\ get_physical_addresses(r, off[r]) = a}

\* r shares its address.
Beside(off, r) == \E a \in Addresses : r \in PlacedAt(off, a) /\ PlacedAt(off, a) # {r}

\* At an address there is nothing, one register, or one that is only read beside
\* one that is only written.
Entry(t, off, a) ==
  \/ PlacedAt(off, a) = {} /\ t.regs[a] = NULL /\ t.wo[a] = NULL
  \/ t.regs[a] # NULL /\ PlacedAt(off, a) = {t.regs[a]} /\ t.wo[a] = NULL
  \/ /\ t.regs[a] # NULL /\ t.wo[a] # NULL /\ PlacedAt(off, a) = {t.regs[a], t.wo[a]}
     /\ m_get_fields_access(t.regs[a]) = "RO" /\ m_get_fields_access(t.wo[a]) = "WO"

\* Two registers of the top map that can only be written are not told apart by the
\* tables.
OneWriter ==
  \A r, w \in {x \in Regs : Home[x] = "top"} :
    m_get_fields_access(r) = "WO" /\ m_get_fields_access(w) = "WO" => r = w

\* The registers of the tables t and those with callbacks, and the memories, are
\* what the offsets off say.
RegsRight(t, off) ==
  /\ \A a \in Addresses : Entry(t, off, a)
  /\ t.read_only = {r \in Regs : Beside(off, r) /\ m_get_fields_access(r) = "RO"}
  /\ t.write_only = {r \in Regs : Beside(off, r) /\ m_get_fields_access(r) = "WO"}

\* x is a range that m may have been entered with at the offset o.
Fits(x, m, o) == \E junk \in Junk : x = RangeOf(m, o, junk)

\* Each memory that is mapped has a range and no other one has, and the ranges of
\* those of the top map overlap no other one.
MemsRight(t, off) ==
  /\ \A m \in Mems : off[m] # NULL => \E x \in t.mems : x.mem = m
  /\ \A x \in t.mems : off[x.mem] # NULL /\ Fits(x, x.mem, off[x.mem])
  /\ \A x, y \in t.mems : Home[x.mem] = "top" => x = y \/ ~Overlap(x, y)

\* The tables agree with the offsets, or a clash was reported.
Right(t, off) == t.warned \/ ((OneWriter => RegsRight(t, off)) /\ MemsRight(t, off))

\* From lock_model on the tables agree with the offsets, and the cached address of
\* a register that is mapped, which is where set_offset removes it, is its address.
Cached == \A r \in Regs : offset[r] # NULL => addr[r] = get_physical_addresses(r, offset[r])

MapInv == TypeOK /\ tables \in Tables /\ (m_locked => Right(tables, offset) /\ Cached)

-----------------------------------------------------------------------------
(* Registers and memories one at a time *)

\* The fields of the tables.
LEMMA TablesFields ==
  ASSUME NEW t \in Tables
  PROVE  /\ t.regs \in [Addresses -> Regs \cup {NULL}] /\ t.wo \in [Addresses -> Regs \cup {NULL}]
         /\ t.mems \in SUBSET [mem : Mems, min : Nat, max : Nat]
         /\ t.read_only \in SUBSET Regs /\ t.write_only \in SUBSET Regs /\ t.warned \in BOOLEAN
BY DEF Tables

\* A register is at one address.
LEMMA PlacedOnce ==
  ASSUME NEW off, NEW a, NEW b, NEW r \in PlacedAt(off, a), r \in PlacedAt(off, b)
  PROVE  a = b
BY DEF PlacedAt

\* An address is a number, and one of Addresses if it is a register's.
LEMMA AddressIs ==
  ASSUME NEW e \in Elements, NEW o \in Offsets
  PROVE  /\ Location(e, o, 0) \in Nat
         /\ get_physical_addresses(e, o) \in Nat \cup {NULL}
         /\ e \in Regs /\ get_physical_addresses(e, o) # NULL =>
              get_physical_addresses(e, o) \in Addresses
<1>1. Base \in Nat /\ SubmapOffset \in Nat /\ n_bytes \in Nat /\ o \in Nat
  BY MapAssumption
<1> DEFINE sub == IF Home[e] = "sub" THEN SubmapOffset ELSE 0
<1>2. sub \in Nat /\ 0 * n_bytes = 0
  BY <1>1
<1> HIDE DEF sub
<1>3. Base + sub + o + 0 * n_bytes \in Nat
  BY <1>1, <1>2
<1>4. Location(e, o, 0) \in Nat
  BY <1>3 DEF Location, sub
<1> QED BY <1>4 DEF get_physical_addresses, Addresses

\* So no address is missing.
LEMMA AddressesAreNumbers == NULL \notin Addresses
BY AddressIs, MapAssumption DEF Addresses, Elements

\* The access that EnterReg looks for, and what it makes of the tables.
LEMMA EnterRegIs ==
  ASSUME NEW t \in Tables, NEW r \in Regs, NEW a \in Addresses, NEW ranges,
         NEW u, u = EnterReg(t, r, a, ranges), NEW r2, r2 = t.regs[a]
  PROVE  /\ u \in Tables /\ u.mems = t.mems /\ (~u.warned => ~t.warned)
         /\ ~u.warned =>
              \/ /\ r2 = NULL /\ u.regs = [t.regs EXCEPT ![a] = r] /\ u.wo = t.wo
                 /\ u.read_only = t.read_only /\ u.write_only = t.write_only
              \/ /\ r2 # NULL /\ m_get_fields_access(r) = "RO" /\ m_get_fields_access(r2) = "WO"
                 /\ u.regs = [t.regs EXCEPT ![a] = r] /\ u.wo = [t.wo EXCEPT ![a] = r2]
                 /\ u.read_only = t.read_only \cup {r} /\ u.write_only = t.write_only \cup {r2}
              \/ /\ r2 # NULL /\ m_get_fields_access(r) = "WO" /\ m_get_fields_access(r2) = "RO"
                 /\ u.regs = [t.regs EXCEPT ![a] = r2] /\ u.wo = [t.wo EXCEPT ![a] = r]
                 /\ u.read_only = t.read_only \cup {r2} /\ u.write_only = t.write_only \cup {r}
<1> DEFINE clash == \E range \in ranges : Within(a, range)
           share(reader, writer) ==
             [t EXCEPT !.regs[a] = reader, !.wo[a] = writer,
                       !.read_only = t.read_only \cup {reader},
                       !.write_only = t.write_only \cup {writer}]
           access == <<m_get_fields_access(r), m_get_fields_access(r2)>>
<1>1. /\ t.regs \in [Addresses -> Regs \cup {NULL}] /\ t.wo \in [Addresses -> Regs \cup {NULL}]
      /\ t.warned \in BOOLEAN /\ r2 \in Regs \cup {NULL}
  BY TablesFields
<1>2. clash \in BOOLEAN
  OBVIOUS
<1> DEFINE made(reg, w, ro, wo) ==
             [regs |-> [t.regs EXCEPT ![a] = reg], wo |-> [t.wo EXCEPT ![a] = w], mems |-> t.mems,
              read_only |-> ro, write_only |-> wo, warned |-> t.warned \/ clash]
<1>3. ASSUME NEW reg \in Regs, NEW w \in Regs \cup {NULL}, NEW ro \in SUBSET Regs, NEW wo \in SUBSET Regs,
             u = made(reg, w, ro, wo)
      PROVE  /\ u \in Tables /\ u.mems = t.mems /\ (~u.warned => ~t.warned)
             /\ u.regs = [t.regs EXCEPT ![a] = reg] /\ u.wo = [t.wo EXCEPT ![a] = w]
             /\ u.read_only = ro /\ u.write_only = wo
  <2> DEFINE regs == [t.regs EXCEPT ![a] = reg]
             wos == [t.wo EXCEPT ![a] = w]
  <2>1. regs \in [Addresses -> Regs \cup {NULL}] /\ wos \in [Addresses -> Regs \cup {NULL}]
    BY <1>1
  <2> HIDE DEF clash
  <2>2. u = [regs |-> regs, wo |-> wos, mems |-> t.mems, read_only |-> ro, write_only |-> wo,
             warned |-> t.warned \/ clash]
    BY <1>3
  <2> HIDE DEF regs, wos, made
  <2>3. t.mems \in SUBSET [mem : Mems, min : Nat, max : Nat]
    BY TablesFields
  <2>4. u \in Tables
    BY <1>1, <1>2, <2>1, <2>2, <2>3 DEF Tables
  <2>5. /\ u.mems = t.mems /\ u.regs = regs /\ u.wo = wos /\ u.read_only = ro /\ u.write_only = wo
        /\ u.warned = (t.warned \/ clash)
    BY ONLY <2>2
  <2> QED BY <1>1, <1>2, <2>4, <2>5 DEF regs, wos
<1>4. CASE r2 = NULL
  <2>1. u = Warned([t EXCEPT !.regs[a] = r], clash)
    BY <1>4, AddressesAreNumbers DEF EnterReg
  <2>2. t.wo = [t.wo EXCEPT ![a] = t.wo[a]] /\ t.wo[a] \in Regs \cup {NULL}
        /\ t.read_only \in SUBSET Regs /\ t.write_only \in SUBSET Regs
    BY TablesFields
  <2> HIDE DEF clash
  <2>3. u = made(r, t.wo[a], t.read_only, t.write_only)
    BY <2>1, <2>2 DEF Warned, Tables
  <2> HIDE DEF made
  <2>4. /\ u \in Tables /\ u.mems = t.mems /\ (~u.warned => ~t.warned)
        /\ u.regs = [t.regs EXCEPT ![a] = r] /\ u.wo = [t.wo EXCEPT ![a] = t.wo[a]]
        /\ u.read_only = t.read_only /\ u.write_only = t.write_only
    BY ONLY <1>3, <2>2, <2>3, r \in Regs
  <2> QED BY <1>4, <2>2, <2>4
<1>5. ASSUME NEW reader \in Regs, NEW writer \in Regs, u = Warned(share(reader, writer), clash)
      PROVE  /\ u \in Tables /\ u.mems = t.mems /\ (~u.warned => ~t.warned)
             /\ u.regs = [t.regs EXCEPT ![a] = reader] /\ u.wo = [t.wo EXCEPT ![a] = writer]
             /\ u.read_only = t.read_only \cup {reader} /\ u.write_only = t.write_only \cup {writer}
  <2>1. /\ t.read_only \cup {reader} \in SUBSET Regs /\ t.write_only \cup {writer} \in SUBSET Regs
        /\ writer \in Regs \cup {NULL}
    BY TablesFields
  <2> HIDE DEF clash
  <2>2. u = made(reader, writer, t.read_only \cup {reader}, t.write_only \cup {writer})
    BY <1>5 DEF Warned, Tables
  <2> HIDE DEF made
  <2> DEFINE ro == t.read_only \cup {reader}
             wo == t.write_only \cup {writer}
  <2>3. ro \in SUBSET Regs /\ wo \in SUBSET Regs /\ u = made(reader, writer, ro, wo)
    BY <2>1, <2>2
  <2> HIDE DEF ro, wo
  <2>4. /\ u \in Tables /\ u.mems = t.mems /\ (~u.warned => ~t.warned)
        /\ u.regs = [t.regs EXCEPT ![a] = reader] /\ u.wo = [t.wo EXCEPT ![a] = writer]
        /\ u.read_only = ro /\ u.write_only = wo
    BY ONLY <1>3, <2>1, <2>3, reader \in Regs
  <2> QED BY <2>4 DEF ro, wo
<1>6. CASE r2 # NULL /\ access = <<"RO", "WO">>
  <2>1. u = Warned(share(r, r2), clash)
    BY <1>6, AddressesAreNumbers DEF EnterReg
  <2>2. m_get_fields_access(r) = "RO" /\ m_get_fields_access(r2) = "WO" /\ r2 \in Regs
    BY <1>1, <1>6
  <2> HIDE DEF clash, share
  <2> QED BY <1>5, <1>6, <2>1, <2>2
<1>7. CASE r2 # NULL /\ access = <<"WO", "RO">>
  <2>1. u = Warned(share(r2, r), clash)
    BY <1>7, AddressesAreNumbers DEF EnterReg
  <2>2. m_get_fields_access(r) = "WO" /\ m_get_fields_access(r2) = "RO" /\ r2 \in Regs
    BY <1>1, <1>7
  <2> HIDE DEF clash, share
  <2> QED BY <1>5, <1>7, <2>1, <2>2
<1>8. CASE r2 # NULL /\ access # <<"RO", "WO">> /\ access # <<"WO", "RO">>
  <2>1. u = Warned(Warned(t, TRUE), clash)
    BY <1>8, AddressesAreNumbers DEF EnterReg
  <2> HIDE DEF clash
  <2> QED BY <1>1, <1>2, <2>1 DEF Warned, Tables
<1> QED BY <1>4, <1>6, <1>7, <1>8

\* Who stands beside another one after r was placed at a, where at most one was.
LEMMA BesideAfter ==
  ASSUME NEW off \in Offset, NEW r \in Regs, off[r] = NULL, NEW o \in Offsets, NEW a,
         a = get_physical_addresses(r, o), a # NULL, NEW S \in SUBSET Regs, PlacedAt(off, a) = S,
         \A x, y \in S : x = y, NEW y \in Regs
  PROVE  Beside([off EXCEPT ![r] = o], y) <=> Beside(off, y) \/ (S # {} /\ y \in S \cup {r})
<1> DEFINE new == [off EXCEPT ![r] = o]
<1>1. a \in Addresses /\ o # NULL
  BY AddressIs, MapAssumption DEF Elements
<1>2. \A x \in Addresses : r \notin PlacedAt(off, x)
  BY DEF PlacedAt
<1>3. \A x \in Addresses : PlacedAt(new, x) = IF x = a THEN S \cup {r} ELSE PlacedAt(off, x)
  <2>1. \A x \in Regs : new[x] = IF x = r THEN o ELSE off[x]
    BY DEF Offset, Elements
  <2> HIDE DEF new
  <2> QED BY <1>1, <1>2, <2>1 DEF PlacedAt
<1> HIDE DEF new
<1>4. ASSUME Beside(new, y) PROVE Beside(off, y) \/ (S # {} /\ y \in S \cup {r})
  <2>1. PICK x \in Addresses : y \in PlacedAt(new, x) /\ PlacedAt(new, x) # {y}
    BY <1>4 DEF Beside
  <2>2. CASE x = a
    BY <1>3, <2>1, <2>2
  <2>3. CASE x # a
    BY <1>3, <2>1, <2>3 DEF Beside
  <2> QED BY <2>2, <2>3
<1>5. ASSUME Beside(off, y) PROVE Beside(new, y)
  <2>1. PICK x \in Addresses : y \in PlacedAt(off, x) /\ PlacedAt(off, x) # {y}
    BY <1>5 DEF Beside
  <2>2. x # a
    BY <2>1
  <2> QED BY <1>3, <2>1, <2>2 DEF Beside
<1>6. ASSUME S # {}, y \in S \cup {r} PROVE Beside(new, y)
  <2>1. PlacedAt(new, a) = S \cup {r} /\ r \notin S
    BY <1>1, <1>2, <1>3
  <2>2. y \in PlacedAt(new, a) /\ PlacedAt(new, a) # {y}
    BY <1>6, <2>1
  <2> QED BY <1>1, <2>2 DEF Beside
<1> QED BY <1>4, <1>5, <1>6 DEF new

\* A register of the submap is nowhere, before and after.
LEMMA NowhereRight ==
  ASSUME NEW t \in Tables, NEW off \in Offset, Right(t, off), NEW r \in Regs,
         NEW o \in Offsets \cup {NULL}, off[r] # NULL => get_physical_addresses(r, off[r]) = NULL,
         o # NULL => get_physical_addresses(r, o) = NULL
  PROVE  Right(t, [off EXCEPT ![r] = o])
<1> DEFINE new == [off EXCEPT ![r] = o]
<1>1. \A x \in Elements : new[x] = IF x = r THEN o ELSE off[x]
  BY DEF Offset
<1>2. r \notin Mems /\ \A x \in Regs : x \in Elements
  BY MapAssumption DEF Elements
<1> HIDE DEF new
<1>3. \A a \in Addresses : PlacedAt(new, a) = PlacedAt(off, a)
  BY <1>1, <1>2, AddressesAreNumbers DEF PlacedAt
<1>4. \A x \in Regs : Beside(new, x) <=> Beside(off, x)
  BY <1>3 DEF Beside
<1>5. RegsRight(t, off) => RegsRight(t, new)
  <2>1. \A a \in Addresses : Entry(t, off, a) => Entry(t, new, a)
    BY <1>3 DEF Entry
  <2> QED BY <1>4, <2>1 DEF RegsRight
<1>6. MemsRight(t, off) => MemsRight(t, new)
  <2>1. \A m \in Mems : new[m] = off[m]
    BY <1>1, <1>2 DEF Elements
  <2>2. \A x \in t.mems : x.mem \in Mems
    BY DEF Tables
  <2> QED BY <2>1, <2>2 DEF MemsRight
<1> QED BY <1>5, <1>6 DEF Right, new

\* m_init_address_map and m_set_reg_offset enter a register that was not placed.
LEMMA EnterPlaced ==
  ASSUME NEW t \in Tables, NEW off \in Offset, Right(t, off), NEW r \in Regs,
         off[r] = NULL, NEW o \in Offsets, NEW a, a = get_physical_addresses(r, o), a # NULL,
         NEW ranges
  PROVE  /\ EnterReg(t, r, a, ranges) \in Tables
         /\ Right(EnterReg(t, r, a, ranges), [off EXCEPT ![r] = o])
<1> DEFINE u == EnterReg(t, r, a, ranges)
           r2 == t.regs[a]
           new == [off EXCEPT ![r] = o]
           access(x) == m_get_fields_access(x)
<1>1. a \in Addresses /\ o # NULL
  BY AddressIs, MapAssumption DEF Elements
<1>2. /\ u \in Tables /\ u.mems = t.mems /\ (~u.warned => ~t.warned)
      /\ ~u.warned =>
           \/ /\ r2 = NULL /\ u.regs = [t.regs EXCEPT ![a] = r] /\ u.wo = t.wo
              /\ u.read_only = t.read_only /\ u.write_only = t.write_only
           \/ /\ r2 # NULL /\ access(r) = "RO" /\ access(r2) = "WO"
              /\ u.regs = [t.regs EXCEPT ![a] = r] /\ u.wo = [t.wo EXCEPT ![a] = r2]
              /\ u.read_only = t.read_only \cup {r} /\ u.write_only = t.write_only \cup {r2}
           \/ /\ r2 # NULL /\ access(r) = "WO" /\ access(r2) = "RO"
              /\ u.regs = [t.regs EXCEPT ![a] = r2] /\ u.wo = [t.wo EXCEPT ![a] = r]
              /\ u.read_only = t.read_only \cup {r2} /\ u.write_only = t.write_only \cup {r}
  BY <1>1, EnterRegIs
<1>3. /\ t.regs \in [Addresses -> Regs \cup {NULL}] /\ t.wo \in [Addresses -> Regs \cup {NULL}]
      /\ r2 \in Regs \cup {NULL} /\ NULL \notin Regs
  BY <1>1, TablesFields, MapAssumption
<1>4. \A x \in Addresses : r \notin PlacedAt(off, x)
  BY DEF PlacedAt
<1>5. \A x \in Addresses : PlacedAt(new, x) = IF x = a THEN PlacedAt(off, x) \cup {r} ELSE PlacedAt(off, x)
  <2>1. \A x \in Regs : new[x] = IF x = r THEN o ELSE off[x]
    BY DEF Offset, Elements
  <2> HIDE DEF new
  <2> QED BY <1>1, <1>4, <2>1 DEF PlacedAt
<1> HIDE DEF u, new
<1>6. ASSUME ~u.warned PROVE MemsRight(u, new)
  <2>1. \A m \in Mems : new[m] = off[m]
    BY MapAssumption DEF new, Offset, Elements
  <2>2. MemsRight(t, off) /\ \A x \in t.mems : x.mem \in Mems
    BY <1>2, <1>6 DEF Right, Tables
  <2> QED BY <1>2, <1>6, <2>1, <2>2 DEF MemsRight
<1>7. ASSUME ~u.warned, OneWriter PROVE RegsRight(u, new)
  <2>1. /\ \A x \in Addresses : Entry(t, off, x)
        /\ t.read_only = {x \in Regs : Beside(off, x) /\ access(x) = "RO"}
        /\ t.write_only = {x \in Regs : Beside(off, x) /\ access(x) = "WO"}
    BY <1>2, <1>7 DEF Right, RegsRight
  <2>2. \A x \in Addresses : x # a => Entry(u, new, x)
    <3> SUFFICES ASSUME NEW x \in Addresses, x # a PROVE Entry(u, new, x)
      OBVIOUS
    <3>1. u.regs[x] = t.regs[x] /\ u.wo[x] = t.wo[x]
      BY <1>2, <1>3, <1>7
    <3>2. PlacedAt(new, x) = PlacedAt(off, x)
      BY <1>5
    <3> QED BY <2>1, <3>1, <3>2 DEF Entry
  <2>3. Entry(t, off, a)
    BY <1>1, <2>1
  <2>4. CASE r2 = NULL
    <3>1. /\ u.regs = [t.regs EXCEPT ![a] = r] /\ u.wo = t.wo
          /\ u.read_only = t.read_only /\ u.write_only = t.write_only
      BY <1>2, <1>7, <2>4
    <3>2. PlacedAt(off, a) = {} /\ t.wo[a] = NULL
      BY <2>3, <2>4 DEF Entry
    <3>3. PlacedAt(new, a) = {r}
      BY <1>1, <1>5, <3>2
    <3>4. Entry(u, new, a)
      BY <1>1, <1>3, <3>1, <3>2, <3>3 DEF Entry
    <3>5. \A y \in Regs : Beside(new, y) <=> Beside(off, y)
      BY <3>2, BesideAfter DEF new
    <3> QED BY <2>1, <2>2, <3>1, <3>4, <3>5 DEF RegsRight
  <2>5. ASSUME r2 # NULL, PlacedAt(off, a) = {r2}, NEW S, S = {r2}
        PROVE  \A y \in Regs : Beside(new, y) <=> Beside(off, y) \/ y \in {r2, r}
    BY <1>3, <2>5, BesideAfter DEF new
  <2>6. CASE r2 # NULL /\ access(r) = "RO" /\ access(r2) = "WO"
    <3>1. /\ u.regs = [t.regs EXCEPT ![a] = r] /\ u.wo = [t.wo EXCEPT ![a] = r2]
          /\ u.read_only = t.read_only \cup {r} /\ u.write_only = t.write_only \cup {r2}
      BY <1>2, <1>7, <2>6
    <3>2. PlacedAt(off, a) = {r2}
      BY <2>3, <2>6 DEF Entry
    <3>3. PlacedAt(new, a) = {r, r2}
      BY <1>1, <1>5, <3>2
    <3>4. Entry(u, new, a)
      BY <1>1, <1>3, <2>6, <3>1, <3>3 DEF Entry
    <3>5. \A y \in Regs : Beside(new, y) <=> Beside(off, y) \/ y \in {r2, r}
      BY <2>5, <2>6, <3>2
    <3> QED BY <1>3, <2>1, <2>2, <2>6, <3>1, <3>4, <3>5 DEF RegsRight
  <2>7. CASE r2 # NULL /\ access(r) = "WO" /\ access(r2) = "RO"
    <3>1. /\ u.regs = [t.regs EXCEPT ![a] = r2] /\ u.wo = [t.wo EXCEPT ![a] = r]
          /\ u.read_only = t.read_only \cup {r2} /\ u.write_only = t.write_only \cup {r}
      BY <1>2, <1>7, <2>7
    <3>2. PlacedAt(off, a) = {r2}
      <4>1. t.wo[a] # NULL => t.wo[a] \in Regs /\ t.wo[a] \in PlacedAt(off, a) /\ access(t.wo[a]) = "WO"
        BY <1>1, <1>3, <2>3 DEF Entry
      <4>2. t.wo[a] = NULL
        BY <1>1, <1>4, <1>7, <2>7, <4>1, AddressesAreNumbers DEF OneWriter, PlacedAt, get_physical_addresses
      <4> QED BY <2>3, <2>7, <4>2 DEF Entry
    <3>3. PlacedAt(new, a) = {r2, r}
      BY <1>1, <1>5, <3>2
    <3>4. Entry(u, new, a)
      BY <1>1, <1>3, <2>7, <3>1, <3>3 DEF Entry
    <3>5. \A y \in Regs : Beside(new, y) <=> Beside(off, y) \/ y \in {r2, r}
      BY <2>5, <2>7, <3>2
    <3> QED BY <1>3, <2>1, <2>2, <2>7, <3>1, <3>4, <3>5 DEF RegsRight
  <2> QED BY <1>2, <1>7, <2>4, <2>6, <2>7
<1> QED BY <1>2, <1>6, <1>7 DEF u, new, Right

\* So do they enter one that has no address.
LEMMA EnterRegRight ==
  ASSUME NEW t \in Tables, NEW off \in Offset, Right(t, off), NEW r \in Regs,
         off[r] = NULL, NEW o \in Offsets, NEW a, a = get_physical_addresses(r, o), NEW ranges
  PROVE  /\ EnterReg(t, r, a, ranges) \in Tables
         /\ Right(EnterReg(t, r, a, ranges), [off EXCEPT ![r] = o])
<1>1. CASE a # NULL
  BY <1>1, EnterPlaced
<1>2. CASE a = NULL
  <2>1. EnterReg(t, r, a, ranges) = t
    BY <1>2 DEF EnterReg
  <2>2. Right(t, [off EXCEPT ![r] = o])
    BY <1>2, NowhereRight
  <2> QED BY <2>1, <2>2
<1> QED BY <1>1, <1>2

\* The tables u are t after RemoveReg of r at a.
Removed(u, t, r, a) ==
  /\ u \in Tables /\ u.mems = t.mems /\ u.warned = t.warned
  /\ \/ /\ t.wo[a] = NULL /\ u.regs = [t.regs EXCEPT ![a] = NULL] /\ u.wo = t.wo
        /\ u.read_only = t.read_only /\ u.write_only = t.write_only
     \/ /\ t.wo[a] # NULL /\ t.regs[a] = r
        /\ u.regs = [t.regs EXCEPT ![a] = t.wo[a]] /\ u.wo = [t.wo EXCEPT ![a] = NULL]
        /\ u.read_only = t.read_only \ {r} /\ u.write_only = t.write_only \ {t.wo[a]}
     \/ /\ t.wo[a] # NULL /\ t.regs[a] # r
        /\ u.regs = t.regs /\ u.wo = [t.wo EXCEPT ![a] = NULL]
        /\ u.read_only = t.read_only \ {t.regs[a]} /\ u.write_only = t.write_only \ {r}

\* RemoveReg does this.
LEMMA RemoveRegIs ==
  ASSUME NEW t \in Tables, NEW r \in Regs, NEW a \in Addresses, NEW u, u = RemoveReg(t, r, a)
  PROVE  Removed(u, t, r, a)
<1>1. /\ t.regs \in [Addresses -> Regs \cup {NULL}] /\ t.wo \in [Addresses -> Regs \cup {NULL}]
      /\ t.mems \in SUBSET [mem : Mems, min : Nat, max : Nat]
      /\ t.read_only \in SUBSET Regs /\ t.write_only \in SUBSET Regs /\ t.warned \in BOOLEAN
  BY TablesFields
<1> DEFINE made(regs, wos, ro, wo) ==
             [regs |-> regs, wo |-> wos, mems |-> t.mems, read_only |-> ro, write_only |-> wo,
              warned |-> t.warned]
<1>2. ASSUME NEW regs \in [Addresses -> Regs \cup {NULL}], NEW wos \in [Addresses -> Regs \cup {NULL}],
             NEW ro \in SUBSET Regs, NEW wo \in SUBSET Regs, u = made(regs, wos, ro, wo)
      PROVE  /\ u \in Tables /\ u.mems = t.mems /\ u.warned = t.warned
             /\ u.regs = regs /\ u.wo = wos /\ u.read_only = ro /\ u.write_only = wo
  BY <1>1, <1>2 DEF Tables
<1>3. CASE t.wo[a] = NULL
  <2>1. u = [t EXCEPT !.regs[a] = NULL]
    BY <1>3, AddressesAreNumbers DEF RemoveReg
  <2> DEFINE regs == [t.regs EXCEPT ![a] = NULL]
  <2>2. regs \in [Addresses -> Regs \cup {NULL}] /\ u = made(regs, t.wo, t.read_only, t.write_only)
    BY <1>1, <2>1 DEF Tables
  <2> HIDE DEF regs, made
  <2>3. /\ u \in Tables /\ u.mems = t.mems /\ u.warned = t.warned
        /\ u.regs = regs /\ u.wo = t.wo /\ u.read_only = t.read_only /\ u.write_only = t.write_only
    BY ONLY <1>1, <1>2, <2>2
  <2> QED BY <1>3, <2>3 DEF regs, Removed
<1>4. CASE t.wo[a] # NULL /\ t.regs[a] = r
  <2>1. u = [t EXCEPT !.regs[a] = t.wo[a], !.wo[a] = NULL,
                      !.read_only = @ \ {r}, !.write_only = @ \ {t.wo[a]}]
    BY <1>4, AddressesAreNumbers DEF RemoveReg
  <2> DEFINE regs == [t.regs EXCEPT ![a] = t.wo[a]]
             wos == [t.wo EXCEPT ![a] = NULL]
             ro == t.read_only \ {r}
             wo == t.write_only \ {t.wo[a]}
  <2>2. /\ regs \in [Addresses -> Regs \cup {NULL}] /\ wos \in [Addresses -> Regs \cup {NULL}]
        /\ ro \in SUBSET Regs /\ wo \in SUBSET Regs
    BY <1>1
  <2>3. u = made(regs, wos, ro, wo)
    BY <2>1 DEF Tables
  <2> HIDE DEF regs, wos, ro, wo, made
  <2>4. /\ u \in Tables /\ u.mems = t.mems /\ u.warned = t.warned
        /\ u.regs = regs /\ u.wo = wos /\ u.read_only = ro /\ u.write_only = wo
    BY ONLY <1>2, <2>2, <2>3
  <2> QED BY <1>4, <2>4 DEF regs, wos, ro, wo, Removed
<1>5. CASE t.wo[a] # NULL /\ t.regs[a] # r
  <2>1. u = [t EXCEPT !.wo[a] = NULL, !.write_only = @ \ {r}, !.read_only = @ \ {t.regs[a]}]
    BY <1>5, AddressesAreNumbers DEF RemoveReg
  <2> DEFINE wos == [t.wo EXCEPT ![a] = NULL]
             ro == t.read_only \ {t.regs[a]}
             wo == t.write_only \ {r}
  <2>2. /\ wos \in [Addresses -> Regs \cup {NULL}] /\ ro \in SUBSET Regs /\ wo \in SUBSET Regs
    BY <1>1
  <2>3. u = made(t.regs, wos, ro, wo)
    BY <2>1 DEF Tables
  <2> HIDE DEF wos, ro, wo, made
  <2>4. /\ u \in Tables /\ u.mems = t.mems /\ u.warned = t.warned
        /\ u.regs = t.regs /\ u.wo = wos /\ u.read_only = ro /\ u.write_only = wo
    BY ONLY <1>1, <1>2, <2>2, <2>3
  <2> QED BY <1>5, <2>4 DEF wos, ro, wo, Removed
<1> QED BY <1>3, <1>4, <1>5

\* m_set_reg_offset removes a register from where it is.
LEMMA RemovePlaced ==
  ASSUME NEW t \in Tables, NEW off \in Offset, Right(t, off), NEW r \in Regs,
         off[r] # NULL, NEW a, a = get_physical_addresses(r, off[r]), a # NULL
  PROVE  /\ RemoveReg(t, r, a) \in Tables
         /\ Right(RemoveReg(t, r, a), [off EXCEPT ![r] = NULL])
<1> DEFINE u == RemoveReg(t, r, a)
           w == t.wo[a]
           new == [off EXCEPT ![r] = NULL]
           access(x) == m_get_fields_access(x)
<1>1. a \in Addresses /\ r \in PlacedAt(off, a)
  <2>1. r \in Elements /\ off[r] \in Offsets
    BY DEF Offset, Elements
  <2> QED BY <2>1, AddressIs DEF PlacedAt
<1>2. /\ u \in Tables /\ u.mems = t.mems /\ u.warned = t.warned
      /\ \/ /\ w = NULL /\ u.regs = [t.regs EXCEPT ![a] = NULL] /\ u.wo = t.wo
            /\ u.read_only = t.read_only /\ u.write_only = t.write_only
         \/ /\ w # NULL /\ t.regs[a] = r
            /\ u.regs = [t.regs EXCEPT ![a] = w] /\ u.wo = [t.wo EXCEPT ![a] = NULL]
            /\ u.read_only = t.read_only \ {r} /\ u.write_only = t.write_only \ {w}
         \/ /\ w # NULL /\ t.regs[a] # r
            /\ u.regs = t.regs /\ u.wo = [t.wo EXCEPT ![a] = NULL]
            /\ u.read_only = t.read_only \ {t.regs[a]} /\ u.write_only = t.write_only \ {r}
  <2>1. Removed(u, t, r, a)
    BY <1>1, RemoveRegIs
  <2> HIDE DEF u
  <2> QED BY <2>1 DEF Removed
<1>3. /\ t.regs \in [Addresses -> Regs \cup {NULL}] /\ t.wo \in [Addresses -> Regs \cup {NULL}]
      /\ w \in Regs \cup {NULL} /\ NULL \notin Regs
  BY <1>1, TablesFields, MapAssumption
<1>4. \A x \in Addresses : x # a => r \notin PlacedAt(off, x)
  BY <1>1, PlacedOnce
<1>5. \A x \in Addresses : PlacedAt(new, x) = IF x = a THEN PlacedAt(off, x) \ {r} ELSE PlacedAt(off, x)
  <2>1. \A x \in Regs : new[x] = IF x = r THEN NULL ELSE off[x]
    BY DEF Offset, Elements
  <2> HIDE DEF new
  <2> QED BY <1>1, <1>4, <2>1 DEF PlacedAt
<1> HIDE DEF u, new
<1>6. ASSUME ~t.warned PROVE MemsRight(u, new)
  <2>1. \A m \in Mems : new[m] = off[m]
    BY MapAssumption DEF new, Offset, Elements
  <2>2. MemsRight(t, off) /\ \A x \in t.mems : x.mem \in Mems
    BY <1>6 DEF Right, Tables
  <2> QED BY <1>2, <2>1, <2>2 DEF MemsRight
<1>7. ASSUME ~t.warned, OneWriter PROVE RegsRight(u, new)
  <2>1. /\ \A x \in Addresses : Entry(t, off, x)
        /\ t.read_only = {x \in Regs : Beside(off, x) /\ access(x) = "RO"}
        /\ t.write_only = {x \in Regs : Beside(off, x) /\ access(x) = "WO"}
    BY <1>7 DEF Right, RegsRight
  <2>2. \A x \in Addresses : x # a => Entry(u, new, x)
    <3> SUFFICES ASSUME NEW x \in Addresses, x # a PROVE Entry(u, new, x)
      OBVIOUS
    <3>1. u.regs[x] = t.regs[x] /\ u.wo[x] = t.wo[x]
      BY <1>2, <1>3
    <3>2. PlacedAt(new, x) = PlacedAt(off, x)
      BY <1>5
    <3> QED BY <2>1, <3>1, <3>2 DEF Entry
  <2>3. Entry(t, off, a)
    BY <1>1, <2>1
  <2>4. \E x : PlacedAt(new, a) \subseteq {x}
    <3>1. PlacedAt(new, a) = PlacedAt(off, a) \ {r}
      BY <1>1, <1>5
    <3> QED BY <1>1, <2>3, <3>1 DEF Entry
  <2>5. \A y \in Regs : Beside(new, y) <=> Beside(off, y) /\ y \notin PlacedAt(off, a)
    <3> SUFFICES ASSUME NEW y \in Regs
                 PROVE  Beside(new, y) <=> Beside(off, y) /\ y \notin PlacedAt(off, a)
      OBVIOUS
    <3>1. ASSUME NEW x \in Addresses, y \in PlacedAt(new, x), PlacedAt(new, x) # {y}
          PROVE  x # a /\ y \in PlacedAt(off, x) /\ PlacedAt(off, x) # {y}
      BY <1>5, <2>4, <3>1
    <3>2. ASSUME NEW x \in Addresses, y \in PlacedAt(off, x), PlacedAt(off, x) # {y},
                 y \notin PlacedAt(off, a)
          PROVE  y \in PlacedAt(new, x) /\ PlacedAt(new, x) # {y}
      BY <1>5, <3>2
    <3>3. \A x \in Addresses : x # a /\ y \in PlacedAt(off, x) => y \notin PlacedAt(off, a)
      BY PlacedOnce
    <3> QED BY <3>1, <3>2, <3>3 DEF Beside
  <2>6. CASE w = NULL
    <3>1. /\ u.regs = [t.regs EXCEPT ![a] = NULL] /\ u.wo = t.wo
          /\ u.read_only = t.read_only /\ u.write_only = t.write_only
      BY <1>2, <2>6
    <3>2. PlacedAt(off, a) = {r}
      BY <1>1, <2>3, <2>6 DEF Entry
    <3>3. Entry(u, new, a)
      BY <1>1, <1>3, <1>5, <2>6, <3>1, <3>2 DEF Entry
    <3>4. ~Beside(off, r)
      BY <1>4, <3>2 DEF Beside
    <3> QED BY <2>1, <2>2, <2>5, <3>1, <3>2, <3>3, <3>4 DEF RegsRight
  <2>7. CASE w # NULL
    <3>1. /\ t.regs[a] # NULL /\ PlacedAt(off, a) = {t.regs[a], w}
          /\ access(t.regs[a]) = "RO" /\ access(w) = "WO"
      BY <2>3, <2>7 DEF Entry
    <3>2. t.regs[a] # w
      BY <3>1
    <3>3. CASE t.regs[a] = r
      <4>1. /\ u.regs = [t.regs EXCEPT ![a] = w] /\ u.wo = [t.wo EXCEPT ![a] = NULL]
            /\ u.read_only = t.read_only \ {r} /\ u.write_only = t.write_only \ {w}
        BY <1>2, <2>7, <3>3
      <4>2. PlacedAt(new, a) = {w}
        BY <1>1, <1>5, <3>1, <3>2, <3>3
      <4>3. Entry(u, new, a)
        BY <1>1, <1>3, <2>7, <4>1, <4>2 DEF Entry
      <4> QED BY <2>1, <2>2, <2>5, <3>1, <3>3, <4>1, <4>3 DEF RegsRight
    <3>4. CASE t.regs[a] # r
      <4>1. /\ u.regs = t.regs /\ u.wo = [t.wo EXCEPT ![a] = NULL]
            /\ u.read_only = t.read_only \ {t.regs[a]} /\ u.write_only = t.write_only \ {r}
        BY <1>2, <2>7, <3>4
      <4>2. w = r
        BY <1>1, <3>1, <3>4
      <4>3. PlacedAt(new, a) = {t.regs[a]}
        BY <1>1, <1>5, <3>1, <3>2, <4>2
      <4>4. Entry(u, new, a)
        BY <1>1, <1>3, <3>1, <4>1, <4>3 DEF Entry
      <4> QED BY <2>1, <2>2, <2>5, <3>1, <4>1, <4>2, <4>4 DEF RegsRight
    <3> QED BY <3>3, <3>4
  <2> QED BY <2>6, <2>7
<1>8. ASSUME t.warned PROVE Right(u, new)
  <2>1. u.warned
    BY <1>2, <1>8, Zenon
  <2> QED BY <2>1 DEF Right
<1>9. ASSUME ~t.warned PROVE Right(u, new)
  BY <1>6, <1>7, <1>9 DEF Right
<1> QED BY <1>2, <1>8, <1>9 DEF u, new

\* So it does one that is nowhere.
LEMMA RemoveRegRight ==
  ASSUME NEW t \in Tables, NEW off \in Offset, Right(t, off), NEW r \in Regs,
         off[r] # NULL, NEW a, a = get_physical_addresses(r, off[r])
  PROVE  /\ RemoveReg(t, r, a) \in Tables
         /\ Right(RemoveReg(t, r, a), [off EXCEPT ![r] = NULL])
<1>1. CASE a # NULL
  BY <1>1, RemovePlaced
<1>2. CASE a = NULL
  <2>1. RemoveReg(t, r, a) = t
    BY <1>2 DEF RemoveReg
  <2>2. Right(t, [off EXCEPT ![r] = NULL])
    BY <1>2, NowhereRight
  <2> QED BY <2>1, <2>2
<1> QED BY <1>1, <1>2

\* The numbers that the range of a memory is made of.
LEMMA LocationsType ==
  ASSUME NEW m \in Mems, NEW o \in Offsets
  PROVE  LocationsOf(m, o) \in [mem : {m}, min : Nat, max : Nat]
<1>1. /\ Base \in Nat /\ SubmapOffset \in Nat /\ n_bytes \in Nat /\ o \in Nat
      /\ Size[m] - 1 \in Nat
  BY MapAssumption
<1>2. (Size[m] - 1) * n_bytes \in Nat /\ 0 * n_bytes = 0
  BY <1>1
<1> DEFINE sub == IF Home[m] = "sub" THEN SubmapOffset ELSE 0
<1>3. sub \in Nat
  BY <1>1
<1> HIDE DEF sub
<1>4. /\ Base + sub + o + 0 * n_bytes \in Nat
      /\ Base + sub + o + (Size[m] - 1) * n_bytes \in Nat
  BY <1>1, <1>2, <1>3
<1> QED BY <1>4 DEF LocationsOf, Location, sub

\* Whatever is read for the last addresses, the range has the locations of its memory;
\* in the top map it is them.
LEMMA RangeIs ==
  ASSUME NEW m \in Mems, NEW o \in Offsets, NEW x, Fits(x, m, o)
  PROVE  /\ x \in [mem : {m}, min : Nat, max : Nat]
         /\ x.min <= LocationsOf(m, o).min /\ LocationsOf(m, o).max <= x.max
         /\ Home[m] = "top" => x = LocationsOf(m, o)
<1> DEFINE right == LocationsOf(m, o)
<1>1. right \in [mem : {m}, min : Nat, max : Nat]
  BY LocationsType
<1>2. PICK junk \in Junk : x = RangeOf(m, o, junk)
  BY DEF Fits
<1>3. junk[1] \in Nat /\ junk[2] \in Nat
  BY <1>2, MapAssumption DEF Junk
<1>4. x = IF Home[m] = "top" THEN right
          ELSE [mem |-> m, min |-> IF junk[1] < right.min THEN junk[1] ELSE right.min,
                           max |-> IF junk[2] > right.max THEN junk[2] ELSE right.max]
  BY <1>2 DEF RangeOf
<1> HIDE DEF right
<1>5. CASE Home[m] = "top"
  BY <1>1, <1>4, <1>5 DEF right
<1>6. CASE Home[m] # "top"
  <2> DEFINE lo == IF junk[1] < right.min THEN junk[1] ELSE right.min
             hi == IF junk[2] > right.max THEN junk[2] ELSE right.max
  <2>1. lo \in Nat /\ hi \in Nat /\ lo <= right.min /\ right.max <= hi
    BY <1>1, <1>3
  <2>2. x = [mem |-> m, min |-> lo, max |-> hi]
    BY <1>4, <1>6
  <2> HIDE DEF lo, hi
  <2> QED BY <1>6, <2>1, <2>2 DEF right
<1> QED BY <1>5, <1>6

\* A memory is entered in its place; a clash is reported, but not one between two
\* of the submap at lock_model.
LEMMA EnterMemRight ==
  ASSUME NEW t \in Tables, NEW off \in Offset, Right(t, off), NEW m \in Mems,
         off[m] = NULL, NEW o \in Offsets, NEW x, Fits(x, m, o), NEW ranges,
         \/ ranges = t.mems
         \/ Home[m] = "sub" /\ \A n \in Mems : off[n] # NULL => Home[n] = "sub"
  PROVE  /\ EnterMem(t, x, ranges) \in Tables
         /\ Right(EnterMem(t, x, ranges), [off EXCEPT ![m] = o])
<1> DEFINE u == EnterMem(t, x, ranges)
           new == [off EXCEPT ![m] = o]
           clash == \/ \E range \in ranges : Overlap(x, range)
                    \/ \E a \in Addresses : t.regs[a] # NULL /\ Within(a, x)
           mems == t.mems \cup {x}
<1>1. /\ t.mems \in SUBSET [mem : Mems, min : Nat, max : Nat] /\ t.warned \in BOOLEAN
  BY TablesFields
<1>2. x \in [mem : Mems, min : Nat, max : Nat] /\ x.mem = m
  BY RangeIs
<1>3. clash \in BOOLEAN
  OBVIOUS
<1>4. u = Warned([t EXCEPT !.mems = @ \cup {x}], clash)
  BY DEF EnterMem
<1>11. ~clash => \A y \in ranges : ~Overlap(x, y)
  OBVIOUS
<1> HIDE DEF clash, u
<1>5. /\ u \in Tables /\ u.regs = t.regs /\ u.wo = t.wo /\ u.mems = mems
      /\ u.read_only = t.read_only /\ u.write_only = t.write_only /\ u.warned = (t.warned \/ clash)
  <2>1. mems \in SUBSET [mem : Mems, min : Nat, max : Nat]
    BY <1>1, <1>2
  <2>2. u = [[t EXCEPT !.mems = mems] EXCEPT !.warned = @ \/ clash]
    BY <1>4 DEF Warned
  <2> HIDE DEF mems
  <2>3. u = [regs |-> t.regs, wo |-> t.wo, mems |-> mems, read_only |-> t.read_only,
             write_only |-> t.write_only, warned |-> t.warned \/ clash]
    BY <2>2 DEF Tables
  <2>4. u \in Tables
    BY <1>1, <1>3, <2>1, <2>3, TablesFields DEF Tables
  <2> QED BY ONLY <2>3, <2>4
<1>6. \A y \in Elements : new[y] = IF y = m THEN o ELSE off[y]
  BY DEF Offset
<1>7. m \notin Regs /\ \A y \in Regs : y \in Elements /\ y # m
  BY MapAssumption DEF Elements
<1> HIDE DEF new
<1>8. \A a \in Addresses : PlacedAt(new, a) = PlacedAt(off, a)
  BY <1>6, <1>7 DEF PlacedAt
<1>9. ASSUME ~t.warned, ~clash PROVE Right(u, new)
  <2>1. \A r \in Regs : Beside(new, r) <=> Beside(off, r)
    BY <1>8 DEF Beside
  <2>2. RegsRight(t, off) => RegsRight(u, new)
    <3>1. \A a \in Addresses : Entry(t, off, a) => Entry(u, new, a)
      BY <1>5, <1>8 DEF Entry
    <3> QED BY <1>5, <2>1, <3>1 DEF RegsRight
  <2>3. MemsRight(t, off)
    BY <1>9 DEF Right
  <2>4. \A y \in Mems : new[y] = IF y = m THEN o ELSE off[y]
    BY <1>6 DEF Elements
  <2>5. \A y \in t.mems : y.mem \in Mems /\ y.mem # m /\ new[y.mem] = off[y.mem]
    BY <1>1, <2>3, <2>4 DEF MemsRight
  <2>6. \A y \in t.mems : Home[m] = "top" \/ Home[y.mem] = "top" => ~Overlap(x, y) /\ ~Overlap(y, x)
    <3>1. ranges = t.mems => \A y \in t.mems : ~Overlap(x, y)
      BY <1>9, <1>11
    <3>2. \A y \in t.mems : Overlap(x, y) <=> Overlap(y, x)
      BY DEF Overlap
    <3>3. ranges # t.mems => Home[m] # "top" /\ \A y \in t.mems : Home[y.mem] # "top"
      BY <2>3, <2>5 DEF MemsRight
    <3> QED BY <3>1, <3>2, <3>3
  <2>7. MemsRight(u, new)
    <3>1. \A n \in Mems : new[n] # NULL => \E y \in mems : y.mem = n
      BY <1>2, <2>3, <2>4 DEF MemsRight
    <3>2. \A y \in mems : new[y.mem] # NULL /\ Fits(y, y.mem, new[y.mem])
      BY <1>2, <2>3, <2>4, <2>5, MapAssumption DEF MemsRight
    <3>3. \A y, z \in mems : Home[y.mem] = "top" => y = z \/ ~Overlap(y, z)
      BY <1>2, <2>3, <2>6 DEF MemsRight
    <3> HIDE DEF mems
    <3> QED BY <1>5, <3>1, <3>2, <3>3 DEF MemsRight
  <2> QED BY <1>9, <2>2, <2>3, <2>7 DEF Right
<1>10. ASSUME t.warned \/ clash PROVE Right(u, new)
  <2>1. u.warned
    BY <1>5, <1>10, Zenon
  <2> QED BY <2>1 DEF Right
<1> QED BY <1>5, <1>9, <1>10 DEF u, new

\* The range of a memory that was there is taken out.
LEMMA RemoveMemRight ==
  ASSUME NEW t \in Tables, NEW off \in Offset, Right(t, off), NEW m \in Mems
  PROVE  /\ RemoveMem(t, m) \in Tables
         /\ Right(RemoveMem(t, m), [off EXCEPT ![m] = NULL])
<1> DEFINE u == RemoveMem(t, m)
           new == [off EXCEPT ![m] = NULL]
           mems == {range \in t.mems : range.mem # m}
<1>1. /\ t.mems \in SUBSET [mem : Mems, min : Nat, max : Nat] /\ t.warned \in BOOLEAN
  BY TablesFields
<1>2. u = [t EXCEPT !.mems = mems]
  BY DEF RemoveMem
<1> HIDE DEF u
<1>3. /\ u \in Tables /\ u.regs = t.regs /\ u.wo = t.wo /\ u.mems = mems
      /\ u.read_only = t.read_only /\ u.write_only = t.write_only /\ u.warned = t.warned
  <2>1. mems \in SUBSET [mem : Mems, min : Nat, max : Nat]
    BY <1>1
  <2> HIDE DEF mems
  <2> QED BY <1>2, <2>1 DEF Tables
<1>4. \A x \in Elements : new[x] = IF x = m THEN NULL ELSE off[x]
  BY DEF Offset
<1>5. m \notin Regs /\ \A x \in Regs : x \in Elements /\ x # m
  BY MapAssumption DEF Elements
<1> HIDE DEF new
<1>6. \A a \in Addresses : PlacedAt(new, a) = PlacedAt(off, a)
  BY <1>4, <1>5 DEF PlacedAt
<1>7. ASSUME ~t.warned PROVE Right(u, new)
  <2>1. \A r \in Regs : Beside(new, r) <=> Beside(off, r)
    BY <1>6 DEF Beside
  <2>2. RegsRight(t, off) => RegsRight(u, new)
    <3>1. \A a \in Addresses : Entry(t, off, a) => Entry(u, new, a)
      BY <1>3, <1>6 DEF Entry
    <3> QED BY <1>3, <2>1, <3>1 DEF RegsRight
  <2>3. MemsRight(t, off)
    BY <1>7 DEF Right
  <2>4. \A x \in Mems : new[x] = IF x = m THEN NULL ELSE off[x]
    BY <1>4 DEF Elements
  <2>5. \A x \in t.mems : x.mem \in Mems
    BY <1>1
  <2>6. MemsRight(u, new)
    BY <1>3, <2>3, <2>4, <2>5 DEF MemsRight
  <2> QED BY <1>7, <2>2, <2>3, <2>6 DEF Right
<1>8. ASSUME t.warned PROVE Right(u, new)
  <2>1. u.warned
    BY <1>3, <1>8, Zenon
  <2> QED BY <2>1 DEF Right
<1> QED BY <1>3, <1>7, <1>8 DEF u, new

-----------------------------------------------------------------------------
(* lock_model: all of them *)

\* A set of numbers has a least one.
LEMMA LeastOf ==
  ASSUME NEW T \in SUBSET Nat, T # {}
  PROVE  \E m \in T : \A n \in T : m <= n
<1>1. PICK m \in T : \A n \in T : <<n, m>> \notin OpToRel(<, Nat)
  BY NatLessThanWellFounded, WFMin
<1>2. \A n \in T : ~(n < m)
  BY <1>1 DEF OpToRel
<1> QED BY <1>2

\* What holds at the start of a list, and at each place if it does at the one before.
LEMMA Along ==
  ASSUME NEW N \in Nat, NEW I \in SUBSET (0 .. N), 0 \in I, \A i \in 1 .. N : i - 1 \in I => i \in I
  PROVE  I = 0 .. N
<1> SUFFICES ASSUME (0 .. N) \ I # {} PROVE FALSE
  OBVIOUS
<1> DEFINE T == (0 .. N) \ I
<1>1. T \in SUBSET Nat /\ T # {}
  OBVIOUS
<1> HIDE DEF T
<1>2. PICK k \in T : \A j \in T : k <= j
  BY <1>1, LeastOf
<1>3. k \in 0 .. N /\ k \notin I /\ k # 0
  BY <1>2 DEF T
<1>4. k \in 1 .. N /\ k - 1 \in 0 .. N /\ k - 1 \notin T
  BY <1>2, <1>3
<1> QED BY <1>3, <1>4 DEF T

\* A walk along a list that makes something of what it has at each place.
Walks(f, F, t, D, N) ==
  f \in [0 .. N -> D] /\ f[0] = t /\ \A i \in 1 .. N : f[i] = F[<<i, f[i - 1]>>]

\* There is one.
LEMMA Walk ==
  ASSUME NEW N \in Nat, NEW D, NEW t \in D, NEW F \in [(1 .. N) \X D -> D]
  PROVE  \E f : Walks(f, F, t, D, N)
<1> DEFINE IsWalk(f, k) == /\ f \in [0 .. k -> D] /\ f[0] = t
                           /\ \A i \in 1 .. k : f[i] = F[<<i, f[i - 1]>>]
           I == {k \in 0 .. N : \E f : IsWalk(f, k)}
<1>1. 0 \in I
  <2> DEFINE f == [i \in 0 .. 0 |-> t]
  <2>1. IsWalk(f, 0)
    OBVIOUS
  <2> HIDE DEF IsWalk, f
  <2> QED BY <2>1
<1>2. ASSUME NEW k \in 1 .. N, k - 1 \in I PROVE k \in I
  <2>1. PICK f : IsWalk(f, k - 1)
    BY <1>2
  <2> DEFINE g == [i \in 0 .. k |-> IF i = k THEN F[<<k, f[k - 1]>>] ELSE f[i]]
  <2>2. \A i \in 0 .. k - 1 : i \in 0 .. k /\ i # k /\ g[i] = f[i] /\ f[i] \in D
    BY <2>1
  <2>3. k - 1 \in 0 .. k - 1 /\ k \in 0 .. k /\ g[k] = F[<<k, f[k - 1]>>]
    OBVIOUS
  <2>4. g[k] \in D /\ g[k] = F[<<k, g[k - 1]>>]
    BY <2>2, <2>3
  <2>5. \A i \in 0 .. k : i = k \/ i \in 0 .. k - 1
    OBVIOUS
  <2>6. g = [i \in 0 .. k |-> g[i]]
    OBVIOUS
  <2> HIDE DEF g
  <2>7. \A i \in 0 .. k : g[i] \in D
    BY <2>2, <2>4, <2>5
  <2>8. \A i \in 1 .. k - 1 : g[i] = F[<<i, g[i - 1]>>]
    BY <2>1, <2>2
  <2>9. \A i \in 1 .. k : i = k \/ i \in 1 .. k - 1
    OBVIOUS
  <2>10. g[0] = t
    BY <2>1, <2>2
  <2>11. IsWalk(g, k)
    BY <2>4, <2>6, <2>7, <2>8, <2>9, <2>10
  <2> HIDE DEF IsWalk
  <2> QED BY <2>11
<1>3. I = 0 .. N
  <2>1. I \in SUBSET (0 .. N)
    OBVIOUS
  <2> HIDE DEF I
  <2> QED BY <1>1, <1>2, <2>1, Along
<1>4. N \in I
  BY <1>3
<1> QED BY <1>4 DEF Walks

\* The offsets of the elements of S, as if the others were not mapped.
Part(S) == [e \in Elements |-> IF e \in S THEN offset[e] ELSE NULL]

\* One more element, or none if it is not mapped.
LEMMA PartMore ==
  ASSUME offset \in Offset, NEW S \in SUBSET Elements, NEW e \in Elements
  PROVE  /\ Part(S) \in Offset /\ (e \notin S => Part(S)[e] = NULL)
         /\ [Part(S) EXCEPT ![e] = offset[e]] = Part(S \cup {e})
         /\ (offset[e] = NULL /\ e \notin S => Part(S \cup {e}) = Part(S))
BY DEF Part, Offset

\* m_init_address_map adds the registers and memories of one map.
LEMMA InitMapRight ==
  ASSUME offset \in Offset, NEW home \in {"top", "sub"}, NEW t \in Tables,
         NEW S \in SUBSET Elements, \A e \in S : Home[e] # home, home = "top" \/ S = {},
         Right(t, Part(S)), NEW junk \in [Mems -> Junk]
  PROVE  /\ InitMap(t, home, junk) \in Tables
         /\ Right(InitMap(t, home, junk), Part(S \cup {e \in Elements : Home[e] = home}))
<1> DEFINE N == Len(Order)
           own(u) == IF home = "top" THEN u.mems ELSE {}
           here(e) == Home[e] = home /\ offset[e] # NULL
           WithReg(i, u) == IF Order[i] \in Regs /\ here(Order[i])
                            THEN EnterReg(u, Order[i], get_physical_addresses(Order[i], offset[Order[i]]),
                                          own(u))
                            ELSE u
           WithMem(i, u) == IF Order[i] \in Mems /\ here(Order[i])
                            THEN EnterMem(u, RangeOf(Order[i], offset[Order[i]], junk[Order[i]]), own(u))
                            ELSE u
           regs == CHOOSE g : g = [i \in 0 .. N |-> IF i = 0 THEN t ELSE WithReg(i, g[i - 1])]
           mems == CHOOSE g : g = [i \in 0 .. N |-> IF i = 0 THEN regs[N] ELSE WithMem(i, g[i - 1])]
           Listed(i) == {Order[j] : j \in 1 .. i}
           R(i) == S \cup {e \in Regs : Home[e] = home /\ e \in Listed(i)}
           M(i) == R(N) \cup {e \in Mems : Home[e] = home /\ e \in Listed(i)}
<1>1. /\ N \in Nat /\ \A i \in 1 .. N : Order[i] \in Elements
      /\ \A i, j \in 1 .. N : Order[i] = Order[j] => i = j
      /\ Elements = {Order[i] : i \in 1 .. N}
  BY MapAssumption DEF IsInjective, ToSet, Elements
<1>2. InitMap(t, home, junk) = mems[N]
  BY DEF InitMap
<1> HIDE DEF N
<1>3. \A i \in 1 .. N : /\ Listed(i) = Listed(i - 1) \cup {Order[i]}
                        /\ Order[i] \notin Listed(i - 1)
  <2> SUFFICES ASSUME NEW i \in 1 .. N
               PROVE  Listed(i) = Listed(i - 1) \cup {Order[i]} /\ Order[i] \notin Listed(i - 1)
    OBVIOUS
  <2>1. 1 .. i = (1 .. i - 1) \cup {i} /\ i \notin 1 .. i - 1 /\ 1 .. i - 1 \subseteq 1 .. N
    BY <1>1
  <2> QED BY <1>1, <2>1
<1>4. \A i \in 0 .. N : R(i) \in SUBSET Elements /\ M(i) \in SUBSET Elements
  BY DEF Elements
<1>5. Listed(0) = {} /\ Listed(N) = Elements
  BY <1>1
<1>6. \A i \in 1 .. N : /\ R(i) = IF Order[i] \in Regs /\ Home[Order[i]] = home
                                  THEN R(i - 1) \cup {Order[i]} ELSE R(i - 1)
                        /\ Order[i] \in Regs /\ Home[Order[i]] = home => Order[i] \notin R(i - 1)
  BY <1>3
<1>7. \A i \in 1 .. N : /\ M(i) = IF Order[i] \in Mems /\ Home[Order[i]] = home
                                  THEN M(i - 1) \cup {Order[i]} ELSE M(i - 1)
                        /\ Order[i] \in Mems /\ Home[Order[i]] = home => Order[i] \notin M(i - 1)
  BY <1>3, MapAssumption
<1>8. R(0) = S /\ M(0) = R(N) /\ M(N) = S \cup {e \in Elements : Home[e] = home}
  BY <1>5 DEF Elements
<1> HIDE DEF Listed, R, M, own
<1>9. ASSUME NEW i \in 1 .. N, NEW u \in Tables, Right(u, Part(R(i - 1)))
      PROVE  WithReg(i, u) \in Tables /\ Right(WithReg(i, u), Part(R(i)))
  <2> DEFINE r == Order[i]
  <2>1. /\ r \in Elements /\ R(i - 1) \in SUBSET Elements
        /\ R(i) = IF r \in Regs /\ Home[r] = home THEN R(i - 1) \cup {r} ELSE R(i - 1)
        /\ (r \in Regs /\ Home[r] = home => r \notin R(i - 1))
    <3>1. i \in 1 .. N /\ i - 1 \in 0 .. N
      BY <1>1
    <3> QED BY <1>1, <1>4, <1>6, <3>1
  <2> DEFINE off == Part(R(i - 1))
  <2>2. /\ off \in Offset /\ (r \notin R(i - 1) => off[r] = NULL)
        /\ [off EXCEPT ![r] = offset[r]] = Part(R(i - 1) \cup {r})
        /\ (offset[r] = NULL /\ r \notin R(i - 1) => Part(R(i - 1) \cup {r}) = off)
    BY <2>1, PartMore
  <2> HIDE DEF r
  <2>3. WithReg(i, u) = IF r \in Regs /\ here(r)
                        THEN EnterReg(u, r, get_physical_addresses(r, offset[r]), own(u)) ELSE u
    BY DEF r
  <2> HIDE DEF WithReg, off
  <2>4. CASE r \in Regs /\ here(r)
    <3>1. offset[r] \in Offsets
      BY <2>1, <2>4 DEF Offset
    <3>2. off[r] = NULL /\ Right(u, off)
      BY <1>9, <2>1, <2>2, <2>4 DEF off
    <3>3. /\ EnterReg(u, r, get_physical_addresses(r, offset[r]), own(u)) \in Tables
          /\ Right(EnterReg(u, r, get_physical_addresses(r, offset[r]), own(u)),
                   [off EXCEPT ![r] = offset[r]])
      BY <2>2, <2>4, <3>1, <3>2, EnterRegRight
    <3>4. R(i) = R(i - 1) \cup {r}
      BY <2>1, <2>4
    <3> QED BY <2>2, <2>3, <2>4, <3>3, <3>4
  <2>5. CASE ~(r \in Regs /\ here(r))
    <3>1. Part(R(i)) = off
      BY <2>1, <2>2, <2>5 DEF off
    <3> QED BY <1>9, <2>3, <2>5, <3>1 DEF off
  <2> QED BY <2>4, <2>5
<1>10. ASSUME NEW i \in 1 .. N, NEW u \in Tables, Right(u, Part(M(i - 1)))
       PROVE  WithMem(i, u) \in Tables /\ Right(WithMem(i, u), Part(M(i)))
  <2> DEFINE m == Order[i]
  <2>1. /\ m \in Elements /\ M(i - 1) \in SUBSET Elements
        /\ M(i) = IF m \in Mems /\ Home[m] = home THEN M(i - 1) \cup {m} ELSE M(i - 1)
        /\ (m \in Mems /\ Home[m] = home => m \notin M(i - 1))
    <3>1. i \in 1 .. N /\ i - 1 \in 0 .. N
      BY <1>1
    <3> QED BY <1>1, <1>4, <1>7, <3>1
  <2> DEFINE off == Part(M(i - 1))
  <2>2. /\ off \in Offset /\ (m \notin M(i - 1) => off[m] = NULL)
        /\ [off EXCEPT ![m] = offset[m]] = Part(M(i - 1) \cup {m})
        /\ (offset[m] = NULL /\ m \notin M(i - 1) => Part(M(i - 1) \cup {m}) = off)
    BY <2>1, PartMore
  <2> HIDE DEF m
  <2>3. WithMem(i, u) = IF m \in Mems /\ here(m) THEN EnterMem(u, RangeOf(m, offset[m], junk[m]), own(u)) ELSE u
    BY DEF m
  <2> HIDE DEF WithMem, off
  <2>4. CASE m \in Mems /\ here(m)
    <3>1. offset[m] \in Offsets
      BY <2>1, <2>4 DEF Offset
    <3>2. off[m] = NULL /\ Right(u, off)
      BY <1>10, <2>1, <2>2, <2>4 DEF off
    <3> DEFINE x == RangeOf(m, offset[m], junk[m])
    <3>3. Fits(x, m, offset[m])
      BY <2>4 DEF Fits
    <3>4. own(u) = u.mems \/ (home = "sub" /\ \A n \in Mems : off[n] # NULL => Home[n] = "sub")
      <4>1. home = "sub" => \A n \in M(i - 1) : Home[n] = "sub"
        BY DEF M, R
      <4>2. \A n \in Mems : off[n] # NULL => n \in M(i - 1)
        BY DEF off, Part, Elements
      <4> QED BY <4>1, <4>2 DEF own
    <3> HIDE DEF x
    <3>5. /\ EnterMem(u, RangeOf(m, offset[m], junk[m]), own(u)) \in Tables
          /\ Right(EnterMem(u, RangeOf(m, offset[m], junk[m]), own(u)), [off EXCEPT ![m] = offset[m]])
      BY <2>2, <2>4, <3>1, <3>2, <3>3, <3>4, EnterMemRight DEF x
    <3>6. M(i) = M(i - 1) \cup {m}
      BY <2>1, <2>4
    <3> QED BY <2>2, <2>3, <2>4, <3>5, <3>6
  <2>5. CASE ~(m \in Mems /\ here(m))
    <3>1. Part(M(i)) = off
      BY <2>1, <2>2, <2>5 DEF off
    <3> QED BY <1>10, <2>3, <2>5, <3>1 DEF off
  <2> QED BY <2>4, <2>5
<1> HIDE DEF WithReg, WithMem
<1>11. regs[N] \in Tables /\ Right(regs[N], Part(R(N)))
  <2> DEFINE F == [p \in (1 .. N) \X Tables |->
                     IF Right(p[2], Part(R(p[1] - 1))) THEN WithReg(p[1], p[2]) ELSE p[2]]
             Solves(g) == g = [i \in 0 .. N |-> IF i = 0 THEN t ELSE WithReg(i, g[i - 1])]
  <2>1. F \in [(1 .. N) \X Tables -> Tables]
    <3>1. ASSUME NEW p \in (1 .. N) \X Tables
          PROVE  (IF Right(p[2], Part(R(p[1] - 1))) THEN WithReg(p[1], p[2]) ELSE p[2]) \in Tables
      <4>1. p[1] \in 1 .. N /\ p[2] \in Tables
        OBVIOUS
      <4> QED BY <4>1, <1>9
    <3> QED BY <3>1
  <2>2. \A i \in 1 .. N, u \in Tables : Right(u, Part(R(i - 1))) => F[<<i, u>>] = WithReg(i, u)
    OBVIOUS
  <2> HIDE DEF F
  <2>3. PICK f : Walks(f, F, t, Tables, N)
    <3>1. N \in Nat /\ t \in Tables
      BY <1>1
    <3> QED BY ONLY <2>1, <3>1, Walk
  <2>4. f \in [0 .. N -> Tables] /\ f[0] = t /\ \A i \in 1 .. N : f[i] = F[<<i, f[i - 1]>>]
    BY <2>3 DEF Walks
  <2> DEFINE I == {i \in 0 .. N : Right(f[i], Part(R(i)))}
  <2>5. 0 \in I
    BY <1>1, <1>8, <2>4
  <2>6. ASSUME NEW i \in 1 .. N, i - 1 \in I
        PROVE  i \in I /\ f[i] = WithReg(i, f[i - 1])
    <3>1. i - 1 \in 0 .. N /\ i \in 0 .. N /\ f[i - 1] \in Tables /\ Right(f[i - 1], Part(R(i - 1)))
      BY <1>1, <2>4, <2>6
    <3>2. f[i] = WithReg(i, f[i - 1])
      BY <2>2, <2>4, <3>1
    <3> QED BY <1>9, <3>1, <3>2
  <2>7. I = 0 .. N
    <3>1. I \in SUBSET (0 .. N)
      OBVIOUS
    <3> HIDE DEF I
    <3> QED BY <1>1, <2>5, <2>6, <3>1, Along
  <2>8. \A i \in 1 .. N : i - 1 \in I
    BY <1>1, <2>7
  <2>9. Solves(f)
    <3>1. \A i \in 0 .. N : f[i] = IF i = 0 THEN t ELSE WithReg(i, f[i - 1])
      <4>1. \A i \in 0 .. N : i = 0 \/ i \in 1 .. N
        BY <1>1
      <4>2. \A i \in 1 .. N : i # 0
        BY <1>1
      <4> HIDE DEF I
      <4> QED BY <2>4, <2>6, <2>8, <4>1, <4>2
    <3>2. f = [i \in 0 .. N |-> f[i]]
      BY <2>4
    <3> QED BY <3>1, <3>2
  <2>10. Solves(regs)
    <3> HIDE DEF Solves
    <3>1. \E g : Solves(g)
      BY <2>9
    <3>2. regs = CHOOSE g : Solves(g)
      BY DEF Solves
    <3> HIDE DEF regs
    <3> QED BY <3>1, <3>2
  <2> HIDE DEF regs
  <2> DEFINE J == {i \in 0 .. N : regs[i] = f[i]}
  <2>11. regs[0] = t /\ \A i \in 1 .. N : i \in 0 .. N /\ regs[i] = WithReg(i, regs[i - 1])
    <3>1. 0 \in 0 .. N /\ \A i \in 1 .. N : i \in 0 .. N /\ i # 0
      BY <1>1
    <3> QED BY <2>10, <3>1
  <2>12. J = 0 .. N
    <3>1. 0 \in J
      BY <1>1, <2>4, <2>11
    <3>2. ASSUME NEW i \in 1 .. N, i - 1 \in J PROVE i \in J
      BY <2>6, <2>8, <2>11, <3>2
    <3>3. J \in SUBSET (0 .. N)
      OBVIOUS
    <3> HIDE DEF J
    <3> QED BY <1>1, <3>1, <3>2, <3>3, Along
  <2>13. N \in I /\ N \in J
    BY <1>1, <2>7, <2>12
  <2> QED BY <2>4, <2>13
<1> HIDE DEF regs
<1>12. mems[N] \in Tables /\ Right(mems[N], Part(M(N)))
  <2> DEFINE F == [p \in (1 .. N) \X Tables |->
                     IF Right(p[2], Part(M(p[1] - 1))) THEN WithMem(p[1], p[2]) ELSE p[2]]
             Solves(g) == g = [i \in 0 .. N |-> IF i = 0 THEN regs[N] ELSE WithMem(i, g[i - 1])]
  <2>1. F \in [(1 .. N) \X Tables -> Tables]
    <3>1. ASSUME NEW p \in (1 .. N) \X Tables
          PROVE  (IF Right(p[2], Part(M(p[1] - 1))) THEN WithMem(p[1], p[2]) ELSE p[2]) \in Tables
      <4>1. p[1] \in 1 .. N /\ p[2] \in Tables
        OBVIOUS
      <4> QED BY <4>1, <1>10
    <3> QED BY <3>1
  <2>2. \A i \in 1 .. N, u \in Tables : Right(u, Part(M(i - 1))) => F[<<i, u>>] = WithMem(i, u)
    OBVIOUS
  <2> HIDE DEF F
  <2>3. PICK f : Walks(f, F, regs[N], Tables, N)
    <3>1. N \in Nat /\ regs[N] \in Tables
      BY <1>1, <1>11
    <3> QED BY ONLY <2>1, <3>1, Walk
  <2>4. f \in [0 .. N -> Tables] /\ f[0] = regs[N] /\ \A i \in 1 .. N : f[i] = F[<<i, f[i - 1]>>]
    BY <2>3 DEF Walks
  <2> DEFINE I == {i \in 0 .. N : Right(f[i], Part(M(i)))}
  <2>5. 0 \in I
    BY <1>1, <1>8, <2>4, <1>11
  <2>6. ASSUME NEW i \in 1 .. N, i - 1 \in I
        PROVE  i \in I /\ f[i] = WithMem(i, f[i - 1])
    <3>1. i - 1 \in 0 .. N /\ i \in 0 .. N /\ f[i - 1] \in Tables /\ Right(f[i - 1], Part(M(i - 1)))
      BY <1>1, <2>4, <2>6
    <3>2. f[i] = WithMem(i, f[i - 1])
      BY <2>2, <2>4, <3>1
    <3> QED BY <1>10, <3>1, <3>2
  <2>7. I = 0 .. N
    <3>1. I \in SUBSET (0 .. N)
      OBVIOUS
    <3> HIDE DEF I
    <3> QED BY <1>1, <2>5, <2>6, <3>1, Along
  <2>8. \A i \in 1 .. N : i - 1 \in I
    BY <1>1, <2>7
  <2>9. Solves(f)
    <3>1. \A i \in 0 .. N : f[i] = IF i = 0 THEN regs[N] ELSE WithMem(i, f[i - 1])
      <4>1. \A i \in 0 .. N : i = 0 \/ i \in 1 .. N
        BY <1>1
      <4>2. \A i \in 1 .. N : i # 0
        BY <1>1
      <4> HIDE DEF I
      <4> QED BY <2>4, <2>6, <2>8, <4>1, <4>2
    <3>2. f = [i \in 0 .. N |-> f[i]]
      BY <2>4
    <3> QED BY <3>1, <3>2
  <2>10. Solves(mems)
    <3> HIDE DEF Solves
    <3>1. \E g : Solves(g)
      BY <2>9
    <3>2. mems = CHOOSE g : Solves(g)
      BY DEF Solves
    <3> HIDE DEF mems
    <3> QED BY <3>1, <3>2
  <2> HIDE DEF mems
  <2> DEFINE J == {i \in 0 .. N : mems[i] = f[i]}
  <2>11. mems[0] = regs[N] /\ \A i \in 1 .. N : i \in 0 .. N /\ mems[i] = WithMem(i, mems[i - 1])
    <3>1. 0 \in 0 .. N /\ \A i \in 1 .. N : i \in 0 .. N /\ i # 0
      BY <1>1
    <3> QED BY <2>10, <3>1
  <2>12. J = 0 .. N
    <3>1. 0 \in J
      BY <1>1, <2>4, <2>11
    <3>2. ASSUME NEW i \in 1 .. N, i - 1 \in J PROVE i \in J
      BY <2>6, <2>8, <2>11, <3>2
    <3>3. J \in SUBSET (0 .. N)
      OBVIOUS
    <3> HIDE DEF J
    <3> QED BY <1>1, <3>1, <3>2, <3>3, Along
  <2>13. N \in I /\ N \in J
    BY <1>1, <2>7, <2>12
  <2> QED BY <2>4, <2>13
<1> QED BY <1>2, <1>8, <1>12

-----------------------------------------------------------------------------
(* The invariant *)

\* The distance of the locations of a memory is a number.
LEMMA StrideType ==
  ASSUME NEW m \in Mems, NEW o \in Offsets
  PROVE  (LocationsOf(m, o).max - LocationsOf(m, o).min) \div (Size[m] - 1) \in Nat
<1>1. /\ Base \in Nat /\ SubmapOffset \in Nat /\ n_bytes \in Nat /\ o \in Nat
      /\ Size[m] - 1 \in Nat /\ Size[m] - 1 > 0
  BY MapAssumption
<1> DEFINE sub == IF Home[m] = "sub" THEN SubmapOffset ELSE 0
           s == Size[m] - 1
           min == Base + sub + o + 0 * n_bytes
           max == Base + sub + o + s * n_bytes
<1>2. sub \in Nat /\ 0 * n_bytes = 0
  BY <1>1
<1>3. s * n_bytes \in Nat
  BY <1>1
<1>4. LocationsOf(m, o).max = max /\ LocationsOf(m, o).min = min
  BY DEF LocationsOf, Location
<1> HIDE DEF sub, s
<1>5. max - min \in Nat
  BY <1>1, <1>2, <1>3
<1>6. s \in Nat /\ s > 0
  BY <1>1 DEF s
<1> HIDE DEF max, min
<1>7. (max - min) \div s \in Nat
  BY <1>5, <1>6
<1> QED BY <1>4, <1>7 DEF s

\* The tables before lock_model are those of a model without registers and memories.
LEMMA NoTablesRight ==
  ASSUME offset \in Offset
  PROVE  NoTables \in Tables /\ Right(NoTables, Part({}))
<1>1. NoTables \in Tables
  BY DEF NoTables, Tables
<1>2. \A e \in Elements : Part({})[e] = NULL
  BY DEF Part
<1>3. \A a \in Addresses : PlacedAt(Part({}), a) = {}
  BY <1>2 DEF PlacedAt, Elements
<1>4. \A a \in Addresses : Entry(NoTables, Part({}), a)
  BY <1>3 DEF Entry, NoTables
<1>5. \A r \in Regs : ~Beside(Part({}), r)
  BY <1>3 DEF Beside
<1>6. MemsRight(NoTables, Part({}))
  BY <1>2 DEF NoTables, Elements, MemsRight
<1>7. NoTables.read_only = {} /\ NoTables.write_only = {}
  BY DEF NoTables
<1> QED BY <1>1, <1>4, <1>5, <1>6, <1>7 DEF Right, RegsRight

InTop == {m \in Mems : Home[m] = "top"}

\* The parts of the type invariant that are not about the tables.
LEMMA TypeParts ==
  ASSUME TypeOK
  PROVE  /\ m_locked \in BOOLEAN /\ crashed \in BOOLEAN /\ offset \in Offset
         /\ addr \in [Elements -> Nat \cup {NULL}] /\ stride \in [InTop -> Nat]
BY DEF TypeOK, Offset, InTop

\* The invariant after a step, from its parts.
LEMMA MapInvNext ==
  ASSUME m_locked' \in BOOLEAN, crashed' \in BOOLEAN, offset' \in Offset,
         addr' \in [Elements -> Nat \cup {NULL}], stride' \in [InTop -> Nat], tables' \in Tables,
         m_locked' => Right(tables', offset') /\ Cached'
  PROVE  MapInv'
<1>1. /\ tables'.regs \in [Addresses -> Regs \cup {NULL}]
      /\ tables'.wo \in [Addresses -> Regs \cup {NULL}]
      /\ tables'.mems \in SUBSET [mem : Mems, min : Nat, max : Nat]
      /\ tables'.read_only \in SUBSET Regs /\ tables'.write_only \in SUBSET Regs
      /\ tables'.warned \in BOOLEAN
  BY TablesFields
<1>2. TypeOK'
  BY <1>1 DEF TypeOK, Offset, InTop
<1>3. tables' \in Tables' /\ Right(tables, offset)' <=> tables' \in Tables /\ Right(tables', offset')
  BY DEF Tables, Right
<1> QED BY <1>2, <1>3 DEF MapInv

\* Before lock_model there is nothing to agree with.
LEMMA MapStarts ==
  ASSUME Init
  PROVE  MapInv
<1>1. NoTables \in Tables
  BY DEF NoTables, Tables
<1>2. /\ tables.regs \in [Addresses -> Regs \cup {NULL}] /\ tables.wo \in [Addresses -> Regs \cup {NULL}]
      /\ tables.mems \in SUBSET [mem : Mems, min : Nat, max : Nat]
      /\ tables.read_only \in SUBSET Regs /\ tables.write_only \in SUBSET Regs
      /\ tables.warned \in BOOLEAN
  BY <1>1, TablesFields DEF Init
<1> QED BY <1>1, <1>2 DEF Init, MapInv, TypeOK

\* lock_model fills the tables of the submap, then those of the top map.
LEMMA LockKeeps ==
  ASSUME MapInv, lock_model
  PROVE  MapInv'
<1> DEFINE low == {e \in Elements : Home[e] = "sub"}
           high == {e \in Elements : Home[e] = "top"}
<1>0. PICK junk \in [Mems -> Junk] :
        tables' = InitMap(InitMap(NoTables, "sub", junk), "top", junk)
  BY DEF lock_model
<1> DEFINE sub == InitMap(NoTables, "sub", junk)
<1>1. /\ m_locked' = TRUE /\ offset' = offset /\ crashed' = crashed
      /\ tables' = InitMap(sub, "top", junk)
      /\ addr' = [e \in Elements |->
           IF offset[e] = NULL THEN addr[e] ELSE get_physical_addresses(e, offset[e])]
      /\ stride' = [m \in InTop |-> IF offset[m] = NULL THEN 0
           ELSE (LocationsOf(m, offset[m]).max - LocationsOf(m, offset[m]).min) \div (Size[m] - 1)]
  BY <1>0, TypeParts DEF lock_model, MapInv
<1> HIDE DEF sub
<1>2. offset \in Offset /\ addr \in [Elements -> Nat \cup {NULL}] /\ crashed \in BOOLEAN
  BY TypeParts DEF MapInv
<1>3. sub \in Tables /\ Right(sub, Part(low))
  <2> DEFINE none == {}
  <2>1. /\ none = {} /\ none \in SUBSET Elements /\ (\A e \in none : Home[e] # "sub")
        /\ NoTables \in Tables /\ Right(NoTables, Part(none))
    BY <1>2, NoTablesRight
  <2>2. none \cup low = low
    OBVIOUS
  <2> HIDE DEF none, low
  <2>3. /\ InitMap(NoTables, "sub", junk) \in Tables
        /\ Right(InitMap(NoTables, "sub", junk), Part(none \cup {e \in Elements : Home[e] = "sub"}))
    BY ONLY <1>0, <1>2, <2>1, InitMapRight
  <2> QED BY <2>2, <2>3 DEF sub, low
<1>4. tables' \in Tables /\ Right(tables', Part(low \cup high))
  <2>1. low \in SUBSET Elements /\ \A e \in low : Home[e] # "top"
    OBVIOUS
  <2> HIDE DEF low
  <2>2. /\ InitMap(sub, "top", junk) \in Tables
        /\ Right(InitMap(sub, "top", junk), Part(low \cup {e \in Elements : Home[e] = "top"}))
    BY ONLY <1>0, <1>2, <1>3, <2>1, InitMapRight
  <2> QED BY <1>1, <2>2
<1>5. Part(low \cup high) = offset
  <2>1. low \cup high = Elements
    BY MapAssumption DEF Elements
  <2> HIDE DEF low, high
  <2> QED BY <1>2, <2>1 DEF Part, Offset
<1>6. addr' \in [Elements -> Nat \cup {NULL}]
  <2>1. \A e \in Elements : offset[e] # NULL => get_physical_addresses(e, offset[e]) \in Nat \cup {NULL}
    BY <1>2, AddressIs DEF Offset
  <2> QED BY <1>1, <1>2, <2>1
<1>7. stride' \in [InTop -> Nat]
  <2> DEFINE new(m) == (LocationsOf(m, offset[m]).max - LocationsOf(m, offset[m]).min) \div (Size[m] - 1)
  <2>1. \A m \in InTop : offset[m] # NULL => new(m) \in Nat
    BY <1>2, StrideType DEF Offset, Elements, InTop
  <2>2. stride' = [m \in InTop |-> IF offset[m] = NULL THEN 0 ELSE new(m)]
    BY <1>1
  <2> HIDE DEF new
  <2> QED BY <2>1, <2>2
<1>8. Cached'
  BY <1>1 DEF Cached, Elements
<1>9. m_locked' \in BOOLEAN /\ crashed' \in BOOLEAN /\ offset' \in Offset
  BY <1>1, <1>2
<1> HIDE DEF low, high
<1>10. Right(tables', offset')
  BY <1>1, <1>4, <1>5
<1> QED BY <1>4, <1>6, <1>7, <1>8, <1>9, <1>10, MapInvNext

\* A register is taken from where it was, if it was anywhere, and entered again.
LEMMA RegKeeps ==
  ASSUME MapInv, NEW r \in Regs, NEW o \in Offsets \cup {NULL}, set_reg_offset(r, o)
  PROVE  MapInv'
<1> DEFINE removed == IF offset[r] = NULL THEN tables ELSE RemoveReg(tables, r, addr[r])
           a == get_physical_addresses(r, o)
           off == [offset EXCEPT ![r] = NULL]
<1>1. /\ offset' = [offset EXCEPT ![r] = o] /\ UNCHANGED <<m_locked, stride, crashed>>
      /\ IF m_locked /\ o # NULL
         THEN tables' = EnterReg(removed, r, a, tables.mems) /\ addr' = [addr EXCEPT ![r] = a]
         ELSE tables' = (IF m_locked THEN removed ELSE tables) /\ UNCHANGED addr
  BY DEF set_reg_offset
<1>2. /\ m_locked \in BOOLEAN /\ crashed \in BOOLEAN /\ offset \in Offset
      /\ addr \in [Elements -> Nat \cup {NULL}] /\ stride \in [InTop -> Nat] /\ tables \in Tables
      /\ (m_locked => Right(tables, offset) /\ Cached)
  BY TypeParts DEF MapInv
<1>3. r \in Elements
  BY DEF Elements
<1>4. offset' \in Offset /\ off \in Offset /\ off[r] = NULL /\ offset' = [off EXCEPT ![r] = o]
  BY <1>1, <1>2, <1>3 DEF Offset
<1>5. /\ m_locked' \in BOOLEAN /\ crashed' \in BOOLEAN /\ stride' \in [InTop -> Nat]
  BY <1>1, <1>2
<1>6. \A x \in Regs : x # r => offset'[x] = offset[x]
  BY <1>1, <1>2 DEF Offset, Elements
<1>7. ASSUME m_locked PROVE removed \in Tables /\ Right(removed, off)
  <2>1. CASE offset[r] = NULL
    <3>1. off = offset
      BY <1>2, <1>3, <2>1 DEF Offset
    <3> QED BY <1>2, <1>7, <2>1, <3>1
  <2>2. CASE offset[r] # NULL
    <3>1. addr[r] = get_physical_addresses(r, offset[r]) /\ Right(tables, offset)
      BY <1>2, <1>7, <2>2 DEF Cached
    <3> QED BY <1>2, <2>2, <3>1, RemoveRegRight
  <2> QED BY <2>1, <2>2
<1> HIDE DEF removed, off
<1>8. CASE m_locked /\ o # NULL
  <2>1. tables' = EnterReg(removed, r, a, tables.mems) /\ addr' = [addr EXCEPT ![r] = a]
    BY <1>1, <1>8
  <2>2. o \in Offsets /\ a \in Nat \cup {NULL}
    BY <1>3, <1>8, AddressIs
  <2>3. addr' \in [Elements -> Nat \cup {NULL}]
    BY <1>2, <2>1, <2>2
  <2>4. Cached'
    <3> SUFFICES ASSUME NEW x \in Regs, offset'[x] # NULL
                 PROVE  addr'[x] = get_physical_addresses(x, offset'[x])
      BY DEF Cached, get_physical_addresses
    <3>1. CASE x = r
      <4>1. offset'[x] = o /\ addr'[x] = a
        BY <1>1, <1>2, <1>3, <2>1, <3>1 DEF Offset
      <4> QED BY <3>1, <4>1
    <3>2. CASE x # r
      BY <1>2, <1>6, <1>8, <2>1, <3>2 DEF Cached, Elements
    <3> QED BY <3>1, <3>2
  <2>5. tables' \in Tables /\ Right(tables', offset')
    BY <1>4, <1>7, <1>8, <2>1, <2>2, EnterRegRight
  <2> QED BY <1>4, <1>5, <2>3, <2>4, <2>5, MapInvNext
<1>9. CASE m_locked /\ o = NULL
  <2>1. tables' = removed /\ addr' = addr
    BY <1>1, <1>9
  <2>2. offset' = off
    BY <1>1, <1>9 DEF off
  <2>3. Cached'
    <3> SUFFICES ASSUME NEW x \in Regs, offset'[x] # NULL
                 PROVE  addr'[x] = get_physical_addresses(x, offset'[x])
      BY DEF Cached, get_physical_addresses
    <3>1. x # r
      BY <1>4, <2>2
    <3> QED BY <1>2, <1>6, <1>9, <2>1, <3>1 DEF Cached
  <2> QED BY <1>2, <1>4, <1>5, <1>7, <1>9, <2>1, <2>2, <2>3, MapInvNext
<1>10. CASE ~m_locked
  <2>1. tables' = tables /\ addr' = addr /\ m_locked' = m_locked
    BY <1>1, <1>10
  <2> QED BY <1>2, <1>4, <1>5, <1>10, <2>1, MapInvNext
<1> QED BY <1>8, <1>9, <1>10

\* So is a memory; the registers stay where they are.
LEMMA MemKeeps ==
  ASSUME MapInv, NEW m \in Mems, NEW o \in Offsets \cup {NULL}, set_mem_offset(m, o)
  PROVE  MapInv'
<1> DEFINE removed == IF offset[m] = NULL THEN tables ELSE RemoveMem(tables, m)
           a == get_physical_addresses(m, o)
           off == [offset EXCEPT ![m] = NULL]
<1>1. /\ offset' = [offset EXCEPT ![m] = o] /\ m_locked' = m_locked
      /\ IF m_locked /\ o # NULL
         THEN /\ \E junk \in Junk :
                   tables' = EnterMem(removed, RangeOf(m, o, junk), removed.mems)
              /\ addr' = [addr EXCEPT ![m] = a]
              /\ stride' = [n \in InTop |-> IF n = m THEN 0 ELSE stride[n]]
         ELSE tables' = (IF m_locked THEN removed ELSE tables) /\ UNCHANGED <<addr, stride>>
      /\ crashed' \in BOOLEAN
  BY TypeParts DEF set_mem_offset, MapInv
<1>2. /\ m_locked \in BOOLEAN /\ offset \in Offset
      /\ addr \in [Elements -> Nat \cup {NULL}] /\ stride \in [InTop -> Nat] /\ tables \in Tables
      /\ (m_locked => Right(tables, offset) /\ Cached)
  BY TypeParts DEF MapInv
<1>3. m \in Elements /\ m \notin Regs
  BY MapAssumption DEF Elements
<1>4. offset' \in Offset /\ off \in Offset /\ off[m] = NULL /\ offset' = [off EXCEPT ![m] = o]
  BY <1>1, <1>2, <1>3 DEF Offset
<1>5. m_locked' \in BOOLEAN /\ crashed' \in BOOLEAN
  BY <1>1, <1>2
<1>6. \A x \in Regs : offset'[x] = offset[x]
  BY <1>1, <1>2, <1>3 DEF Offset, Elements
<1>7. ASSUME m_locked PROVE removed \in Tables /\ Right(removed, off)
  <2>1. CASE offset[m] = NULL
    <3>1. off = offset
      BY <1>2, <1>3, <2>1 DEF Offset
    <3> QED BY <1>2, <1>7, <2>1, <3>1
  <2>2. CASE offset[m] # NULL
    BY <1>2, <1>7, <2>2, RemoveMemRight
  <2> QED BY <2>1, <2>2
<1> HIDE DEF removed, off
<1>8. addr' \in [Elements -> Nat \cup {NULL}] /\ stride' \in [InTop -> Nat]
  <2>1. o # NULL => a \in Nat \cup {NULL}
    BY <1>3, AddressIs
  <2> HIDE DEF a
  <2> QED BY <1>1, <1>2, <2>1
<1>9. m_locked => Cached'
  <2> SUFFICES ASSUME m_locked, NEW x \in Regs, offset'[x] # NULL
               PROVE  addr'[x] = get_physical_addresses(x, offset'[x])
    BY DEF Cached, get_physical_addresses
  <2>1. addr'[x] = addr[x]
    <3> HIDE DEF a
    <3> QED BY <1>1, <1>2, <1>3 DEF Elements
  <2> QED BY <1>2, <1>6, <2>1 DEF Cached
<1>10. CASE m_locked /\ o # NULL
  <2>1. PICK junk \in Junk : tables' = EnterMem(removed, RangeOf(m, o, junk), removed.mems)
    BY <1>1, <1>10
  <2> DEFINE x == RangeOf(m, o, junk)
  <2>3. o \in Offsets /\ Fits(x, m, o)
    BY <1>10 DEF Fits
  <2> HIDE DEF x
  <2>2. tables' \in Tables /\ Right(tables', offset')
    BY <1>4, <1>7, <1>10, <2>1, <2>3, EnterMemRight DEF x
  <2> QED BY <1>4, <1>5, <1>8, <1>9, <1>10, <2>2, MapInvNext
<1>11. CASE m_locked /\ o = NULL
  <2>1. tables' = removed /\ offset' = off
    BY <1>1, <1>11 DEF off
  <2> QED BY <1>4, <1>5, <1>7, <1>8, <1>9, <1>11, <2>1, MapInvNext
<1>12. CASE ~m_locked
  <2>1. tables' = tables /\ m_locked' = m_locked
    BY <1>1, <1>12
  <2> QED BY <1>2, <1>4, <1>5, <1>8, <1>12, <2>1, MapInvNext
<1> QED BY <1>10, <1>11, <1>12

\* The tables agree with the offsets in every reachable state.
LEMMA MapInvariant == Spec => []MapInv
<1>1. Init => MapInv
  BY MapStarts
<1>2. MapInv /\ [Next]_vars => MapInv'
  <2> SUFFICES ASSUME MapInv, [Next]_vars PROVE MapInv'
    OBVIOUS
  <2>1. CASE lock_model
    BY <2>1, LockKeeps
  <2>2. ASSUME NEW r \in Regs, NEW o \in Offsets \cup {NULL}, set_reg_offset(r, o) PROVE MapInv'
    BY <2>2, RegKeeps
  <2>3. ASSUME NEW m \in Mems, NEW o \in Offsets \cup {NULL}, set_mem_offset(m, o) PROVE MapInv'
    BY <2>3, MemKeeps
  <2>4. CASE UNCHANGED vars
    <3>1. /\ m_locked' = m_locked /\ offset' = offset /\ addr' = addr /\ stride' = stride
          /\ tables' = tables /\ crashed' = crashed
      BY <2>4 DEF vars, info
    <3>2. m_locked => Right(tables', offset') /\ Cached'
      BY <3>1 DEF MapInv, Cached, get_physical_addresses
    <3>3. /\ m_locked' \in BOOLEAN /\ crashed' \in BOOLEAN /\ offset' \in Offset
          /\ addr' \in [Elements -> Nat \cup {NULL}] /\ stride' \in [InTop -> Nat] /\ tables' \in Tables
      BY <3>1, TypeParts DEF MapInv
    <3> QED BY <3>1, <3>2, <3>3, MapInvNext
  <2> QED BY <2>1, <2>2, <2>3, <2>4 DEF Next
<1> QED BY <1>1, <1>2, PTL DEF Spec

-----------------------------------------------------------------------------
(* What it is for *)

\* Offsets, addresses, strides and tables have their types: nothing is entered at a
\* place outside of the map, nor removed from one.
THEOREM TypesOfMap == Spec => []TypeOK
<1>1. MapInv => TypeOK
  BY DEF MapInv
<1> QED BY <1>1, MapInvariant, PTL

\* A register is found at its address and nowhere else, for reading and for
\* writing, whatever was placed, moved and unmapped, as long as no clash was
\* reported (get_reg_by_offset).
THEOREM LookupIsRight ==
  ASSUME OneWriter
  PROVE  Spec => []LookupRight
<1>1. MapInv => LookupRight
  <2> SUFFICES ASSUME MapInv, Reliable, NEW a \in Addresses, NEW read \in BOOLEAN
               PROVE  LET other == IF read THEN "WO" ELSE "RO"
                          fit   == {r \in At(a) : m_get_fields_access(r) # other}
                      IN  CASE At(a) = {} -> get_reg_by_offset(a, read) = NULL
                            [] Cardinality(At(a)) = 1 -> {get_reg_by_offset(a, read)} = At(a)
                            [] OTHER -> {get_reg_by_offset(a, read)} = fit
    BY DEF LookupRight
  <2> DEFINE r == tables.regs[a]
             w == tables.wo[a]
             other == IF read THEN "WO" ELSE "RO"
             fit == {x \in At(a) : m_get_fields_access(x) # other}
             found == get_reg_by_offset(a, read)
  <2>1. At(a) = PlacedAt(offset, a)
    BY DEF At, PlacedAt
  <2>2. Entry(tables, offset, a)
    BY DEF MapInv, Reliable, Right, RegsRight, MemsRight
  <2>3. found = IF ~read /\ w # NULL THEN w ELSE r
    BY DEF get_reg_by_offset
  <2> HIDE DEF r, w, found
  <2>4. CASE At(a) = {}
    <3>1. r = NULL /\ w = NULL
      BY <2>1, <2>2, <2>4 DEF Entry, r, w
    <3>2. Cardinality(At(a)) # 1
      BY <2>4, FS_EmptySet
    <3> QED BY <2>3, <2>4, <3>1, <3>2 DEF found
  <2>5. CASE At(a) = {r} /\ w = NULL
    <3>1. Cardinality(At(a)) = 1
      BY <2>5, FS_Singleton
    <3> QED BY <2>3, <2>5, <3>1 DEF found
  <2>6. CASE /\ At(a) = {r, w} /\ r # w /\ w # NULL
             /\ m_get_fields_access(r) = "RO" /\ m_get_fields_access(w) = "WO"
    <3>1. Cardinality(At(a)) = 2
      <4>1. IsFiniteSet({r}) /\ Cardinality({r}) = 1
        BY FS_Singleton
      <4>2. Cardinality({r} \cup {w}) = 2
        BY <2>6, <4>1, FS_AddElement
      <4> QED BY <2>6, <4>2
    <3>2. {found} = fit
      <4>1. CASE read
        BY <2>3, <2>6, <4>1
      <4>2. CASE ~read
        BY <2>3, <2>6, <4>2
      <4> QED BY <4>1, <4>2
    <3> QED BY <2>6, <3>1, <3>2 DEF found
  <2>7. \/ At(a) = {}
        \/ At(a) = {r} /\ w = NULL
        \/ /\ At(a) = {r, w} /\ r # w /\ w # NULL
           /\ m_get_fields_access(r) = "RO" /\ m_get_fields_access(w) = "WO"
    BY <2>1, <2>2 DEF Entry, r, w
  <2> QED BY <2>4, <2>5, <2>6, <2>7
<1> QED BY <1>1, MapInvariant, PTL

\* A register refuses reads or writes exactly as long as it shares its address: the
\* callbacks that EnterReg adds are those that RemoveReg takes away.
THEOREM CallbacksRight ==
  ASSUME OneWriter
  PROVE  Spec => []RefusedWhenShared
<1>1. MapInv => RefusedWhenShared
  <2> SUFFICES ASSUME MapInv, Reliable PROVE RefusedWhenShared
    BY DEF RefusedWhenShared
  <2>1. /\ tables.read_only = {r \in Regs : Beside(offset, r) /\ m_get_fields_access(r) = "RO"}
        /\ tables.write_only = {r \in Regs : Beside(offset, r) /\ m_get_fields_access(r) = "WO"}
    BY DEF MapInv, Reliable, Right, RegsRight, MemsRight
  <2>2. \A a : At(a) = PlacedAt(offset, a)
    BY DEF At, PlacedAt
  <2>3. \A r \in Regs : Beside(offset, r) <=> \E a \in Addresses : r \in At(a) /\ At(a) # {r}
    BY <2>2 DEF Beside
  <2> QED BY <2>1, <2>3 DEF RefusedWhenShared
<1> QED BY <1>1, MapInvariant, PTL

\* A memory is found at each of its locations, and one of the top map nowhere else
\* and no other one with it, wherever it was before (get_mem_by_offset).
THEOREM MemoriesAreFound == Spec => []MemoriesFound
<1>1. MapInv => MemoriesFound
  <2> DEFINE Mapped(m) == offset[m] # NULL
             at(a) == {m \in Mems : Mapped(m) /\ Within(a, LocationsOf(m, offset[m]))}
             found(a) == get_mem_by_offset(a)
  <2> SUFFICES ASSUME MapInv, Reliable, NEW a \in Int
               PROVE  /\ at(a) \subseteq found(a)
                      /\ (\E m \in found(a) : Home[m] = "top") => found(a) = at(a)
    <3>1. ASSUME NEW m \in Mems, NEW o \in Offsets,
                 NEW a \in LocationsOf(m, o).min .. LocationsOf(m, o).max
          PROVE  a \in Int
      BY LocationsType
    <3> QED BY <3>1 DEF MemoriesFound
  <2>1. MemsRight(tables, offset) /\ offset \in Offset /\ tables \in Tables
    BY TypeParts DEF MapInv, Reliable, Right
  <2>2. \A x \in tables.mems : /\ x.mem \in Mems /\ Mapped(x.mem) /\ offset[x.mem] \in Offsets
                               /\ Fits(x, x.mem, offset[x.mem]) /\ x.min \in Nat /\ x.max \in Nat
    BY <2>1 DEF MemsRight, Tables, Offset, Elements
  <2>3. at(a) \subseteq found(a)
    <3> SUFFICES ASSUME NEW m \in at(a) PROVE m \in found(a)
      OBVIOUS
    <3>1. PICK x \in tables.mems : x.mem = m
      BY <2>1 DEF MemsRight
    <3>2. /\ x.min \in Nat /\ x.max \in Nat
          /\ x.min <= LocationsOf(m, offset[m]).min /\ LocationsOf(m, offset[m]).max <= x.max
      BY <2>2, <3>1, RangeIs
    <3>3. /\ LocationsOf(m, offset[m]).min \in Nat /\ LocationsOf(m, offset[m]).max \in Nat
          /\ LocationsOf(m, offset[m]).min <= a /\ a <= LocationsOf(m, offset[m]).max
      BY <2>2, <3>1, LocationsType DEF Within
    <3>4. Within(a, x)
      BY <3>2, <3>3 DEF Within
    <3> QED BY <3>1, <3>4 DEF get_mem_by_offset
  <2>4. ASSUME NEW m \in found(a), Home[m] = "top" PROVE found(a) = at(a)
    <3>1. PICK x \in tables.mems : x.mem = m /\ Within(a, x)
      BY DEF get_mem_by_offset
    <3>2. m \in at(a)
      BY <2>2, <2>4, <3>1, RangeIs
    <3>3. ASSUME NEW n \in found(a) PROVE n = m
      <4>1. PICK y \in tables.mems : y.mem = n /\ Within(a, y)
        BY DEF get_mem_by_offset
      <4>2. Overlap(x, y)
        BY <2>2, <3>1, <4>1 DEF Overlap, Within
      <4> QED BY <2>1, <2>4, <3>1, <4>1, <4>2 DEF MemsRight
    <3> QED BY <2>3, <2>4, <3>2, <3>3
  <2> QED BY <2>3, <2>4
<1> QED BY <1>1, MapInvariant, PTL

=============================================================================
