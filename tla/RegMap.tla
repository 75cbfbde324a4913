------------------------------- MODULE RegMap -------------------------------
(***************************************************************************)
(* The address maps of a register model (uvm_reg_map): a top map and a     *)
(* submap of it, on a bus as wide as each register and memory location.    *)
(* lock_model resolves the offsets into the tables of the top map, which   *)
(* get_reg_by_offset and get_mem_by_offset look into; from then on         *)
(* set_offset changes the tables.  A register that can only be read and    *)
(* one that can only be written may share an address: callbacks then       *)
(* refuse the access that does not fit.  A map with a parent loses the     *)
(* addresses it translates: the registers of the submap are never entered, *)
(* and the range of its memory is partly what happens to be in memory.     *)
(***************************************************************************)
EXTENDS Integers, FiniteSets, SequencesExt

CONSTANTS Regs, Mems,
          NULL,
          Policies,     \* the policies of the fields of each register, in its map
          Size,         \* the locations of each memory
          Home,         \* the map of a register or memory: "top" or "sub"
          Order,        \* registers and memories in the order of their addresses
          Base,         \* m_base_addr of the top map
          SubmapOffset, \* the offset of the submap in it
          n_bytes,      \* the width of the bus
          Garbage,      \* bound: what is read from before the start of a list
          Offsets       \* bound: the offsets that are set

\* A memory of one location ends the program: its stride is divided by 0.
ASSUME MapAssumption ==
  /\ Regs \cap Mems = {} /\ NULL \notin Regs \cup Mems \cup Nat
  /\ Order \in Seq(Regs \cup Mems) /\ ToSet(Order) = Regs \cup Mems /\ IsInjective(Order)
  /\ Home \in [Regs \cup Mems -> {"top", "sub"}]
  /\ \A m \in Mems : Size[m] \in Nat /\ Size[m] >= 2
  /\ {Base, SubmapOffset, n_bytes} \subseteq Nat /\ Offsets \cup Garbage \subseteq Nat

VARIABLES m_locked,
          offset,    \* of each register and memory, or NULL if it is unmapped
          addr,      \* their addresses, as cached, or NULL if there is none
          stride,    \* of each memory of the top map
          tables,    \* m_regs_by_offset, ..._wo, m_mems_by_offset; the registers with
                     \* the callbacks; was the user warned of a clash?
          crashed

info == <<offset, addr, stride>>
vars == <<m_locked, info, tables, crashed>>

Elements == Regs \cup Mems

\* Where a location is: the bus is wide enough, so it has one address.
Location(e, base_addr, mem_offset) ==
  Base + (IF Home[e] = "sub" THEN SubmapOffset ELSE 0) + base_addr + mem_offset * n_bytes

\* The address in the list that is returned. A map with a parent copies the list
\* as it was, empty, over the one it had made longer: there is none.
get_physical_addresses(e, base_addr) ==
  IF Home[e] = "top" THEN Location(e, base_addr, 0) ELSE NULL

Addresses == {Location(r, o, 0) : r \in Regs, o \in Offsets}

m_get_fields_access(r) ==
  IF Policies[r] = {} THEN "RW"
  ELSE IF Policies[r] \subseteq {"RO", "RC", "RS"} THEN "RO"
  ELSE IF Policies[r] \subseteq {"WO", "WOC", "WOS", "WO1"} THEN "WO"
  ELSE "RW"

NoTables ==
  [regs |-> [a \in Addresses |-> NULL], wo |-> [a \in Addresses |-> NULL], mems |-> {},
   read_only |-> {}, write_only |-> {}, warned |-> FALSE]

Init ==
  /\ m_locked = FALSE
  /\ offset \in [Elements -> Offsets \cup {NULL}]
  /\ addr = [e \in Elements |-> NULL] /\ stride = [m \in {x \in Mems : Home[x] = "top"} |-> 0]
  /\ tables = NoTables /\ crashed = FALSE

-----------------------------------------------------------------------------
(* The tables *)

\* The locations of a memory.
LocationsOf(m, o) == [mem |-> m, min |-> Location(m, o, 0), max |-> Location(m, o, Size[m] - 1)]

\* The range that is entered, from the first and the last address of two lists. The
\* first of an empty list is what was written there; for the last, what stands
\* before the list is read, junk.
RangeOf(m, o, junk) ==
  LET right == LocationsOf(m, o) IN
  IF Home[m] = "top" THEN right
  ELSE [mem |-> m, min |-> IF junk[1] < right.min THEN junk[1] ELSE right.min,
                   max |-> IF junk[2] > right.max THEN junk[2] ELSE right.max]

Junk == Garbage \X Garbage

Within(a, range) == range.min <= a /\ a <= range.max
Overlap(x, y) == x.min <= y.max /\ y.min <= x.max

Warned(t, clash) == [t EXCEPT !.warned = @ \/ clash]

\* Mutant of EnterReg: what is at the address is not looked at.
EnterReg_Unchecked(t, r, a, ranges) ==
  IF a = NULL THEN t ELSE
  [t EXCEPT !.regs[a] = r, !.wo[a] = t.regs[a], !.write_only = @ \cup {t.regs[a]}]

\* Enter r at a, if there is an address: beside another one only as a read-only
\* beside a write-only one.
EnterReg(t, r, a, ranges) ==
  LET r2 == t.regs[a]
      share(reader, writer) ==
        [t EXCEPT !.regs[a] = reader, !.wo[a] = writer,
                  !.read_only = @ \cup {reader}, !.write_only = @ \cup {writer}]
      entered ==
        IF r2 = NULL THEN [t EXCEPT !.regs[a] = r]
        ELSE LET access == <<m_get_fields_access(r), m_get_fields_access(r2)>> IN
             CASE access = <<"RO", "WO">> -> share(r, r2)
               [] access = <<"WO", "RO">> -> share(r2, r)
               [] OTHER -> Warned(t, TRUE)
  IN  IF a = NULL THEN t ELSE Warned(entered, \E range \in ranges : Within(a, range))

\* Mutant of RemoveReg: the partner keeps its callback.
RemoveReg_Callback(t, r, a) ==
  IF a = NULL THEN t
  ELSE IF t.wo[a] = NULL THEN [t EXCEPT !.regs[a] = NULL]
  ELSE IF t.regs[a] = r
  THEN [t EXCEPT !.regs[a] = t.wo[a], !.wo[a] = NULL, !.read_only = @ \ {r}]
  ELSE [t EXCEPT !.wo[a] = NULL, !.write_only = @ \ {r}]

\* Remove r from a: the entry is erased even if it belongs to another one, beside
\* which r could not be entered.
RemoveReg(t, r, a) ==
  IF a = NULL THEN t
  ELSE IF t.wo[a] = NULL THEN [t EXCEPT !.regs[a] = NULL]
  ELSE IF t.regs[a] = r
  THEN [t EXCEPT !.regs[a] = t.wo[a], !.wo[a] = NULL,
                 !.read_only = @ \ {r}, !.write_only = @ \ {t.wo[a]}]
  ELSE [t EXCEPT !.wo[a] = NULL,
                 !.write_only = @ \ {r}, !.read_only = @ \ {t.regs[a]}]

EnterMem(t, x, ranges) ==
  Warned([t EXCEPT !.mems = @ \cup {x}],
         \/ \E range \in ranges : Overlap(x, range)
         \/ \E a \in Addresses : t.regs[a] # NULL /\ Within(a, x))

\* Mutant of RemoveMem: the old range is kept.
RemoveMem_Kept(t, m) == t

RemoveMem(t, m) == [t EXCEPT !.mems = {range \in @ : range.mem # m}]

-----------------------------------------------------------------------------

\* m_init_address_map of the maps, the submap first, the registers before the
\* memories. Clashes with a memory are looked for in the map's own table, which
\* in a submap is empty.
InitMap(t, home, junk) ==
  LET own(u)  == IF home = "top" THEN u.mems ELSE {}
      here(e) == Home[e] = home /\ offset[e] # NULL
      regs[i \in 0 .. Len(Order)] ==
        IF i = 0 THEN t
        ELSE LET u == regs[i - 1]
                 r == Order[i]
             IN  IF r \in Regs /\ here(r)
                 THEN EnterReg(u, r, get_physical_addresses(r, offset[r]), own(u)) ELSE u
      mems[i \in 0 .. Len(Order)] ==
        IF i = 0 THEN regs[Len(Order)]
        ELSE LET u == mems[i - 1]
                 m == Order[i]
             IN  IF m \in Mems /\ here(m)
                 THEN EnterMem(u, RangeOf(m, offset[m], junk[m]), own(u)) ELSE u
  IN  mems[Len(Order)]

lock_model ==
  /\ ~crashed /\ ~m_locked
  /\ m_locked' = TRUE
  /\ \E junk \in [Mems -> Junk] :
       tables' = InitMap(InitMap(NoTables, "sub", junk), "top", junk)
  /\ addr' = [e \in Elements |->
       IF offset[e] = NULL THEN addr[e] ELSE get_physical_addresses(e, offset[e])]
  /\ stride' = [m \in DOMAIN stride |-> IF offset[m] = NULL THEN 0
       ELSE (LocationsOf(m, offset[m]).max - LocationsOf(m, offset[m]).min) \div (Size[m] - 1)]
  /\ UNCHANGED <<offset, crashed>>

\* m_set_reg_offset; o = NULL is to unmap.
set_reg_offset(r, o) ==
  LET removed == IF offset[r] = NULL THEN tables ELSE RemoveReg(tables, r, addr[r])
      a == get_physical_addresses(r, o)
  IN
  /\ ~crashed
  /\ offset' = [offset EXCEPT ![r] = o]
  /\ IF m_locked /\ o # NULL
     THEN tables' = EnterReg(removed, r, a, tables.mems) /\ addr' = [addr EXCEPT ![r] = a]
     ELSE tables' = (IF m_locked THEN removed ELSE tables) /\ UNCHANGED addr
  /\ UNCHANGED <<m_locked, stride, crashed>>

\* m_set_mem_offset. The stride is computed from twice the same address, and
\* the loop that erases the old range goes on with an iterator that is no longer
\* valid: if the program survives it, it has done what was meant.
set_mem_offset(m, o) ==
  LET removed == IF offset[m] = NULL THEN tables ELSE RemoveMem(tables, m) IN
  /\ ~crashed
  /\ offset' = [offset EXCEPT ![m] = o]
  /\ IF m_locked /\ o # NULL
     THEN /\ \E junk \in Junk :
               tables' = EnterMem(removed, RangeOf(m, o, junk), removed.mems)
          /\ addr' = [addr EXCEPT ![m] = get_physical_addresses(m, o)]
          /\ stride' = [n \in DOMAIN stride |-> IF n = m THEN 0 ELSE stride[n]]
     ELSE tables' = (IF m_locked THEN removed ELSE tables) /\ UNCHANGED <<addr, stride>>
  /\ crashed' \in (IF m_locked /\ offset[m] # NULL THEN BOOLEAN ELSE {FALSE})
  /\ UNCHANGED m_locked

Next ==
  \/ lock_model
  \/ \E r \in Regs, o \in Offsets \cup {NULL} : set_reg_offset(r, o)
  \/ \E m \in Mems, o \in Offsets \cup {NULL} : set_mem_offset(m, o)

Spec == Init /\ [][Next]_vars

-----------------------------------------------------------------------------
(* Lookups and accesses *)

get_reg_by_offset(a, read) ==
  IF ~read /\ tables.wo[a] # NULL THEN tables.wo[a] ELSE tables.regs[a]

\* The first range in the order of the ranges' addresses: one of them.
get_mem_by_offset(a) == {range.mem : range \in {x \in tables.mems : Within(a, x)}}

\* do_bus_write, do_bus_read: where an access of a location goes, which is nowhere
\* without an address.
BusAddress(m, location) == addr[m] + stride[m] * location

-----------------------------------------------------------------------------
(* Properties *)

\* Offsets, addresses, strides and tables have their types: m_set_reg_offset never
\* enters a location outside of the map, nor m_set_mem_offset a negative range.
TypeOK ==
  /\ m_locked \in BOOLEAN /\ crashed \in BOOLEAN
  /\ offset \in [Elements -> Offsets \cup {NULL}]
  /\ addr \in [Elements -> Nat \cup {NULL}]
  /\ stride \in [{m \in Mems : Home[m] = "top"} -> Nat]
  /\ {tables.regs, tables.wo} \subseteq [Addresses -> Regs \cup {NULL}]
  /\ tables.mems \subseteq [mem : Mems, min : Nat, max : Nat]
  /\ {tables.read_only, tables.write_only} \subseteq SUBSET Regs
  /\ tables.warned \in BOOLEAN

\* The registers that have the address a, which those of the submap never have.
At(a) == {r \in Regs : offset[r] # NULL /\ get_physical_addresses(r, offset[r]) = a}

\* The tables are complete as long as no warning was given.
Reliable == m_locked /\ ~crashed /\ ~tables.warned

\* Whatever was moved, unmapped and mapped again, and in whatever order: a
\* register of the top map is found at its address and nowhere else, for reading
\* and for writing, and of two that share an address each for its own access
\* (get_reg_by_offset). A register of the submap is found nowhere.
LookupRight ==
  Reliable =>
    \A a \in Addresses, read \in BOOLEAN :
      LET other == IF read THEN "WO" ELSE "RO"
          fit   == {r \in At(a) : m_get_fields_access(r) # other}
      IN  CASE At(a) = {} -> get_reg_by_offset(a, read) = NULL
            [] Cardinality(At(a)) = 1 -> {get_reg_by_offset(a, read)} = At(a)
            [] OTHER -> {get_reg_by_offset(a, read)} = fit

\* A register refuses reads or writes exactly as long as it shares its address
\* with another one of the top map: the callbacks of a partner that was left alone
\* are gone, and a register of the submap never has one.
RefusedWhenShared ==
  Reliable =>
    LET shared == {r \in Regs : \E a \in Addresses : r \in At(a) /\ At(a) # {r}}
    IN  /\ tables.read_only = {r \in shared : m_get_fields_access(r) = "RO"}
        /\ tables.write_only = {r \in shared : m_get_fields_access(r) = "WO"}

\* Each location of a mapped memory is found (get_mem_by_offset). A memory of the
\* top map is found nowhere else, not where it was before it was moved, and no
\* other one is found with it, however far the range of the submap's reaches.
MemoriesFound ==
  Reliable =>
    \A n \in Mems, o \in Offsets : \A a \in LocationsOf(n, o).min .. LocationsOf(n, o).max :
      LET found == get_mem_by_offset(a)
          at    == {m \in Mems : offset[m] # NULL /\ Within(a, LocationsOf(m, offset[m]))}
      IN  /\ at \subseteq found
          /\ (\E m \in found : Home[m] = "top") => found = at

\* A register of the submap is found at its address: the comment at
\* get_physical_addresses is "Translate a local address into external addresses".
SubmapFound ==
  Reliable =>
    \A r \in Regs : Home[r] = "sub" /\ offset[r] # NULL =>
      r \in {get_reg_by_offset(Location(r, offset[r], 0), read) : read \in BOOLEAN}

\* No two locations of a memory have the same address: the comment at the stride
\* is "address interval between consecutive mem locations".
LocationsApart ==
  Reliable =>
    \A m \in DOMAIN stride : offset[m] # NULL =>
      \A i, j \in 0 .. Size[m] - 1 : i # j => BusAddress(m, i) # BusAddress(m, j)

=============================================================================
