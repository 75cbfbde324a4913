------------------------------- MODULE MemMam -------------------------------
(***************************************************************************)
(* uvm_mem_mam, the memory allocation manager of the register layer: it    *)
(* hands out regions of an address space, takes them back and checks the   *)
(* accesses made through them.  m_in_use is kept sorted by start offset,   *)
(* the highest first, and reserve_region stops looking for an overlap at   *)
(* the place where the new region belongs.                                 *)
(*                                                                         *)
(* A region is known to its users by its address (ptr); new may hand out   *)
(* an address again once its region was deleted.  id numbers the           *)
(* allocations, so that two regions at one address can be told apart: the  *)
(* code has no such number.                                                *)
(***************************************************************************)
EXTENDS Integers, SequencesExt

CONSTANTS Ptrs,        \* the addresses that new may return
          Wrap,        \* 2^64, the number of values of an offset
          n_bytes,     \* bytes in a memory location
          Configs,     \* the address ranges the manager is configured with
          Offsets,     \* start offsets that are asked for
          Sizes,       \* sizes in bytes that are asked for
          MaxRegions   \* bound: regions allocated in a behaviour

\* A valid uvm_mem_mam_cfg: bytes per location, and start before end.
ASSUME ConfigAssumption ==
  /\ n_bytes \in Nat \ {0}
  /\ Wrap \in Nat \ {0}
  /\ Configs \subseteq [start : 0 .. Wrap - 1, end : 0 .. Wrap - 1]
  /\ \A cfg \in Configs : cfg.start < cfg.end
ASSUME RequestAssumption ==
  /\ Offsets \subseteq 0 .. Wrap - 1
  /\ Sizes \subseteq Nat
  /\ MaxRegions \in Nat

VARIABLES m_cfg,           \* the current configuration
          m_in_use,        \* the allocated regions
          m_for_each_idx,  \* where for_each stands
          held,            \* the regions handed out, released ones included
          allocations      \* how many there were

vars == <<m_cfg, m_in_use, m_for_each_idx, held, allocations>>

Regions == [ptr : Ptrs, id : Nat, start : 0 .. Wrap - 1, end : 0 .. Wrap - 1]

InUse == {m_in_use[i] : i \in DOMAIN m_in_use}

Init ==
  /\ m_cfg \in Configs
  /\ m_in_use = <<>>
  /\ m_for_each_idx = -1
  /\ held = {} /\ allocations = 0

-----------------------------------------------------------------------------
(* Reserving *)

end_offset(start, size) == (start + (size - 1) \div n_bytes) % Wrap

Overlaps(r, start, end) == start <= r.end /\ end >= r.start

\* The loop stops at the first region that starts below start, or at the end.
IsPlace(i, start) ==
  /\ i \in 1 .. Len(m_in_use) + 1
  /\ \A j \in 1 .. i - 1 : m_in_use[j].start >= start
  /\ i <= Len(m_in_use) => m_in_use[i].start < start

InSpace(start, size) ==
  /\ size > 0
  /\ start >= m_cfg.start
  /\ end_offset(start, size) <= m_cfg.end

\* Mutant of NoOverlap: the place is tested before the overlap.
NoOverlap_AfterPlace(i, start, end) ==
  \A j \in 1 .. i - 1 : ~Overlaps(m_in_use[j], start, end)

\* No overlap with the regions that the loop meets before it stops at i.
NoOverlap(i, start, end) ==
  \A j \in 1 .. i : j <= Len(m_in_use) => ~Overlaps(m_in_use[j], start, end)

\* A call that cannot reserve reports an error and changes nothing.
reserve_region(start, size) ==
  /\ allocations < MaxRegions
  /\ InSpace(start, size)
  /\ \E i \in 1 .. Len(m_in_use) + 1, p \in Ptrs \ {r.ptr : r \in InUse} :
       LET region == [ptr |-> p, id |-> allocations,
                      start |-> start, end |-> end_offset(start, size)]
       IN  /\ IsPlace(i, start) /\ NoOverlap(i, start, region.end)
           /\ m_in_use' = InsertAt(m_in_use, i, region)
           /\ held' = held \cup {region}
  /\ allocations' = allocations + 1
  /\ UNCHANGED <<m_cfg, m_for_each_idx>>

\* The default policy is never randomized: its start_offset remains 0.
request_region(size) == reserve_region(0, size)

-----------------------------------------------------------------------------
(* Releasing, reconfiguring, iterating *)

\* The region is found by its address alone.
release_region(r) ==
  /\ \E i \in DOMAIN m_in_use :
       /\ m_in_use[i].ptr = r.ptr
       /\ m_in_use' = RemoveAt(m_in_use, i)
  /\ UNCHANGED <<m_cfg, m_for_each_idx, held, allocations>>

release_all_regions ==
  /\ m_in_use' = <<>>
  /\ UNCHANGED <<m_cfg, m_for_each_idx, held, allocations>>

\* Mutant of FitsInto: only the lower end is compared.
FitsInto_Start(r, cfg) == r.start >= cfg.start

FitsInto(r, cfg) == r.start >= cfg.start /\ r.end <= cfg.end

reconfigure(cfg) ==
  /\ \A r \in InUse : FitsInto(r, cfg)
  /\ m_cfg' = cfg
  /\ UNCHANGED <<m_in_use, m_for_each_idx, held, allocations>>

\* The position of for_each is an index into m_in_use; beyond its end it
\* returns NULL. Bound: it is not called again at the end without a reset.
for_each(reset) ==
  /\ reset \/ m_for_each_idx < Len(m_in_use)
  /\ m_for_each_idx' = (IF reset THEN -1 ELSE m_for_each_idx) + 1
  /\ UNCHANGED <<m_cfg, m_in_use, held, allocations>>

Next ==
  \/ \E start \in Offsets, size \in Sizes : reserve_region(start, size)
  \/ \E size \in Sizes : request_region(size)
  \/ \E r \in held : release_region(r)
  \/ release_all_regions
  \/ \E cfg \in Configs : reconfigure(cfg)
  \/ \E reset \in BOOLEAN : for_each(reset)

Spec == Init /\ [][Next]_vars

-----------------------------------------------------------------------------
(* Accesses through a region, offset counted from its start *)

m_len(r) == (r.end - r.start + 1) % Wrap

\* Mutant of MayBurst: one location too many.
MayBurst_Longer(r, offset, length) == (offset + length) % Wrap <= m_len(r) + 1

\* burst_write and burst_read of length locations: the sum is one of 64 bits.
MayBurst(r, offset, length) == (offset + length) % Wrap <= m_len(r)

\* The locations that an access of length locations reaches in the memory.
Reached(r, offset, length) ==
  {(r.start + offset + k) % Wrap : k \in 0 .. length - 1}

Locations(r) == r.start .. r.end

-----------------------------------------------------------------------------
(* Properties *)

TypeOK ==
  /\ m_cfg \in Configs
  /\ m_in_use \in Seq(Regions)
  /\ m_for_each_idx \in Nat \cup {-1}
  /\ held \subseteq Regions
  /\ allocations \in Nat

\* No location belongs to two regions, although reserve_region compares with
\* only a part of them.
RegionsDisjoint ==
  \A i, j \in DOMAIN m_in_use :
    i # j => ~Overlaps(m_in_use[i], m_in_use[j].start, m_in_use[j].end)

\* Every region lies in the managed address space, across reconfigurations.
InManagedSpace ==
  \A r \in InUse : /\ m_cfg.start <= r.start /\ r.end <= m_cfg.end
                   /\ r.start <= r.end

\* A burst through a region reaches no location of another one, when the sum of
\* its offset and its length is within 64 bits.
BurstsIsolated ==
  \A r, x \in InUse : r # x =>
    \A offset \in 0 .. Wrap - 1, length \in 1 .. Wrap - 1 :
      offset + length < Wrap /\ MayBurst(r, offset, length) =>
        Reached(r, offset, length) \cap Locations(x) = {}

=============================================================================
