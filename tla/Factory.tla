------------------------------ MODULE Factory ------------------------------
(***************************************************************************)
(* uvm_default_factory: the types registered, the overrides of types and  *)
(* of instances, and the search for the type a request creates.  A type    *)
(* is its proxy and its name at once; the pattern of an instance override  *)
(* is the set of the paths it matches, a name with wildcards the set of    *)
(* the type names it matches.  An absent queue of m_inst_override_queues   *)
(* and an empty one are told apart nowhere: the lookup by name fills an    *)
(* absent one with the wildcards that match the name, and there are none   *)
(* (set_inst_override_by_name and do_register made the queue of each type  *)
(* that has any).                                                          *)
(***************************************************************************)
EXTENDS Naturals, Sequences, FiniteSets, SequencesExt

CONSTANTS
  Types,      \* the proxies, which are also the type names
  Wildcards,  \* the names with wildcards: sets of types
  Paths,      \* the instance paths of the components that are created
  NULL

VARIABLE factory

Overrides ==
  [orig : Types \cup {NULL}, name : Types \cup Wildcards, ovrd : Types,
   paths : SUBSET Paths]

ASSUME FactoryAssumption ==
  /\ IsFiniteSet(Types) /\ NULL \notin Types /\ NULL \notin Overrides
  /\ Wildcards \subseteq SUBSET Types /\ Wildcards \cap Types = {}

\* m_types and m_type_names; m_type_overrides; m_inst_override_queues;
\* m_inst_override_name_queues; m_wildcard_inst_overrides
FactoryType ==
  [types : SUBSET Types, overrides : Seq(Overrides), insts : [Types -> Seq(Overrides)],
   names : [Types -> Seq(Overrides)], wildcards : Seq(Overrides)]

FactoryInit(Registered) ==
  factory = [types |-> Registered, overrides |-> <<>>,
             insts |-> [t \in Types |-> <<>>], names |-> [t \in Types |-> <<>>],
             wildcards |-> <<>>]

Override(o, n, v, paths) == [orig |-> o, name |-> n, ovrd |-> v, paths |-> paths]

\* uvm_is_match of the name of an override, and a type name
NameMatches(n, t) == n = t \/ (n \in Wildcards /\ t \in n)

\* the original is this type: by its proxy, or by its name
OfType(o, t) == o.orig = t \/ o.name = t

----------------------------------------------------------------------------
\* the overrides of a queue whose name matches the name of a type
Matching(s, t) ==
  LET matching[n \in 0 .. Len(s)] ==
        IF n = 0 THEN <<>>
        ELSE IF NameMatches(s[n].name, t) THEN Append(matching[n - 1], s[n])
        ELSE matching[n - 1]
  IN matching[Len(s)]

\* The registration takes the overrides that wait for the name, then the
\* wildcards that match it.
Registered(f, t) ==
  IF t \in f.types
    THEN f
    ELSE [f EXCEPT !.types = @ \cup {t},
                   !.insts[t] = f.names[t] \o Matching(f.wildcards, t),
                   !.names[t] = <<>>]

do_register(t) == factory' = Registered(factory, t)

Proxy(f, n) == IF n \in f.types THEN n ELSE NULL

\* The type override of t: a new entry, or the entry it has is replaced.
TypeOverridden(f, o, t, v, replace, change(_)) ==
  IF \E i \in 1 .. Len(f.overrides) : OfType(f.overrides[i], t)
    THEN IF replace
           THEN [f EXCEPT !.overrides =
                   [i \in DOMAIN @ |-> IF OfType(@[i], t) THEN change(@[i]) ELSE @[i]]]
           ELSE f
    ELSE [f EXCEPT !.overrides = Append(@, Override(o, t, v, Paths))]

\* By type: the original is registered; the override type is not, for the
\* code asks for the original a second time.
set_type_override_by_type(t, v, replace) ==
  /\ t # v
  /\ factory' = TypeOverridden(Registered(factory, t), t, t, v, replace,
                               LAMBDA o : Override(t, t, v, o.paths))

\* By name: the override type must be registered; an entry made before the
\* original was registered keeps its NULL proxy when it is replaced.
set_type_override_by_name(t, v, replace) ==
  /\ t # v
  /\ factory' = IF v \in factory.types
                  THEN TypeOverridden(factory, Proxy(factory, t), t, v, replace,
                                      LAMBDA o : [o EXCEPT !.ovrd = v])
                  ELSE factory

\* an instance override of a registered type; its duplicates are ignored
InstOverridden(f, t, v, paths) ==
  IF Contains(f.insts[t], Override(t, t, v, paths))
    THEN f
    ELSE [f EXCEPT !.insts[t] = Append(@, Override(t, t, v, paths))]

set_inst_override_by_type(t, v, paths) ==
  factory' = InstOverridden(Registered(factory, t), t, v, paths)

\* An unregistered name waits for its registration.
set_inst_override_by_name(t, v, paths) ==
  factory' = IF v \notin factory.types THEN factory
             ELSE IF t \in factory.types THEN InstOverridden(factory, t, v, paths)
             ELSE [factory EXCEPT !.names[t] = Append(@, Override(NULL, t, v, paths))]

\* A name with wildcards: the registered types it matches get an override
\* each, and the others will when they are registered.
set_wildcard_override_by_name(w, v, paths) ==
  factory' =
    IF v \notin factory.types THEN factory
    ELSE [factory EXCEPT
           !.insts = [t \in Types |->
                        IF t \in factory.types /\ NameMatches(w, t)
                          THEN InstOverridden(factory, t, v, paths).insts[t]
                          ELSE @[t]],
           !.wildcards = Append(@, Override(NULL, w, v, paths))]

----------------------------------------------------------------------------
\* the first override of a queue that passes the test, or NULL
First(s, Test(_)) ==
  LET found == {i \in DOMAIN s : Test(s[i])} IN
  IF found = {} THEN NULL ELSE s[Min(found)]

Prefer(o, other) == IF o # NULL THEN o ELSE other

\* a bug: the overrides of the type come first
OverrideOfType_TypeFirst(f, t, p) ==
  Prefer(First(f.overrides, LAMBDA o : OfType(o, t)),
         First(f.insts[t], LAMBDA o : OfType(o, t) /\ p \in o.paths))

\* The override that the search takes for a type, or for a name, at a path:
\* those of the instance come before those of the type.
OverrideOfType(f, t, p) ==
  Prefer(First(f.insts[t], LAMBDA o : OfType(o, t) /\ p \in o.paths),
         First(f.overrides, LAMBDA o : OfType(o, t)))

OverrideOfName(f, t, p) ==
  Prefer(First(IF t \in f.types THEN f.insts[t] ELSE f.names[t],
               LAMBDA o : NameMatches(o.name, t) /\ p \in o.paths),
         First(f.overrides, LAMBDA o : o.name = t))

Found(t, loop) == [type |-> t, loop |-> loop]

\* The search follows the overrides.  m_override_info, here info, holds the
\* ones it took: one whose original is the type asked for is a loop, which is
\* reported.  An override set by name before its original was registered has
\* no proxy, and a loop of only those is never found: the recursion has no end.
find_override_by_type(f, type, p, taken) ==
  LET search[x \in Types \X Seq(Overrides)] ==
        LET t == x[1]
            info == x[2]
            o == OverrideOfType(f, t, p)
        IN IF \E i \in DOMAIN info : info[i].orig = t THEN Found(t, TRUE)
           ELSE IF Len(info) > 2 * Cardinality(Types) THEN Found(NULL, FALSE)
           ELSE IF o = NULL \/ o.ovrd = t THEN Found(t, FALSE)
           ELSE search[<<o.ovrd, Append(info, o)>>]
  IN search[<<type, taken>>]

\* No override and no registered type: a warning, and NULL.
find_override_by_name(f, t, p) ==
  LET o == OverrideOfName(f, t, p) IN
  IF o = NULL THEN Found(Proxy(f, t), FALSE)
  ELSE IF o.ovrd = t THEN Found(t, FALSE)
  ELSE find_override_by_type(f, o.ovrd, p, <<o>>)
=============================================================================
