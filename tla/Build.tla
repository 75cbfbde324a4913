------------------------------- MODULE Build -------------------------------
(***************************************************************************)
(* The build phase: uvm_topdown_phase executes the build of a component    *)
(* before those of its children, which that build creates with the factory *)
(* and configures with the configuration database.  The hierarchy is a     *)
(* chain: the test, then the components of Order, each created by the one  *)
(* before it.                                                              *)
(***************************************************************************)
EXTENDS Factory, ConfigDb

CONSTANTS
  Order,       \* the components below the test, from the top down
  Request,     \* the type asked for each of them
  Registrable, \* the sets of types registered when the program starts
  Pairs,       \* the names and the override types of the calls
  Patterns,    \* the sets of paths that the patterns of the calls match
  MaxCalls     \* a bound on the calls of the factory and of the database

ASSUME BuildAssumption ==
  /\ Order \in Seq(Paths) /\ \A i, j \in DOMAIN Order : Order[i] = Order[j] => i = j
  /\ Request \in [{Order[i] : i \in DOMAIN Order} -> Types]
  /\ Registrable \subseteq SUBSET Types
  /\ Pairs \subseteq (Types \cup Wildcards) \X Types
  /\ Patterns \subseteq SUBSET Paths
  /\ MaxCalls \in Nat

VARIABLES
  turn,   \* 0 before the run; 1 the test builds, i + 1 Order[i] does; then Built
  made,   \* what the factory made for the components of Order
  seen,   \* the setting read last since the last call (the number of its call, or 0)
  calls   \* the calls made so far, oldest first

vars == <<factory, rtab, turn, made, seen, calls>>

Components == {Order[i] : i \in DOMAIN Order}
Built == Len(Order) + 2
Building == turn \in 1 .. Built - 1

\* The contexts: the root, the test, then the components of Order.
uvm_top == 0
Below(context) == {Order[i] : i \in {i \in DOMAIN Order : context <= i}}

Unread == [reader |-> NULL, value |-> 0]

Init ==
  /\ \E r \in Registrable : FactoryInit(r)
  /\ ConfigInit
  /\ turn = 0
  /\ made = [c \in Components |-> Found(NULL, FALSE)]
  /\ seen = Unread
  /\ calls = <<>>

Called(call) ==
  /\ Len(calls) < MaxCalls
  /\ calls' = Append(calls, call)
  /\ seen' = Unread
  /\ UNCHANGED <<turn, made>>

\* A call of the factory, in a build that has a component to create yet.
CallFactory(op, name, ovrd, paths, flag) ==
  /\ turn \in 1 .. Len(Order)
  /\ Called([op |-> op, name |-> name, ovrd |-> ovrd, paths |-> paths, flag |-> flag,
             types |-> factory.types])
  /\ UNCHANGED rtab

register(t) ==
  /\ t \notin factory.types
  /\ do_register(t)
  /\ CallFactory("register", t, t, {}, FALSE)

\* get, of the registry of a type, registers the proxy that it makes: there
\* is no proxy of a type that is not registered.
Proxies(S) == S \subseteq factory.types

set_type_override(t, v, replace) ==
  /\ t \in Types
  /\ \/ /\ Proxies({t, v})
        /\ set_type_override_by_type(t, v, replace)
        /\ CallFactory("type", t, v, Paths, replace)
     \/ /\ set_type_override_by_name(t, v, replace)
        /\ CallFactory("type_name", t, v, Paths, replace)

set_inst_override(t, v, paths) ==
  /\ t \in Types
  /\ \/ /\ Proxies({t, v})
        /\ set_inst_override_by_type(t, v, paths)
        /\ CallFactory("inst", t, v, paths, FALSE)
     \/ /\ set_inst_override_by_name(t, v, paths)
        /\ CallFactory("inst_name", t, v, paths, FALSE)

set_wildcard_override(w, v, paths) ==
  /\ w \in Wildcards
  /\ set_wildcard_override_by_name(w, v, paths)
  /\ CallFactory("inst_name", w, v, paths, FALSE)

\* The dots in the name of a context, plus 1. The root is called "uvm_top": with no
\* dot in its name it is as deep as the test.
get_depth(context) == IF context = uvm_top THEN 1 ELSE context

\* A setting made from a context: uvm_top, which reaches every component, or the
\* component that builds, for itself or for those below. Its level is what is
\* taken from the precedence.
set_config(context, scope) ==
  /\ context \in {uvm_top} \cup (IF Building THEN {turn} ELSE {})
  /\ scope # {}
  /\ scope \subseteq Below(context) \/ (context > 1 /\ scope = {Order[context - 1]})
  /\ set(Building, get_depth(context), scope, Len(calls) + 1)
  /\ Called([op |-> "config", level |-> IF Building THEN get_depth(context) ELSE 0,
             scope |-> scope])
  /\ UNCHANGED factory

\* A component reads its setting in its build, or when all is built.
Read(c) ==
  /\ turn # Built => turn > 1 /\ c = Order[turn - 1]
  /\ made[c].type # NULL
  /\ seen' = [reader |-> c, value |-> get(c, 0)]
  /\ UNCHANGED <<factory, rtab, turn, made, calls>>

\* The build ends with the component it creates, whose build is the next;
\* without one (the name is not registered) nothing is left to build.
create(known, search(_, _, _)) ==
  /\ turn \in 1 .. Len(Order)
  /\ LET c == Order[turn]
         f == IF known THEN Registered(factory, Request[c]) ELSE factory
         found == search(f, Request[c], c)
     IN /\ factory' = f
        /\ made' = [made EXCEPT ![c] = found]
        /\ turn' = IF found.type = NULL THEN Built ELSE turn + 1
  /\ seen' = Unread
  /\ UNCHANGED <<rtab, calls>>

\* by type: the proxy registers itself when it is first asked for
create_by_type == create(TRUE, LAMBDA f, t, p : find_override_by_type(f, t, p, <<>>))
create_by_name == create(FALSE, find_override_by_name)

\* The phase starts, and it ends with the build of the last component.
traverse ==
  /\ turn \in {0, Built - 1}
  /\ turn' = turn + 1
  /\ seen' = Unread
  /\ UNCHANGED <<factory, rtab, made, calls>>

Next ==
  \/ \E t \in Types : register(t)
  \/ \E r \in Pairs, replace \in BOOLEAN : set_type_override(r[1], r[2], replace)
  \/ \E r \in Pairs, paths \in Patterns : set_inst_override(r[1], r[2], paths)
  \/ \E r \in Pairs, paths \in Patterns : set_wildcard_override(r[1], r[2], paths)
  \/ \E context \in 0 .. Len(Order) + 1, scope \in SUBSET Components : set_config(context, scope)
  \/ \E c \in Components : Read(c)
  \/ create_by_type \/ create_by_name \/ traverse

Spec == Init /\ [][Next]_vars

----------------------------------------------------------------------------
\* Every variable keeps its type, and the overrides of a type are where its
\* registration puts them: in its queue, or waiting for its name.
TypeOK ==
  /\ factory \in FactoryType
  /\ \A t \in Types : (IF t \in factory.types THEN factory.names ELSE factory.insts)[t] = <<>>
  /\ \A i \in DOMAIN rtab : rtab[i].scope \subseteq Components
  /\ turn \in 0 .. Built
  /\ \A c \in Components : made[c].type \in Types \cup {NULL}
  /\ seen \in [reader : Components \cup {NULL}, value : 0 .. MaxCalls]

----------------------------------------------------------------------------
(* What the calls promise, whatever was registered when they were made. *)

Calls(op) == {i \in DOMAIN calls : calls[i].op \in op}

\* By name, an override whose type is not registered is refused.
Accepted(i) == calls[i].op \in {"type_name", "inst_name"} => calls[i].ovrd \in calls[i].types

InstCalls(t, p) ==
  {i \in Calls({"inst", "inst_name"}) :
     Accepted(i) /\ NameMatches(calls[i].name, t) /\ p \in calls[i].paths}
TypeCalls(t) == {i \in Calls({"type", "type_name"}) : Accepted(i) /\ calls[i].name = t}

\* The first override of the instance prevails; without one, the last
\* override of the type that was to replace, else the first.
Promised(t, p) ==
  LET replacing == {i \in TypeCalls(t) : calls[i].flag} IN
  IF InstCalls(t, p) # {} THEN calls[Min(InstCalls(t, p))].ovrd
  ELSE IF replacing # {} THEN calls[Max(replacing)].ovrd
  ELSE IF TypeCalls(t) # {} THEN calls[Min(TypeCalls(t))].ovrd
  ELSE t

Walk(t, p) ==
  LET walk[n \in 0 .. Cardinality(Types)] ==
        IF n = 0 THEN t ELSE Promised(walk[n - 1], p)
  IN walk

\* The types a wildcard was meant for before they were registered.
Early ==
  {t \in Types : \E i \in Calls({"inst_name"}) :
     calls[i].name \in Wildcards /\ t \in calls[i].name /\ t \notin calls[i].types}

\* The component is of the type at the end of its walk; when there is no end,
\* the loop is reported.
Fulfils(found, t, p) ==
  LET walk == Walk(t, p)
      end == Cardinality(Types)
      loop == Promised(walk[end], p) # walk[end]
  IN /\ found.loop <=> loop
     /\ loop \/ found.type = walk[end] \/ (found.type = NULL /\ walk[end] = t)

Creates(c) == turn \in 1 .. Len(Order) /\ c = Order[turn] /\ turn' # turn

\* A component is of the type that the calls made before its creation
\* promise, by type or by name and registered early or late; a loop of
\* overrides is reported, and nothing else is, with the
\* exception of wildcards set early (create_object_by_type, create_component_by_name).
MadeAsPromised ==
  [][\A c \in Components :
       Creates(c) =>
         \/ \E n \in 0 .. Cardinality(Types) : Walk(Request[c], c)[n] \in Early
         \/ Fulfils(made'[c], Request[c], c)]_vars

Beats(i, j) ==
  calls[i].level < calls[j].level \/ (calls[i].level = calls[j].level /\ i > j)

Settings(c) == {i \in Calls({"config"}) : c \in calls[i].scope}

\* A component reads a setting made outside the build phase before any made in it,
\* and of those the one made highest in the hierarchy - from uvm_top or from the
\* test, then by depth - and among equals the latest; without a setting it reads
\* nothing (uvm_config_db set and get).
ReadsTheHighest ==
  [][seen' \notin {seen, Unread} =>
       LET settings == Settings(seen'.reader) IN
       IF settings = {}
         THEN seen'.value = 0
         ELSE /\ seen'.value \in settings
              /\ \A j \in settings \ {seen'.value} : Beats(seen'.value, j)]_vars
=============================================================================
