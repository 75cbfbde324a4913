------------------------------ MODULE ConfigDb ------------------------------
(***************************************************************************)
(* uvm_config_db for one field: the queue of its resources in the pool     *)
(* (rtab), which set fills at the head and get searches for the highest    *)
(* precedence.  The scope of a resource is the set of the components whose *)
(* full name its pattern matches.                                          *)
(***************************************************************************)
EXTENDS Integers, Sequences

VARIABLE rtab

default_precedence == 1000

ConfigInit == rtab = <<>>

\* a bug: the depth counts in the other direction
Precedence_Deeper(building, depth) ==
  IF building THEN default_precedence + depth ELSE default_precedence

\* During the build phase a component higher in the hierarchy prevails.
Precedence(building, depth) ==
  IF building THEN default_precedence - depth ELSE default_precedence

\* m_get_resource_match never finds the resource of an earlier set (the map
\* stored for the context is an empty copy): each set makes a new one.
set(building, depth, scope, value) ==
  rtab' = <<[scope |-> scope, precedence |-> Precedence(building, depth),
             value |-> value]>> \o rtab

\* The first of the resources q of the highest precedence.
get_highest_precedence(q) ==
  CHOOSE i \in q :
    \A j \in q : \/ rtab[j].precedence < rtab[i].precedence
                 \/ rtab[j].precedence = rtab[i].precedence /\ i <= j

\* lookup_regex_names and the selection: the value, or default if there is none
get(c, default) ==
  LET q == {i \in DOMAIN rtab : c \in rtab[i].scope} IN
  IF q = {} THEN default ELSE rtab[get_highest_precedence(q)].value
=============================================================================
