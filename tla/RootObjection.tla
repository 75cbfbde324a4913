--------------------------- MODULE RootObjection ---------------------------
(***************************************************************************)
(* What an objection promises to whom waits for it at the root: the        *)
(* abstract specification that Objection implements and that Phase relies  *)
(* on.                                                                     *)
(***************************************************************************)
VARIABLE root \* "none", "raised", "draining", or "told": all_dropped was called

Init == root = "none"

Raise == root' = "raised"

Drop == root = "raised" /\ root' = "draining"

AllDropped == root = "draining" /\ root' = "told"

Clear == root' = "none"

Next == Raise \/ Drop \/ AllDropped \/ Clear

Spec == Init /\ [][Next]_root

=============================================================================
