---------------------------- MODULE Enumeration ----------------------------
(***************************************************************************)
(* What an iterator promises about the items of a structure: it gives them *)
(* in order, each once, the next one being the one that exactly those      *)
(* given so far come before, and it comes to its end when all were given,  *)
(* unless it is left.                                                      *)
(***************************************************************************)
EXTENDS Sequences

VARIABLES
  items,   \* the items to give
  earlier, \* the pairs of items of which the first comes before the second
  given,   \* the items given, in the order they were
  over     \* "no", at its "end", or "left"

enumeration == <<items, earlier, given, over>>

Given == {given[i] : i \in DOMAIN given}

EnumerationInit == given = <<>> /\ over = "no"

GiveNext ==
  /\ over = "no"
  /\ \E next \in items \ Given :
       /\ \A item \in items : <<item, next>> \in earlier <=> item \in Given
       /\ given' = Append(given, next)
  /\ UNCHANGED <<items, earlier, over>>

EndWithAll ==
  /\ over = "no"
  /\ Given = items
  /\ over' = "end"
  /\ UNCHANGED <<items, earlier, given>>

LeaveEarly ==
  /\ over = "no"
  /\ over' = "left"
  /\ UNCHANGED <<items, earlier, given>>

EnumerationNext == GiveNext \/ EndWithAll \/ LeaveEarly

EnumerationSpec == EnumerationInit /\ [][EnumerationNext]_enumeration
=============================================================================
