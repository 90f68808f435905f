----------------------------- MODULE MCEatTerm -----------------------------
(* The instance of EatTerm that TLC checks. *)
EXTENDS EatTerm
=============================================================================
