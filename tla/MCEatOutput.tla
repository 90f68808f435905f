---------------------------- MODULE MCEatOutput ----------------------------
(* The instance of EatOutput that TLC checks. *)
EXTENDS EatOutput
=============================================================================
