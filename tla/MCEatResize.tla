---------------------------- MODULE MCEatResize ----------------------------
(* The instance of EatResize that TLC checks. *)
EXTENDS EatResize, TLC

CONSTANTS w1, w2

MCSymmetry == Permutations(Window)
=============================================================================
