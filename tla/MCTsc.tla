------------------------------- MODULE MCTsc -------------------------------
(* Instances of Tsc for TLC. *)
EXTENDS Tsc

CONSTANTS good, old

\* Two bytes, one, and three.
MCText == <<1, 1, 2, 3, 3, 3>>

MCAbi == [l \in Language |-> IF l = good THEN 14 ELSE 12]

\* What is found first is of the second pattern.
MCCaptureOf == [k \in 1 .. MaxMatches |-> Captures + 1 - k]
MCPatternOf == [k \in 1 .. MaxMatches |-> MaxMatches - k]

MCSymmetry == Permutations(Handle) \cup Permutations(Tree)
=============================================================================
