-------------------------- MODULE MCTreeTraversal --------------------------
(* The instance of TreeTraversal that TLC checks. *)
EXTENDS TreeTraversal
=============================================================================
