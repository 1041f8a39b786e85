------------------------------ MODULE MCTaskRepo ------------------------------
(* TaskRepo on small instances. *)
EXTENDS TaskRepo, TLC

Symmetry == Permutations(Task) \cup Permutations(Conn) \cup Permutations(Text)
=============================================================================
