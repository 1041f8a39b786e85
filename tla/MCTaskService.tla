---------------------------- MODULE MCTaskService ----------------------------
(* TaskService on small instances. *)
EXTENDS TaskService, TLC

Symmetry == Permutations(Task) \cup Permutations(User \ Admin) \cup Permutations(Req)
=============================================================================
