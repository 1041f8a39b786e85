------------------------------ MODULE MCFrontEnds ------------------------------
(* FrontEnds on small instances. *)
EXTENDS FrontEnds, TLC

Blank == [text |-> [f \in TextField |-> Keep], due |-> NoDue, clear |-> FALSE]
Filled == [text |-> [f \in TextField |-> Empty], due |-> NoDue, clear |-> FALSE]

\* Nothing set, each field set or emptied by itself, and the combinations in
\* which one field decides what becomes of another.
MCWires ==
  {Filled, [Blank EXCEPT !.text["title"] = Empty],
   [Blank EXCEPT !.due = 1, !.clear = TRUE],
   [Filled EXCEPT !.text["title"] = "read", !.due = 1], [Filled EXCEPT !.due = 2]}
    \cup {[Filled EXCEPT !.text["title"] = "write", !.text["priority"] = p] :
            p \in {"low", "lowest"}}
    \cup {[Filled EXCEPT !.due = Garbled, !.clear = b] : b \in BOOLEAN}

Symmetry == Permutations(Client)
=============================================================================
