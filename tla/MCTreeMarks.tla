----------------------------- MODULE MCTreeMarks -----------------------------
(* TreeMarks on trees of two names and two levels. *)
EXTENDS TreeMarks

MCTrees == {{Root, <<"a">>}, {Root, <<"a">>, <<"a", "a">>}}
=============================================================================
