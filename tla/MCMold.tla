------------------------------- MODULE MCMold -------------------------------
(* Instances of Mold for TLC. *)
EXTENDS MoldText

\* Within a major version and across two.
Minors == {<<1, 0>>, <<1, 1>>, <<1, 2>>}
Majors == {<<1, 0>>, <<1, 1>>, <<2, 1>>}
Removal == {<<2, 1>>}

Symmetry == Permutations(Defaults) \cup Permutations(Restrictions)
=============================================================================
