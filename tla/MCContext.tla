----------------------------- MODULE MCContext -----------------------------
(* Instances of Context for TLC: two sections, which may be nested either  *)
(* way, and a keyval; one name that is in the mold, one that is not.       *)
EXTENDS Context, TLC

CONSTANTS s, t, k

\* The two sections are interchangeable.
Interchangeable == Permutations({s, t})
=============================================================================
