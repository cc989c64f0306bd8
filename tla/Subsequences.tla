---------------------------- MODULE Subsequences ----------------------------
(* Sequences without some of their elements: what is left of the contexts  *)
(* of a collection when some are destroyed.  A recursive function, so that *)
(* proofs can unfold it.                                                   *)
EXTENDS Integers, Sequences

\* The sequence s without the elements of S.
Without(s, S) ==
  LET kept[n \in 0..Len(s)] ==
        IF n = 0 THEN <<>>
        ELSE IF s[n] \in S THEN kept[n - 1] ELSE Append(kept[n - 1], s[n])
  IN kept[Len(s)]
=============================================================================
