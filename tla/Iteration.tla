----------------------------- MODULE Iteration -----------------------------
(* What include/disir/collection.h and lib/include/collection.h promise of *)
(* a disir_collection: an iterator over the contexts "as they were inputted *)
(* to the collection", without those destroyed since.  Module Collection   *)
(* has the array that implements it.                                       *)
EXTENDS Sequences, Subsequences

CONSTANTS Ctx, Nothing, Exhausted

VARIABLES
  passed,    \* the living contexts the iterator has passed
  ahead,     \* the living contexts it will still return, in order
  destroyed, \* the contexts destroyed by the client
  yield      \* what the last call returned

vars == <<passed, ahead, destroyed, yield>>

Init ==
  /\ passed = <<>> /\ ahead = <<>>
  /\ destroyed = {}
  /\ yield = Nothing

Push(x) ==
  /\ ahead' = IF x \in destroyed THEN ahead ELSE Append(ahead, x)
  /\ UNCHANGED <<passed, destroyed, yield>>

\* The next living context, or Exhausted when there is none.
Yield ==
  IF ahead = <<>>
  THEN yield' = Exhausted /\ UNCHANGED <<passed, ahead, destroyed>>
  ELSE /\ yield' = Head(ahead)
       /\ passed' = Append(passed, Head(ahead))
       /\ ahead' = Tail(ahead)
       /\ UNCHANGED destroyed

\* dx_collection_next_noncoalesce may also return a destroyed context.
YieldDestroyed ==
  /\ yield' \in destroyed
  /\ UNCHANGED <<passed, ahead, destroyed>>

Rewind ==
  /\ ahead' = passed \o ahead
  /\ passed' = <<>>
  /\ UNCHANGED <<destroyed, yield>>

Destroy(x) ==
  /\ destroyed' = destroyed \cup {x}
  /\ passed' = Without(passed, {x})
  /\ ahead' = Without(ahead, {x})
  /\ UNCHANGED yield

Finish ==
  /\ passed' = <<>> /\ ahead' = <<>>
  /\ UNCHANGED <<destroyed, yield>>

Next ==
  \/ \E x \in Ctx : Push(x) \/ Destroy(x)
  \/ Yield \/ YieldDestroyed \/ Rewind \/ Finish

Spec == Init /\ [][Next]_vars
=============================================================================
