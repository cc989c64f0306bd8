----------------------------- MODULE MCChanges -----------------------------
(* Instances of UpdateWithChanges for TLC, with the layouts and molds of   *)
(* MCUpdate.                                                               *)
EXTENDS MCUpdate, UpdateWithChanges

\* a is a float or an enum, b a string.  A default of a that its restrictions
\* allow is still allowed as its text is read: otherwise a call that has to
\* resolve a conflict with it never ends.
FloatOrEnum ==
  {m \in [default : {[k \in Keyvals |-> IF k = a THEN d ELSE e] :
                       d \in DefaultsIn({x, y, w}), e \in DefaultsIn({x, w})},
          allowed : {[k \in Keyvals |-> IF k = a THEN r ELSE Free] : r \in {Free, Restricted}},
          kind : {[k \in Keyvals |-> IF k = a THEN t ELSE "string"] : t \in {"number", "enum"}}] :
     \A v \in Versions : \A i \in DOMAIN m.default[a] :
       LET d == m.default[a][i]
       IN m.kind[a] = "number" /\ d \in m.allowed[a][v] => Printed[d] \in m.allowed[a][v]}

\* a accepts its default only, b, of the same name, every value.
OnlyX == [v \in Versions |-> {x}]
ClashMolds ==
  {m \in [default : [Keyvals -> Defaults], allowed : [Keyvals -> {Free, OnlyX}],
          kind : {Numbers}] :
     m.allowed[a] = OnlyX /\ m.allowed[b] = Free}
=============================================================================
