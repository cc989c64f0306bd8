------------------------------ MODULE MCUpdate ------------------------------
(* Instances of Update for TLC.                                            *)
EXTENDS Update

CONSTANTS a, b, c, s, w, x, y, z, n, o, p

\* Layouts: two keyvals of the root; a keyval, a section with one, a keyval;
\* two entries of one keyval.
Flat == <<a, b>>
AtRoot == [k \in Keyvals |-> Root]
Distinct == [k \in Keyvals |-> CASE k = a -> n [] k = b -> o [] OTHER -> p]

Across == <<a, b, c>>
InSection == [k \in Keyvals |-> IF k = b THEN s ELSE Root]

Repeated == [k \in Keyvals |-> n]

\* Integers, not far from each other: different ones differ, and the text of
\* one is exact.
AllDiffer == {}
Exactly == [v \in Values |-> v]

\* Floats: x, y, z and w as 0.0, 0.9999996, 1.0 and 5.0.
LessThanOneApart == {<<x, y>>, <<y, x>>, <<y, z>>, <<z, y>>}
SixDecimals == [v \in Values |-> IF v = y THEN z ELSE v]

\* The defaults of one keyval: x first, one of V introduced in any of the
\* other versions.
DefaultsIn(V) == {d \in UNION {[W -> V] : W \in SUBSET Versions} :
                    1 \in DOMAIN d /\ d[1] = x}
Defaults == DefaultsIn(Values)

\* Its restrictions: z is forbidden from version 2 on, or nothing is.
Free == [v \in Versions |-> Values]
Restricted == [v \in Versions |-> IF v = 1 THEN Values ELSE Values \ {z}]

Numbers == [k \in Keyvals |-> "number"]
AllMolds == [default : [Keyvals -> Defaults],
             allowed : [Keyvals -> {Free, Restricted}],
             kind : {Numbers}]

\* The keyvals are entries of one keyval of the mold.
SharedMolds == {m \in AllMolds :
  \A k, l \in Keyvals : m.default[k] = m.default[l] /\ m.allowed[k] = m.allowed[l]}
=============================================================================
