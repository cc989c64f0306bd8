---------------------------- MODULE MCConfigTree ----------------------------
(* Instances of ConfigTree for TLC: a mold of sections in sections, a mold of *)
(* lists, and two with a default that the keyval's own restriction refuses.   *)
(* "low" and "high" are numbers, "wrong" is a string.                         *)
EXTENDS ConfigTree, TLC

SectionOf(min, max) == [kind |-> "SECTION", min |-> min, max |-> max, allowed |-> {}]
KeyvalOf(min, max, allowed, default) ==
  [kind |-> "KEYVAL", min |-> min, max |-> max, allowed |-> allowed, default |-> default]
Both == {"low", "high"}

Nested ==
  (<<"s">> :> SectionOf(0, 2)) @@ (<<"s", "k">> :> KeyvalOf(1, 1, Both, "low")) @@
  (<<"s", "t">> :> SectionOf(0, 1)) @@ (<<"s", "t", "k">> :> KeyvalOf(0, 1, Both, "low")) @@
  (<<"s", "t", "r">> :> SectionOf(1, 1))

Lists ==
  (<<"k">> :> KeyvalOf(0, 2, Both, "low")) @@ (<<"s">> :> SectionOf(1, 0)) @@
  (<<"s", "t">> :> KeyvalOf(0, 1, {"high"}, "high"))

BadDefault ==
  (<<"s">> :> SectionOf(0, 1)) @@ (<<"s", "k">> :> KeyvalOf(1, 2, {"low"}, "high"))

\* The section with such a default is below one that a set has to create first.
BadDefaultBelow ==
  (<<"s">> :> SectionOf(0, 1)) @@ (<<"s", "t">> :> SectionOf(0, 1)) @@
  (<<"s", "t", "k">> :> KeyvalOf(1, 2, {"low"}, "high"))

\* Queries of up to three names, in which only one index is not 0; longer ones
\* go through an element of the root, and have an index of 1 or none at all.
UpTo(n) == {q \in UNION {[1..m -> {"s", "t", "k"} \X Indexes] : m \in 1..n} :
              /\ Cardinality({i \in DOMAIN q : q[i][2] # 0}) <= 1
              /\ Len(q) > 1 => q[1][1] # "t"
              /\ Len(q) = 3 => /\ q[1][1] = "s" /\ q[2][1] # "s" /\ q[3][1] # "s"
                               /\ \A i \in DOMAIN q : q[i][2] \in {Malformed, 0, 1}}

TwoMolds == {Nested, Lists}
ThreeMolds == {Nested, Lists, BadDefaultBelow}
OneBadMold == {BadDefault}
PlainIndexes == {Malformed, -1, 0, 1, 2}
ThreeNames == UpTo(3)

Exactly == [v \in Values |-> v]

\* "low" and "high" are less than 1 apart, or a multiple of 2^32.
LowAndHigh == {<<"low", "high">>, <<"high", "low">>}
AllDiffer == {}

\* "high" is an integer above 2^31 - 1: jsoncpp reads it as an unsigned number.
BigIsUnsigned == [v \in Values |-> IF v = "high" THEN Unreadable ELSE v]

\* "high" is a float of 17 digits: jsoncpp writes 16 of them.
LongIsRounded == [v \in Values |-> IF v = "high" THEN "low" ELSE v]

\* An index of 2^32 + 0 in place of 4.
LargeIndexes == {0, 1, IntSize}
=============================================================================
