----------------------------- MODULE DataFacts -----------------------------
(* What several proofs need to know of the data of the models: of naturals *)
(* and sequences, of the elements left out of a sequence (Subsequences),   *)
(* and of versions, of the default that is active for one and of the       *)
(* bounds that hold for it (Versions).                                     *)
EXTENDS Versions, Subsequences, SequencesExt, FiniteSetTheorems, WellFoundedInduction, TLAPS

Version == Nat \X Nat

\* Every nonempty set of naturals has a least element.
LEMMA Least ==
  ASSUME NEW T, T \subseteq Nat, T # {}
  PROVE  \E m \in T : \A k \in T : m <= k
<1> DEFINE R == OpToRel(<, Nat)
<1>1. IsWellFoundedOn(R, Nat)
  BY NatLessThanWellFounded
<1>2. \A x, y \in Nat : x < y => <<x, y>> \in R
  BY DEF OpToRel
<1> HIDE DEF R
<1>3. PICK m \in T : \A k \in T : ~(<<k, m>> \in R)
  BY <1>1, WFMin
<1>4. \A k \in T : m <= k
  <2>1. \A k \in T : ~(k < m)
    BY <1>2, <1>3
  <2> QED BY <2>1
<1> QED BY <1>4

LEMMA MinIsLeast ==
  ASSUME NEW T, T \subseteq Nat, T # {}
  PROVE  Min(T) \in T /\ \A k \in T : Min(T) <= k
<1>1. \E m \in T : \A k \in T : m <= k
  BY Least
<1> QED BY <1>1 DEF Min

LEMMA OfTwo ==
  ASSUME NEW a \in Int, NEW b \in Int
  PROVE  /\ Min({a, b}) = IF a <= b THEN a ELSE b
         /\ Max({a, b}) = IF a <= b THEN b ELSE a
<1>1. Min({a, b}) \in {a, b} /\ \A k \in {a, b} : Min({a, b}) <= k
  <2>1. \E m \in {a, b} : \A k \in {a, b} : m <= k
    OBVIOUS
  <2> QED BY <2>1 DEF Min
<1>2. Max({a, b}) \in {a, b} /\ \A k \in {a, b} : Max({a, b}) >= k
  <2>1. \E m \in {a, b} : \A k \in {a, b} : m >= k
    OBVIOUS
  <2> QED BY <2>1 DEF Max
<1> QED BY <1>1, <1>2
----------------------------------------------------------------------------
(* dc_version_compare is an order.                                         *)
LEMMA CompareFacts ==
  ASSUME NEW s \in Version, NEW t \in Version
  PROVE  /\ Compare(s, t) \in Int
         /\ Compare(s, s) = 0
         /\ Compare(s, t) > 0 <=> Compare(t, s) < 0
         /\ Compare(s, t) = 0 <=> s = t
         /\ \A u \in Version :
              /\ Compare(s, t) <= 0 /\ Compare(t, u) <= 0 => Compare(s, u) <= 0
              /\ Compare(s, t) <= 0 /\ Compare(t, u) < 0 => Compare(s, u) < 0
              /\ Compare(s, t) < 0 /\ Compare(t, u) <= 0 => Compare(s, u) < 0
<1>1. \A u \in Version : u[1] \in Nat /\ u[2] \in Nat
  BY DEF Version
<1>2. s[1] = t[1] /\ s[2] = t[2] => s = t
  BY DEF Version
<1> QED BY <1>1, <1>2 DEF Compare

\* A queue of versions in their order.
Ascending(queue) ==
  \A i, j \in DOMAIN queue : i < j => Compare(queue[i], queue[j]) <= 0

LEMMA LaterFacts ==
  ASSUME NEW queue \in Seq(Version), NEW version \in Version
  PROVE  /\ Later(queue, version) \subseteq 1..Len(queue)
         /\ Later(queue, version) # {} =>
              /\ Min(Later(queue, version)) \in Later(queue, version)
              /\ \A i \in Later(queue, version) : Min(Later(queue, version)) <= i
<1>1. Later(queue, version) \subseteq 1..Len(queue)
  BY DEF Later
<1>2. Later(queue, version) \subseteq Nat
  BY <1>1
<1> QED BY <1>1, <1>2, MinIsLeast

(* MQ_ENQUEUE_CONDITIONAL finds the place at which the queue stays in      *)
(* order.                                                                  *)
LEMMA PositionFacts ==
  ASSUME NEW queue \in Seq(Version), NEW version \in Version
  PROVE  /\ Position(queue, version) \in 1..(Len(queue) + 1)
         /\ \A i \in 1..Len(queue) :
              /\ i < Position(queue, version) => Compare(queue[i], version) <= 0
              /\ Ascending(queue) /\ Position(queue, version) <= i =>
                   Compare(version, queue[i]) <= 0
<1> DEFINE p == Position(queue, version)
<1>1. /\ Len(queue) \in Nat /\ DOMAIN queue = 1..Len(queue)
      /\ \A i \in 1..Len(queue) : queue[i] \in Version
  OBVIOUS
<1>2. \A i \in 1..Len(queue) : Compare(queue[i], version) \in Int
  BY <1>1, CompareFacts
<1>3. CASE Later(queue, version) = {}
  <2>1. p = Len(queue) + 1
    BY <1>3 DEF Position
  <2>2. \A i \in 1..Len(queue) : ~(Compare(queue[i], version) > 0)
    BY <1>1, <1>3 DEF Later
  <2> QED BY <1>1, <1>2, <2>1, <2>2
<1>4. CASE Later(queue, version) # {}
  <2>1. p \in Later(queue, version) /\ \A i \in Later(queue, version) : p <= i
    BY <1>4, LaterFacts DEF Position
  <2>2. p \in 1..Len(queue) /\ Compare(queue[p], version) > 0
    BY <1>1, <2>1 DEF Later
  <2>3. \A i \in 1..Len(queue) : i < p => ~(Compare(queue[i], version) > 0)
    BY <1>1, <2>1 DEF Later
  <2>4. ASSUME Ascending(queue), NEW i \in 1..Len(queue), p <= i
        PROVE  Compare(version, queue[i]) <= 0
    <3>1. Compare(version, queue[p]) < 0
      BY <1>1, <2>2, CompareFacts
    <3>2. i = p \/ Compare(queue[p], queue[i]) <= 0
      BY <1>1, <2>2, <2>4 DEF Ascending
    <3>3. Compare(version, queue[i]) < 0
      BY <1>1, <2>2, <3>1, <3>2, CompareFacts
    <3> QED BY <1>1, <3>3, CompareFacts
  <2> QED BY <1>1, <1>2, <2>2, <2>3, <2>4
<1> QED BY <1>3, <1>4

(* dx_default_get_active finds a default of the queue; where that is in    *)
(* order, it is one introduced last before or in the version, or the first *)
(* of all.                                                                 *)
LEMMA ActiveFacts ==
  ASSUME NEW queue \in Seq(Version), queue # <<>>, NEW version \in Version
  PROVE  /\ Active(queue, version) \in 1..Len(queue)
         /\ Ascending(queue) =>
              IF \E i \in 1..Len(queue) : Compare(queue[i], version) <= 0
              THEN /\ Compare(queue[Active(queue, version)], version) <= 0
                   /\ \A i \in 1..Len(queue) : Compare(queue[i], version) <= 0 =>
                        i <= Active(queue, version)
              ELSE Active(queue, version) = 1
<1> DEFINE a == Active(queue, version)
           first == Min(Later(queue, version))
<1>1. /\ Len(queue) \in Nat \ {0} /\ DOMAIN queue = 1..Len(queue)
      /\ \A i \in 1..Len(queue) : queue[i] \in Version
  OBVIOUS
<1>2. \A i \in 1..Len(queue) : Compare(queue[i], version) \in Int
  BY <1>1, CompareFacts
<1>3. CASE Later(queue, version) = {}
  <2>1. a = Len(queue)
    BY <1>3 DEF Active
  <2>2. \A i \in 1..Len(queue) : ~(Compare(queue[i], version) > 0)
    BY <1>1, <1>3 DEF Later
  <2> QED BY <1>1, <1>2, <2>1, <2>2
<1>4. CASE Later(queue, version) # {}
  <2>1. first \in 1..Len(queue) /\ \A i \in Later(queue, version) : first <= i
    BY <1>4, LaterFacts
  <2>2. \A i \in 1..Len(queue) : i < first => ~(Compare(queue[i], version) > 0)
    <3> HIDE DEF first
    <3>1. \A i \in 1..Len(queue) : i < first => i \notin Later(queue, version)
      BY <1>1, <2>1
    <3> QED BY <1>1, <3>1 DEF Later
  <2>3. a = IF first = 1 THEN 1 ELSE first - 1
    BY <1>4 DEF Active
  <2>4. \A i \in 1..Len(queue) : Ascending(queue) /\ first <= i => Compare(queue[i], version) > 0
    <3>1. first = Position(queue, version)
      BY <1>4 DEF Position
    <3>2. \A i \in 1..Len(queue) : Ascending(queue) /\ first <= i =>
            Compare(version, queue[i]) <= 0
      BY <3>1, PositionFacts
    <3>3. Compare(queue[first], version) > 0
      BY <1>4, LaterFacts DEF Later
    <3>4. ASSUME Ascending(queue), NEW i \in 1..Len(queue), first <= i
          PROVE  Compare(queue[i], version) > 0
      <4>1. first = i \/ Compare(queue[first], queue[i]) <= 0
        BY <1>1, <2>1, <3>4 DEF Ascending
      <4>2. Compare(version, queue[first]) < 0
        BY <1>1, <2>1, <3>3, CompareFacts
      <4>3. Compare(version, queue[i]) < 0
        BY <1>1, <2>1, <4>1, <4>2, CompareFacts
      <4> QED BY <1>1, <4>3, CompareFacts
    <3> QED BY <3>4
  <2> HIDE DEF a, first
  <2>5. a \in 1..Len(queue)
    BY <1>1, <2>1, <2>3
  <2>6. first # 1 => Compare(queue[a], version) <= 0
    BY <1>1, <1>2, <2>1, <2>2, <2>3
  <2>7. ASSUME Ascending(queue), NEW i \in 1..Len(queue), Compare(queue[i], version) <= 0
        PROVE  i <= a /\ first # 1
    <3>1. i < first
      BY <1>2, <2>1, <2>4, <2>7
    <3> QED BY <1>1, <2>1, <2>3, <3>1
  <2>8. CASE \E i \in 1..Len(queue) : Compare(queue[i], version) <= 0
    BY <2>5, <2>6, <2>7, <2>8 DEF a
  <2>9. CASE ~ \E i \in 1..Len(queue) : Compare(queue[i], version) <= 0
    <3>1. first = 1
      BY <2>5, <2>6, <2>9
    <3> QED BY <2>3, <2>5, <2>9, <3>1 DEF a
  <2> QED BY <2>8, <2>9
<1> QED BY <1>3, <1>4
----------------------------------------------------------------------------
(* A queue of restrictions, whose minimums and maximums have numbers.      *)
IsQueue(restrictions) ==
  /\ DOMAIN restrictions \subseteq Nat
  /\ \A i \in DOMAIN restrictions :
       /\ restrictions[i].introduced \in Version
       /\ restrictions[i].type \in {"MIN", "MAX"} => restrictions[i].argument \in Nat

\* Those of a type that a version knows.
Candidates(restrictions, type, version) ==
  {i \in DOMAIN restrictions : /\ restrictions[i].type = type
                               /\ Compare(restrictions[i].introduced, version) <= 0}

(* dx_restriction_entries_value, its loop: a closest restriction counts.   *)
LEMMA ClosestFacts ==
  ASSUME NEW restrictions, IsQueue(restrictions), NEW type \in {"MIN", "MAX"},
         NEW version \in Version
  PROVE  IF Candidates(restrictions, type, version) = {}
         THEN Closest(restrictions, type, version) = -1
         ELSE /\ Closest(restrictions, type, version) \in Nat
              /\ \E i \in Candidates(restrictions, type, version) :
                   /\ Closest(restrictions, type, version) = restrictions[i].argument
                   /\ \A j \in Candidates(restrictions, type, version) :
                        Compare(restrictions[j].introduced, version)
                          <= Compare(restrictions[i].introduced, version)
<1> DEFINE Distance(i) == Compare(restrictions[i].introduced, version)
           candidates == Candidates(restrictions, type, version)
           nearest == {i \in candidates : \A j \in candidates : Distance(j) <= Distance(i)}
<1>1. Closest(restrictions, type, version) =
        IF candidates = {} THEN -1 ELSE restrictions[Min(nearest)].argument
  BY DEF Closest, Candidates
<1>2. \A i \in candidates : /\ i \in Nat /\ Distance(i) \in Int /\ Distance(i) <= 0
                            /\ restrictions[i].argument \in Nat
  BY CompareFacts DEF IsQueue, Candidates
<1> HIDE DEF candidates, Distance
<1>3. ASSUME candidates # {} PROVE nearest # {}
  <2> DEFINE T == {-Distance(i) : i \in candidates}
  <2>1. T \subseteq Nat /\ T # {}
    <3>1. \A i \in candidates : -Distance(i) \in Nat
      BY <1>2
    <3> QED BY <1>3, <3>1
  <2>2. PICK m \in T : \A k \in T : m <= k
    BY <2>1, Least
  <2>3. PICK i \in candidates : m = -Distance(i)
    BY <2>2
  <2>4. ASSUME NEW j \in candidates PROVE Distance(j) <= Distance(i)
    <3>1. m <= -Distance(j)
      BY <2>2
    <3> QED BY <1>2, <2>3, <3>1
  <2> QED BY <2>3, <2>4
<1>4. ASSUME candidates # {} PROVE Min(nearest) \in nearest
  <2>1. nearest \subseteq Nat
    BY <1>2
  <2> HIDE DEF nearest
  <2> QED BY <1>3, <1>4, <2>1, MinIsLeast
<1>5. CASE candidates = {}
  BY <1>1, <1>5 DEF candidates
<1>6. CASE candidates # {}
  <2>1. Min(nearest) \in candidates /\ \A j \in candidates : Distance(j) <= Distance(Min(nearest))
    BY <1>4, <1>6
  <2> HIDE DEF nearest
  <2> QED BY <1>1, <1>2, <1>6, <2>1 DEF candidates, Distance
<1> QED BY <1>5, <1>6

(* dx_restriction_entries_value: nothing is demanded of what has to be     *)
(* absent, and a limit leaves room for what is demanded.                   *)
LEMMA BoundsFacts ==
  ASSUME NEW restrictions, IsQueue(restrictions), NEW introduced, NEW deprecated,
         NEW version \in Version, NEW b, b = Bounds(restrictions, introduced, deprecated, version)
  PROVE  /\ b.min \in Nat /\ b.max \in Int
         /\ b.max = -1 => b.min = 0
         /\ b.max >= 1 => b.min <= b.max
         /\ b.max >= -1
<1> DEFINE least == Closest(restrictions, "MIN", version)
           most == Closest(restrictions, "MAX", version)
<1>1. least \in Nat \cup {-1} /\ most \in Nat \cup {-1}
  BY ClosestFacts
<1> HIDE DEF least, most
<1>2. b = IF Absent(introduced, deprecated, version) THEN [min |-> 0, max |-> -1]
          ELSE [min |-> IF least = -1 THEN 1 ELSE least,
                max |-> IF (IF most # 0 /\ most < least THEN least ELSE most) = -1 THEN 1
                        ELSE IF most # 0 /\ most < least THEN least ELSE most]
  BY DEF Bounds, least, most
<1> QED BY <1>1, <1>2
----------------------------------------------------------------------------
(* Queues as sequences.                                                    *)
LEMMA ListFacts ==
  ASSUME NEW S, NEW s \in Seq(S)
  PROVE  /\ Len(s) \in Nat /\ DOMAIN s = 1..Len(s) /\ (s # <<>> <=> Len(s) # 0)
         /\ \A i \in 1..Len(s) : s[i] \in S
OBVIOUS

LEMMA JoinFacts ==
  ASSUME NEW S, NEW s \in Seq(S), NEW t \in Seq(S)
  PROVE  /\ s \o t \in Seq(S) /\ Len(s \o t) = Len(s) + Len(t)
         /\ \A i \in 1..Len(s \o t) :
              \/ i \in 1..Len(s) /\ (s \o t)[i] = s[i]
              \/ i - Len(s) \in 1..Len(t) /\ (s \o t)[i] = t[i - Len(s)]
OBVIOUS

LEMMA RemoveFacts ==
  ASSUME NEW S, NEW s \in Seq(S), NEW i \in 1..Len(s)
  PROVE  /\ RemoveAt(s, i) \in Seq(S) /\ Len(RemoveAt(s, i)) = Len(s) - 1
         /\ \A j \in 1..Len(RemoveAt(s, i)) : \E k \in 1..Len(s) : RemoveAt(s, i)[j] = s[k]
<1> DEFINE front == SubSeq(s, 1, i - 1)
           back == SubSeq(s, i + 1, Len(s))
<1>1. RemoveAt(s, i) = front \o back
  BY DEF RemoveAt
<1>2. /\ front \in Seq(S) /\ Len(front) = i - 1
      /\ \A j \in 1..(i - 1) : front[j] = s[j]
  OBVIOUS
<1>3. /\ back \in Seq(S) /\ Len(back) = Len(s) - i
      /\ \A j \in 1..(Len(s) - i) : back[j] = s[i + j]
  OBVIOUS
<1> HIDE DEF front, back
<1>4. i \in Nat /\ Len(s) \in Nat /\ i >= 1 /\ i <= Len(s)
  OBVIOUS
<1>5. /\ front \o back \in Seq(S) /\ Len(front \o back) = Len(front) + Len(back)
      /\ \A j \in 1..Len(front \o back) :
           \/ j \in 1..Len(front) /\ (front \o back)[j] = front[j]
           \/ j - Len(front) \in 1..Len(back) /\ (front \o back)[j] = back[j - Len(front)]
  BY <1>2, <1>3, JoinFacts
<1>6. ASSUME NEW j \in 1..Len(front \o back)
      PROVE  \E k \in 1..Len(s) : (front \o back)[j] = s[k]
  <2>1. CASE j \in 1..Len(front) /\ (front \o back)[j] = front[j]
    <3>1. j \in 1..Len(s)
      BY <1>2, <1>4, <2>1
    <3> QED BY <1>2, <2>1, <3>1
  <2>2. CASE j - Len(front) \in 1..Len(back) /\ (front \o back)[j] = back[j - Len(front)]
    <3>1. i + (j - Len(front)) \in 1..Len(s)
      BY <1>2, <1>3, <1>4, <2>2
    <3> QED BY <1>2, <1>3, <2>2, <3>1
  <2> QED BY <1>5, <2>1, <2>2
<1>7. Len(front \o back) = Len(s) - 1
  BY <1>2, <1>3, <1>4, <1>5
<1> QED BY <1>1, <1>5, <1>6, <1>7

(* MQ_ENQUEUE_CONDITIONAL: an entry comes between the others.              *)
LEMMA InsertFacts ==
  ASSUME NEW S, NEW s \in Seq(S), NEW p \in 1..(Len(s) + 1), NEW x \in S
  PROVE  /\ InsertAt(s, p, x) \in Seq(S) /\ Len(InsertAt(s, p, x)) = Len(s) + 1
         /\ \A i \in 1..(Len(s) + 1) :
              InsertAt(s, p, x)[i] = IF i < p THEN s[i] ELSE IF i = p THEN x ELSE s[i - 1]
<1> DEFINE front == SubSeq(s, 1, p - 1)
           back == SubSeq(s, p, Len(s))
           one == <<x>>
<1>1. InsertAt(s, p, x) = (front \o one) \o back
  BY DEF InsertAt
<1>2. /\ front \in Seq(S) /\ Len(front) = p - 1
      /\ \A j \in 1..(p - 1) : front[j] = s[j]
  OBVIOUS
<1>3. /\ back \in Seq(S) /\ Len(back) = Len(s) - p + 1
      /\ \A j \in 1..(Len(s) - p + 1) : back[j] = s[p + j - 1]
  OBVIOUS
<1>4. one \in Seq(S) /\ Len(one) = 1 /\ one[1] = x
  OBVIOUS
<1>5. p \in Nat /\ p >= 1 /\ p <= Len(s) + 1 /\ Len(s) \in Nat
  OBVIOUS
<1> HIDE DEF front, back, one
<1> DEFINE left == front \o one
<1>6. /\ left \in Seq(S) /\ Len(left) = p
      /\ \A j \in 1..p : left[j] = IF j < p THEN s[j] ELSE x
  <2>1. /\ left \in Seq(S) /\ Len(left) = Len(front) + Len(one)
        /\ \A j \in 1..Len(left) :
             \/ j \in 1..Len(front) /\ left[j] = front[j]
             \/ j - Len(front) \in 1..Len(one) /\ left[j] = one[j - Len(front)]
    BY <1>2, <1>4, JoinFacts
  <2> HIDE DEF left
  <2>2. Len(left) = p
    BY <1>2, <1>4, <1>5, <2>1
  <2>3. ASSUME NEW j \in 1..p PROVE left[j] = IF j < p THEN s[j] ELSE x
    <3>1. CASE j < p
      BY <1>2, <1>4, <1>5, <2>1, <2>2, <3>1
    <3>2. CASE j = p
      <4>1. left[j] = one[j - Len(front)] /\ j - Len(front) = 1
        BY <1>2, <1>4, <1>5, <2>1, <2>2, <3>2
      <4> QED BY <1>4, <3>2, <4>1
    <3> QED BY <1>5, <3>1, <3>2
  <2> QED BY <2>1, <2>2, <2>3
<1> HIDE DEF left
<1> DEFINE all == left \o back
<1>7. /\ all \in Seq(S) /\ Len(all) = Len(s) + 1
      /\ \A j \in 1..Len(all) : all[j] = IF j <= p THEN left[j] ELSE back[j - p]
  <2>1. /\ all \in Seq(S) /\ Len(all) = Len(left) + Len(back)
        /\ \A j \in 1..Len(all) :
             \/ j \in 1..Len(left) /\ all[j] = left[j]
             \/ j - Len(left) \in 1..Len(back) /\ all[j] = back[j - Len(left)]
    BY <1>3, <1>6, JoinFacts
  <2> HIDE DEF all
  <2>2. Len(all) = Len(s) + 1
    BY <1>3, <1>5, <1>6, <2>1
  <2>3. ASSUME NEW j \in 1..Len(all) PROVE all[j] = IF j <= p THEN left[j] ELSE back[j - p]
    BY <1>3, <1>5, <1>6, <2>1, <2>3
  <2> QED BY <2>1, <2>2, <2>3
<1>8. InsertAt(s, p, x) = all
  BY <1>1 DEF left
<1> HIDE DEF all
<1>9. \A i \in 1..(Len(s) + 1) :
        all[i] = IF i < p THEN s[i] ELSE IF i = p THEN x ELSE s[i - 1]
  <2> SUFFICES ASSUME NEW i \in 1..(Len(s) + 1)
               PROVE  all[i] = IF i < p THEN s[i] ELSE IF i = p THEN x ELSE s[i - 1]
    OBVIOUS
  <2>1. CASE i <= p
    BY <1>5, <1>6, <1>7, <2>1
  <2>2. CASE i > p
    <3>1. i - p \in 1..(Len(s) - p + 1) /\ p + (i - p) - 1 = i - 1
      BY <1>5, <2>2
    <3> QED BY <1>3, <1>5, <1>7, <2>2, <3>1
  <2> QED BY <1>5, <2>1, <2>2
<1> QED BY <1>7, <1>8, <1>9
----------------------------------------------------------------------------
(* Sequences and what is left of them.                                     *)
LEMMA Induction ==
  ASSUME NEW N \in Nat, NEW T, 0 \in T, \A n \in 0..(N - 1) : n \in T => n + 1 \in T
  PROVE  \A n \in 0..N : n \in T
<1> DEFINE bad == {n \in 0..N : n \notin T}
<1>1. SUFFICES ASSUME bad # {} PROVE FALSE
  OBVIOUS
<1>2. bad \subseteq Nat
  OBVIOUS
<1>3. PICK m \in bad : \A k \in bad : m <= k
  <2> HIDE DEF bad
  <2> QED BY <1>1, <1>2, Least
<1>4. m - 1 \in 0..(N - 1) /\ m - 1 \notin bad
  BY <1>3
<1> QED BY <1>3, <1>4

IsKept(k, s, S, N) ==
  k = [n \in 0..N |-> IF n = 0 THEN <<>> ELSE IF s[n] \in S THEN k[n - 1] ELSE Append(k[n - 1], s[n])]

LEMMA KeptSteps ==
  ASSUME NEW N \in Nat, NEW s, NEW S, NEW k, IsKept(k, s, S, N)
  PROVE  /\ k[0] = <<>>
         /\ \A n \in 1..N : k[n] = IF s[n] \in S THEN k[n - 1] ELSE Append(k[n - 1], s[n])
<1>1. \A n \in 0..N : k[n] = IF n = 0 THEN <<>> ELSE IF s[n] \in S THEN k[n - 1] ELSE Append(k[n - 1], s[n])
  BY DEF IsKept
<1> QED BY <1>1

LEMMA KeptExists ==
  ASSUME NEW N \in Nat, NEW s, NEW S
  PROVE  \E k : IsKept(k, s, S, N)
<1> DEFINE T == {n \in 0..N : \E k : IsKept(k, s, S, n)}
<1>1. 0 \in T
  <2> DEFINE k == [n \in 0..0 |-> <<>>]
  <2>1. IsKept(k, s, S, 0)
    BY DEF IsKept
  <2> QED BY <2>1
<1>2. ASSUME NEW n \in 0..(N - 1), n \in T PROVE n + 1 \in T
  <2>1. PICK k : IsKept(k, s, S, n)
    BY <1>2
  <2> DEFINE next == IF s[n + 1] \in S THEN k[n] ELSE Append(k[n], s[n + 1])
             h == [m \in 0..(n + 1) |-> IF m <= n THEN k[m] ELSE next]
  <2>2. k[0] = <<>> /\ \A m \in 1..n : k[m] = IF s[m] \in S THEN k[m - 1] ELSE Append(k[m - 1], s[m])
    BY <2>1, KeptSteps
  <2>3. ASSUME NEW m \in 0..(n + 1)
        PROVE  h[m] = IF m = 0 THEN <<>> ELSE IF s[m] \in S THEN h[m - 1] ELSE Append(h[m - 1], s[m])
    <3>1. CASE m = 0
      BY <2>2, <3>1
    <3>2. CASE m \in 1..n
      <4>1. h[m] = k[m] /\ h[m - 1] = k[m - 1]
        BY <3>2
      <4> HIDE DEF h
      <4> QED BY <2>2, <3>2, <4>1
    <3>3. CASE m = n + 1
      <4>1. h[m] = next /\ h[m - 1] = k[n]
        BY <3>3
      <4> HIDE DEF h
      <4> QED BY <3>3, <4>1
    <3> QED BY <3>1, <3>2, <3>3
  <2>4. IsKept(h, s, S, n + 1)
    BY <2>3 DEF IsKept
  <2> QED BY <2>4
<1> HIDE DEF T
<1>3. N \in T
  BY <1>1, <1>2, Induction
<1> QED BY <1>3 DEF T

\* Without, element by element.
LEMMA WithoutIs ==
  ASSUME NEW s, NEW S, Len(s) \in Nat
  PROVE  \E k : IsKept(k, s, S, Len(s)) /\ Without(s, S) = k[Len(s)]
<1> DEFINE k == CHOOSE k : IsKept(k, s, S, Len(s))
<1>1. IsKept(k, s, S, Len(s))
  BY KeptExists
<1>2. Without(s, S) = k[Len(s)]
  BY DEF Without, IsKept
<1> QED BY <1>1, <1>2

LEMMA WithoutNothing == \A S : Without(<<>>, S) = <<>>
<1> SUFFICES ASSUME NEW S PROVE Without(<<>>, S) = <<>>
  OBVIOUS
<1>1. PICK k : IsKept(k, <<>>, S, Len(<<>>)) /\ Without(<<>>, S) = k[Len(<<>>)]
  <2>1. Len(<<>>) \in Nat
    OBVIOUS
  <2> QED BY <2>1, WithoutIs
<1>2. Len(<<>>) = 0
  OBVIOUS
<1> QED BY <1>1, <1>2, KeptSteps

\* Two sequences that agree up to n.
LEMMA KeptAgree ==
  ASSUME NEW n \in Nat, NEW s, NEW t, NEW S, NEW k, NEW l, NEW M \in Nat, NEW N \in Nat, n <= M, n <= N,
         IsKept(k, s, S, M), IsKept(l, t, S, N), \A i \in 1..n : s[i] = t[i]
  PROVE  k[n] = l[n]
<1> DEFINE T == {i \in 0..n : k[i] = l[i]}
<1>1. /\ k[0] = <<>> /\ l[0] = <<>>
      /\ \A i \in 1..n : /\ k[i] = IF s[i] \in S THEN k[i - 1] ELSE Append(k[i - 1], s[i])
                         /\ l[i] = IF t[i] \in S THEN l[i - 1] ELSE Append(l[i - 1], t[i])
  <2>1. /\ k[0] = <<>>
        /\ \A i \in 1..M : k[i] = IF s[i] \in S THEN k[i - 1] ELSE Append(k[i - 1], s[i])
    BY KeptSteps
  <2>2. /\ l[0] = <<>>
        /\ \A i \in 1..N : l[i] = IF t[i] \in S THEN l[i - 1] ELSE Append(l[i - 1], t[i])
    BY KeptSteps
  <2>3. 1..n \subseteq 1..M /\ 1..n \subseteq 1..N
    OBVIOUS
  <2> QED BY <2>1, <2>2, <2>3
<1>2. 0 \in T
  BY <1>1
<1>3. ASSUME NEW i \in 0..(n - 1), i \in T PROVE i + 1 \in T
  <2>1. i + 1 \in 1..n /\ (i + 1) - 1 = i
    OBVIOUS
  <2>2. k[i + 1] = (IF s[i + 1] \in S THEN k[i] ELSE Append(k[i], s[i + 1]))
    BY <1>1, <2>1
  <2>3. l[i + 1] = (IF t[i + 1] \in S THEN l[i] ELSE Append(l[i], t[i + 1]))
    BY <1>1, <2>1
  <2>4. s[i + 1] = t[i + 1] /\ k[i] = l[i]
    BY <1>3, <2>1
  <2> QED BY <2>1, <2>2, <2>3, <2>4
<1> HIDE DEF T
<1>4. n \in T
  BY <1>2, <1>3, Induction
<1> QED BY <1>4 DEF T

LEMMA WithoutAppended ==
  ASSUME NEW X, NEW s \in Seq(X), NEW x \in X, NEW S
  PROVE  Without(Append(s, x), S) = IF x \in S THEN Without(s, S) ELSE Append(Without(s, S), x)
<1> DEFINE t == Append(s, x)
<1>1. /\ Len(s) \in Nat /\ Len(t) = Len(s) + 1 /\ t[Len(s) + 1] = x
      /\ \A i \in 1..Len(s) : s[i] = t[i]
  OBVIOUS
<1> HIDE DEF t
<1>2. PICK k : IsKept(k, s, S, Len(s)) /\ Without(s, S) = k[Len(s)]
  BY <1>1, WithoutIs
<1>3. PICK l : IsKept(l, t, S, Len(t)) /\ Without(t, S) = l[Len(t)]
  BY <1>1, WithoutIs
<1>4. k[Len(s)] = l[Len(s)]
  BY <1>1, <1>2, <1>3, KeptAgree
<1>5. l[Len(t)] = IF t[Len(t)] \in S THEN l[Len(t) - 1] ELSE Append(l[Len(t) - 1], t[Len(t)])
  BY <1>1, <1>3, KeptSteps
<1> QED BY <1>1, <1>2, <1>3, <1>4, <1>5 DEF t

LEMMA PrefixFacts ==
  ASSUME NEW X, NEW s \in Seq(X)
  PROVE  /\ SubSeq(s, 1, 0) = <<>> /\ SubSeq(s, 1, Len(s)) = s
         /\ \A n \in 0..Len(s) : /\ SubSeq(s, 1, n) \in Seq(X) /\ Len(SubSeq(s, 1, n)) = n
                                 /\ \A i \in 1..n : SubSeq(s, 1, n)[i] = s[i]
         /\ \A n \in 0..(Len(s) - 1) :
              /\ s[n + 1] \in X
              /\ SubSeq(s, 1, n + 1) = Append(SubSeq(s, 1, n), s[n + 1])
<1>1. SubSeq(s, 1, 0) = <<>> /\ SubSeq(s, 1, Len(s)) = s
  OBVIOUS
<1>2. \A n \in 0..Len(s) : /\ SubSeq(s, 1, n) \in Seq(X) /\ Len(SubSeq(s, 1, n)) = n
                           /\ \A i \in 1..n : SubSeq(s, 1, n)[i] = s[i]
  OBVIOUS
<1>3. ASSUME NEW n \in 0..(Len(s) - 1)
      PROVE  s[n + 1] \in X /\ SubSeq(s, 1, n + 1) = Append(SubSeq(s, 1, n), s[n + 1])
  OBVIOUS
<1> QED BY <1>1, <1>2, <1>3

LEMMA SequenceInduction ==
  ASSUME NEW X, NEW T, <<>> \in T, \A s \in Seq(X), x \in X : s \in T => Append(s, x) \in T
  PROVE  \A s \in Seq(X) : s \in T
<1> SUFFICES ASSUME NEW s \in Seq(X) PROVE s \in T
  OBVIOUS
<1> DEFINE N == Len(s)
           P == {n \in 0..N : SubSeq(s, 1, n) \in T}
<1>1. N \in Nat
  OBVIOUS
<1>2. 0 \in P
  <2>1. SubSeq(s, 1, 0) = <<>>
    OBVIOUS
  <2>2. SubSeq(s, 1, 0) \in T
    BY <2>1, Zenon
  <2>3. 0 \in 0..N
    BY <1>1
  <2> HIDE DEF N
  <2> QED BY <2>2, <2>3, Zenon
<1>3. ASSUME NEW n \in 0..(N - 1), n \in P PROVE n + 1 \in P
  <2> DEFINE u == SubSeq(s, 1, n)
  <2>1. SubSeq(s, 1, n + 1) = Append(u, s[n + 1]) /\ s[n + 1] \in X
    BY PrefixFacts
  <2>2. u \in Seq(X) /\ u \in T /\ n + 1 \in 0..Len(s)
    BY <1>3, PrefixFacts
  <2> HIDE DEF u
  <2> QED BY <2>1, <2>2
<1>4. SubSeq(s, 1, N) = s
  OBVIOUS
<1> HIDE DEF P, N
<1>5. N \in P
  <2>1. \A n \in 0..(N - 1) : n \in P => n + 1 \in P
    BY <1>3
  <2>2. \A n \in 0..N : n \in P
    BY <1>1, <1>2, <2>1, Induction
  <2> QED BY <1>1, <2>2
<1> QED BY <1>4, <1>5 DEF P

LEMMA WithoutPrefix ==
  ASSUME NEW X, NEW s \in Seq(X), NEW S, NEW n \in 0..(Len(s) - 1)
  PROVE  Without(SubSeq(s, 1, n + 1), S) =
           IF s[n + 1] \in S THEN Without(SubSeq(s, 1, n), S)
           ELSE Append(Without(SubSeq(s, 1, n), S), s[n + 1])
<1> DEFINE u == SubSeq(s, 1, n)
           x == s[n + 1]
<1>1. x \in X /\ SubSeq(s, 1, n + 1) = Append(u, x)
  BY PrefixFacts
<1>2. u \in Seq(X)
  BY PrefixFacts
<1> HIDE DEF u, x
<1>3. Without(Append(u, x), S) = IF x \in S THEN Without(u, S) ELSE Append(Without(u, S), x)
  BY <1>1, <1>2, WithoutAppended
<1> QED BY <1>1, <1>3 DEF u, x

LEMMA WithoutTypes ==
  ASSUME NEW X, NEW S, NEW s \in Seq(X)
  PROVE  Without(s, S) \in Seq(X \ S) /\ Without(s, S) \in Seq(X) /\ Len(Without(s, S)) <= Len(s)
<1> DEFINE T == {t \in Seq(X) : Without(t, S) \in Seq(X \ S) /\ Len(Without(t, S)) <= Len(t)}
<1>1. <<>> \in T
  <2>1. Without(<<>>, S) = <<>>
    BY WithoutNothing
  <2>2. <<>> \in Seq(X) /\ <<>> \in Seq(X \ S) /\ Len(<<>>) <= Len(<<>>)
    OBVIOUS
  <2> QED BY <2>1, <2>2
<1>2. ASSUME NEW t \in Seq(X), NEW x \in X, t \in T PROVE Append(t, x) \in T
  <2>1. Without(Append(t, x), S) = IF x \in S THEN Without(t, S) ELSE Append(Without(t, S), x)
    BY WithoutAppended
  <2>2. Append(t, x) \in Seq(X) /\ Len(Append(t, x)) = Len(t) + 1 /\ Len(t) \in Nat
    OBVIOUS
  <2>3. Without(t, S) \in Seq(X \ S) /\ Len(Without(t, S)) <= Len(t) /\ Len(Without(t, S)) \in Nat
    BY <1>2
  <2>4. x \notin S => /\ Append(Without(t, S), x) \in Seq(X \ S)
                      /\ Len(Append(Without(t, S), x)) = Len(Without(t, S)) + 1
    BY <2>3
  <2> DEFINE w == Without(t, S)
             new == Without(Append(t, x), S)
  <2>5. new \in Seq(X \ S) /\ Len(new) <= Len(t) + 1
    <3>1. CASE x \in S
      <4>1. new = w
        BY <2>1, <3>1
      <4> QED BY <2>2, <2>3, <4>1
    <3>2. CASE x \notin S
      <4>1. new = Append(w, x)
        BY <2>1, <3>2
      <4> HIDE DEF new, w
      <4> QED BY <2>2, <2>3, <2>4, <3>2, <4>1 DEF w
    <3> QED BY <3>1, <3>2
  <2> QED BY <2>2, <2>5
<1> HIDE DEF T
<1>3. s \in T
  BY <1>1, <1>2, SequenceInduction
<1>4. Without(s, S) \in Seq(X \ S) /\ Len(Without(s, S)) <= Len(s)
  BY <1>3 DEF T
<1>5. \A w \in Seq(X \ S) : w \in Seq(X)
  OBVIOUS
<1> QED BY <1>4, <1>5

LEMMA JoinAppended ==
  ASSUME NEW X, NEW s \in Seq(X), NEW t \in Seq(X), NEW x \in X
  PROVE  s \o Append(t, x) = Append(s \o t, x) /\ s \o t \in Seq(X)
OBVIOUS

LEMMA WithoutJoined ==
  ASSUME NEW X, NEW s \in Seq(X), NEW t \in Seq(X), NEW S
  PROVE  Without(s \o t, S) = Without(s, S) \o Without(t, S)
<1> DEFINE T == {u \in Seq(X) : Without(s \o u, S) = Without(s, S) \o Without(u, S)}
<1>1. <<>> \in T
  <2>1. s \o <<>> = s /\ Without(s, S) \o <<>> = Without(s, S)
    <3>1. Without(s, S) \in Seq(X)
      BY WithoutTypes
    <3> QED BY <3>1
  <2>2. Without(<<>>, S) = <<>> /\ <<>> \in Seq(X)
    BY WithoutNothing
  <2> QED BY <2>1, <2>2
<1>2. ASSUME NEW u \in Seq(X), NEW x \in X, u \in T PROVE Append(u, x) \in T
  <2>1. s \o Append(u, x) = Append(s \o u, x) /\ s \o u \in Seq(X)
    BY JoinAppended
  <2> DEFINE su == s \o u
  <2> HIDE DEF su
  <2>2. Without(Append(su, x), S) = IF x \in S THEN Without(su, S) ELSE Append(Without(su, S), x)
    BY <2>1, WithoutAppended DEF su
  <2>3. Without(Append(u, x), S) = IF x \in S THEN Without(u, S) ELSE Append(Without(u, S), x)
    BY WithoutAppended
  <2> DEFINE ws == Without(s, S)
             wu == Without(u, S)
  <2>4. ws \in Seq(X) /\ wu \in Seq(X)
    BY WithoutTypes
  <2> HIDE DEF ws, wu
  <2>5. ws \o Append(wu, x) = Append(ws \o wu, x)
    BY <2>4, JoinAppended
  <2>6. Without(su, S) = ws \o wu
    BY <1>2 DEF su, ws, wu
  <2>7. Append(u, x) \in Seq(X)
    OBVIOUS
  <2> QED BY <2>1, <2>2, <2>3, <2>5, <2>6, <2>7 DEF su, ws, wu
<1> HIDE DEF T
<1>3. t \in T
  BY <1>1, <1>2, SequenceInduction
<1> QED BY <1>3 DEF T

LEMMA WithoutTwice ==
  ASSUME NEW X, NEW s \in Seq(X), NEW S, NEW R
  PROVE  Without(Without(s, S), R) = Without(s, S \cup R)
<1> DEFINE T == {u \in Seq(X) : Without(Without(u, S), R) = Without(u, S \cup R)}
<1>1. <<>> \in T
  <2>1. <<>> \in Seq(X) /\ Without(<<>>, S) = <<>> /\ Without(<<>>, R) = <<>> /\ Without(<<>>, S \cup R) = <<>>
    BY WithoutNothing
  <2> QED BY <2>1
<1>2. ASSUME NEW u \in Seq(X), NEW x \in X, u \in T PROVE Append(u, x) \in T
  <2> DEFINE both == S \cup R
             wu == Without(u, S)
  <2>1. Without(Append(u, x), S) = IF x \in S THEN wu ELSE Append(wu, x)
    BY WithoutAppended
  <2>2. /\ wu \in Seq(X)
        /\ Append(u, x) \in Seq(X)
        /\ x \in both <=> x \in S \/ x \in R
    <3>1. wu \in Seq(X)
      BY WithoutTypes
    <3> QED BY <3>1
  <2> HIDE DEF both, wu
  <2>3. Without(Append(u, x), both) = IF x \in both THEN Without(u, both) ELSE Append(Without(u, both), x)
    BY WithoutAppended
  <2>4. Without(Append(wu, x), R) = IF x \in R THEN Without(wu, R) ELSE Append(Without(wu, R), x)
    BY <2>2, WithoutAppended
  <2>5. Without(wu, R) = Without(u, both)
    BY <1>2 DEF wu, both
  <2>6. Without(Without(Append(u, x), S), R) = Without(Append(u, x), both)
    <3>1. CASE x \in S
      BY <2>1, <2>2, <2>3, <2>5, <3>1
    <3>2. CASE x \notin S /\ x \in R
      BY <2>1, <2>2, <2>3, <2>4, <2>5, <3>2
    <3>3. CASE x \notin S /\ x \notin R
      BY <2>1, <2>2, <2>3, <2>4, <2>5, <3>3
    <3> QED BY <3>1, <3>2, <3>3
  <2> QED BY <2>2, <2>6 DEF both
<1> HIDE DEF T
<1>3. s \in T
  BY <1>1, <1>2, SequenceInduction
<1> QED BY <1>3 DEF T

LEMMA WithoutNone ==
  ASSUME NEW X, NEW s \in Seq(X), NEW S, \A i \in 1..Len(s) : s[i] \notin S
  PROVE  Without(s, S) = s
<1> DEFINE T == {u \in Seq(X) : Without(u, S) = u}
<1>1. s \in Seq(X \ S)
  OBVIOUS
<1>2. <<>> \in T
  BY WithoutNothing
<1>3. ASSUME NEW u \in Seq(X \ S), NEW x \in X \ S, u \in T PROVE Append(u, x) \in T
  <2>1. u \in Seq(X) /\ Append(u, x) \in Seq(X)
    OBVIOUS
  <2>2. Without(Append(u, x), S) = Append(Without(u, S), x)
    BY <2>1, WithoutAppended
  <2> QED BY <1>3, <2>1, <2>2
<1> HIDE DEF T
<1>4. s \in T
  BY <1>1, <1>2, <1>3, SequenceInduction
<1> QED BY <1>4 DEF T

LEMMA WithoutAll ==
  ASSUME NEW X, NEW s \in Seq(X), NEW S, \A i \in 1..Len(s) : s[i] \in S
  PROVE  Without(s, S) = <<>>
<1>1. s \in Seq(X \cap S)
  OBVIOUS
<1>2. Without(s, S) \in Seq((X \cap S) \ S)
  BY <1>1, WithoutTypes
<1>3. \A w \in Seq((X \cap S) \ S) : w = <<>>
  <2> SUFFICES ASSUME NEW w \in Seq((X \cap S) \ S), w # <<>> PROVE FALSE
    OBVIOUS
  <2>1. w[1] \in (X \cap S) \ S
    OBVIOUS
  <2> QED BY <2>1
<1> QED BY <1>2, <1>3

LEMMA ConcatFacts ==
  ASSUME NEW X, NEW u \in Seq(X), NEW w \in Seq(X)
  PROVE  /\ u \o w \in Seq(X) /\ Len(u \o w) = Len(u) + Len(w)
         /\ \A i \in 1..Len(u) : (u \o w)[i] = u[i]
         /\ \A i \in (Len(u) + 1)..(Len(u) + Len(w)) : (u \o w)[i] = w[i - Len(u)]
OBVIOUS

LEMMA SameSequence ==
  ASSUME NEW X, NEW u \in Seq(X), NEW w \in Seq(X), Len(u) = Len(w), \A i \in 1..Len(u) : u[i] = w[i]
  PROVE  u = w
OBVIOUS

LEMMA CutFacts ==
  ASSUME NEW X, NEW s \in Seq(X), NEW n \in 0..Len(s)
  PROVE  /\ SubSeq(s, 1, n) \in Seq(X) /\ SubSeq(s, n + 1, Len(s)) \in Seq(X)
         /\ Len(SubSeq(s, 1, n)) = n /\ Len(SubSeq(s, n + 1, Len(s))) = Len(s) - n
         /\ s = SubSeq(s, 1, n) \o SubSeq(s, n + 1, Len(s))
<1> DEFINE front == SubSeq(s, 1, n)
           back == SubSeq(s, n + 1, Len(s))
           N == Len(s)
<1>1. front \in Seq(X) /\ Len(front) = n /\ \A i \in 1..n : front[i] = s[i]
  OBVIOUS
<1>2. back \in Seq(X) /\ Len(back) = N - n /\ \A i \in 1..(N - n) : back[i] = s[n + i]
  OBVIOUS
<1>3. N \in Nat /\ n \in Nat /\ n <= N
  OBVIOUS
<1>4. s = front \o back
  <2> HIDE DEF front, back
  <2> DEFINE both == front \o back
  <2>1. /\ both \in Seq(X) /\ Len(both) = n + (N - n)
        /\ \A i \in 1..n : both[i] = front[i]
        /\ \A i \in (n + 1)..(n + (N - n)) : both[i] = back[i - n]
    BY <1>1, <1>2, ConcatFacts
  <2> HIDE DEF both, N
  <2>2. Len(both) = N
    BY <1>3, <2>1
  <2>3. ASSUME NEW i \in 1..N PROVE s[i] = both[i]
    <3>1. CASE i <= n
      BY <1>1, <1>3, <2>1, <3>1
    <3>2. CASE i > n
      <4>1. both[i] = back[i - n] /\ i - n \in 1..(N - n) /\ n + (i - n) = i
        BY <1>3, <2>1, <3>2
      <4> QED BY <1>2, <4>1
    <3> QED BY <1>3, <3>1, <3>2
  <2>4. Len(s) = N
    BY DEF N
  <2>5. s = both
    BY <2>1, <2>2, <2>3, <2>4, SameSequence
  <2> QED BY <2>5 DEF both
<1> QED BY <1>1, <1>2, <1>4

LEMMA WithoutOne ==
  ASSUME NEW X, NEW s \in Seq(X), NEW x \in X, NEW S
  PROVE  Without(<<x>> \o s, S) = IF x \in S THEN Without(s, S) ELSE <<x>> \o Without(s, S)
<1> DEFINE none == <<>>
           one == <<x>>
<1>1. none \in Seq(X) /\ one \in Seq(X) /\ one = Append(none, x)
  OBVIOUS
<1>2. Without(none, S) = none
  BY WithoutNothing
<1>3. Without(s, S) \in Seq(X)
  BY WithoutTypes
<1>4. none \o Without(s, S) = Without(s, S)
  BY <1>3
<1> HIDE DEF none, one
<1>5. Without(one, S) = IF x \in S THEN none ELSE one
  BY <1>1, <1>2, WithoutAppended
<1>6. Without(one \o s, S) = Without(one, S) \o Without(s, S)
  <2>1. one \in Seq(X)
    BY <1>1
  <2> QED BY <2>1, WithoutJoined
<1>7. Without(one \o s, S) = IF x \in S THEN Without(s, S) ELSE one \o Without(s, S)
  BY <1>4, <1>5, <1>6
<1> QED BY <1>7 DEF one
=============================================================================
