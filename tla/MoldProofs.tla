----------------------------- MODULE MoldProofs -----------------------------
(* Theorems about Mold, for any defaults, restrictions and versions, in    *)
(* any order.  But for the types they are about a client that does none of *)
(* what the library does not withstand: a second default of a version, a   *)
(* restriction without a type, a finalized default that is destroyed       *)
(* (README, further configurations).                                       *)
EXTENDS Mold, DataFacts

Careful == Client \subseteq {"deprecate"}

FinalDefaults == {d \in Defaults : default[d].state = "finalized"}
FinalRestrictions == {r \in Restrictions : restriction[r].state = "finalized"}

\* A queue has every element of T once.
Holds(queue, T) ==
  /\ queue \in Seq(T)
  /\ \A x \in T : \E i \in 1..Len(queue) : queue[i] = x
  /\ \A i, j \in 1..Len(queue) : queue[i] = queue[j] => i = j

InOrder ==
  \A i, j \in 1..Len(kv_default_queue) : i < j =>
    Compare(default[kv_default_queue[i]].introduced, default[kv_default_queue[j]].introduced) <= 0

QueuesHold ==
  /\ Holds(kv_default_queue, FinalDefaults) /\ InOrder
  /\ Holds(kv_restrictions_queue, FinalRestrictions)

Covers ==
  /\ \A d \in FinalDefaults : Compare(default[d].introduced, mold.version) <= 0
  /\ \A r \in FinalRestrictions : Compare(restriction[r].introduced, mold.version) <= 0

\* What validate_context_validity looks for in a keyval.
OneOfEach ==
  /\ FinalDefaults # {}
  /\ \A d, e \in FinalDefaults : default[d].introduced = default[e].introduced => d = e
  /\ \A r, q \in FinalRestrictions :
       /\ restriction[r].type = restriction[q].type
       /\ restriction[r].introduced = restriction[q].introduced
       => r = q

ValidHasOneOfEach == keyval.state = "finalized" /\ ~keyval.invalid => OneOfEach

(* Every restriction has a type, so dx_validate_context does not abort.    *)
Typed ==
  /\ \A r \in Restrictions :
       restriction[r].state \in {"constructing", "finalized"} => restriction[r].type # "UNKNOWN"
  /\ ~crashed

Inv == TypeOK /\ QueuesHold /\ Covers /\ ValidHasOneOfEach /\ Typed
----------------------------------------------------------------------------
(* Queues.                                                                 *)

LEMMA Appended ==
  ASSUME NEW T, NEW queue, Holds(queue, T), NEW x, x \notin T
  PROVE  Holds(Append(queue, x), T \cup {x})
<1>1. /\ queue \in Seq(T) /\ Len(queue) \in Nat
      /\ \A i \in 1..Len(queue) : queue[i] \in T
  BY DEF Holds
<1> DEFINE new == Append(queue, x)
           all == T \cup {x}
<1>2. queue \in Seq(all) /\ x \in all
  <2>1. \A i \in 1..Len(queue) : queue[i] \in all
    BY <1>1
  <2> QED BY <1>1, <2>1
<1>3. /\ new \in Seq(all) /\ Len(new) = Len(queue) + 1 /\ new[Len(queue) + 1] = x
      /\ \A i \in 1..Len(queue) : new[i] = queue[i]
  BY <1>1, <1>2
<1> HIDE DEF new
<1>4. ASSUME NEW y \in all PROVE \E i \in 1..Len(new) : new[i] = y
  <2>1. CASE y \in T
    <3>1. PICK i \in 1..Len(queue) : queue[i] = y
      BY <2>1 DEF Holds
    <3> QED BY <1>1, <1>3, <3>1
  <2>2. CASE y = x
    BY <1>1, <1>3, <2>2
  <2> QED BY <2>1, <2>2
<1>5. ASSUME NEW i \in 1..Len(new), NEW j \in 1..Len(new), new[i] = new[j] PROVE i = j
  <2>1. (i \in 1..Len(queue) \/ i = Len(queue) + 1) /\ (j \in 1..Len(queue) \/ j = Len(queue) + 1)
    BY <1>1, <1>3
  <2>2. \A k \in 1..Len(queue) : new[k] # x
    BY <1>1, <1>3
  <2> QED BY <1>3, <1>5, <2>1, <2>2 DEF Holds
<1> QED BY <1>3, <1>4, <1>5 DEF Holds, new

LEMMA Inserted ==
  ASSUME NEW T, NEW queue, Holds(queue, T), NEW x, x \notin T, NEW p \in 1..(Len(queue) + 1)
  PROVE  Holds(InsertAt(queue, p, x), T \cup {x})
<1>1. /\ queue \in Seq(T) /\ Len(queue) \in Nat
      /\ \A i \in 1..Len(queue) : queue[i] \in T
      /\ \A i, j \in 1..Len(queue) : queue[i] = queue[j] => i = j
  <2>1. queue \in Seq(T) /\ \A i, j \in 1..Len(queue) : queue[i] = queue[j] => i = j
    BY DEF Holds
  <2> QED BY <2>1
<1> DEFINE new == InsertAt(queue, p, x)
           all == T \cup {x}
<1>2. queue \in Seq(all) /\ x \in all
  <2>1. \A i \in 1..Len(queue) : queue[i] \in all
    BY <1>1
  <2> QED BY <1>1, <2>1
<1>3. /\ new \in Seq(all) /\ Len(new) = Len(queue) + 1
      /\ \A i \in 1..(Len(queue) + 1) :
           new[i] = IF i < p THEN queue[i] ELSE IF i = p THEN x ELSE queue[i - 1]
  BY <1>2, InsertFacts
<1> HIDE DEF new
<1>4. ASSUME NEW y \in all PROVE \E i \in 1..Len(new) : new[i] = y
  <2>1. CASE y \in T
    <3>1. PICK i \in 1..Len(queue) : queue[i] = y
      BY <2>1 DEF Holds
    <3>2. CASE i < p
      <4>1. new[i] = y /\ i \in 1..Len(new)
        BY <1>1, <1>3, <3>1, <3>2
      <4> QED BY <4>1
    <3>3. CASE i >= p
      <4>1. new[i + 1] = y /\ i + 1 \in 1..Len(new)
        BY <1>1, <1>3, <3>1, <3>3
      <4> QED BY <4>1
    <3> QED BY <3>2, <3>3
  <2>2. CASE y = x
    <3>1. new[p] = x /\ p \in 1..Len(new)
      BY <1>1, <1>3
    <3> QED BY <2>2, <3>1
  <2> QED BY <2>1, <2>2
<1>5. ASSUME NEW i \in 1..Len(new), NEW j \in 1..Len(new), new[i] = new[j] PROVE i = j
  <2>1. \A k \in 1..Len(new) :
          \/ k < p /\ k \in 1..Len(queue) /\ new[k] = queue[k]
          \/ k = p /\ new[k] = x
          \/ k > p /\ k - 1 \in 1..Len(queue) /\ new[k] = queue[k - 1]
    BY <1>1, <1>3
  <2>2. \A k \in 1..Len(queue) : queue[k] # x
    BY <1>1
  <2>3. i \in Nat /\ j \in Nat /\ p \in Nat /\ \A k, l \in 1..Len(queue) : queue[k] = queue[l] => k = l
    BY <1>1, <1>3
  <2> DEFINE place(k) == IF k < p THEN k ELSE k - 1
  <2>4. ASSUME NEW k \in 1..Len(new), k # p
        PROVE  place(k) \in 1..Len(queue) /\ new[k] = queue[place(k)] /\ new[k] # x
    <3>1. place(k) \in 1..Len(queue) /\ new[k] = queue[place(k)]
      BY <2>1, <2>3, <2>4
    <3> QED BY <2>2, <3>1
  <2>5. CASE i = p
    <3>1. new[i] = x
      BY <2>1, <2>3, <2>5
    <3> QED BY <1>5, <2>4, <2>5, <3>1
  <2>6. CASE j = p
    <3>1. new[j] = x
      BY <2>1, <2>3, <2>6
    <3> QED BY <1>5, <2>4, <2>6, <3>1
  <2>7. CASE i # p /\ j # p
    <3> HIDE DEF place
    <3>1. /\ place(i) \in 1..Len(queue) /\ new[i] = queue[place(i)]
          /\ place(j) \in 1..Len(queue) /\ new[j] = queue[place(j)]
      BY <2>4, <2>7
    <3>2. place(i) = place(j)
      BY <1>5, <2>3, <3>1
    <3> QED BY <2>3, <2>7, <3>2 DEF place
  <2> QED BY <2>5, <2>6, <2>7
<1> QED BY <1>3, <1>4, <1>5 DEF Holds, new

LEMMA RemoveIsShift ==
  ASSUME NEW S, NEW s \in Seq(S), NEW k \in Nat, k >= 1, k <= Len(s)
  PROVE  /\ RemoveAt(s, k) \in Seq(S) /\ Len(RemoveAt(s, k)) = Len(s) - 1
         /\ \A i \in 1..(Len(s) - 1) : RemoveAt(s, k)[i] = IF i < k THEN s[i] ELSE s[i + 1]
<1> DEFINE front == SubSeq(s, 1, k - 1)
           back == SubSeq(s, k + 1, Len(s))
<1>1. RemoveAt(s, k) = front \o back
  BY DEF RemoveAt
<1>2. /\ front \in Seq(S) /\ Len(front) = k - 1
      /\ \A j \in 1..(k - 1) : front[j] = s[j]
  OBVIOUS
<1>3. /\ back \in Seq(S) /\ Len(back) = Len(s) - k
      /\ \A j \in 1..(Len(s) - k) : back[j] = s[k + j]
  OBVIOUS
<1>4. Len(s) \in Nat
  OBVIOUS
<1> HIDE DEF front, back
<1> DEFINE new == front \o back
<1>5. /\ new \in Seq(S) /\ Len(new) = Len(front) + Len(back)
      /\ \A j \in 1..Len(new) :
           \/ j \in 1..Len(front) /\ new[j] = front[j]
           \/ j - Len(front) \in 1..Len(back) /\ new[j] = back[j - Len(front)]
  BY <1>2, <1>3, JoinFacts
<1> HIDE DEF new
<1>6. Len(new) = Len(s) - 1
  BY <1>2, <1>3, <1>4, <1>5
<1>7. ASSUME NEW i \in 1..(Len(s) - 1)
      PROVE  new[i] = IF i < k THEN s[i] ELSE s[i + 1]
  <2>1. CASE i < k
    BY <1>2, <1>3, <1>4, <1>5, <1>6, <2>1
  <2>2. CASE i >= k
    <3>1. i - (k - 1) \in 1..(Len(s) - k) /\ k + (i - (k - 1)) = i + 1
      BY <1>4, <2>2
    <3>2. i \in 1..Len(new) /\ i \notin 1..Len(front)
      BY <1>2, <1>4, <1>6, <2>2
    <3>3. new[i] = back[i - Len(front)]
      BY <1>5, <3>2
    <3>4. new[i] = back[i - (k - 1)]
      BY <1>2, <3>3
    <3> QED BY <1>3, <2>2, <3>1, <3>4
  <2> QED BY <1>4, <2>1, <2>2
<1> QED BY <1>1, <1>5, <1>6, <1>7 DEF new

LEMMA RemovedAt ==
  ASSUME NEW T, NEW queue, Holds(queue, T), NEW k \in Nat, k >= 1, k <= Len(queue)
  PROVE  Holds(RemoveAt(queue, k), T \ {queue[k]})
<1> DEFINE new == RemoveAt(queue, k)
<1>1. /\ queue \in Seq(T) /\ Len(queue) \in Nat
      /\ \A i \in 1..Len(queue) : queue[i] \in T
      /\ k \in 1..Len(queue)
  BY DEF Holds
<1>2. \A i, j \in 1..Len(queue) : queue[i] = queue[j] => i = j
  BY DEF Holds
<1>3. /\ new \in Seq(T) /\ Len(new) = Len(queue) - 1
      /\ \A i \in 1..(Len(queue) - 1) : new[i] = IF i < k THEN queue[i] ELSE queue[i + 1]
  BY <1>1, RemoveIsShift
<1> HIDE DEF new
<1>4. /\ \A i \in 1..Len(new) : i < k => new[i] = queue[i] /\ i \in 1..Len(queue)
      /\ \A i \in 1..Len(new) : i >= k => new[i] = queue[i + 1] /\ i + 1 \in 1..Len(queue)
  BY <1>1, <1>3
<1>5. \A i \in 1..Len(new) : new[i] \in T \ {queue[k]}
  <2> SUFFICES ASSUME NEW i \in 1..Len(new) PROVE new[i] \in T \ {queue[k]}
    OBVIOUS
  <2>1. CASE i < k
    BY <1>1, <1>2, <1>4, <2>1
  <2>2. CASE i >= k
    BY <1>1, <1>2, <1>4, <2>2
  <2> QED BY <1>1, <1>3, <2>1, <2>2
<1>6. new \in Seq(T \ {queue[k]})
  BY <1>3, <1>5
<1>7. ASSUME NEW i \in 1..Len(new), NEW j \in 1..Len(new), new[i] = new[j] PROVE i = j
  <2>1. CASE i < k /\ j < k
    BY <1>2, <1>4, <1>7, <2>1
  <2>2. CASE i >= k /\ j >= k
    <3>1. i + 1 = j + 1
      BY <1>2, <1>4, <1>7, <2>2
    <3> QED BY <1>3, <1>1, <3>1
  <2>3. CASE i < k /\ j >= k
    <3>1. i = j + 1
      BY <1>2, <1>4, <1>7, <2>3
    <3> QED BY <1>3, <1>1, <2>3, <3>1
  <2>4. CASE i >= k /\ j < k
    <3>1. i + 1 = j
      BY <1>2, <1>4, <1>7, <2>4
    <3> QED BY <1>3, <1>1, <2>4, <3>1
  <2> QED BY <1>1, <1>3, <2>1, <2>2, <2>3, <2>4
<1>8. ASSUME NEW y \in T \ {queue[k]} PROVE \E i \in 1..Len(new) : new[i] = y
  <2>1. PICK i \in 1..Len(queue) : queue[i] = y
    BY DEF Holds
  <2>2. i < k \/ i > k
    BY <1>1, <2>1
  <2>3. CASE i < k
    <3>1. i \in 1..Len(new)
      BY <1>1, <1>3, <2>3
    <3> QED BY <1>4, <2>1, <2>3, <3>1
  <2>4. CASE i > k
    <3>1. i - 1 \in 1..Len(new) /\ i - 1 >= k /\ (i - 1) + 1 = i
      BY <1>1, <1>3, <2>4
    <3>2. new[i - 1] = queue[(i - 1) + 1]
      BY <1>4, <3>1
    <3> QED BY <2>1, <3>1, <3>2
  <2> QED BY <2>2, <2>3, <2>4
<1> QED BY <1>6, <1>7, <1>8 DEF Holds, new

\* MQ_REMOVE_SAFE
LEMMA Removed ==
  ASSUME NEW T, NEW queue, Holds(queue, T), NEW x
  PROVE  Holds(RemoveFirst(queue, x), T \ {x})
<1>1. /\ queue \in Seq(T) /\ Len(queue) \in Nat
      /\ \A i \in 1..Len(queue) : queue[i] \in T
      /\ \A i, j \in 1..Len(queue) : queue[i] = queue[j] => i = j
      /\ \A y \in T : \E i \in 1..Len(queue) : queue[i] = y
  BY DEF Holds
<1>2. CASE x \notin T
  <2>1. RemoveFirst(queue, x) = queue /\ T \ {x} = T
    BY <1>1, <1>2 DEF RemoveFirst
  <2> QED BY <2>1
<1>3. CASE x \in T
  <2>1. PICK k \in 1..Len(queue) : queue[k] = x
    BY <1>1, <1>3
  <2>2. {i \in 1..Len(queue) : queue[i] = x} = {k}
    BY <1>1, <2>1
  <2>3. Min({k}) = k
    <3>1. {k} \subseteq Nat /\ {k} # {}
      BY <2>1
    <3> QED BY <3>1, MinIsLeast
  <2>4. RemoveFirst(queue, x) = RemoveAt(queue, k)
    BY <2>1, <2>2, <2>3 DEF RemoveFirst, SelectInSeq
  <2>5. k \in Nat /\ k >= 1 /\ k <= Len(queue)
    BY <1>1, <2>1
  <2> QED BY <2>1, <2>4, <2>5, RemovedAt
<1> QED BY <1>2, <1>3
LEMMA AppendTypes ==
  ASSUME NEW S, NEW queue \in Seq(S), NEW x \in S PROVE Append(queue, x) \in Seq(S)
OBVIOUS

LEMMA RemoveTypes ==
  ASSUME NEW S, NEW queue \in Seq(S), NEW x PROVE RemoveFirst(queue, x) \in Seq(S)
<1> DEFINE places == {i \in 1..Len(queue) : queue[i] = x}
<1>1. CASE places = {}
  BY <1>1 DEF RemoveFirst
<1>2. CASE places # {}
  <2>1. places \subseteq Nat
    OBVIOUS
  <2>2. Min(places) \in places
    BY <1>2, <2>1, MinIsLeast
  <2>3. RemoveFirst(queue, x) = RemoveAt(queue, Min(places))
    BY <1>2 DEF RemoveFirst, SelectInSeq
  <2> HIDE DEF places
  <2>4. Min(places) \in 1..Len(queue)
    BY <2>2 DEF places
  <2> QED BY <2>3, <2>4, RemoveFacts
<1> QED BY <1>1, <1>2
----------------------------------------------------------------------------
(* Types.                                                                  *)

DefaultType == [state : States, introduced : AllVersions, invalid : BOOLEAN]
RestrictionType == [state : States, introduced : AllVersions, type : Types,
                    argument : Arguments, invalid : BOOLEAN]

LEMMA VersionTypes == AllVersions \subseteq Version /\ NoVersion \notin AllVersions /\ <<1, 0>> \in AllVersions
<1>1. AllVersions \subseteq ((Nat \ {0}) \X Nat) /\ <<1, 0>> \in AllVersions
  BY MoldAssumption DEF MoldAssumption
<1> QED BY <1>1 DEF Version, NoVersion

LEMMA NewTypes == NewDefault \in DefaultType /\ NewRestriction \in RestrictionType
                  /\ FreedRestriction \in RestrictionType
<1>1. (CHOOSE a \in Arguments : TRUE) \in Arguments
  BY MoldAssumption DEF MoldAssumption
<1> QED BY <1>1, VersionTypes
        DEF NewDefault, NewRestriction, FreedRestriction, DefaultType, RestrictionType, States, Types

LEMMA IntroducedFacts ==
  ASSUME default \in [Defaults -> DefaultType], NEW queue \in Seq(Defaults)
  PROVE  /\ Introduced(queue) \in Seq(Version) /\ Len(Introduced(queue)) = Len(queue)
         /\ \A i \in 1..Len(queue) :
              Introduced(queue)[i] = default[queue[i]].introduced /\ Introduced(queue)[i] \in Version
<1>1. /\ DOMAIN queue = 1..Len(queue) /\ Len(queue) \in Nat
      /\ \A i \in 1..Len(queue) : queue[i] \in Defaults
  OBVIOUS
<1>2. \A i \in 1..Len(queue) : default[queue[i]].introduced \in Version
  BY <1>1, VersionTypes DEF DefaultType
<1>3. Introduced(queue) = [i \in 1..Len(queue) |-> default[queue[i]].introduced]
  BY <1>1 DEF Introduced
<1>4. Introduced(queue) \in Seq(Version) /\ Len(Introduced(queue)) = Len(queue)
  BY <1>1, <1>2, <1>3
<1> QED BY <1>2, <1>3, <1>4

LEMMA EnqueuedFacts ==
  ASSUME TypeOK, NEW d \in Defaults, NEW version \in AllVersions
  PROVE  /\ Position(Introduced(kv_default_queue), version) \in 1..(Len(kv_default_queue) + 1)
         /\ Enqueued(d, version) \in Seq(Defaults)
<1>1. kv_default_queue \in Seq(Defaults) /\ default \in [Defaults -> DefaultType]
  BY DEF TypeOK, DefaultType
<1>2. /\ Introduced(kv_default_queue) \in Seq(Version)
      /\ Len(Introduced(kv_default_queue)) = Len(kv_default_queue)
  BY <1>1, IntroducedFacts
<1>3. version \in Version
  BY VersionTypes
<1>4. Position(Introduced(kv_default_queue), version) \in 1..(Len(Introduced(kv_default_queue)) + 1)
  BY <1>2, <1>3, PositionFacts
<1> QED BY <1>1, <1>2, <1>4, InsertFacts DEF Enqueued

LEMMA UpdateFacts ==
  ASSUME mold.version \in AllVersions, NEW version \in AllVersions
  PROVE  /\ UpdateVersion(version) \in AllVersions
         /\ Compare(mold.version, UpdateVersion(version)) <= 0
         /\ Compare(version, UpdateVersion(version)) <= 0
<1>1. mold.version \in Version /\ version \in Version
  BY VersionTypes
<1>2. /\ Compare(mold.version, version) \in Int
      /\ Compare(mold.version, version) > 0 <=> Compare(version, mold.version) < 0
      /\ Compare(mold.version, version) = 0 <=> mold.version = version
      /\ Compare(mold.version, mold.version) = 0 /\ Compare(version, version) = 0
      /\ Compare(version, mold.version) \in Int
      /\ Compare(version, mold.version) > 0 <=> Compare(mold.version, version) < 0
  BY <1>1, CompareFacts
<1> QED BY <1>2 DEF UpdateVersion

\* The validation of a keyval changes nothing but marks.
LEMMA MarkedDefaults ==
  ASSUME default \in [Defaults -> DefaultType], NEW queue, NEW first,
         NEW new, new = Marked(default, queue, first)
  PROVE  /\ new \in [Defaults -> DefaultType]
         /\ \A d \in Defaults :
              new[d].state = default[d].state /\ new[d].introduced = default[d].introduced
<1>1. DOMAIN default = Defaults
  OBVIOUS
<1>2. ASSUME NEW d \in Defaults
      PROVE  /\ new[d] \in DefaultType
             /\ new[d].state = default[d].state /\ new[d].introduced = default[d].introduced
  <2>1. PICK mark \in BOOLEAN : mark = (first \in DOMAIN queue /\ queue[first] = d)
    OBVIOUS
  <2>2. new[d] = default[d] \/ new[d] = [default[d] EXCEPT !.invalid = mark]
    BY <1>1, <2>1 DEF Marked
  <2>3. default[d] \in DefaultType
    OBVIOUS
  <2> QED BY <2>2, <2>3 DEF DefaultType
<1>3. new = [d \in Defaults |-> new[d]]
  BY <1>1 DEF Marked
<1> QED BY <1>2, <1>3

LEMMA MarkedRestrictions ==
  ASSUME restriction \in [Restrictions -> RestrictionType], NEW queue, NEW first,
         NEW new, new = Marked(restriction, queue, first)
  PROVE  /\ new \in [Restrictions -> RestrictionType]
         /\ \A r \in Restrictions :
              /\ new[r].state = restriction[r].state /\ new[r].introduced = restriction[r].introduced
              /\ new[r].type = restriction[r].type
<1>1. DOMAIN restriction = Restrictions
  OBVIOUS
<1>2. ASSUME NEW r \in Restrictions
      PROVE  /\ new[r] \in RestrictionType
             /\ new[r].state = restriction[r].state /\ new[r].introduced = restriction[r].introduced
             /\ new[r].type = restriction[r].type
  <2>1. PICK mark \in BOOLEAN : mark = (first \in DOMAIN queue /\ queue[first] = r)
    OBVIOUS
  <2>2. new[r] = restriction[r] \/ new[r] = [restriction[r] EXCEPT !.invalid = mark]
    BY <1>1, <2>1 DEF Marked
  <2>3. restriction[r] \in RestrictionType
    OBVIOUS
  <2> QED BY <2>2, <2>3 DEF RestrictionType
<1>3. new = [r \in Restrictions |-> new[r]]
  BY <1>1 DEF Marked
<1> QED BY <1>2, <1>3

LEMMA MarkFacts ==
  ASSUME TypeOK, MarkChildren
  PROVE  /\ default' \in [Defaults -> DefaultType]
         /\ restriction' \in [Restrictions -> RestrictionType]
         /\ \A d \in Defaults :
              default'[d].state = default[d].state /\ default'[d].introduced = default[d].introduced
         /\ \A r \in Restrictions :
              /\ restriction'[r].state = restriction[r].state
              /\ restriction'[r].introduced = restriction[r].introduced
              /\ restriction'[r].type = restriction[r].type
<1>1. default \in [Defaults -> DefaultType] /\ restriction \in [Restrictions -> RestrictionType]
  BY DEF TypeOK, DefaultType, RestrictionType
<1>2. \E first : default' = Marked(default, kv_default_queue, first)
  BY DEF MarkChildren
<1>3. \E first : \/ restriction' = Marked(restriction, kv_restrictions_queue, first)
                 \/ restriction' = restriction
  BY DEF MarkChildren
<1>4. PICK i : default' = Marked(default, kv_default_queue, i)
  BY <1>2
<1>5. PICK j : \/ restriction' = Marked(restriction, kv_restrictions_queue, j)
               \/ restriction' = restriction
  BY <1>3
<1>6. /\ default' \in [Defaults -> DefaultType]
      /\ \A d \in Defaults :
           default'[d].state = default[d].state /\ default'[d].introduced = default[d].introduced
  BY <1>1, <1>4, MarkedDefaults
<1>7. CASE restriction' = restriction
  BY <1>1, <1>6, <1>7
<1>8. CASE restriction' = Marked(restriction, kv_restrictions_queue, j)
  <2>1. /\ restriction' \in [Restrictions -> RestrictionType]
        /\ \A r \in Restrictions :
             /\ restriction'[r].state = restriction[r].state
             /\ restriction'[r].introduced = restriction[r].introduced
             /\ restriction'[r].type = restriction[r].type
    BY <1>1, <1>8, MarkedRestrictions
  <2> QED BY <1>6, <2>1
<1> QED BY <1>5, <1>7, <1>8

LEMMA TypeInit == Init => TypeOK
<1> SUFFICES ASSUME Init PROVE TypeOK
  OBVIOUS
<1>1. NewDefault \in DefaultType /\ NewRestriction \in RestrictionType /\ <<1, 0>> \in AllVersions
  BY NewTypes, VersionTypes
<1>2. kv_default_queue \in Seq(Defaults) /\ kv_restrictions_queue \in Seq(Restrictions)
  BY DEF Init
<1> HIDE DEF NewDefault
<1> QED BY <1>1, <1>2 DEF Init, TypeOK, DefaultType, RestrictionType, NewKeyval

LEMMA TypeNext == TypeOK /\ [Next]_vars => TypeOK'
<1> SUFFICES ASSUME TypeOK, [Next]_vars PROVE TypeOK'
  OBVIOUS
<1>1. /\ mold \in [state : {"constructing", "finalized"}, version : AllVersions]
      /\ keyval \in [state : {"constructing", "finalized"}, invalid : BOOLEAN,
                     deprecated : Deprecations \cup {NoVersion}]
      /\ default \in [Defaults -> DefaultType]
      /\ restriction \in [Restrictions -> RestrictionType]
      /\ kv_default_queue \in Seq(Defaults) /\ kv_restrictions_queue \in Seq(Restrictions)
      /\ crashed \in BOOLEAN
  BY DEF TypeOK, DefaultType, RestrictionType
<1>2. ASSUME mold' \in [state : {"constructing", "finalized"}, version : AllVersions],
             keyval' \in [state : {"constructing", "finalized"}, invalid : BOOLEAN,
                          deprecated : Deprecations \cup {NoVersion}],
             default' \in [Defaults -> DefaultType],
             restriction' \in [Restrictions -> RestrictionType],
             kv_default_queue' \in Seq(Defaults), kv_restrictions_queue' \in Seq(Restrictions),
             crashed' \in BOOLEAN
      PROVE  TypeOK'
  BY <1>2 DEF TypeOK, DefaultType, RestrictionType
<1>3. \A v \in AllVersions : UpdateVersion(v) \in AllVersions
  BY <1>1, UpdateFacts
<1>4. ASSUME NEW d \in Defaults, NEW v \in AllVersions, BeginDefault(d, v) PROVE TypeOK'
  <2>1. [default[d] EXCEPT !.state = "constructing", !.introduced = v] \in DefaultType
    <3>1. default[d] \in DefaultType
      BY <1>1
    <3> QED BY <3>1 DEF DefaultType, States
  <2>2. default' = [default EXCEPT ![d] = [default[d] EXCEPT !.state = "constructing", !.introduced = v]]
    BY <1>4 DEF BeginDefault
  <2>3. UNCHANGED <<mold, keyval, restriction, kv_default_queue, kv_restrictions_queue, crashed>>
    BY <1>4 DEF BeginDefault
  <2>4. default' \in [Defaults -> DefaultType]
    BY <1>1, <2>1, <2>2
  <2> QED BY <1>1, <1>2, <2>3, <2>4
<1>5. ASSUME NEW d \in Defaults, NEW v \in AllVersions, AddDefault(d, v) PROVE TypeOK'
  <2>1. PICK state \in {"freed", "finalized"}, invalid \in BOOLEAN :
          default' = [default EXCEPT ![d] = [state |-> state, introduced |-> v, invalid |-> invalid]]
    BY <1>5 DEF AddDefault
  <2>2. kv_default_queue' = Enqueued(d, v)
        /\ UNCHANGED <<keyval, restriction, kv_restrictions_queue, crashed>>
    BY <1>5 DEF AddDefault
  <2>3. mold' = mold \/ mold' = [mold EXCEPT !.version = UpdateVersion(v)]
    BY <1>1, <1>5 DEF AddDefault
  <2>4. [state |-> state, introduced |-> v, invalid |-> invalid] \in DefaultType
    BY <2>1 DEF DefaultType, States
  <2>5. default' \in [Defaults -> DefaultType]
    BY <1>1, <2>1, <2>4
  <2>6. mold' \in [state : {"constructing", "finalized"}, version : AllVersions]
    BY <1>1, <1>3, <2>3
  <2>7. kv_default_queue' \in Seq(Defaults)
    BY <2>2, EnqueuedFacts
  <2> QED BY <1>1, <1>2, <2>2, <2>5, <2>6, <2>7
<1>6. ASSUME NEW d \in Defaults, FinalizeDefault(d) PROVE TypeOK'
  <2> DEFINE v == default[d].introduced
  <2>1. v \in AllVersions /\ default[d] \in DefaultType
    BY <1>1 DEF DefaultType
  <2>2. PICK state \in {"constructing", "finalized"}, invalid \in BOOLEAN :
          default' = [default EXCEPT ![d] = [@ EXCEPT !.state = state, !.invalid = invalid]]
    <3>1. default[d].state = "constructing"
      BY <1>6 DEF FinalizeDefault
    <3> QED BY <1>1, <1>6, <3>1 DEF FinalizeDefault
  <2>3. kv_default_queue' = Enqueued(d, v)
        /\ UNCHANGED <<keyval, restriction, kv_restrictions_queue, crashed>>
    BY <1>6 DEF FinalizeDefault
  <2>4. mold' = mold \/ mold' = [mold EXCEPT !.version = UpdateVersion(v)]
    BY <1>1, <1>6 DEF FinalizeDefault
  <2> HIDE DEF v
  <2>5. [default[d] EXCEPT !.state = state, !.invalid = invalid] \in DefaultType
    BY <2>1, <2>2 DEF DefaultType, States
  <2>6. default' \in [Defaults -> DefaultType]
    BY <1>1, <2>2, <2>5
  <2>7. mold' \in [state : {"constructing", "finalized"}, version : AllVersions]
    BY <1>1, <1>3, <2>1, <2>4
  <2>8. kv_default_queue' \in Seq(Defaults)
    BY <2>1, <2>3, EnqueuedFacts
  <2> QED BY <1>1, <1>2, <2>3, <2>6, <2>7, <2>8
<1>7. ASSUME NEW d \in Defaults, DestroyDefault(d) PROVE TypeOK'
  <2>1. [NewDefault EXCEPT !.state = "freed"] \in DefaultType
    BY NewTypes DEF NewDefault, DefaultType, States
  <2>2. default' = [default EXCEPT ![d] = [NewDefault EXCEPT !.state = "freed"]]
        /\ UNCHANGED <<mold, keyval, restriction, kv_default_queue, kv_restrictions_queue, crashed>>
    BY <1>7 DEF DestroyDefault
  <2>3. default' \in [Defaults -> DefaultType]
    BY <1>1, <2>1, <2>2
  <2> QED BY <1>1, <1>2, <2>2, <2>3
<1>8. ASSUME NEW r \in Restrictions, NEW t \in Types, NEW a \in Arguments, NEW v \in AllVersions,
             BeginRestriction(r, t, a, v)
      PROVE  TypeOK'
  <2> DEFINE new == [state |-> "constructing", introduced |-> v, type |-> t,
                     argument |-> a, invalid |-> FALSE]
  <2>1. new \in RestrictionType
    BY DEF RestrictionType, States
  <2>2. restriction' = [restriction EXCEPT ![r] = new]
        /\ UNCHANGED <<mold, keyval, default, kv_default_queue, kv_restrictions_queue, crashed>>
    BY <1>8 DEF BeginRestriction
  <2> HIDE DEF new
  <2>3. restriction' \in [Restrictions -> RestrictionType]
    BY <1>1, <2>1, <2>2
  <2> QED BY <1>1, <1>2, <2>2, <2>3
<1>9. ASSUME NEW r \in Restrictions, NEW asAdd \in BOOLEAN, FinalizeRestriction(r, asAdd)
      PROVE  TypeOK'
  <2>1. restriction[r] \in RestrictionType /\ FreedRestriction \in RestrictionType
    BY <1>1, NewTypes
  <2> DEFINE verdict == Verdict(RestrictionWrong(r), TRUE, keyval)
             dropped == verdict # "OK" /\ asAdd
             stored == verdict \in {"OK", "INVALID_CONTEXT"} /\ ~dropped
             new == IF dropped THEN FreedRestriction
                    ELSE [restriction[r] EXCEPT !.state = IF stored THEN "finalized" ELSE "constructing",
                                                !.invalid = verdict # "OK"]
  <2>2. restriction' = [restriction EXCEPT ![r] = new]
    BY <1>9 DEF FinalizeRestriction
  <2>3. new \in RestrictionType
    <3> HIDE DEF dropped, stored, verdict
    <3> QED BY <2>1 DEF RestrictionType, States
  <2> HIDE DEF new
  <2>4. restriction' \in [Restrictions -> RestrictionType]
    BY <1>1, <2>2, <2>3
  <2>5. kv_restrictions_queue' \in {kv_restrictions_queue, Append(kv_restrictions_queue, r)}
    BY <1>9 DEF FinalizeRestriction
  <2>6. kv_restrictions_queue' \in Seq(Restrictions)
    <3>1. kv_restrictions_queue \in Seq(Restrictions)
      BY <1>1
    <3>2. Append(kv_restrictions_queue, r) \in Seq(Restrictions)
      BY <3>1, AppendTypes
    <3> QED BY <2>5, <3>1, <3>2
  <2>7. mold' = mold \/ mold' = [mold EXCEPT !.version = UpdateVersion(restriction[r].introduced)]
    BY <1>1, <1>9 DEF FinalizeRestriction
  <2>8. restriction[r].introduced \in AllVersions
    BY <2>1 DEF RestrictionType
  <2>9. mold' \in [state : {"constructing", "finalized"}, version : AllVersions]
    BY <1>1, <1>3, <2>7, <2>8
  <2>10. crashed' \in BOOLEAN /\ UNCHANGED <<keyval, default, kv_default_queue>>
    BY <1>9 DEF FinalizeRestriction
  <2> QED BY <1>1, <1>2, <2>4, <2>6, <2>9, <2>10
<1>10. ASSUME NEW r \in Restrictions, DestroyRestriction(r) PROVE TypeOK'
  <2>1. /\ restriction' = [restriction EXCEPT ![r] = FreedRestriction]
        /\ kv_restrictions_queue' = RemoveFirst(kv_restrictions_queue, r)
        /\ UNCHANGED <<mold, keyval, default, kv_default_queue, crashed>>
    BY <1>10 DEF DestroyRestriction
  <2>2. restriction' \in [Restrictions -> RestrictionType]
    BY <1>1, <2>1, NewTypes
  <2>3. kv_restrictions_queue' \in Seq(Restrictions)
    BY <1>1, <2>1, RemoveTypes
  <2> QED BY <1>1, <1>2, <2>1, <2>2, <2>3
<1>11. CASE FinalizeKeyval
  <2>1. /\ default' \in [Defaults -> DefaultType] /\ restriction' \in [Restrictions -> RestrictionType]
    BY <1>11, MarkFacts DEF FinalizeKeyval
  <2>2. PICK state \in {"constructing", "finalized"}, invalid \in BOOLEAN :
          keyval' = [keyval EXCEPT !.state = state, !.invalid = invalid]
    BY <1>1, <1>11 DEF FinalizeKeyval
  <2>3. mold' = mold \/ (keyval.deprecated # NoVersion
                         /\ mold' = [mold EXCEPT !.version = UpdateVersion(keyval.deprecated)])
    BY <1>1, <1>11 DEF FinalizeKeyval
  <2>4. keyval.deprecated # NoVersion => keyval.deprecated \in AllVersions
    BY <1>1, MoldAssumption DEF MoldAssumption
  <2>5. mold' \in [state : {"constructing", "finalized"}, version : AllVersions]
    BY <1>1, <1>3, <2>3, <2>4
  <2>6. crashed' \in BOOLEAN /\ UNCHANGED <<kv_default_queue, kv_restrictions_queue>>
    BY <1>11 DEF FinalizeKeyval
  <2> QED BY <1>1, <1>2, <2>1, <2>2, <2>5, <2>6
<1>12. ASSUME NEW v \in Deprecations, Deprecate(v) PROVE TypeOK'
  <2>1. keyval' = [keyval EXCEPT !.deprecated = v]
        /\ UNCHANGED <<mold, default, restriction, kv_default_queue, kv_restrictions_queue, crashed>>
    BY <1>12 DEF Deprecate
  <2> QED BY <1>1, <1>2, <2>1
<1>13. CASE Restart
  <2>1. /\ default' = [d \in Defaults |-> NewDefault]
        /\ restriction' = [r \in Restrictions |-> NewRestriction]
        /\ keyval' = NewKeyval /\ kv_default_queue' = <<>> /\ kv_restrictions_queue' = <<>>
        /\ UNCHANGED <<mold, crashed>>
    BY <1>13 DEF Restart
  <2>2. NewDefault \in DefaultType /\ NewRestriction \in RestrictionType
    BY NewTypes
  <2>3. default' \in [Defaults -> DefaultType] /\ restriction' \in [Restrictions -> RestrictionType]
    BY <2>1, <2>2
  <2>4. kv_default_queue' \in Seq(Defaults) /\ kv_restrictions_queue' \in Seq(Restrictions)
    BY <2>1
  <2> QED BY <1>1, <1>2, <2>1, <2>3, <2>4 DEF NewKeyval
<1>14. CASE FinalizeMold
  <2>1. mold' = [mold EXCEPT !.state = "finalized"]
        /\ UNCHANGED <<kv_default_queue, kv_restrictions_queue>>
    BY <1>14 DEF FinalizeMold
  <2>2. mold' \in [state : {"constructing", "finalized"}, version : AllVersions]
    BY <1>1, <2>1
  <2>3. CASE keyval.state = "finalized"
    <3>1. /\ default' \in [Defaults -> DefaultType]
          /\ restriction' \in [Restrictions -> RestrictionType]
      BY <1>14, <2>3, MarkFacts DEF FinalizeMold
    <3>2. PICK invalid \in BOOLEAN : keyval' = [keyval EXCEPT !.invalid = invalid]
      BY <1>14, <2>3 DEF FinalizeMold
    <3>3. crashed' \in BOOLEAN
      BY <1>14, <2>3 DEF FinalizeMold
    <3> QED BY <1>1, <1>2, <2>1, <2>2, <3>1, <3>2, <3>3
  <2>4. CASE keyval.state # "finalized"
    <3>1. UNCHANGED <<keyval, default, restriction, crashed>>
      BY <1>14, <2>4 DEF FinalizeMold
    <3> QED BY <1>1, <1>2, <2>1, <2>2, <3>1
  <2> QED BY <2>3, <2>4
<1>15. CASE UNCHANGED vars
  BY <1>1, <1>2, <1>15 DEF vars
<1> QED BY <1>4, <1>5, <1>6, <1>7, <1>8, <1>9, <1>10, <1>11, <1>12, <1>13, <1>14, <1>15 DEF Next
----------------------------------------------------------------------------
(* A version among those of a queue.                                       *)
LEMMA WrongFacts ==
  ASSUME NEW versions \in Seq(Version), NEW p \in 1..Len(versions),
         NEW version, versions[p] = version
  PROVE  /\ DefaultWrong(versions, version) \in {"OK", "CONFLICTING_SEMVER"}
         /\ DefaultWrong(versions, version) = "OK" <=>
              \A i \in 1..Len(versions) : versions[i] = version => i = p
<1> DEFINE same == {i \in DOMAIN versions : versions[i] = version}
<1>1. DOMAIN versions = 1..Len(versions) /\ Len(versions) \in Nat
  BY ListFacts
<1>2. IsFiniteSet(same)
  <2>1. IsFiniteSet(1..Len(versions))
    <3>1. 1 \in Int /\ Len(versions) \in Int
      BY <1>1
    <3> QED BY <3>1, FS_Interval
  <2>2. same \subseteq 1..Len(versions)
    BY <1>1
  <2> HIDE DEF same
  <2> QED BY <2>1, <2>2, FS_Subset
<1>3. p \in same
  BY <1>1
<1>4. Cardinality(same) = 1 <=> \E x : same = {x}
  <2> HIDE DEF same
  <2> QED BY <1>2, FS_Singleton
<1>5. (\E x : same = {x}) <=> \A i \in 1..Len(versions) : versions[i] = version => i = p
  <2>1. ASSUME NEW x, same = {x}, NEW i \in 1..Len(versions), versions[i] = version PROVE i = p
    <3>1. i \in same
      BY <1>1, <2>1
    <3> HIDE DEF same
    <3> QED BY <1>3, <2>1, <3>1
  <2>2. ASSUME \A i \in 1..Len(versions) : versions[i] = version => i = p PROVE same = {p}
    BY <1>1, <1>3, <2>2
  <2> QED BY <2>1, <2>2
<1> HIDE DEF same
<1> QED BY <1>4, <1>5 DEF DefaultWrong, same

LEMMA WrongInQueue ==
  ASSUME default \in [Defaults -> DefaultType],
         NEW T, T \subseteq Defaults, NEW queue, Holds(queue, T), NEW d \in T
  PROVE  /\ DefaultWrong(Introduced(queue), default[d].introduced) \in {"OK", "CONFLICTING_SEMVER"}
         /\ DefaultWrong(Introduced(queue), default[d].introduced) = "OK" <=>
              \A e \in T : default[e].introduced = default[d].introduced => e = d
<1>1. /\ queue \in Seq(T)
      /\ \A x \in T : \E i \in 1..Len(queue) : queue[i] = x
      /\ \A i, j \in 1..Len(queue) : queue[i] = queue[j] => i = j
  BY DEF Holds
<1>2. queue \in Seq(Defaults) /\ \A i \in 1..Len(queue) : queue[i] \in T
  BY <1>1
<1>3. /\ Introduced(queue) \in Seq(Version) /\ Len(Introduced(queue)) = Len(queue)
      /\ \A i \in 1..Len(queue) : Introduced(queue)[i] = default[queue[i]].introduced
  BY <1>2, IntroducedFacts
<1>4. PICK p \in 1..Len(queue) : queue[p] = d
  BY <1>1
<1> DEFINE versions == Introduced(queue)
           version == default[d].introduced
<1>5. versions[p] = version
  BY <1>3, <1>4
<1>6. /\ DefaultWrong(versions, version) \in {"OK", "CONFLICTING_SEMVER"}
      /\ DefaultWrong(versions, version) = "OK" <=>
           \A i \in 1..Len(versions) : versions[i] = version => i = p
  <2> HIDE DEF versions, version
  <2> QED BY <1>3, <1>4, <1>5, WrongFacts DEF versions
<1>7. (\A i \in 1..Len(versions) : versions[i] = version => i = p)
        <=> (\A e \in T : default[e].introduced = version => e = d)
  <2>1. ASSUME \A i \in 1..Len(versions) : versions[i] = version => i = p,
               NEW e \in T, default[e].introduced = version
        PROVE  e = d
    <3>1. PICK i \in 1..Len(queue) : queue[i] = e
      BY <1>1
    <3>2. i = p
      BY <1>3, <2>1, <3>1
    <3> QED BY <1>4, <3>1, <3>2
  <2>2. ASSUME \A e \in T : default[e].introduced = version => e = d,
               NEW i \in 1..Len(versions), versions[i] = version
        PROVE  i = p
    <3>1. i \in 1..Len(queue) /\ queue[i] \in T /\ default[queue[i]].introduced = version
      BY <1>2, <1>3, <2>2
    <3>2. queue[i] = d
      BY <2>2, <3>1
    <3> QED BY <1>1, <1>4, <3>1, <3>2
  <2> QED BY <2>1, <2>2
<1> QED BY <1>6, <1>7

LEMMA WrongWhenAdded ==
  ASSUME default \in [Defaults -> DefaultType],
         NEW T, T \subseteq Defaults, NEW queue, Holds(queue, T), NEW v \in AllVersions
  PROVE  /\ DefaultWrong(Append(Introduced(queue), v), v) \in {"OK", "CONFLICTING_SEMVER"}
         /\ DefaultWrong(Append(Introduced(queue), v), v) = "OK" <=>
              \A e \in T : default[e].introduced # v
<1>1. /\ queue \in Seq(T)
      /\ \A x \in T : \E i \in 1..Len(queue) : queue[i] = x
  BY DEF Holds
<1>2. queue \in Seq(Defaults) /\ \A i \in 1..Len(queue) : queue[i] \in T
  BY <1>1
<1>3. /\ Introduced(queue) \in Seq(Version) /\ Len(Introduced(queue)) = Len(queue)
      /\ \A i \in 1..Len(queue) : Introduced(queue)[i] = default[queue[i]].introduced
  BY <1>2, IntroducedFacts
<1> DEFINE old == Introduced(queue)
           versions == Append(old, v)
           p == Len(old) + 1
<1>4. /\ versions \in Seq(Version) /\ Len(versions) = p /\ versions[p] = v
      /\ p \in Nat /\ p >= 1 /\ Len(old) = p - 1
      /\ \A i \in 1..Len(old) : versions[i] = old[i]
  <2> HIDE DEF old
  <2>1. old \in Seq(Version) /\ v \in Version
    BY <1>3, VersionTypes DEF old
  <2> QED BY <2>1
<1>5. /\ DefaultWrong(versions, v) \in {"OK", "CONFLICTING_SEMVER"}
      /\ DefaultWrong(versions, v) = "OK" <=>
           \A i \in 1..Len(versions) : versions[i] = v => i = p
  <2> HIDE DEF versions, p
  <2>1. p \in 1..Len(versions)
    BY <1>4
  <2> QED BY <1>4, <2>1, WrongFacts
<1>6. (\A i \in 1..Len(versions) : versions[i] = v => i = p)
        <=> (\A e \in T : default[e].introduced # v)
  <2> HIDE DEF versions, p
  <2>1. ASSUME \A i \in 1..Len(versions) : versions[i] = v => i = p,
               NEW e \in T, default[e].introduced = v
        PROVE  FALSE
    <3>1. PICK i \in 1..Len(queue) : queue[i] = e
      BY <1>1
    <3>2. i \in 1..Len(old) /\ versions[i] = v
      BY <1>3, <1>4, <2>1, <3>1
    <3>3. i \in 1..Len(versions) /\ i # p
      BY <1>4, <3>2
    <3> QED BY <2>1, <3>2, <3>3
  <2>2. ASSUME \A e \in T : default[e].introduced # v,
               NEW i \in 1..Len(versions), versions[i] = v, i # p
        PROVE  FALSE
    <3>1. i \in 1..Len(old)
      BY <1>4, <2>2
    <3>2. i \in 1..Len(queue) /\ default[queue[i]].introduced = v
      BY <1>3, <1>4, <2>2, <3>1
    <3> QED BY <1>2, <2>2, <3>2
  <2> QED BY <2>1, <2>2
<1> QED BY <1>5, <1>6----------------------------------------------------------------------------
(* The invariant, piece by piece.                                          *)

\* The version of the mold only rises.
LEMMA Rises ==
  ASSUME TypeOK, NEW m \in AllVersions, Compare(mold.version, m) <= 0, NEW v \in AllVersions,
         Compare(v, mold.version) <= 0
  PROVE  Compare(v, m) <= 0
<1>1. mold.version \in Version /\ m \in Version /\ v \in Version
  BY VersionTypes DEF TypeOK
<1> QED BY <1>1, CompareFacts

\* A step that leaves the defaults of the queue what they are.
LEMMA SameDefaults ==
  ASSUME Holds(kv_default_queue, FinalDefaults), InOrder,
         kv_default_queue' = kv_default_queue,
         \A d \in Defaults :
           /\ default'[d].state = "finalized" <=> default[d].state = "finalized"
           /\ default[d].state = "finalized" =>
                default'[d].introduced = default[d].introduced
  PROVE  Holds(kv_default_queue, FinalDefaults)' /\ InOrder' /\ FinalDefaults' = FinalDefaults
<1>1. FinalDefaults' = FinalDefaults
  BY DEF FinalDefaults
<1>2. Holds(kv_default_queue', FinalDefaults')
  BY <1>1
<1>3. InOrder'
  <2> SUFFICES ASSUME NEW i \in 1..Len(kv_default_queue), NEW j \in 1..Len(kv_default_queue),
                      i < j
               PROVE  Compare(default'[kv_default_queue[i]].introduced,
                              default'[kv_default_queue[j]].introduced) <= 0
    BY DEF InOrder
  <2>1. kv_default_queue[i] \in FinalDefaults /\ kv_default_queue[j] \in FinalDefaults
    BY DEF Holds
  <2>2. /\ default'[kv_default_queue[i]].introduced = default[kv_default_queue[i]].introduced
        /\ default'[kv_default_queue[j]].introduced = default[kv_default_queue[j]].introduced
    BY <2>1 DEF FinalDefaults
  <2> QED BY <2>2 DEF InOrder
<1> QED BY <1>1, <1>2, <1>3

\* A default of the version comes to a place of the queue, which is new then.
EntersAt(queue, p, version, new) ==
  /\ Len(new) = Len(queue) + 1
  /\ \A i \in 1..(Len(queue) + 1) :
       \/ /\ i < p /\ i \in 1..Len(queue) /\ new[i] = queue[i]
          /\ default'[new[i]].introduced = Introduced(queue)[i]
       \/ i = p /\ default'[new[i]].introduced = version
       \/ /\ i > p /\ i - 1 \in 1..Len(queue) /\ i - 1 >= p
          /\ default'[new[i]].introduced = Introduced(queue)[i - 1]

\* MQ_ENQUEUE_CONDITIONAL keeps the queue in order.
LEMMA EnqueuedInOrder ==
  ASSUME TypeOK, Holds(kv_default_queue, FinalDefaults), InOrder,
         NEW d \in Defaults, default[d].state # "finalized", NEW v \in AllVersions,
         kv_default_queue' = Enqueued(d, v),
         default' \in [Defaults -> DefaultType],
         default'[d].state = "finalized", default'[d].introduced = v,
         \A e \in Defaults \ {d} : default'[e] = default[e]
  PROVE  /\ FinalDefaults' = FinalDefaults \cup {d}
         /\ Holds(kv_default_queue, FinalDefaults)' /\ InOrder'
         /\ \E p \in 1..(Len(kv_default_queue) + 1) :
              EntersAt(kv_default_queue, p, v, kv_default_queue')
<1>1. d \notin FinalDefaults /\ FinalDefaults' = FinalDefaults \cup {d}
  BY DEF FinalDefaults
<1> DEFINE queue == kv_default_queue
           versions == Introduced(queue)
           p == Position(versions, v)
           n == Len(queue)
<1>2. queue \in Seq(Defaults) /\ default \in [Defaults -> DefaultType]
  BY DEF TypeOK, DefaultType
<1>3. /\ versions \in Seq(Version) /\ Len(versions) = n
      /\ \A i \in 1..n : versions[i] = default[queue[i]].introduced /\ versions[i] \in Version
  <2> HIDE DEF versions, queue
  <2> QED BY <1>2, IntroducedFacts DEF versions, queue
<1>4. n \in Nat
  BY <1>2
<1>5. v \in Version
  BY VersionTypes
<1>6. Ascending(versions)
  <2>1. DOMAIN versions = 1..n
    BY <1>3, ListFacts
  <2> HIDE DEF versions
  <2> QED BY <1>3, <2>1 DEF InOrder, Ascending
<1>7. /\ p \in 1..(n + 1)
      /\ \A i \in 1..n : /\ i < p => Compare(versions[i], v) <= 0
                         /\ p <= i => Compare(v, versions[i]) <= 0
  <2> HIDE DEF versions
  <2> QED BY <1>3, <1>5, <1>6, PositionFacts
<1>8. kv_default_queue' = InsertAt(queue, p, d)
  BY DEF Enqueued
<1> DEFINE new == InsertAt(queue, p, d)
<1>9. Holds(new, FinalDefaults \cup {d})
  <2> HIDE DEF p
  <2> QED BY <1>1, <1>7, Inserted
<1>10. /\ Len(new) = n + 1
       /\ \A i \in 1..(n + 1) :
            new[i] = IF i < p THEN queue[i] ELSE IF i = p THEN d ELSE queue[i - 1]
  <2> HIDE DEF p
  <2> QED BY <1>2, <1>7, InsertFacts
<1>11. \A i \in 1..n : default'[queue[i]].introduced = versions[i]
  <2> SUFFICES ASSUME NEW i \in 1..n PROVE default'[queue[i]].introduced = versions[i]
    OBVIOUS
  <2>1. queue[i] \in Defaults \ {d}
    BY <1>1 DEF Holds, FinalDefaults
  <2> HIDE DEF versions
  <2> QED BY <1>3, <2>1
<1> HIDE DEF new, p, versions, n
<1>12. \A i \in 1..(n + 1) :
         \/ i < p /\ i \in 1..n /\ new[i] = queue[i] /\ default'[new[i]].introduced = versions[i]
         \/ i = p /\ default'[new[i]].introduced = v
         \/ i > p /\ i - 1 \in 1..n /\ i - 1 >= p /\ default'[new[i]].introduced = versions[i - 1]
  <2> SUFFICES ASSUME NEW i \in 1..(n + 1)
               PROVE
         \/ i < p /\ i \in 1..n /\ new[i] = queue[i] /\ default'[new[i]].introduced = versions[i]
         \/ i = p /\ default'[new[i]].introduced = v
         \/ i > p /\ i - 1 \in 1..n /\ i - 1 >= p /\ default'[new[i]].introduced = versions[i - 1]
    OBVIOUS
  <2>1. CASE i < p
    <3>1. i \in 1..n
      BY <1>4, <1>7, <2>1
    <3> QED BY <1>10, <1>11, <2>1, <3>1
  <2>2. CASE i = p
    BY <1>7, <1>10, <2>2
  <2>3. CASE i > p
    <3>1. i - 1 \in 1..n /\ i - 1 >= p
      BY <1>4, <1>7, <2>3
    <3>2. new[i] = queue[i - 1]
      BY <1>4, <1>7, <1>10, <2>3
    <3> QED BY <1>11, <2>3, <3>1, <3>2
  <2> QED BY <1>4, <1>7, <2>1, <2>2, <2>3
<1>13. ASSUME NEW i \in 1..(n + 1), NEW j \in 1..(n + 1), i < j
       PROVE  Compare(default'[new[i]].introduced, default'[new[j]].introduced) <= 0
  <2>1. DOMAIN versions = 1..n
    BY <1>3, ListFacts
  <2>2. \A a, b \in 1..n : a < b => Compare(versions[a], versions[b]) <= 0
    BY <1>6, <2>1 DEF Ascending
  <2>3. CASE i < p /\ i \in 1..n /\ default'[new[i]].introduced = versions[i]
    <3>1. CASE j < p /\ j \in 1..n /\ default'[new[j]].introduced = versions[j]
      BY <1>13, <2>2, <2>3, <3>1
    <3>2. CASE j = p /\ default'[new[j]].introduced = v
      BY <1>7, <2>3, <3>2
    <3>3. CASE j > p /\ j - 1 \in 1..n /\ j - 1 >= p /\ default'[new[j]].introduced = versions[j - 1]
      <4>1. i < j - 1
        BY <1>4, <1>7, <2>3, <3>3
      <4> QED BY <2>2, <2>3, <3>3, <4>1
    <3> QED BY <1>12, <3>1, <3>2, <3>3
  <2>4. CASE i = p /\ default'[new[i]].introduced = v
    <3>1. j > p
      BY <1>13, <2>4
    <3>2. j - 1 \in 1..n /\ j - 1 >= p /\ default'[new[j]].introduced = versions[j - 1]
      BY <1>4, <1>7, <1>12, <3>1
    <3> QED BY <1>7, <2>4, <3>2
  <2>5. CASE i > p /\ i - 1 \in 1..n /\ i - 1 >= p /\ default'[new[i]].introduced = versions[i - 1]
    <3>1. j > p
      BY <1>4, <1>7, <1>13, <2>5
    <3>2. j - 1 \in 1..n /\ default'[new[j]].introduced = versions[j - 1]
      BY <1>4, <1>7, <1>12, <3>1
    <3>3. i - 1 < j - 1
      BY <1>4, <1>13
    <3> QED BY <2>2, <2>5, <3>2, <3>3
  <2> QED BY <1>12, <2>3, <2>4, <2>5
<1>14. kv_default_queue' = new
  BY <1>8 DEF new, p, versions
<1>15. InOrder'
  BY <1>10, <1>13, <1>14 DEF InOrder
<1>16. Holds(kv_default_queue', FinalDefaults')
  BY <1>1, <1>9, <1>14
<1>17. EntersAt(kv_default_queue, p, v, kv_default_queue')
  BY <1>10, <1>12, <1>14 DEF EntersAt, n, versions
<1> QED BY <1>1, <1>7, <1>15, <1>16, <1>17 DEF n

\* A default enters the queue; it is alone when no other has its version.
LEMMA DefaultEnters ==
  ASSUME Inv, TypeOK', NEW d \in Defaults, default[d].state # "finalized", NEW v \in AllVersions,
         kv_default_queue' = Enqueued(d, v),
         default'[d].state = "finalized", default'[d].introduced = v,
         \A e \in Defaults \ {d} : default'[e] = default[e],
         \/ /\ \A e \in FinalDefaults : default[e].introduced # v
            /\ mold'.version = UpdateVersion(v)
         \/ /\ \E e \in FinalDefaults : default[e].introduced = v
            /\ mold' = mold /\ keyval.state # "finalized",
         UNCHANGED <<keyval, restriction, kv_restrictions_queue, crashed>>
  PROVE  Inv'
<1>1. default' \in [Defaults -> DefaultType] /\ mold.version \in AllVersions
      /\ mold'.version \in AllVersions
      /\ (\A e \in Defaults : default[e].introduced \in AllVersions)
      /\ (\A r \in Restrictions : restriction[r].introduced \in AllVersions)
  BY DEF Inv, TypeOK, DefaultType
<1>2. /\ FinalDefaults' = FinalDefaults \cup {d}
      /\ Holds(kv_default_queue, FinalDefaults)' /\ InOrder'
  BY <1>1, EnqueuedInOrder DEF Inv, QueuesHold
<1>3. FinalRestrictions' = FinalRestrictions
  BY DEF FinalRestrictions
<1>4. QueuesHold'
  <2>1. Holds(kv_restrictions_queue', FinalRestrictions')
    BY <1>3 DEF Inv, QueuesHold
  <2> QED BY <1>2, <2>1 DEF QueuesHold
<1>5. Compare(mold.version, mold'.version) <= 0 /\ Compare(v, mold'.version) <= 0
  <2>1. CASE mold'.version = UpdateVersion(v)
    BY <1>1, <2>1, UpdateFacts
  <2>2. CASE mold' = mold /\ \E e \in FinalDefaults : default[e].introduced = v
    <3>1. mold.version \in Version
      BY <1>1, VersionTypes
    <3>2. Compare(mold.version, mold.version) = 0
      BY <3>1, CompareFacts
    <3>3. Compare(v, mold.version) <= 0
      BY <2>2 DEF Inv, Covers
    <3> QED BY <2>2, <3>2, <3>3
  <2> QED BY <2>1, <2>2
<1>6. Covers'
  <2>1. ASSUME NEW e \in FinalDefaults' PROVE Compare(default'[e].introduced, mold'.version) <= 0
    <3>1. CASE e = d
      BY <1>5, <3>1
    <3>2. CASE e # d
      <4>1. e \in FinalDefaults /\ default'[e] = default[e]
        BY <1>2, <3>2 DEF FinalDefaults
      <4>2. Compare(default[e].introduced, mold.version) <= 0
        BY <4>1 DEF Inv, Covers
      <4>3. default[e].introduced \in AllVersions
        BY <1>1, <4>1 DEF FinalDefaults
      <4> QED BY <1>1, <1>5, <4>1, <4>2, <4>3, Rises DEF Inv
    <3> QED BY <3>1, <3>2
  <2>2. ASSUME NEW r \in FinalRestrictions'
        PROVE  Compare(restriction'[r].introduced, mold'.version) <= 0
    <3>1. r \in FinalRestrictions /\ Compare(restriction[r].introduced, mold.version) <= 0
      BY <1>3 DEF Inv, Covers
    <3>2. restriction[r].introduced \in AllVersions
      BY <1>1, <3>1 DEF FinalRestrictions
    <3> QED BY <1>1, <1>5, <3>1, <3>2, Rises DEF Inv
  <2> QED BY <2>1, <2>2 DEF Covers
<1>7. ValidHasOneOfEach'
  <2> SUFFICES ASSUME keyval.state = "finalized", ~keyval.invalid PROVE OneOfEach'
    BY DEF ValidHasOneOfEach
  <2>1. OneOfEach
    BY DEF Inv, ValidHasOneOfEach
  <2>2. \A e \in FinalDefaults : default[e].introduced # v
    OBVIOUS
  <2>3. ASSUME NEW e \in FinalDefaults', NEW f \in FinalDefaults',
               default'[e].introduced = default'[f].introduced
        PROVE  e = f
    <3>1. \A x \in FinalDefaults' :
            \/ x = d /\ default'[x].introduced = v
            \/ /\ x \in FinalDefaults /\ default'[x].introduced = default[x].introduced
               /\ default[x].introduced # v
      BY <1>2, <2>2 DEF FinalDefaults
    <3> QED BY <2>1, <2>3, <3>1 DEF OneOfEach
  <2>4. FinalDefaults' # {}
    BY <1>2
  <2>5. \A r, q \in FinalRestrictions' :
          /\ restriction'[r].type = restriction'[q].type
          /\ restriction'[r].introduced = restriction'[q].introduced
          => r = q
    BY <1>3, <2>1 DEF OneOfEach
  <2> QED BY <2>3, <2>4, <2>5 DEF OneOfEach
<1>8. Typed'
  BY DEF Inv, Typed
<1> QED BY <1>4, <1>6, <1>7, <1>8 DEF Inv
\* A step that leaves the finalized defaults and restrictions, and what
\* restrictions are typed, what they are; the version of the mold may rise.
LEMMA NothingEnters ==
  ASSUME Inv, TypeOK',
         kv_default_queue' = kv_default_queue, kv_restrictions_queue' = kv_restrictions_queue,
         \A d \in Defaults :
           /\ default'[d].state = "finalized" <=> default[d].state = "finalized"
           /\ default[d].state = "finalized" =>
                default'[d].introduced = default[d].introduced,
         \A r \in Restrictions :
           /\ restriction'[r].state = "finalized" <=> restriction[r].state = "finalized"
           /\ restriction[r].state = "finalized" =>
                /\ restriction'[r].introduced = restriction[r].introduced
                /\ restriction'[r].type = restriction[r].type
           /\ restriction'[r].state = "constructing" => restriction'[r].type # "UNKNOWN",
         Compare(mold.version, mold'.version) <= 0,
         keyval'.state = "finalized" /\ ~keyval'.invalid => OneOfEach,
         ~crashed'
  PROVE  Inv'
<1>1. /\ Holds(kv_default_queue, FinalDefaults)' /\ InOrder' /\ FinalDefaults' = FinalDefaults
  BY SameDefaults DEF Inv, QueuesHold
<1>2. FinalRestrictions' = FinalRestrictions
  BY DEF FinalRestrictions
<1>3. QueuesHold'
  <2>1. Holds(kv_restrictions_queue', FinalRestrictions')
    BY <1>2 DEF Inv, QueuesHold
  <2> QED BY <1>1, <2>1 DEF QueuesHold
<1>4. mold'.version \in AllVersions
      /\ (\A e \in Defaults : default[e].introduced \in AllVersions)
      /\ (\A r \in Restrictions : restriction[r].introduced \in AllVersions)
  BY DEF Inv, TypeOK, DefaultType
<1>5. Covers'
  <2>1. ASSUME NEW e \in FinalDefaults' PROVE Compare(default'[e].introduced, mold'.version) <= 0
    <3>1. e \in FinalDefaults /\ e \in Defaults /\ default'[e].introduced = default[e].introduced
      BY <1>1 DEF FinalDefaults
    <3>2. Compare(default[e].introduced, mold.version) <= 0
      BY <3>1 DEF Inv, Covers
    <3> QED BY <1>4, <3>1, <3>2, Rises DEF Inv
  <2>2. ASSUME NEW r \in FinalRestrictions'
        PROVE  Compare(restriction'[r].introduced, mold'.version) <= 0
    <3>1. r \in FinalRestrictions /\ r \in Restrictions
          /\ restriction'[r].introduced = restriction[r].introduced
      BY <1>2 DEF FinalRestrictions
    <3>2. Compare(restriction[r].introduced, mold.version) <= 0
      BY <3>1 DEF Inv, Covers
    <3> QED BY <1>4, <3>1, <3>2, Rises DEF Inv
  <2> QED BY <2>1, <2>2 DEF Covers
<1>6. ValidHasOneOfEach'
  <2> SUFFICES ASSUME OneOfEach PROVE OneOfEach'
    BY DEF ValidHasOneOfEach
  <2>1. \A d \in FinalDefaults : default'[d].introduced = default[d].introduced
    BY DEF FinalDefaults
  <2>2. \A r \in FinalRestrictions : /\ restriction'[r].introduced = restriction[r].introduced
                                    /\ restriction'[r].type = restriction[r].type
    BY DEF FinalRestrictions
  <2> QED BY <1>1, <1>2, <2>1, <2>2 DEF OneOfEach
<1>7. Typed'
  <2> SUFFICES ASSUME NEW r \in Restrictions, restriction'[r].state = "finalized"
               PROVE  restriction'[r].type # "UNKNOWN"
    BY DEF Typed
  <2> QED BY DEF Inv, Typed
<1> QED BY <1>3, <1>5, <1>6, <1>7 DEF Inv

\* The version of the mold is one, and compares with itself.
LEMMA MoldVersion ==
  ASSUME TypeOK PROVE mold.version \in AllVersions /\ Compare(mold.version, mold.version) <= 0
<1>1. mold.version \in AllVersions
  BY DEF TypeOK
<1>2. mold.version \in Version
  BY <1>1, VersionTypes
<1>3. Compare(mold.version, mold.version) = 0
  BY <1>2, CompareFacts
<1> QED BY <1>1, <1>3

LEMMA DefaultSteps ==
  ASSUME Careful, Inv, TypeOK', NEW d \in Defaults, NEW v \in AllVersions,
         BeginDefault(d, v) \/ AddDefault(d, v) \/ FinalizeDefault(d) \/ DestroyDefault(d)
  PROVE  Inv'
<1>1. /\ default \in [Defaults -> DefaultType]
      /\ keyval.state \in {"constructing", "finalized"}
      /\ mold \in [state : {"constructing", "finalized"}, version : AllVersions]
  BY DEF Inv, TypeOK, DefaultType
<1>2. "duplicate" \notin Client /\ "destroy" \notin Client
  BY DEF Careful
<1>3. Holds(kv_default_queue, FinalDefaults) /\ FinalDefaults \subseteq Defaults
  BY DEF Inv, QueuesHold, FinalDefaults
<1>4. \A r \in Restrictions :
        restriction[r].state \in {"constructing", "finalized"} => restriction[r].type # "UNKNOWN"
  BY DEF Inv, Typed
<1>5. ~crashed /\ (keyval.state = "finalized" /\ ~keyval.invalid => OneOfEach)
  BY DEF Inv, Typed, ValidHasOneOfEach
<1>6. CASE BeginDefault(d, v)
  <2>1. /\ default[d].state = "free"
        /\ default' = [default EXCEPT ![d] =
                        [default[d] EXCEPT !.state = "constructing", !.introduced = v]]
        /\ UNCHANGED <<mold, keyval, restriction, kv_default_queue, kv_restrictions_queue, crashed>>
    BY <1>6 DEF BeginDefault
  <2>2. default'[d].state = "constructing" /\ \A e \in Defaults \ {d} : default'[e] = default[e]
    <3>1. default[d] \in DefaultType
      BY <1>1
    <3> QED BY <1>1, <2>1, <3>1 DEF DefaultType
  <2>3. \A e \in Defaults :
          /\ default'[e].state = "finalized" <=> default[e].state = "finalized"
          /\ default[e].state = "finalized" => default'[e].introduced = default[e].introduced
    BY <2>1, <2>2
  <2> QED BY <1>4, <1>5, <2>1, <2>3, NothingEnters, MoldVersion DEF Inv
<1>7. CASE DestroyDefault(d)
  <2>1. /\ default[d].state = "constructing"
        /\ default' = [default EXCEPT ![d] = [NewDefault EXCEPT !.state = "freed"]]
        /\ UNCHANGED <<mold, keyval, restriction, kv_default_queue, kv_restrictions_queue, crashed>>
    BY <1>2, <1>7 DEF DestroyDefault
  <2>2. default'[d].state = "freed" /\ \A e \in Defaults \ {d} : default'[e] = default[e]
    BY <1>1, <2>1 DEF NewDefault
  <2>3. \A e \in Defaults :
          /\ default'[e].state = "finalized" <=> default[e].state = "finalized"
          /\ default[e].state = "finalized" => default'[e].introduced = default[e].introduced
    BY <2>1, <2>2
  <2> QED BY <1>4, <1>5, <2>1, <2>3, NothingEnters, MoldVersion DEF Inv
<1>8. CASE AddDefault(d, v)
  <2> DEFINE wrong == DefaultWrong(Append(Introduced(kv_default_queue), v), v)
             verdict == Verdict(wrong, TRUE, keyval)
  <2>1. /\ default[d].state = "free"
        /\ verdict # "CONFLICTING_SEMVER"
        /\ kv_default_queue' = Enqueued(d, v)
        /\ default' = [default EXCEPT ![d] =
             [state |-> IF verdict = "CONFLICTING_SEMVER" THEN "freed" ELSE "finalized",
              introduced |-> v, invalid |-> wrong # "OK"]]
        /\ mold' = [mold EXCEPT !.version = IF verdict = "OK" THEN UpdateVersion(v) ELSE mold.version]
        /\ UNCHANGED <<keyval, restriction, kv_restrictions_queue, crashed>>
    BY <1>2, <1>8 DEF AddDefault
  <2>2. wrong \in {"OK", "CONFLICTING_SEMVER"}
        /\ (wrong = "OK" <=> \A e \in FinalDefaults : default[e].introduced # v)
    BY <1>1, <1>3, WrongWhenAdded
  <2>3. verdict = IF wrong = "OK" \/ keyval.state = "finalized" THEN wrong ELSE "INVALID_CONTEXT"
    BY DEF Verdict
  <2> HIDE DEF wrong, verdict
  <2>4. /\ default'[d].state = "finalized" /\ default'[d].introduced = v
        /\ \A e \in Defaults \ {d} : default'[e] = default[e]
    BY <1>1, <2>1
  <2>5. CASE wrong = "OK"
    <3>1. mold'.version = UpdateVersion(v)
      BY <1>1, <2>1, <2>3, <2>5
    <3> QED BY <2>1, <2>2, <2>4, <2>5, <3>1, DefaultEnters
  <2>6. CASE wrong # "OK"
    <3>1. verdict # "OK" /\ keyval.state # "finalized"
      BY <2>1, <2>2, <2>3, <2>6
    <3>2. mold' = mold
      BY <1>1, <2>1, <3>1
    <3> QED BY <2>1, <2>2, <2>4, <2>6, <3>1, <3>2, DefaultEnters
  <2> QED BY <2>5, <2>6
<1>9. CASE FinalizeDefault(d)
  <2> DEFINE w == default[d].introduced
             wrong == DefaultWrong(Introduced(Enqueued(d, w)), w)
             verdict == Verdict(wrong, TRUE, keyval)
  <2>1. /\ default[d].state = "constructing"
        /\ verdict # "CONFLICTING_SEMVER"
        /\ kv_default_queue' = Enqueued(d, w)
        /\ default' = [default EXCEPT ![d].state = IF verdict \in {"OK", "INVALID_CONTEXT"}
                                                     THEN "finalized" ELSE @,
                                      ![d].invalid = verdict # "OK"]
        /\ mold' = [mold EXCEPT !.version = IF verdict = "OK" THEN UpdateVersion(w) ELSE mold.version]
        /\ UNCHANGED <<keyval, restriction, kv_restrictions_queue, crashed>>
    BY <1>2, <1>9 DEF FinalizeDefault
  <2>2. d \notin FinalDefaults /\ w \in AllVersions /\ default[d] \in DefaultType
    BY <1>1, <2>1 DEF FinalDefaults, DefaultType
  <2>3. Holds(Enqueued(d, w), FinalDefaults \cup {d})
    <3> HIDE DEF w
    <3>1. Position(Introduced(kv_default_queue), w) \in 1..(Len(kv_default_queue) + 1)
      BY <2>2, EnqueuedFacts DEF Inv
    <3> QED BY <1>3, <2>2, <3>1, Inserted DEF Enqueued
  <2>4. /\ wrong \in {"OK", "CONFLICTING_SEMVER"}
        /\ wrong = "OK" <=> \A e \in FinalDefaults \cup {d} : default[e].introduced = w => e = d
    <3>1. FinalDefaults \cup {d} \subseteq Defaults
      BY <1>3
    <3> QED BY <1>1, <2>3, <3>1, WrongInQueue
  <2>5. verdict = IF wrong = "OK" \/ keyval.state = "finalized" THEN wrong ELSE "INVALID_CONTEXT"
    BY DEF Verdict
  <2> HIDE DEF wrong, verdict
  <2>6. verdict \in {"OK", "INVALID_CONTEXT"}
    BY <2>1, <2>4, <2>5
  <2>7. /\ default'[d].state = "finalized" /\ default'[d].introduced = w
        /\ \A e \in Defaults \ {d} : default'[e] = default[e]
    BY <1>1, <2>1, <2>2, <2>6 DEF DefaultType
  <2>8. CASE wrong = "OK"
    <3>1. mold'.version = UpdateVersion(w)
      BY <1>1, <2>1, <2>5, <2>8
    <3>2. \A e \in FinalDefaults : default[e].introduced # w
      BY <2>2, <2>4, <2>8
    <3> HIDE DEF w
    <3> QED BY <2>1, <2>2, <2>7, <3>1, <3>2, DefaultEnters
  <2>9. CASE wrong # "OK"
    <3>1. verdict # "OK" /\ keyval.state # "finalized"
      BY <2>1, <2>4, <2>5, <2>9
    <3>2. mold' = mold
      BY <1>1, <2>1, <3>1
    <3>3. \E e \in FinalDefaults : default[e].introduced = w
      BY <2>4, <2>9
    <3> HIDE DEF w
    <3> QED BY <2>1, <2>2, <2>7, <3>1, <3>2, <3>3, DefaultEnters
  <2> QED BY <2>8, <2>9
<1> QED BY <1>6, <1>7, <1>8, <1>9
LEMMA BeginsRestriction ==
  ASSUME Careful, Inv, TypeOK', NEW r \in Restrictions, NEW t \in Types, NEW a \in Arguments,
         NEW v \in AllVersions, BeginRestriction(r, t, a, v)
  PROVE  Inv'
<1> DEFINE new == [state |-> "constructing", introduced |-> v, type |-> t,
                   argument |-> a, invalid |-> FALSE]
<1>1. /\ restriction[r].state = "free" /\ t # "UNKNOWN"
      /\ restriction' = [restriction EXCEPT ![r] = new]
      /\ UNCHANGED <<mold, keyval, default, kv_default_queue, kv_restrictions_queue, crashed>>
  BY DEF BeginRestriction, Careful
<1>2. new.state = "constructing" /\ new.type # "UNKNOWN"
  BY <1>1
<1> HIDE DEF new
<1>3. restriction'[r] = new /\ \A q \in Restrictions \ {r} : restriction'[q] = restriction[q]
  BY <1>1 DEF Inv, TypeOK
<1>4. \A q \in Restrictions :
        /\ restriction'[q].state = "finalized" <=> restriction[q].state = "finalized"
        /\ restriction[q].state = "finalized" =>
             /\ restriction'[q].introduced = restriction[q].introduced
             /\ restriction'[q].type = restriction[q].type
        /\ restriction'[q].state = "constructing" => restriction'[q].type # "UNKNOWN"
  BY <1>1, <1>2, <1>3 DEF Inv, Typed
<1>5. ~crashed /\ (keyval.state = "finalized" /\ ~keyval.invalid => OneOfEach)
  BY DEF Inv, Typed, ValidHasOneOfEach
<1> QED BY <1>1, <1>4, <1>5, NothingEnters, MoldVersion DEF Inv

\* With types, a restriction can only be in conflict with another.
LEMMA RestrictionWrongFacts ==
  ASSUME Inv, NEW r \in Restrictions, restriction[r].state \in {"constructing", "finalized"}
  PROVE  /\ RestrictionWrong(r) \in {"OK", "CONFLICTING_SEMVER"}
         /\ RestrictionWrong(r) = "OK" <=>
              ~ \E q \in FinalRestrictions \ {r} :
                  /\ restriction[q].type = restriction[r].type
                  /\ restriction[q].introduced = restriction[r].introduced
<1>1. restriction[r].type # "UNKNOWN"
  BY DEF Inv, Typed
<1>2. Range(kv_restrictions_queue) = FinalRestrictions
  <2>1. Holds(kv_restrictions_queue, FinalRestrictions)
    BY DEF Inv, QueuesHold
  <2>2. DOMAIN kv_restrictions_queue = 1..Len(kv_restrictions_queue)
    BY <2>1 DEF Holds
  <2> QED BY <2>1, <2>2 DEF Holds, Range
<1> QED BY <1>1, <1>2 DEF RestrictionWrong

LEMMA RestrictionEnters ==
  ASSUME Inv, TypeOK', NEW r \in Restrictions, restriction[r].state = "constructing",
         kv_restrictions_queue' = Append(kv_restrictions_queue, r),
         restriction'[r].state = "finalized",
         restriction'[r].type = restriction[r].type,
         restriction'[r].introduced = restriction[r].introduced,
         \A q \in Restrictions \ {r} : restriction'[q] = restriction[q],
         \/ RestrictionWrong(r) = "OK" /\ mold'.version = UpdateVersion(restriction[r].introduced)
         \/ RestrictionWrong(r) # "OK" /\ mold' = mold /\ keyval.state # "finalized",
         ~crashed', UNCHANGED <<keyval, default, kv_default_queue>>
  PROVE  Inv'
<1> DEFINE v == restriction[r].introduced
<1>1. mold.version \in AllVersions
      /\ mold'.version \in AllVersions
      /\ (\A e \in Defaults : default[e].introduced \in AllVersions)
      /\ (\A q \in Restrictions : restriction[q].introduced \in AllVersions)
      /\ restriction \in [Restrictions -> RestrictionType]
  BY DEF Inv, TypeOK, RestrictionType
<1>2. FinalDefaults' = FinalDefaults /\ Holds(kv_default_queue, FinalDefaults)' /\ InOrder'
  BY SameDefaults DEF Inv, QueuesHold
<1>3. r \notin FinalRestrictions /\ FinalRestrictions' = FinalRestrictions \cup {r}
  BY DEF FinalRestrictions
<1>4. QueuesHold'
  <2>1. Holds(kv_restrictions_queue, FinalRestrictions)
    BY DEF Inv, QueuesHold
  <2>2. Holds(kv_restrictions_queue', FinalRestrictions')
    BY <1>3, <2>1, Appended
  <2> QED BY <1>2, <2>2 DEF QueuesHold
<1>5. Compare(mold.version, mold'.version) <= 0 /\ Compare(v, mold'.version) <= 0
  <2>1. CASE mold'.version = UpdateVersion(v)
    BY <1>1, <2>1, UpdateFacts
  <2>2. CASE RestrictionWrong(r) # "OK" /\ mold' = mold
    <3>1. PICK q \in FinalRestrictions : restriction[q].introduced = v
      BY <2>2, RestrictionWrongFacts
    <3>2. Compare(restriction[q].introduced, mold.version) <= 0
      BY DEF Inv, Covers
    <3> QED BY <2>2, <3>1, <3>2, MoldVersion DEF Inv
  <2> QED BY <2>1, <2>2
<1>6. Covers'
  <2>1. ASSUME NEW e \in FinalDefaults' PROVE Compare(default'[e].introduced, mold'.version) <= 0
    <3>1. e \in FinalDefaults /\ e \in Defaults
      BY <1>2 DEF FinalDefaults
    <3>2. Compare(default[e].introduced, mold.version) <= 0
      BY <3>1 DEF Inv, Covers
    <3> QED BY <1>1, <1>5, <3>1, <3>2, Rises DEF Inv
  <2>2. ASSUME NEW q \in FinalRestrictions'
        PROVE  Compare(restriction'[q].introduced, mold'.version) <= 0
    <3>1. CASE q = r
      BY <1>5, <3>1
    <3>2. CASE q # r
      <4>1. q \in FinalRestrictions /\ q \in Restrictions
            /\ restriction'[q].introduced = restriction[q].introduced
        BY <1>3, <3>2 DEF FinalRestrictions
      <4>2. Compare(restriction[q].introduced, mold.version) <= 0
        BY <4>1 DEF Inv, Covers
      <4> QED BY <1>1, <1>5, <4>1, <4>2, Rises DEF Inv
    <3> QED BY <3>1, <3>2
  <2> QED BY <2>1, <2>2 DEF Covers
<1>7. ValidHasOneOfEach'
  <2> SUFFICES ASSUME keyval.state = "finalized", ~keyval.invalid PROVE OneOfEach'
    BY DEF ValidHasOneOfEach
  <2>1. OneOfEach
    BY DEF Inv, ValidHasOneOfEach
  <2>2. \A q \in FinalRestrictions : ~ (/\ restriction[q].type = restriction[r].type
                                       /\ restriction[q].introduced = restriction[r].introduced)
    <3>1. RestrictionWrong(r) = "OK"
      OBVIOUS
    <3> QED BY <1>3, <3>1, RestrictionWrongFacts
  <2>3. ASSUME NEW q \in FinalRestrictions', NEW s \in FinalRestrictions',
               restriction'[q].type = restriction'[s].type,
               restriction'[q].introduced = restriction'[s].introduced
        PROVE  q = s
    <3>1. \A x \in FinalRestrictions' :
            \/ x = r
            \/ x \in FinalRestrictions /\ restriction'[x] = restriction[x]
      BY <1>3 DEF FinalRestrictions
    <3>2. CASE q = r /\ s # r
      BY <2>2, <2>3, <3>1, <3>2
    <3>3. CASE q # r /\ s = r
      BY <2>2, <2>3, <3>1, <3>3
    <3>4. CASE q # r /\ s # r
      BY <2>1, <2>3, <3>1, <3>4 DEF OneOfEach
    <3> QED BY <3>2, <3>3, <3>4
  <2> QED BY <1>2, <2>1, <2>3 DEF OneOfEach
<1>8. Typed'
  <2>1. ASSUME NEW q \in Restrictions, restriction'[q].state \in {"constructing", "finalized"}
        PROVE  restriction'[q].type # "UNKNOWN"
    BY <2>1 DEF Inv, Typed
  <2> QED BY <2>1 DEF Typed
<1> QED BY <1>4, <1>6, <1>7, <1>8 DEF Inv

LEMMA FinalizesRestriction ==
  ASSUME Careful, Inv, TypeOK', NEW r \in Restrictions, NEW asAdd \in BOOLEAN,
         FinalizeRestriction(r, asAdd)
  PROVE  Inv'
<1> DEFINE wrong == RestrictionWrong(r)
           verdict == Verdict(wrong, TRUE, keyval)
           dropped == verdict # "OK" /\ asAdd
           stored == verdict \in {"OK", "INVALID_CONTEXT"} /\ ~dropped
           kept == [restriction[r] EXCEPT !.state = IF stored THEN "finalized" ELSE "constructing",
                                          !.invalid = verdict # "OK"]
<1>1. /\ restriction[r].state = "constructing"
      /\ crashed' = (wrong = "INVALID_CONTEXT" /\ keyval.state = "finalized")
      /\ restriction' = [restriction EXCEPT ![r] = IF dropped THEN FreedRestriction ELSE kept]
      /\ kv_restrictions_queue' = IF stored /\ ~crashed' THEN Append(kv_restrictions_queue, r)
                                                          ELSE kv_restrictions_queue
      /\ mold' = [mold EXCEPT !.version = IF verdict = "OK" THEN UpdateVersion(restriction[r].introduced)
                                                            ELSE mold.version]
      /\ UNCHANGED <<keyval, default, kv_default_queue>>
  BY DEF FinalizeRestriction
<1>2. /\ restriction \in [Restrictions -> RestrictionType] /\ restriction[r] \in RestrictionType
      /\ mold \in [state : {"constructing", "finalized"}, version : AllVersions]
  BY DEF Inv, TypeOK, RestrictionType
<1>3. wrong \in {"OK", "CONFLICTING_SEMVER"}
  BY <1>1, RestrictionWrongFacts
<1>4. verdict = IF wrong = "OK" \/ keyval.state = "finalized" THEN wrong ELSE "INVALID_CONTEXT"
  BY DEF Verdict
<1>5. /\ kept.state = IF stored THEN "finalized" ELSE "constructing"
      /\ kept.type = restriction[r].type /\ kept.introduced = restriction[r].introduced
  <2> HIDE DEF stored, verdict
  <2> QED BY <1>2 DEF RestrictionType
<1>6. ~crashed'
  BY <1>1, <1>3
<1>7. FreedRestriction.state = "freed"
  BY DEF FreedRestriction, NewRestriction
<1>8. restriction[r].type # "UNKNOWN"
  BY <1>1 DEF Inv, Typed
<1> HIDE DEF wrong, verdict, kept
<1>9. /\ restriction'[r] = IF dropped THEN FreedRestriction ELSE kept
      /\ \A q \in Restrictions \ {r} : restriction'[q] = restriction[q]
  <2> HIDE DEF dropped
  <2> QED BY <1>1, <1>2
<1>10. CASE stored
  <2>1. restriction'[r] = kept /\ kept.state = "finalized"
    BY <1>5, <1>9, <1>10
  <2>2. kv_restrictions_queue' = Append(kv_restrictions_queue, r)
    BY <1>1, <1>6, <1>10
  <2>3. \/ wrong = "OK" /\ mold'.version = UpdateVersion(restriction[r].introduced)
        \/ wrong # "OK" /\ mold' = mold /\ keyval.state # "finalized"
    BY <1>1, <1>2, <1>3, <1>4, <1>10
  <2> HIDE DEF stored, dropped
  <2> QED BY <1>1, <1>5, <1>6, <1>9, <2>1, <2>2, <2>3, RestrictionEnters DEF wrong
<1>11. CASE ~stored
  <2>1. kv_restrictions_queue' = kv_restrictions_queue
    BY <1>1, <1>11
  <2>2. verdict # "OK"
    BY <1>11
  <2>3. mold' = mold
    BY <1>1, <1>2, <2>2
  <2>4. /\ restriction'[r].state # "finalized"
        /\ restriction'[r].state = "constructing" => restriction'[r].type # "UNKNOWN"
    BY <1>5, <1>7, <1>8, <1>9, <1>11
  <2> HIDE DEF stored, dropped
  <2>5. \A q \in Restrictions :
        /\ restriction'[q].state = "finalized" <=> restriction[q].state = "finalized"
        /\ restriction[q].state = "finalized" =>
             /\ restriction'[q].introduced = restriction[q].introduced
             /\ restriction'[q].type = restriction[q].type
        /\ restriction'[q].state = "constructing" => restriction'[q].type # "UNKNOWN"
    BY <1>1, <1>9, <2>4 DEF Inv, Typed
  <2>6. keyval.state = "finalized" /\ ~keyval.invalid => OneOfEach
    BY DEF Inv, ValidHasOneOfEach
  <2> QED BY <1>1, <1>6, <2>1, <2>3, <2>5, <2>6, NothingEnters, MoldVersion DEF Inv
<1> QED BY <1>10, <1>11

LEMMA DestroysRestriction ==
  ASSUME Inv, TypeOK', NEW r \in Restrictions, DestroyRestriction(r)
  PROVE  Inv'
<1>1. /\ restriction' = [restriction EXCEPT ![r] = FreedRestriction]
      /\ kv_restrictions_queue' = RemoveFirst(kv_restrictions_queue, r)
      /\ UNCHANGED <<mold, keyval, default, kv_default_queue, crashed>>
  BY DEF DestroyRestriction
<1>2. FreedRestriction.state = "freed"
  BY DEF FreedRestriction, NewRestriction
<1>3. /\ restriction'[r].state = "freed"
      /\ \A q \in Restrictions \ {r} : restriction'[q] = restriction[q]
  BY <1>1, <1>2 DEF Inv, TypeOK
<1>4. FinalRestrictions' = FinalRestrictions \ {r}
  BY <1>3 DEF FinalRestrictions
<1>5. FinalDefaults' = FinalDefaults /\ Holds(kv_default_queue, FinalDefaults)' /\ InOrder'
  BY <1>1, SameDefaults DEF Inv, QueuesHold
<1>6. QueuesHold'
  <2>1. Holds(kv_restrictions_queue, FinalRestrictions)
    BY DEF Inv, QueuesHold
  <2>2. Holds(kv_restrictions_queue', FinalRestrictions')
    BY <1>1, <1>4, <2>1, Removed
  <2> QED BY <1>5, <2>2 DEF QueuesHold
<1>7. \A q \in FinalRestrictions' : q \in FinalRestrictions /\ restriction'[q] = restriction[q]
  BY <1>3, <1>4 DEF FinalRestrictions
<1>8. Covers'
  BY <1>1, <1>5, <1>7 DEF Inv, Covers
<1>9. ValidHasOneOfEach'
  BY <1>1, <1>5, <1>7 DEF Inv, ValidHasOneOfEach, OneOfEach
<1>10. Typed'
  BY <1>1, <1>3 DEF Inv, Typed
<1> QED BY <1>6, <1>8, <1>9, <1>10 DEF Inv
(* The validation of a keyval ends at the first child that is wrong.       *)
LEMMA FirstWrongFacts ==
  ASSUME NEW S, NEW queue \in Seq(S), NEW allWrong
  PROVE  /\ FirstWrong(queue, allWrong) \in 1..(Len(queue) + 1)
         /\ FirstWrong(queue, allWrong) <= Len(queue) =>
              queue[FirstWrong(queue, allWrong)] \in allWrong
         /\ FirstWrong(queue, allWrong) > Len(queue) =>
              \A i \in 1..Len(queue) : queue[i] \notin allWrong
<1> DEFINE wrong == {i \in DOMAIN queue : queue[i] \in allWrong}
<1>1. FirstWrong(queue, allWrong) = IF wrong = {} THEN Len(queue) + 1 ELSE Min(wrong)
  BY DEF FirstWrong
<1>2. DOMAIN queue = 1..Len(queue) /\ Len(queue) \in Nat
  BY ListFacts
<1>3. CASE wrong = {}
  BY <1>1, <1>2, <1>3
<1>4. CASE wrong # {}
  <2>1. wrong \subseteq Nat
    BY <1>2
  <2>2. Min(wrong) \in wrong
    <3> HIDE DEF wrong
    <3> QED BY <1>4, <2>1, MinIsLeast
  <2>3. Min(wrong) \in 1..Len(queue) /\ queue[Min(wrong)] \in allWrong
    BY <1>2, <2>2
  <2> HIDE DEF wrong
  <2> QED BY <1>1, <1>2, <1>4, <2>3
<1> QED BY <1>3, <1>4

(* validate_context_validity of a keyval finds nothing wrong only when it  *)
(* has a default, one per version, and one restriction of each type per    *)
(* version.                                                                *)
LEMMA KeyvalWrongFacts ==
  ASSUME Inv
  PROVE  KeyvalWrong # "INVALID_CONTEXT" /\ (KeyvalWrong = "OK" => OneOfEach)
<1> DEFINE i == FirstWrong(kv_default_queue, WrongDefaults)
           j == FirstWrong(kv_restrictions_queue, WrongRestrictions)
<1>1. Holds(kv_default_queue, FinalDefaults) /\ Holds(kv_restrictions_queue, FinalRestrictions)
  BY DEF Inv, QueuesHold
<1>2. kv_default_queue \in Seq(FinalDefaults) /\ kv_restrictions_queue \in Seq(FinalRestrictions)
  BY <1>1 DEF Holds
<1>3. /\ Range(kv_default_queue) = FinalDefaults
      /\ Range(kv_restrictions_queue) = FinalRestrictions
  <2>1. /\ DOMAIN kv_default_queue = 1..Len(kv_default_queue)
        /\ DOMAIN kv_restrictions_queue = 1..Len(kv_restrictions_queue)
    BY <1>2
  <2> QED BY <1>1, <1>2, <2>1 DEF Holds, Range
<1>4. /\ i \in 1..(Len(kv_default_queue) + 1)
      /\ i > Len(kv_default_queue) =>
           \A k \in 1..Len(kv_default_queue) : kv_default_queue[k] \notin WrongDefaults
  BY <1>2, FirstWrongFacts
<1>5. /\ j \in 1..(Len(kv_restrictions_queue) + 1)
      /\ j <= Len(kv_restrictions_queue) => kv_restrictions_queue[j] \in WrongRestrictions
      /\ j > Len(kv_restrictions_queue) =>
           \A k \in 1..Len(kv_restrictions_queue) : kv_restrictions_queue[k] \notin WrongRestrictions
  BY <1>2, FirstWrongFacts
<1>6. \A r \in FinalRestrictions :
        /\ RestrictionWrong(r) \in {"OK", "CONFLICTING_SEMVER"}
        /\ RestrictionWrong(r) = "OK" <=>
             ~ \E q \in FinalRestrictions \ {r} :
                 /\ restriction[q].type = restriction[r].type
                 /\ restriction[q].introduced = restriction[r].introduced
  BY RestrictionWrongFacts DEF FinalRestrictions
<1>7. Len(kv_default_queue) \in Nat /\ Len(kv_restrictions_queue) \in Nat
  BY <1>2
<1>8. j <= Len(kv_restrictions_queue) => RestrictionWrong(kv_restrictions_queue[j]) = "CONFLICTING_SEMVER"
  BY <1>3, <1>5, <1>6 DEF WrongRestrictions
<1>9. KeyvalWrong =
        IF kv_default_queue = <<>> THEN "DEFAULT_MISSING"
        ELSE IF i <= Len(kv_default_queue) THEN "CONFLICTING_SEMVER"
        ELSE IF j <= Len(kv_restrictions_queue) THEN RestrictionWrong(kv_restrictions_queue[j])
        ELSE "OK"
  <2>1. i > Len(kv_default_queue) <=> ~(i <= Len(kv_default_queue))
    BY <1>4, <1>7
  <2> HIDE DEF i, j
  <2> QED BY <2>1 DEF KeyvalWrong, i, j
<1> HIDE DEF i, j
<1>10. KeyvalWrong # "INVALID_CONTEXT"
  BY <1>8, <1>9
<1>11. ASSUME KeyvalWrong = "OK" PROVE OneOfEach
  <2>1. kv_default_queue # <<>> /\ i > Len(kv_default_queue) /\ j > Len(kv_restrictions_queue)
    BY <1>4, <1>5, <1>7, <1>8, <1>9, <1>11
  <2>2. FinalDefaults # {}
    BY <1>2, <2>1
  <2>3. ASSUME NEW d \in FinalDefaults, NEW e \in FinalDefaults,
               default[d].introduced = default[e].introduced
        PROVE  d = e
    <3>1. d \notin WrongDefaults
      <4>1. PICK k \in 1..Len(kv_default_queue) : kv_default_queue[k] = d
        BY <1>1 DEF Holds
      <4> QED BY <1>4, <2>1, <4>1
    <3>2. DefaultWrong(Introduced(kv_default_queue), default[d].introduced) = "OK"
      BY <1>3, <3>1 DEF WrongDefaults
    <3>3. default \in [Defaults -> DefaultType] /\ FinalDefaults \subseteq Defaults
      BY DEF Inv, TypeOK, DefaultType, FinalDefaults
    <3>4. \A x \in FinalDefaults : default[x].introduced = default[d].introduced => x = d
      BY <1>1, <3>2, <3>3, WrongInQueue
    <3> QED BY <2>3, <3>4
  <2>4. ASSUME NEW r \in FinalRestrictions, NEW q \in FinalRestrictions,
               restriction[r].type = restriction[q].type,
               restriction[r].introduced = restriction[q].introduced
        PROVE  r = q
    <3>1. r \notin WrongRestrictions
      <4>1. PICK k \in 1..Len(kv_restrictions_queue) : kv_restrictions_queue[k] = r
        BY <1>1 DEF Holds
      <4> QED BY <1>5, <2>1, <4>1
    <3>2. RestrictionWrong(r) = "OK"
      BY <1>3, <3>1 DEF WrongRestrictions
    <3> QED BY <1>6, <2>4, <3>2
  <2> QED BY <2>2, <2>3, <2>4 DEF OneOfEach
<1> QED BY <1>10, <1>11

\* A step that validates the keyval, and may finalize it or the mold.
LEMMA Validates ==
  ASSUME Inv, TypeOK', MarkChildren,
         kv_default_queue' = kv_default_queue, kv_restrictions_queue' = kv_restrictions_queue,
         Compare(mold.version, mold'.version) <= 0,
         ~keyval'.invalid => KeyvalWrong = "OK",
         ~crashed'
  PROVE  Inv'
<1>1. /\ \A d \in Defaults :
           default'[d].state = default[d].state /\ default'[d].introduced = default[d].introduced
      /\ \A r \in Restrictions :
           /\ restriction'[r].state = restriction[r].state
           /\ restriction'[r].introduced = restriction[r].introduced
           /\ restriction'[r].type = restriction[r].type
  BY MarkFacts DEF Inv
<1>2. \A d \in Defaults :
        /\ default'[d].state = "finalized" <=> default[d].state = "finalized"
        /\ default[d].state = "finalized" => default'[d].introduced = default[d].introduced
  BY <1>1
<1>3. \A r \in Restrictions :
        /\ restriction'[r].state = "finalized" <=> restriction[r].state = "finalized"
        /\ restriction[r].state = "finalized" =>
             /\ restriction'[r].introduced = restriction[r].introduced
             /\ restriction'[r].type = restriction[r].type
        /\ restriction'[r].state = "constructing" => restriction'[r].type # "UNKNOWN"
  BY <1>1 DEF Inv, Typed
<1>4. keyval'.state = "finalized" /\ ~keyval'.invalid => OneOfEach
  BY KeyvalWrongFacts
<1> QED BY <1>2, <1>3, <1>4, NothingEnters

LEMMA FinalizesKeyval ==
  ASSUME Inv, TypeOK', FinalizeKeyval PROVE Inv'
<1> DEFINE verdict == Verdict(KeyvalWrong, TRUE, mold)
<1>1. /\ MarkChildren
      /\ crashed' = (KeyvalWrong = "INVALID_CONTEXT" /\ mold.state = "finalized")
      /\ keyval' = [keyval EXCEPT !.state = IF verdict \in {"OK", "INVALID_CONTEXT"}
                                              THEN "finalized" ELSE @,
                                  !.invalid = verdict # "OK"]
      /\ mold' = [mold EXCEPT !.version = IF verdict = "OK" /\ keyval.deprecated # NoVersion
                                            THEN UpdateVersion(keyval.deprecated) ELSE mold.version]
      /\ UNCHANGED <<kv_default_queue, kv_restrictions_queue>>
  BY DEF FinalizeKeyval
<1>2. /\ mold \in [state : {"constructing", "finalized"}, version : AllVersions]
      /\ keyval \in [state : {"constructing", "finalized"}, invalid : BOOLEAN,
                     deprecated : Deprecations \cup {NoVersion}]
  BY DEF Inv, TypeOK
<1>3. verdict = "OK" => KeyvalWrong = "OK"
  BY DEF Verdict
<1> HIDE DEF verdict
<1>4. ~keyval'.invalid => KeyvalWrong = "OK"
  BY <1>1, <1>2, <1>3
<1>5. ~crashed'
  BY <1>1, KeyvalWrongFacts
<1>6. Compare(mold.version, mold'.version) <= 0
  <2>1. CASE verdict = "OK" /\ keyval.deprecated # NoVersion
    <3>1. keyval.deprecated \in AllVersions
      BY <1>2, <2>1, MoldAssumption DEF MoldAssumption
    <3>2. mold'.version = UpdateVersion(keyval.deprecated)
      BY <1>1, <1>2, <2>1
    <3> QED BY <1>2, <3>1, <3>2, UpdateFacts
  <2>2. CASE ~(verdict = "OK" /\ keyval.deprecated # NoVersion)
    <3>1. mold'.version = mold.version
      BY <1>1, <1>2, <2>2
    <3> QED BY <3>1, MoldVersion DEF Inv
  <2> QED BY <2>1, <2>2
<1> QED BY <1>1, <1>4, <1>5, <1>6, Validates

LEMMA FinalizesMold ==
  ASSUME Inv, TypeOK', FinalizeMold PROVE Inv'
<1>1. /\ mold' = [mold EXCEPT !.state = "finalized"]
      /\ UNCHANGED <<kv_default_queue, kv_restrictions_queue>>
  BY DEF FinalizeMold
<1>2. Compare(mold.version, mold'.version) <= 0
  <2>1. mold'.version = mold.version
    BY <1>1 DEF Inv, TypeOK
  <2> QED BY <2>1, MoldVersion DEF Inv
<1>3. CASE keyval.state = "finalized"
  <2>1. /\ MarkChildren /\ keyval' = [keyval EXCEPT !.invalid = KeyvalWrong # "OK"]
        /\ crashed' = (KeyvalWrong = "INVALID_CONTEXT")
    BY <1>3 DEF FinalizeMold
  <2>2. ~keyval'.invalid => KeyvalWrong = "OK"
    BY <2>1 DEF Inv, TypeOK
  <2>3. ~crashed'
    BY <2>1, KeyvalWrongFacts
  <2> QED BY <1>1, <1>2, <2>1, <2>2, <2>3, Validates
<1>4. CASE keyval.state # "finalized"
  <2>1. UNCHANGED <<keyval, default, restriction, crashed>>
    BY <1>4 DEF FinalizeMold
  <2>2. \A r \in Restrictions :
          restriction'[r].state = "constructing" => restriction'[r].type # "UNKNOWN"
    BY <2>1 DEF Inv, Typed
  <2>3. ~crashed'
    BY <2>1 DEF Inv, Typed
  <2> QED BY <1>1, <1>2, <1>4, <2>1, <2>2, <2>3, NothingEnters
<1> QED BY <1>3, <1>4

LEMMA InvInit == Init => Inv
<1> SUFFICES ASSUME Init PROVE Inv
  OBVIOUS
<1>1. TypeOK
  BY TypeInit
<1>2. /\ kv_default_queue = <<>> /\ kv_restrictions_queue = <<>>
      /\ \A d \in Defaults : default[d].state = "free"
      /\ \A r \in Restrictions : restriction[r].state = "free"
      /\ keyval.state = "constructing" /\ ~crashed
  BY DEF Init, NewDefault, NewRestriction, NewKeyval
<1>3. FinalDefaults = {} /\ FinalRestrictions = {}
  BY <1>2 DEF FinalDefaults, FinalRestrictions
<1>4. Holds(<<>>, {})
  BY DEF Holds
<1>5. InOrder
  BY <1>2 DEF InOrder
<1> QED BY <1>1, <1>2, <1>3, <1>4, <1>5 DEF Inv, QueuesHold, Covers, ValidHasOneOfEach, Typed

LEMMA Restarts ==
  ASSUME Inv, TypeOK', Restart PROVE Inv'
<1>1. /\ kv_default_queue' = <<>> /\ kv_restrictions_queue' = <<>>
      /\ \A d \in Defaults : default'[d].state = "free"
      /\ \A r \in Restrictions : restriction'[r].state = "free"
      /\ keyval'.state = "constructing"
  BY DEF Restart, NewDefault, NewRestriction, NewKeyval
<1>2. ~crashed'
  BY DEF Restart, Inv, Typed
<1>3. FinalDefaults' = {} /\ FinalRestrictions' = {}
  BY <1>1 DEF FinalDefaults, FinalRestrictions
<1>4. QueuesHold'
  <2>1. Holds(<<>>, {})
    BY DEF Holds
  <2>2. InOrder'
    BY <1>1 DEF InOrder
  <2> QED BY <1>1, <1>3, <2>1, <2>2 DEF QueuesHold
<1> QED BY <1>1, <1>2, <1>3, <1>4 DEF Inv, Covers, ValidHasOneOfEach, Typed

LEMMA InvNext == Careful /\ Inv /\ [Next]_vars => Inv'
<1> SUFFICES ASSUME Careful, Inv, [Next]_vars PROVE Inv'
  OBVIOUS
<1>1. TypeOK'
  BY TypeNext DEF Inv
<1>2. ASSUME NEW d \in Defaults, NEW v \in AllVersions, BeginDefault(d, v) \/ AddDefault(d, v)
      PROVE  Inv'
  BY <1>1, <1>2, DefaultSteps
<1>3. ASSUME NEW d \in Defaults, FinalizeDefault(d) \/ DestroyDefault(d) PROVE Inv'
  <2>1. <<1, 0>> \in AllVersions
    BY VersionTypes
  <2> QED BY <1>1, <1>3, <2>1, DefaultSteps
<1>4. ASSUME NEW r \in Restrictions, NEW t \in Types, NEW a \in Arguments, NEW v \in AllVersions,
             BeginRestriction(r, t, a, v)
      PROVE  Inv'
  BY <1>1, <1>4, BeginsRestriction
<1>5. ASSUME NEW r \in Restrictions, NEW asAdd \in BOOLEAN, FinalizeRestriction(r, asAdd)
      PROVE  Inv'
  BY <1>1, <1>5, FinalizesRestriction
<1>6. ASSUME NEW r \in Restrictions, DestroyRestriction(r) PROVE Inv'
  BY <1>1, <1>6, DestroysRestriction
<1>7. CASE FinalizeKeyval
  BY <1>1, <1>7, FinalizesKeyval
<1>8. ASSUME UNCHANGED <<mold, default, restriction, kv_default_queue, kv_restrictions_queue, crashed>>,
             keyval'.state = keyval.state, keyval'.invalid = keyval.invalid
      PROVE  Inv'
  <2>1. \A r \in Restrictions :
          restriction'[r].state = "constructing" => restriction'[r].type # "UNKNOWN"
    BY <1>8 DEF Inv, Typed
  <2>2. ~crashed' /\ (keyval'.state = "finalized" /\ ~keyval'.invalid => OneOfEach)
    BY <1>8 DEF Inv, Typed, ValidHasOneOfEach
  <2> QED BY <1>1, <1>8, <2>1, <2>2, NothingEnters, MoldVersion DEF Inv
<1>9. ASSUME NEW v \in Deprecations, Deprecate(v) PROVE Inv'
  <2>1. keyval' = [keyval EXCEPT !.deprecated = v]
        /\ UNCHANGED <<mold, default, restriction, kv_default_queue, kv_restrictions_queue, crashed>>
    BY <1>9 DEF Deprecate
  <2>2. keyval'.state = keyval.state /\ keyval'.invalid = keyval.invalid
    BY <2>1 DEF Inv, TypeOK
  <2> QED BY <1>8, <2>1, <2>2
<1>10. CASE Restart
  BY <1>1, <1>10, Restarts
<1>11. CASE FinalizeMold
  BY <1>1, <1>11, FinalizesMold
<1>12. CASE UNCHANGED vars
  BY <1>8, <1>12 DEF vars
<1> QED BY <1>2, <1>3, <1>4, <1>5, <1>6, <1>7, <1>9, <1>10, <1>11, <1>12 DEF Next----------------------------------------------------------------------------
(* What the invariant means.                                               *)

LEMMA Queues ==
  ASSUME Inv
  PROVE  /\ kv_default_queue \in Seq(Defaults) /\ Len(kv_default_queue) \in Nat
         /\ DOMAIN kv_default_queue = 1..Len(kv_default_queue)
         /\ \A i \in 1..Len(kv_default_queue) : kv_default_queue[i] \in FinalDefaults
         /\ \A d \in FinalDefaults : \E i \in 1..Len(kv_default_queue) : kv_default_queue[i] = d
         /\ \A i, j \in 1..Len(kv_default_queue) :
              kv_default_queue[i] = kv_default_queue[j] => i = j
         /\ Introduced(kv_default_queue) \in Seq(Version)
         /\ Len(Introduced(kv_default_queue)) = Len(kv_default_queue)
         /\ DOMAIN Introduced(kv_default_queue) = 1..Len(kv_default_queue)
         /\ \A i \in 1..Len(kv_default_queue) :
              Introduced(kv_default_queue)[i] = default[kv_default_queue[i]].introduced
         /\ Ascending(Introduced(kv_default_queue))
         /\ kv_restrictions_queue \in Seq(Restrictions)
         /\ DOMAIN kv_restrictions_queue = 1..Len(kv_restrictions_queue)
         /\ \A i \in 1..Len(kv_restrictions_queue) : kv_restrictions_queue[i] \in FinalRestrictions
         /\ \A r \in FinalRestrictions :
              \E i \in 1..Len(kv_restrictions_queue) : kv_restrictions_queue[i] = r
         /\ \A i, j \in 1..Len(kv_restrictions_queue) :
              kv_restrictions_queue[i] = kv_restrictions_queue[j] => i = j
<1>1. /\ kv_default_queue \in Seq(Defaults) /\ kv_restrictions_queue \in Seq(Restrictions)
      /\ default \in [Defaults -> DefaultType]
  BY DEF Inv, TypeOK, DefaultType
<1>2. Holds(kv_default_queue, FinalDefaults) /\ Holds(kv_restrictions_queue, FinalRestrictions)
  BY DEF Inv, QueuesHold
<1>3. /\ \A i \in 1..Len(kv_default_queue) : kv_default_queue[i] \in FinalDefaults
      /\ \A d \in FinalDefaults : \E i \in 1..Len(kv_default_queue) : kv_default_queue[i] = d
      /\ \A i, j \in 1..Len(kv_default_queue) : kv_default_queue[i] = kv_default_queue[j] => i = j
  BY <1>2 DEF Holds
<1>4. /\ \A i \in 1..Len(kv_restrictions_queue) : kv_restrictions_queue[i] \in FinalRestrictions
      /\ \A r \in FinalRestrictions :
           \E i \in 1..Len(kv_restrictions_queue) : kv_restrictions_queue[i] = r
      /\ \A i, j \in 1..Len(kv_restrictions_queue) :
           kv_restrictions_queue[i] = kv_restrictions_queue[j] => i = j
  BY <1>2 DEF Holds
<1>5. /\ Introduced(kv_default_queue) \in Seq(Version)
      /\ Len(Introduced(kv_default_queue)) = Len(kv_default_queue)
      /\ \A i \in 1..Len(kv_default_queue) :
           Introduced(kv_default_queue)[i] = default[kv_default_queue[i]].introduced
  BY <1>1, IntroducedFacts
<1>6. DOMAIN Introduced(kv_default_queue) = 1..Len(kv_default_queue)
  BY <1>5, ListFacts
<1>7. Ascending(Introduced(kv_default_queue))
  BY <1>5, <1>6 DEF Ascending, Inv, QueuesHold, InOrder
<1>8. /\ Len(kv_default_queue) \in Nat /\ DOMAIN kv_default_queue = 1..Len(kv_default_queue)
      /\ DOMAIN kv_restrictions_queue = 1..Len(kv_restrictions_queue)
  BY <1>1, ListFacts
<1> QED BY <1>1, <1>3, <1>4, <1>5, <1>6, <1>7, <1>8

LEMMA InvHoldsFinalized == Inv => QueuesHoldFinalized
<1> SUFFICES ASSUME Inv PROVE QueuesHoldFinalized
  OBVIOUS
<1>1. Range(kv_default_queue) = FinalDefaults /\ Range(kv_restrictions_queue) = FinalRestrictions
  BY Queues DEF Range
<1>2. \A i, j \in DOMAIN kv_default_queue : i < j =>
        /\ kv_default_queue[i] # kv_default_queue[j]
        /\ Compare(Introduced(kv_default_queue)[i], Introduced(kv_default_queue)[j]) <= 0
  <2> SUFFICES ASSUME NEW i \in 1..Len(kv_default_queue), NEW j \in 1..Len(kv_default_queue), i < j
               PROVE  /\ kv_default_queue[i] # kv_default_queue[j]
                      /\ Compare(Introduced(kv_default_queue)[i], Introduced(kv_default_queue)[j]) <= 0
    BY Queues
  <2>1. i # j
    OBVIOUS
  <2> QED BY <2>1, Queues DEF Ascending
<1>3. IsInjective(kv_restrictions_queue)
  BY Queues DEF IsInjective
<1> QED BY <1>1, <1>2, <1>3 DEF QueuesHoldFinalized, FinalDefaults, FinalRestrictions

LEMMA InvCovers == Inv => VersionCovers
<1> SUFFICES ASSUME Inv PROVE VersionCovers
  OBVIOUS
<1>1. \A i \in DOMAIN kv_default_queue :
        Compare(Introduced(kv_default_queue)[i], mold.version) <= 0
  <2> SUFFICES ASSUME NEW i \in 1..Len(kv_default_queue)
               PROVE  Compare(Introduced(kv_default_queue)[i], mold.version) <= 0
    BY Queues
  <2>1. kv_default_queue[i] \in FinalDefaults
        /\ Introduced(kv_default_queue)[i] = default[kv_default_queue[i]].introduced
    BY Queues
  <2> QED BY <2>1 DEF Inv, Covers
<1>2. Range(kv_restrictions_queue) = FinalRestrictions
  BY Queues DEF Range
<1> QED BY <1>1, <1>2 DEF VersionCovers, Inv, Covers

(* dx_default_get_active finds the latest of the defaults a version knows. *)
LEMMA ActiveIsPlace ==
  ASSUME Inv, kv_default_queue # <<>>, NEW v \in AllVersions
  PROVE  LET a == Active(Introduced(kv_default_queue), v) IN
         /\ a \in 1..Len(kv_default_queue)
         /\ ActiveDefault(v) = kv_default_queue[a] /\ ActiveDefault(v) \in FinalDefaults
         /\ IF \E i \in 1..Len(kv_default_queue) :
                 Compare(default[kv_default_queue[i]].introduced, v) <= 0
            THEN /\ Compare(default[kv_default_queue[a]].introduced, v) <= 0
                 /\ \A i \in 1..Len(kv_default_queue) :
                      Compare(default[kv_default_queue[i]].introduced, v) <= 0 => i <= a
            ELSE a = 1
<1> DEFINE versions == Introduced(kv_default_queue)
           a == Active(versions, v)
<1>1. v \in Version /\ versions \in Seq(Version) /\ Ascending(versions)
      /\ Len(versions) = Len(kv_default_queue)
  BY VersionTypes, Queues
<1>2. versions # <<>>
  <2>1. Len(kv_default_queue) # 0
    BY Queues, ListFacts
  <2> HIDE DEF versions
  <2> QED BY <1>1, <2>1
<1>3. /\ a \in 1..Len(versions)
      /\ IF \E i \in 1..Len(versions) : Compare(versions[i], v) <= 0
         THEN /\ Compare(versions[a], v) <= 0
              /\ \A i \in 1..Len(versions) : Compare(versions[i], v) <= 0 => i <= a
         ELSE a = 1
  <2> HIDE DEF versions
  <2> QED BY <1>1, <1>2, ActiveFacts
<1>4. ActiveDefault(v) = kv_default_queue[a]
  BY DEF ActiveDefault
<1>5. \A i \in 1..Len(kv_default_queue) : versions[i] = default[kv_default_queue[i]].introduced
  BY Queues
<1> HIDE DEF a, versions
<1>6. ActiveDefault(v) \in FinalDefaults
  BY <1>1, <1>3, <1>4, Queues
<1>7. /\ a \in 1..Len(kv_default_queue)
      /\ IF \E i \in 1..Len(kv_default_queue) :
              Compare(default[kv_default_queue[i]].introduced, v) <= 0
         THEN /\ Compare(default[kv_default_queue[a]].introduced, v) <= 0
              /\ \A i \in 1..Len(kv_default_queue) :
                   Compare(default[kv_default_queue[i]].introduced, v) <= 0 => i <= a
         ELSE a = 1
  BY <1>1, <1>3, <1>5
<1> QED BY <1>4, <1>6, <1>7 DEF a, versions

LEMMA InvActive == Inv => ActiveIsLatest
<1> SUFFICES ASSUME Inv, kv_default_queue # <<>>, NEW v \in AllVersions
             PROVE  IF Known(v) # {}
                    THEN /\ Compare(default[ActiveDefault(v)].introduced, v) <= 0
                         /\ \A d \in Known(v) : Compare(default[d].introduced,
                                                       default[ActiveDefault(v)].introduced) <= 0
                    ELSE \A d \in Defaults : default[d].state = "finalized" =>
                           Compare(default[ActiveDefault(v)].introduced, default[d].introduced) <= 0
  BY DEF ActiveIsLatest
<1> DEFINE a == Active(Introduced(kv_default_queue), v)
           At(i) == default[kv_default_queue[i]].introduced
<1>1. /\ a \in 1..Len(kv_default_queue) /\ ActiveDefault(v) = kv_default_queue[a]
      /\ IF \E i \in 1..Len(kv_default_queue) : Compare(At(i), v) <= 0
         THEN /\ Compare(At(a), v) <= 0
              /\ \A i \in 1..Len(kv_default_queue) : Compare(At(i), v) <= 0 => i <= a
         ELSE a = 1
  BY ActiveIsPlace
<1>2. /\ \A i \in 1..Len(kv_default_queue) : kv_default_queue[i] \in FinalDefaults
      /\ \A d \in FinalDefaults : \E i \in 1..Len(kv_default_queue) : kv_default_queue[i] = d
  BY Queues
<1>3. \A i, j \in 1..Len(kv_default_queue) : i < j => Compare(At(i), At(j)) <= 0
  BY DEF Inv, QueuesHold, InOrder
<1>4. \A i \in 1..Len(kv_default_queue) : At(i) \in Version /\ Compare(At(i), At(i)) = 0
  <2> SUFFICES ASSUME NEW i \in 1..Len(kv_default_queue)
               PROVE  At(i) \in Version /\ Compare(At(i), At(i)) = 0
    OBVIOUS
  <2>1. At(i) \in Version
    BY <1>2, VersionTypes DEF Inv, TypeOK, FinalDefaults
  <2> QED BY <2>1, CompareFacts
<1> HIDE DEF a
<1>5. CASE Known(v) # {}
  <2>1. \E i \in 1..Len(kv_default_queue) : Compare(At(i), v) <= 0
    BY <1>2, <1>5 DEF Known, FinalDefaults
  <2>2. ASSUME NEW d \in Known(v) PROVE Compare(default[d].introduced, At(a)) <= 0
    <3>1. PICK i \in 1..Len(kv_default_queue) : kv_default_queue[i] = d
      BY <1>2 DEF Known, FinalDefaults
    <3>2. i <= a
      BY <1>1, <2>1, <3>1 DEF Known
    <3>3. i < a \/ i = a
      BY <1>1, <3>2
    <3> QED BY <1>1, <1>3, <1>4, <3>1, <3>3
  <2> QED BY <1>1, <1>5, <2>1, <2>2
<1>6. CASE Known(v) = {}
  <2>1. ~ \E i \in 1..Len(kv_default_queue) : Compare(At(i), v) <= 0
    BY <1>2, <1>6 DEF Known, FinalDefaults
  <2>2. ASSUME NEW d \in Defaults, default[d].state = "finalized"
        PROVE  Compare(At(a), default[d].introduced) <= 0
    <3>1. PICK i \in 1..Len(kv_default_queue) : kv_default_queue[i] = d
      BY <1>2, <2>2 DEF FinalDefaults
    <3>2. a < i \/ i = a
      BY <1>1, <2>1
    <3> QED BY <1>1, <1>3, <1>4, <3>1, <3>2
  <2> QED BY <1>1, <1>6, <2>2
<1> QED BY <1>5, <1>6

\* The restrictions of the queue as dx_restriction_entries_value reads them.
LEMMA BoundsOfKeyval ==
  ASSUME Inv, NEW q, q = [i \in DOMAIN kv_restrictions_queue |-> restriction[kv_restrictions_queue[i]]]
  PROVE  IsQueue(q) /\ DOMAIN q = 1..Len(kv_restrictions_queue)
         /\ \A i \in 1..Len(kv_restrictions_queue) : q[i] = restriction[kv_restrictions_queue[i]]
<1>1. DOMAIN kv_restrictions_queue = 1..Len(kv_restrictions_queue)
      /\ \A i \in 1..Len(kv_restrictions_queue) : kv_restrictions_queue[i] \in Restrictions
  BY Queues DEF FinalRestrictions
<1>2. DOMAIN q = 1..Len(kv_restrictions_queue)
      /\ \A i \in 1..Len(kv_restrictions_queue) : q[i] = restriction[kv_restrictions_queue[i]]
  BY <1>1
<1>3. \A r \in Restrictions : restriction[r].introduced \in Version /\ restriction[r].argument \in Nat
  BY VersionTypes, MoldAssumption DEF MoldAssumption, Inv, TypeOK
<1>4. IsQueue(q)
  <2>1. 1..Len(kv_restrictions_queue) \subseteq Nat
    BY Queues
  <2> QED BY <1>1, <1>2, <1>3, <2>1 DEF IsQueue
<1> QED BY <1>2, <1>4

LEMMA InvSound == Inv => ValidKeyvalIsSound
<1> SUFFICES ASSUME Inv, keyval.state = "finalized", ~keyval.invalid
             PROVE
    /\ kv_default_queue # <<>>
    /\ \A i, j \in DOMAIN kv_default_queue :
         i # j => Introduced(kv_default_queue)[i] # Introduced(kv_default_queue)[j]
    /\ \A r, q \in Range(kv_restrictions_queue) :
         r # q /\ restriction[r].type = restriction[q].type =>
           restriction[r].introduced # restriction[q].introduced
    /\ \A v \in AllVersions :
         LET b == KeyvalBounds(v) IN b.max >= 1 => b.min <= b.max
  BY DEF ValidKeyvalIsSound
<1>1. OneOfEach
  BY DEF Inv, ValidHasOneOfEach
<1>2. kv_default_queue # <<>>
  <2>1. PICK d \in FinalDefaults : TRUE
    BY <1>1 DEF OneOfEach
  <2>2. PICK i \in 1..Len(kv_default_queue) : kv_default_queue[i] = d
    BY Queues
  <2> QED BY <2>2
<1>3. ASSUME NEW i \in DOMAIN kv_default_queue, NEW j \in DOMAIN kv_default_queue, i # j
      PROVE  Introduced(kv_default_queue)[i] # Introduced(kv_default_queue)[j]
  <2>1. i \in 1..Len(kv_default_queue) /\ j \in 1..Len(kv_default_queue)
    BY Queues
  <2>2. kv_default_queue[i] # kv_default_queue[j]
    BY <1>3, <2>1, Queues
  <2>3. kv_default_queue[i] \in FinalDefaults /\ kv_default_queue[j] \in FinalDefaults
    BY <2>1, Queues
  <2> QED BY <1>1, <2>1, <2>2, <2>3, Queues DEF OneOfEach
<1>4. Range(kv_restrictions_queue) = FinalRestrictions
  BY Queues DEF Range
<1>5. ASSUME NEW v \in AllVersions, KeyvalBounds(v).max >= 1
      PROVE  KeyvalBounds(v).min <= KeyvalBounds(v).max
  <2> DEFINE q == [i \in DOMAIN kv_restrictions_queue |-> restriction[kv_restrictions_queue[i]]]
  <2>1. IsQueue(q)
    BY BoundsOfKeyval
  <2>2. \E introduced : KeyvalBounds(v) = Bounds(q, introduced, keyval.deprecated, v)
    BY DEF KeyvalBounds
  <2>3. v \in Version
    BY VersionTypes
  <2> HIDE DEF q
  <2> QED BY <1>5, <2>1, <2>2, <2>3, BoundsFacts
<1> QED BY <1>1, <1>2, <1>3, <1>4, <1>5 DEF OneOfEach

LEMMA InvMinimum == Inv => MinimumIsLatestInMajor
<1> SUFFICES ASSUME Inv, keyval.state = "finalized", ~keyval.invalid, NEW v \in AllVersions,
                    \A r \in Given("MIN", v) : restriction[r].introduced[1] = v[1],
                    ~Absent(Introduced(kv_default_queue)[1], keyval.deprecated, v)
             PROVE  LatestMinimumIn(v)
  BY DEF MinimumIsLatestInMajor, LatestMinimumIn
<1> DEFINE q == [i \in DOMAIN kv_restrictions_queue |-> restriction[kv_restrictions_queue[i]]]
           least == Closest(q, "MIN", v)
           given == Given("MIN", v)
<1>1. IsQueue(q) /\ DOMAIN q = 1..Len(kv_restrictions_queue)
      /\ \A i \in 1..Len(kv_restrictions_queue) : q[i] = restriction[kv_restrictions_queue[i]]
  BY BoundsOfKeyval
<1>2. kv_default_queue # <<>>
  <2>1. ValidKeyvalIsSound
    BY InvSound
  <2> QED BY <2>1 DEF ValidKeyvalIsSound
<1>3. KeyvalBounds(v).min = IF least = -1 THEN 1 ELSE least
  BY <1>2 DEF KeyvalBounds, Bounds
<1>4. v \in Version
  BY VersionTypes
<1>5. Range(kv_restrictions_queue) = FinalRestrictions
  BY Queues DEF Range
<1>6. \A i \in Candidates(q, "MIN", v) :
        /\ kv_restrictions_queue[i] \in given /\ q[i] = restriction[kv_restrictions_queue[i]]
  <2> HIDE DEF q
  <2> QED BY <1>1, <1>5, Queues DEF Candidates, Given
<1>7. \A r \in given : \E i \in Candidates(q, "MIN", v) : kv_restrictions_queue[i] = r
  <2> HIDE DEF q
  <2>1. ASSUME NEW r \in given
        PROVE  \E i \in Candidates(q, "MIN", v) : kv_restrictions_queue[i] = r
    <3>1. PICK i \in 1..Len(kv_restrictions_queue) : kv_restrictions_queue[i] = r
      BY <1>5, Queues DEF Given
    <3>2. q[i] = restriction[r]
      BY <1>1, <3>1
    <3>3. i \in Candidates(q, "MIN", v)
      BY <1>1, <3>1, <3>2 DEF Candidates, Given
    <3> QED BY <3>1, <3>3
  <2> QED BY <2>1
<1>8. IF Candidates(q, "MIN", v) = {} THEN least = -1
      ELSE /\ least \in Nat
           /\ \E i \in Candidates(q, "MIN", v) :
                /\ least = q[i].argument
                /\ \A j \in Candidates(q, "MIN", v) :
                     Compare(q[j].introduced, v) <= Compare(q[i].introduced, v)
  <2> HIDE DEF q
  <2> QED BY <1>1, <1>4, ClosestFacts
<1> HIDE DEF q, least
<1>9. CASE Candidates(q, "MIN", v) = {}
  BY <1>3, <1>7, <1>8, <1>9 DEF LatestMinimumIn
<1>10. CASE Candidates(q, "MIN", v) # {}
  <2>1. PICK i \in Candidates(q, "MIN", v) :
          /\ least = q[i].argument
          /\ \A j \in Candidates(q, "MIN", v) :
               Compare(q[j].introduced, v) <= Compare(q[i].introduced, v)
    BY <1>8, <1>10
  <2> DEFINE r == kv_restrictions_queue[i]
  <2>2. r \in given /\ q[i] = restriction[r]
    BY <1>6
  <2>3. KeyvalBounds(v).min = restriction[r].argument
    BY <1>3, <1>8, <1>10, <2>1, <2>2
  <2>4. ASSUME NEW s \in given
        PROVE  Compare(restriction[s].introduced, restriction[r].introduced) <= 0
    <3>1. PICK j \in Candidates(q, "MIN", v) : kv_restrictions_queue[j] = s
      BY <1>7
    <3>2. Compare(restriction[s].introduced, v) <= Compare(restriction[r].introduced, v)
      BY <1>6, <2>1, <2>2, <3>1
    <3>3. restriction[s].introduced \in Version /\ restriction[r].introduced \in Version
      BY <1>5, <2>2, VersionTypes DEF Given, FinalRestrictions, Inv, TypeOK
    <3>4. restriction[s].introduced[1] = v[1] /\ restriction[r].introduced[1] = v[1]
      BY <2>2
    <3> QED BY <1>4, <3>2, <3>3, <3>4 DEF Compare, Version
  <2>5. Latest(given, r)
    BY <2>4 DEF Latest
  <2> QED BY <2>2, <2>3, <2>5 DEF LatestMinimumIn
<1> QED BY <1>9, <1>10
\* An entry that is later than a version changes nothing of what is active
\* for it.
LEMMA SameActive ==
  ASSUME NEW old \in Seq(Version), NEW new \in Seq(Version), Ascending(old), Ascending(new),
         NEW v \in Version, NEW w \in Version, Compare(v, w) < 0,
         NEW p \in 1..(Len(old) + 1), Len(new) = Len(old) + 1,
         \A i \in 1..(Len(old) + 1) :
           \/ i < p /\ i \in 1..Len(old) /\ new[i] = old[i]
           \/ i = p /\ new[i] = w
           \/ i > p /\ i - 1 \in 1..Len(old) /\ i - 1 >= p /\ new[i] = old[i - 1],
         \E i \in 1..Len(old) : Compare(old[i], v) <= 0
  PROVE  Active(new, v) = Active(old, v) /\ Active(old, v) \in 1..Len(old) /\ Active(old, v) < p
<1> DEFINE a == Active(old, v)
           b == Active(new, v)
           n == Len(old)
<1>1. n \in Nat /\ old # <<>> /\ new # <<>> /\ DOMAIN old = 1..n /\ DOMAIN new = 1..(n + 1)
  BY ListFacts
<1>2. /\ a \in 1..n /\ Compare(old[a], v) <= 0
      /\ \A i \in 1..n : Compare(old[i], v) <= 0 => i <= a
  BY <1>1, ActiveFacts
<1>3. (\A i \in 1..n : old[i] \in Version) /\ (\A i \in 1..(n + 1) : new[i] \in Version)
  BY <1>1, ListFacts
<1> HIDE DEF a
<1>4. Compare(old[a], w) < 0 /\ ~(Compare(w, v) <= 0)
  <2>1. Compare(old[a], w) < 0
    BY <1>2, <1>3, CompareFacts
  <2>2. Compare(w, v) > 0 /\ Compare(w, v) \in Int
    BY CompareFacts
  <2> QED BY <2>1, <2>2
<1>5. a < p
  <2> SUFFICES ASSUME p <= a PROVE FALSE
    BY <1>1, <1>2
  <2>1. a + 1 \in 1..(n + 1) /\ a + 1 > p /\ (a + 1) - 1 = a /\ p \in 1..(n + 1)
    BY <1>1, <1>2
  <2>2. new[a + 1] = old[a] /\ new[p] = w
    BY <1>1, <2>1
  <2>3. Compare(w, old[a]) <= 0
    BY <1>1, <2>1, <2>2 DEF Ascending
  <2>4. Compare(w, v) <= 0
    BY <1>2, <1>3, <2>3, CompareFacts
  <2> QED BY <1>4, <2>4
<1>6. a \in 1..(n + 1) /\ new[a] = old[a]
  BY <1>1, <1>2, <1>5
<1>7. /\ b \in 1..(n + 1) /\ Compare(new[b], v) <= 0
      /\ \A i \in 1..(n + 1) : Compare(new[i], v) <= 0 => i <= b
  <2>1. \E i \in 1..Len(new) : Compare(new[i], v) <= 0
    BY <1>2, <1>6
  <2> QED BY <1>1, <2>1, ActiveFacts
<1>8. a <= b
  BY <1>2, <1>6, <1>7
<1> HIDE DEF b
<1>9. b <= a
  <2>1. CASE b < p /\ b \in 1..n /\ new[b] = old[b]
    BY <1>2, <1>7, <2>1
  <2>2. CASE b = p /\ new[b] = w
    BY <1>4, <1>7, <2>2
  <2>3. CASE b > p /\ b - 1 \in 1..n /\ b - 1 >= p /\ new[b] = old[b - 1]
    <3>1. b - 1 <= a
      BY <1>2, <1>7, <2>3
    <3> QED BY <1>1, <1>2, <1>5, <1>7, <2>3, <3>1
  <2> QED BY <1>7, <2>1, <2>2, <2>3
<1>10. a = b
  BY <1>1, <1>2, <1>7, <1>8, <1>9
<1> QED BY <1>2, <1>5, <1>10 DEF a, b

\* What a step can do to the queue of defaults.
DefaultsStay ==
  /\ kv_default_queue' = kv_default_queue
  /\ \A d \in FinalDefaults : default'[d].introduced = default[d].introduced

DefaultCame(d, v) ==
  /\ kv_default_queue' = Enqueued(d, v)
  /\ default[d].state # "finalized"
  /\ default'[d].state = "finalized" /\ default'[d].introduced = v
  /\ \A e \in Defaults \ {d} : default'[e] = default[e]

DefaultsGone == \A d \in Defaults : default'[d].state # "finalized"

LEMMA QueueSteps ==
  ASSUME Careful, Inv, Inv', [Next]_vars
  PROVE  \/ DefaultsStay \/ DefaultsGone
         \/ \E d \in Defaults, v \in AllVersions : DefaultCame(d, v)
<1>1. default \in [Defaults -> DefaultType] /\ FinalDefaults \subseteq Defaults
  BY DEF Inv, TypeOK, DefaultType, FinalDefaults
<1>2. ASSUME NEW d \in Defaults, NEW v \in AllVersions, BeginDefault(d, v) PROVE DefaultsStay
  <2>1. /\ default[d].state = "free" /\ kv_default_queue' = kv_default_queue
        /\ \E new : default' = [default EXCEPT ![d] = new]
    BY <1>2 DEF BeginDefault
  <2> QED BY <1>1, <2>1 DEF DefaultsStay, FinalDefaults
<1>3. ASSUME NEW d \in Defaults, DestroyDefault(d) PROVE DefaultsStay
  <2>1. /\ default[d].state = "constructing" /\ kv_default_queue' = kv_default_queue
        /\ \E new : default' = [default EXCEPT ![d] = new]
    BY <1>3 DEF DestroyDefault, Careful
  <2> QED BY <1>1, <2>1 DEF DefaultsStay, FinalDefaults
\* A default that is enqueued is finalized, since the queue holds no other.
<1>4. ASSUME NEW d \in Defaults, NEW v \in AllVersions, kv_default_queue' = Enqueued(d, v)
      PROVE  default'[d].state = "finalized"
  <2> DEFINE p == Position(Introduced(kv_default_queue), v)
  <2>1. p \in 1..(Len(kv_default_queue) + 1) /\ kv_default_queue \in Seq(Defaults)
    BY EnqueuedFacts DEF Inv, TypeOK
  <2> HIDE DEF p
  <2>2. kv_default_queue' = InsertAt(kv_default_queue, p, d)
    BY <1>4 DEF Enqueued, p
  <2>3. Len(kv_default_queue') = Len(kv_default_queue) + 1 /\ kv_default_queue'[p] = d
    BY <2>1, <2>2, InsertFacts
  <2>4. Holds(kv_default_queue', FinalDefaults')
    BY DEF Inv, QueuesHold
  <2>5. kv_default_queue'[p] \in FinalDefaults'
    BY <2>1, <2>3, <2>4 DEF Holds
  <2> QED BY <2>3, <2>5 DEF FinalDefaults
<1>5. ASSUME NEW d \in Defaults, NEW v \in AllVersions, AddDefault(d, v) PROVE DefaultCame(d, v)
  <2>1. /\ default[d].state = "free" /\ kv_default_queue' = Enqueued(d, v)
        /\ \E state, invalid :
             default' = [default EXCEPT ![d] = [state |-> state, introduced |-> v, invalid |-> invalid]]
    BY <1>5 DEF AddDefault
  <2>2. default'[d].introduced = v /\ \A e \in Defaults \ {d} : default'[e] = default[e]
    BY <1>1, <2>1
  <2> QED BY <1>4, <2>1, <2>2 DEF DefaultCame
<1>6. ASSUME NEW d \in Defaults, FinalizeDefault(d)
      PROVE  \E v \in AllVersions : DefaultCame(d, v)
  <2> DEFINE v == default[d].introduced
  <2>1. v \in AllVersions /\ default[d] \in DefaultType
    BY <1>1 DEF DefaultType
  <2>2. PICK state, invalid :
          default' = [default EXCEPT ![d] = [@ EXCEPT !.state = state, !.invalid = invalid]]
    BY <1>1, <1>6 DEF FinalizeDefault
  <2>3. default[d].state = "constructing" /\ kv_default_queue' = Enqueued(d, v)
    BY <1>6 DEF FinalizeDefault
  <2>4. default'[d].introduced = v /\ \A e \in Defaults \ {d} : default'[e] = default[e]
    BY <1>1, <2>1, <2>2 DEF DefaultType
  <2> HIDE DEF v
  <2> QED BY <1>4, <2>1, <2>3, <2>4 DEF DefaultCame
<1>7. CASE FinalizeKeyval \/ FinalizeMold
  <2>1. CASE MarkChildren /\ kv_default_queue' = kv_default_queue
    BY <1>1, <2>1, MarkFacts DEF Inv, DefaultsStay
  <2>2. CASE default' = default /\ kv_default_queue' = kv_default_queue
    BY <2>2 DEF DefaultsStay
  <2> QED BY <1>7, <2>1, <2>2 DEF FinalizeKeyval, FinalizeMold
<1>8. CASE Restart
  BY <1>8 DEF Restart, NewDefault, DefaultsGone
<1>9. ASSUME default' = default, kv_default_queue' = kv_default_queue PROVE DefaultsStay
  BY <1>9 DEF DefaultsStay
<1>10. ASSUME NEW r \in Restrictions, NEW t \in Types, NEW a \in Arguments, NEW v \in AllVersions,
              BeginRestriction(r, t, a, v)
       PROVE  DefaultsStay
  BY <1>9, <1>10 DEF BeginRestriction
<1>11. ASSUME NEW r \in Restrictions, NEW asAdd \in BOOLEAN, FinalizeRestriction(r, asAdd)
       PROVE  DefaultsStay
  BY <1>9, <1>11 DEF FinalizeRestriction
<1>12. ASSUME NEW r \in Restrictions, DestroyRestriction(r) PROVE DefaultsStay
  BY <1>9, <1>12 DEF DestroyRestriction
<1>13. ASSUME NEW v \in Deprecations, Deprecate(v) PROVE DefaultsStay
  BY <1>9, <1>13 DEF Deprecate
<1>14. CASE UNCHANGED vars
  BY <1>9, <1>14 DEF vars
<1> QED BY <1>2, <1>3, <1>5, <1>6, <1>7, <1>8, <1>10, <1>11, <1>12, <1>13, <1>14 DEF Next

LEMMA KeepsActive ==
  ASSUME Careful, Inv, Inv', [Next]_vars, NEW v \in AllVersions,
         Known(v) # {}, default'[ActiveDefault(v)].state = "finalized",
         \A d \in Defaults :
           default[d].state # "finalized" /\ default'[d].state = "finalized" =>
             Compare(v, default'[d].introduced) < 0
  PROVE  ActiveDefault(v)' = ActiveDefault(v)
<1> DEFINE queue == kv_default_queue
           old == Introduced(queue)
           new == [i \in DOMAIN queue' |-> default'[queue'[i]].introduced]
<1>1. ActiveDefault(v)' = queue'[Active(new, v)] /\ ActiveDefault(v) = queue[Active(old, v)]
  BY DEF ActiveDefault, Introduced
<1>2. /\ queue \in Seq(Defaults) /\ DOMAIN queue = 1..Len(queue) /\ Len(queue) \in Nat
      /\ \A i \in 1..Len(queue) : queue[i] \in FinalDefaults
      /\ old \in Seq(Version) /\ Len(old) = Len(queue) /\ Ascending(old)
      /\ DOMAIN old = 1..Len(queue)
      /\ \A i \in 1..Len(queue) : old[i] = default[queue[i]].introduced
  BY Queues
<1>3. PICK k \in 1..Len(queue) : Compare(old[k], v) <= 0
  <2>1. PICK d \in Known(v) : TRUE
    OBVIOUS
  <2>2. d \in FinalDefaults /\ Compare(default[d].introduced, v) <= 0
    BY DEF Known, FinalDefaults
  <2>3. PICK i \in 1..Len(queue) : queue[i] = d
    BY <2>2, Queues
  <2> QED BY <1>2, <2>2, <2>3
<1>4. CASE DefaultsStay
  <2>1. \A i \in 1..Len(queue) : default'[queue[i]].introduced = old[i]
    BY <1>2, <1>4 DEF DefaultsStay
  <2>2. queue' = queue
    BY <1>4 DEF DefaultsStay
  <2>3. new = [i \in 1..Len(queue) |-> default'[queue[i]].introduced]
    BY <1>2, <2>2
  <2>4. old = [i \in 1..Len(queue) |-> default[queue[i]].introduced]
    BY <1>2 DEF Introduced
  <2>5. new = old
    BY <1>2, <2>1, <2>3, <2>4
  <2> HIDE DEF new, old
  <2> QED BY <1>1, <2>2, <2>5
<1>5. CASE DefaultsGone
  <2>1. queue # <<>>
    BY <1>3
  <2>2. ActiveDefault(v) \in FinalDefaults
    BY <2>1, ActiveIsPlace
  <2> QED BY <1>5, <2>2 DEF DefaultsGone, FinalDefaults
<1>6. ASSUME NEW d \in Defaults, NEW w \in AllVersions, DefaultCame(d, w)
      PROVE  ActiveDefault(v)' = ActiveDefault(v)
  <2>1. default' \in [Defaults -> DefaultType] /\ queue' \in Seq(Defaults)
    BY DEF Inv, TypeOK, DefaultType
  <2>2. PICK p \in 1..(Len(queue) + 1) : EntersAt(queue, p, w, queue')
    <3>1. TypeOK /\ Holds(kv_default_queue, FinalDefaults) /\ InOrder
      BY DEF Inv, QueuesHold
    <3> QED BY <1>6, <2>1, <3>1, EnqueuedInOrder DEF DefaultCame
  <2>3. Compare(v, w) < 0 /\ v \in Version /\ w \in Version
    BY <1>6, VersionTypes DEF DefaultCame
  <2>4. Len(queue') = Len(queue) + 1 /\ DOMAIN queue' = 1..(Len(queue) + 1)
    BY <2>1, <2>2, ListFacts DEF EntersAt
  <2>5. new = [i \in 1..(Len(queue) + 1) |-> default'[queue'[i]].introduced]
    BY <2>4
  <2>6. \A i \in 1..(Len(queue) + 1) : default'[queue'[i]].introduced \in Version
    BY <2>1, <2>4, VersionTypes DEF DefaultType
  <2>7. /\ new \in Seq(Version) /\ Len(new) = Len(queue) + 1 /\ DOMAIN new = 1..(Len(queue) + 1)
        /\ \A i \in 1..(Len(queue) + 1) : new[i] = default'[queue'[i]].introduced
    <3> HIDE DEF queue
    <3> QED BY <1>2, <2>5, <2>6
  <2> HIDE DEF new
  <2>8. Ascending(new)
    BY <2>4, <2>7 DEF Inv, QueuesHold, InOrder, Ascending
  <2>9. \A i \in 1..(Len(old) + 1) :
           \/ i < p /\ i \in 1..Len(old) /\ new[i] = old[i]
           \/ i = p /\ new[i] = w
           \/ i > p /\ i - 1 \in 1..Len(old) /\ i - 1 >= p /\ new[i] = old[i - 1]
    BY <1>2, <2>2, <2>7 DEF EntersAt
  <2>10. Active(new, v) = Active(old, v) /\ Active(old, v) \in 1..Len(old) /\ Active(old, v) < p
    <3> HIDE DEF old
    <3> QED BY <1>2, <1>3, <2>3, <2>7, <2>8, <2>9, SameActive
  <2>11. queue'[Active(old, v)] = queue[Active(old, v)]
    <3> DEFINE a == Active(old, v)
    <3>1. a \in 1..(Len(queue) + 1) /\ a < p
      BY <1>2, <2>10
    <3> HIDE DEF a
    <3>2. \A i \in 1..(Len(queue) + 1) : i < p => queue'[i] = queue[i]
      BY <2>2 DEF EntersAt
    <3> QED BY <3>1, <3>2 DEF a
  <2> QED BY <1>1, <2>10, <2>11
<1> QED BY <1>4, <1>5, <1>6, QueueSteps
----------------------------------------------------------------------------
(* THEOREMS                                                                *)

\* Every variable has its type, whatever the client does.
THEOREM TypeCorrect == Spec => []TypeOK
BY TypeInit, TypeNext, PTL DEF Spec

(* Every step of a careful client keeps the invariant.                      *)
THEOREM InvHolds ==
  ASSUME Careful
  PROVE  Spec => []Inv
<1>1. Inv /\ [Next]_vars => Inv'
  BY InvNext
<1> QED BY InvInit, <1>1, PTL DEF Spec

(* The queues of a keyval hold what is finalized, each once, the defaults  *)
(* in order, whatever was added, refused and destroyed before.             *)
THEOREM QueuesSound ==
  ASSUME Careful
  PROVE  Spec => []QueuesHoldFinalized
<1> QED BY InvHolds, InvHoldsFinalized, PTL

(* dx_mold_update_version: no default and no restriction is later than the *)
(* version of the mold.                                                    *)
THEOREM VersionIsCover ==
  ASSUME Careful
  PROVE  Spec => []VersionCovers
<1> QED BY InvHolds, InvCovers, PTL

(* dx_default_get_active: the default found for a version is the one its   *)
(* header promises.                                                        *)
THEOREM ActiveFound ==
  ASSUME Careful
  PROVE  Spec => []ActiveIsLatest
<1> QED BY InvHolds, InvActive, PTL

(* validate_context_validity: a keyval that passes gives every version a   *)
(* default and numbers of entries that can be met, however it was built    *)
(* and with what is added to it afterwards.                                *)
THEOREM ValidSound ==
  ASSUME Careful
  PROVE  Spec => []ValidKeyvalIsSound
<1> QED BY InvHolds, InvSound, PTL

(* dx_restriction_entries_value: the minimum introduced last counts while  *)
(* major versions agree.                                                   *)
THEOREM LatestMinimum ==
  ASSUME Careful
  PROVE  Spec => []MinimumIsLatestInMajor
<1> QED BY InvHolds, InvMinimum, PTL

(* dx_default_finalize: a default that is added changes nothing for the    *)
(* versions before its own.                                                *)
THEOREM OldVersionsSettled ==
  ASSUME Careful
  PROVE  Spec => OldVersionsKeepDefault
<1>1. ASSUME Inv, Inv', [Next]_vars
      PROVE  [\A v \in AllVersions :
                /\ Known(v) # {} /\ default'[ActiveDefault(v)].state = "finalized"
                /\ \A d \in Defaults :
                     default[d].state # "finalized" /\ default'[d].state = "finalized" =>
                       Compare(v, default'[d].introduced) < 0
                => ActiveDefault(v)' = ActiveDefault(v)]_vars
  BY <1>1, KeepsActive
<1>2. Inv /\ [Next]_vars => Inv'
  BY InvNext
<1> QED BY InvInit, <1>1, <1>2, PTL DEF Spec, OldVersionsKeepDefault
=============================================================================
