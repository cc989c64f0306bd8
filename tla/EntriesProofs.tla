--------------------------- MODULE EntriesProofs ---------------------------
(* Theorems about Entries, for every mold whose elements are built as      *)
(* IsElement says.                                                         *)
EXTENDS Entries, DataFacts

\* The entries of an element that a mold allows a config of the version.
Within(e, v, given) ==
  /\ Fits(e, v, Len(given))
  /\ \A i \in DOMAIN given : ~Refused(e, v, given[i].value)

NoneMarked(given) == \A i \in DOMAIN given : ~given[i].invalid

\* A config that was not begun is empty.
Unbuilt ==
  config.state = "none" =>
    entries = [e \in Elements |-> <<>>] /\ child = None /\ checked = NoVersion

(* While a config counts as valid nothing in it is marked: a marked entry  *)
(* would take any value.                                                   *)
Unmarked ==
  checked # NoVersion => config.state = "finalized" /\ checked = version /\ NoneInvalid(entries)

\* ValidStaysWithinMold, as validate_inclusive_restrictions tests it
AllWithin == checked # NoVersion => \A e \in Elements : Within(e, version, entries[e])

Inv == TypeOK /\ Unbuilt /\ Unmarked /\ AllWithin
----------------------------------------------------------------------------
LEMMA ElementFacts ==
  ASSUME mold \in Molds, NEW e \in Elements
  PROVE  /\ IsQueue(mold[e].restrictions)
         /\ mold[e].defaults \in Seq([value : Values, introduced : AllVersions])
         /\ mold[e].defaults # <<>>
         /\ Introduced(e) \in Seq(Version) /\ Introduced(e) # <<>>
         /\ Len(Introduced(e)) = Len(mold[e].defaults)
         /\ \A i \in 1..Len(mold[e].defaults) :
              /\ mold[e].defaults[i] \in [value : Values, introduced : AllVersions]
              /\ Introduced(e)[i] = mold[e].defaults[i].introduced
         /\ AllVersions \subseteq Version /\ NoVersion \notin AllVersions
<1>1. IsElement(mold[e]) /\ AllVersions \subseteq ((Nat \ {0}) \X Nat)
  BY EntriesAssumption DEF EntriesAssumption
<1>2. AllVersions \subseteq Version /\ NoVersion \notin AllVersions
  BY <1>1 DEF Version, NoVersion
<1>3. IsQueue(mold[e].restrictions)
  BY <1>1, <1>2 DEF IsElement, IsQueue
<1> DEFINE defaults == mold[e].defaults
<1>4. defaults \in Seq([value : Values, introduced : AllVersions]) /\ defaults # <<>>
  BY <1>1 DEF IsElement
<1>5. Introduced(e) = [i \in 1..Len(defaults) |-> defaults[i].introduced]
  BY <1>4 DEF Introduced
<1> HIDE DEF defaults
<1>6. /\ Len(defaults) \in Nat /\ Len(defaults) # 0
      /\ \A i \in 1..Len(defaults) : defaults[i] \in [value : Values, introduced : AllVersions]
  BY <1>4, ListFacts
<1>7. Introduced(e) \in Seq(Version) /\ Len(Introduced(e)) = Len(defaults)
  <2>1. \A i \in 1..Len(defaults) : defaults[i].introduced \in Version
    BY <1>2, <1>6
  <2> QED BY <1>5, <1>6, <2>1
<1>8. Introduced(e) # <<>>
  BY <1>6, <1>7
<1> QED BY <1>2, <1>3, <1>4, <1>5, <1>6, <1>7, <1>8 DEF defaults

LEMMA BoundsOfFacts ==
  ASSUME mold \in Molds, NEW e \in Elements, NEW v \in AllVersions
  PROVE  LET b == BoundsOf(e, v) IN
         /\ b.min \in Nat /\ b.max \in Int
         /\ b.max = -1 => b.min = 0
         /\ b.max >= 1 => b.min <= b.max
         /\ b.max >= -1
<1>1. IsQueue(mold[e].restrictions) /\ v \in Version
  BY ElementFacts
<1> QED BY <1>1, BoundsFacts DEF BoundsOf

(* dc_keyval_set_default and the generation find a default of the mold.    *)
LEMMA ValueFacts ==
  ASSUME mold \in Molds, NEW e \in Elements, NEW v \in AllVersions
  PROVE  Value(e, v) \in Values
<1>1. Active(Introduced(e), v) \in 1..Len(mold[e].defaults)
  BY ElementFacts, ActiveFacts
<1> QED BY <1>1, ElementFacts DEF Value

LEMMA WithinIsAllowed == ASSUME TypeOK PROVE ValidStaysWithinMold <=> AllWithin
<1>1. ASSUME NEW e \in Elements
      PROVE  Within(e, version, entries[e]) <=>
               LET b == BoundsOf(e, version) IN
               /\ b.max = -1 => entries[e] = <<>>
               /\ b.max > 0 => Len(entries[e]) <= b.max
               /\ \A i \in DOMAIN entries[e] : ~Refused(e, version, entries[e][i].value)
  <2>1. entries[e] \in Seq(Entry) /\ BoundsOf(e, version).max \in Int
    BY BoundsOfFacts DEF TypeOK
  <2>2. Len(entries[e]) \in Nat /\ (Len(entries[e]) > 0 <=> entries[e] # <<>>)
    BY <2>1
  <2> QED BY <2>1, <2>2 DEF Within, Fits
<1> QED BY <1>1 DEF ValidStaysWithinMold, AllWithin

\* What the mold says stays, as it does.
LEMMA SameMold ==
  ASSUME mold' = mold
  PROVE  \A e, v, given : /\ Within(e, v, given)' <=> Within(e, v, given)
                          /\ BoundsOf(e, v)' = BoundsOf(e, v)
                          /\ Value(e, v)' = Value(e, v)
<1>1. \A e, v : BoundsOf(e, v)' = BoundsOf(e, v)
  BY DEF BoundsOf, Introduced
<1>2. \A e, v, x : Refused(e, v, x)' <=> Refused(e, v, x)
  BY DEF Refused
<1> QED BY <1>1, <1>2 DEF Within, Fits, Value, Introduced
----------------------------------------------------------------------------
(* dc_finalize of a config: it counts as valid when it is.                 *)
LEMMA FinalizedFacts ==
  ASSUME mold \in Molds, mold' = mold, NEW v \in AllVersions, version' = v,
         NEW given \in [Elements -> Seq(Entry)], Finalized(v, given)
  PROVE  /\ entries' \in [Elements -> Seq(Entry)]
         /\ config' \in [state : {"finalized"}, invalid : BOOLEAN]
         /\ checked' \in {v, NoVersion}
         /\ \A e \in Elements : Len(entries'[e]) = Len(given[e])
         /\ \A e \in Elements : \A i \in DOMAIN entries'[e] :
              entries'[e][i].invalid <=> Refused(e, v, entries'[e][i].value)
         /\ checked' # NoVersion =>
              NoneInvalid(entries') /\ \A e \in Elements : Within(e, v, entries'[e])
<1>1. /\ entries' = Revalidated(v, given)
      /\ config' = [state |-> "finalized", invalid |-> ~InclusiveHolds(v, given)]
      /\ checked' = IF InclusiveHolds(v, given) /\ NoneInvalid(entries') THEN v ELSE NoVersion
  BY DEF Finalized
<1>2. ASSUME NEW e \in Elements
      PROVE  /\ entries'[e] \in Seq(Entry) /\ Len(entries'[e]) = Len(given[e])
             /\ \A i \in DOMAIN entries'[e] :
                  entries'[e][i].invalid <=> Refused(e, v, entries'[e][i].value)
  <2>1. entries'[e] = [i \in DOMAIN given[e] |->
                        [value |-> given[e][i].value, invalid |-> Refused(e, v, given[e][i].value)]]
    BY <1>1 DEF Revalidated
  <2>2. /\ given[e] \in Seq(Entry) /\ DOMAIN given[e] = 1..Len(given[e])
        /\ Len(given[e]) \in Nat
    OBVIOUS
  <2>3. \A i \in 1..Len(given[e]) : given[e][i].value \in Values
    <3>1. \A i \in 1..Len(given[e]) : given[e][i] \in Entry
      BY <2>2
    <3> QED BY <3>1 DEF Entry
  <2>4. \A i \in 1..Len(given[e]) : Refused(e, v, given[e][i].value) \in BOOLEAN
    BY DEF Refused
  <2>5. ASSUME NEW i \in 1..Len(given[e])
        PROVE  /\ entries'[e][i] \in Entry
               /\ entries'[e][i].invalid = Refused(e, v, entries'[e][i].value)
    <3>1. entries'[e][i] = [value |-> given[e][i].value,
                            invalid |-> Refused(e, v, given[e][i].value)]
      BY <2>1, <2>2
    <3>2. given[e][i].value \in Values
      BY <2>3
    <3>3. Refused(e, v, given[e][i].value) \in BOOLEAN
      BY <2>4
    <3> HIDE <2>1
    <3> QED BY <3>1, <3>2, <3>3 DEF Entry
  <2> QED BY <2>1, <2>2, <2>5
<1>3. entries' \in [Elements -> Seq(Entry)]
  BY <1>1, <1>2 DEF Revalidated
<1>4. checked' # NoVersion => InclusiveHolds(v, given) /\ NoneInvalid(entries')
  BY <1>1
<1>5. checked' # NoVersion => \A e \in Elements : Within(e, v, entries'[e])
  BY <1>2, <1>4 DEF Within, InclusiveHolds, NoneInvalid
<1>6. InclusiveHolds(v, given) \in BOOLEAN
  BY DEF InclusiveHolds
<1> QED BY <1>1, <1>2, <1>3, <1>4, <1>5, <1>6
----------------------------------------------------------------------------
(* generate_config_from_mold_recursive_step                                *)

\* The entries that are added for an element.
Added(e, v, state, given) ==
  [i \in 1..Stored(e, v, state, given) |->
     [value |-> Value(e, v), invalid |-> Refused(e, v, Value(e, v))]]

\* Below a finalized config as many as there is room for.
LEMMA Room ==
  ASSUME NEW min \in Nat, NEW max \in Int, NEW len \in Nat, NEW n,
         n = IF max = 0 THEN min ELSE Min({min, Max({0, max - len})})
  PROVE  n \in Nat /\ (max # 0 /\ n > 0 => len + n <= max)
<1>1. PICK room \in Int : room = max - len
  OBVIOUS
<1>2. Max({0, room}) = IF 0 <= room THEN room ELSE 0
  <2>1. PICK zero \in Int : zero = 0
    OBVIOUS
  <2>2. Max({zero, room}) = IF zero <= room THEN room ELSE zero
    BY <1>1, OfTwo
  <2> QED BY <2>1, <2>2
<1>3. PICK free \in Nat : free = Max({0, room}) /\ (free > 0 => free = room)
  BY <1>2
<1>4. Min({min, free}) = IF min <= free THEN min ELSE free
  BY OfTwo
<1>5. n = IF max = 0 THEN min ELSE Min({min, free})
  BY <1>1, <1>3
<1> QED BY <1>1, <1>3, <1>4, <1>5

LEMMA StoredFacts ==
  ASSUME mold \in Molds, NEW e \in Elements, NEW v \in AllVersions,
         NEW state \in {"constructing", "finalized"}, NEW given \in [Elements -> Seq(Entry)],
         NEW b, b = BoundsOf(e, v), NEW n, n = Stored(e, v, state, given),
         NEW wrong, wrong = Refused(e, v, Value(e, v))
  PROVE  /\ n \in Nat
         /\ state = "constructing" => n = IF wrong /\ b.min > 0 THEN 1 ELSE b.min
         /\ state = "finalized" /\ n > 0 => ~wrong
         /\ state = "finalized" /\ n > 0 /\ Fits(e, v, Len(given[e])) =>
              Fits(e, v, Len(given[e]) + n)
<1>1. b.min \in Nat /\ b.max \in Int /\ (b.max = -1 => b.min = 0) /\ b.max >= -1
  BY BoundsOfFacts
<1>2. Len(given[e]) \in Nat
  OBVIOUS
<1>3. wrong \in BOOLEAN
  BY DEF Refused
<1>4. CASE state = "constructing"
  <2>1. n = IF wrong THEN Min({1, b.min}) ELSE b.min
    BY <1>4 DEF Stored
  <2>2. Min({1, b.min}) = IF 1 <= b.min THEN 1 ELSE b.min
    BY <1>1, OfTwo
  <2> QED BY <1>1, <1>3, <1>4, <2>1, <2>2
<1>5. CASE state = "finalized" /\ wrong
  BY <1>5 DEF Stored
<1>6. CASE state = "finalized" /\ ~wrong
  <2>1. n = IF b.max = 0 THEN b.min ELSE Min({b.min, Max({0, b.max - Len(given[e])})})
    BY <1>6 DEF Stored
  <2>2. n \in Nat /\ (b.max # 0 /\ n > 0 => Len(given[e]) + n <= b.max)
    BY <1>1, <1>2, <2>1, Room
  <2>3. n > 0 => Fits(e, v, Len(given[e]) + n)
    BY <1>1, <1>2, <2>2 DEF Fits
  <2> QED BY <1>6, <2>2, <2>3
<1> QED BY <1>3, <1>4, <1>5, <1>6

LEMMA GeneratedFacts ==
  ASSUME mold \in Molds, NEW v \in AllVersions, NEW state \in {"constructing", "finalized"},
         NEW given \in [Elements -> Seq(Entry)], NEW e \in Elements,
         NEW list, list = Generated(v, state, given)[e]
  PROVE  /\ list \in Seq(Entry)
         /\ list = given[e] \/ list = given[e] \o Added(e, v, state, given)
         /\ state = "finalized" /\ Within(e, v, given[e]) => Within(e, v, list)
         /\ state = "finalized" /\ NoneMarked(given[e]) => NoneMarked(list)
<1> DEFINE n == Stored(e, v, state, given)
           entry == [value |-> Value(e, v), invalid |-> Refused(e, v, Value(e, v))]
           added == [i \in 1..n |-> entry]
<1>1. list = given[e] \/ list = given[e] \o added
  BY DEF Generated
<1>2. n \in Nat /\ (state = "finalized" /\ n > 0 => ~Refused(e, v, Value(e, v)))
  BY StoredFacts
<1>3. entry \in Entry
  <2>1. Value(e, v) \in Values
    BY ValueFacts
  <2>2. Refused(e, v, Value(e, v)) \in BOOLEAN
    BY DEF Refused
  <2> QED BY <2>1, <2>2 DEF Entry
<1>4. entry.value = Value(e, v) /\ entry.invalid = Refused(e, v, Value(e, v))
  OBVIOUS
<1>5. added = Added(e, v, state, given)
  BY DEF Added
<1>6. given[e] \in Seq(Entry)
  OBVIOUS
<1> DEFINE both == given[e] \o added
<1>7. /\ both \in Seq(Entry) /\ Len(both) = Len(given[e]) + n
      /\ \A i \in 1..Len(both) :
           \/ i \in 1..Len(given[e]) /\ both[i] = given[e][i]
           \/ both[i] = entry /\ n > 0
  <2> HIDE DEF entry
  <2>1. added \in Seq(Entry) /\ Len(added) = n /\ \A i \in 1..n : added[i] = entry
    BY <1>2, <1>3
  <2> HIDE DEF added, n
  <2>2. /\ both \in Seq(Entry) /\ Len(both) = Len(given[e]) + Len(added)
        /\ \A i \in 1..Len(both) :
             \/ i \in 1..Len(given[e]) /\ both[i] = given[e][i]
             \/ i - Len(given[e]) \in 1..Len(added) /\ both[i] = added[i - Len(given[e])]
    BY <1>6, <2>1, JoinFacts
  <2> HIDE DEF both
  <2>3. ASSUME NEW i \in 1..Len(both), i - Len(given[e]) \in 1..n
        PROVE  added[i - Len(given[e])] = entry /\ n > 0
    BY <1>2, <2>1, <2>3
  <2> QED BY <2>1, <2>2, <2>3
<1>8. state = "finalized" /\ Within(e, v, given[e]) => Within(e, v, both)
  <2> SUFFICES ASSUME state = "finalized", Within(e, v, given[e]) PROVE Within(e, v, both)
    OBVIOUS
  <2>1. Fits(e, v, Len(both))
    <3>1. n > 0 => Fits(e, v, Len(given[e]) + n)
      BY StoredFacts DEF Within
    <3>2. n = 0 => Len(both) = Len(given[e])
      BY <1>6, <1>7
    <3> QED BY <1>2, <1>7, <3>1, <3>2 DEF Within
  <2>2. ASSUME NEW i \in DOMAIN both PROVE ~Refused(e, v, both[i].value)
    <3> HIDE DEF both, entry
    <3>1. i \in 1..Len(both)
      BY <1>7
    <3> QED BY <1>2, <1>4, <1>6, <1>7, <3>1 DEF Within
  <2> QED BY <2>1, <2>2 DEF Within
<1>9. state = "finalized" /\ NoneMarked(given[e]) => NoneMarked(both)
  <2> HIDE DEF both, entry
  <2> QED BY <1>2, <1>4, <1>6, <1>7 DEF NoneMarked
<1> HIDE DEF both
<1> QED BY <1>1, <1>5, <1>6, <1>7, <1>8, <1>9 DEF both
----------------------------------------------------------------------------
LEMMA InvInit == Init => Inv
<1> SUFFICES ASSUME Init PROVE Inv
  OBVIOUS
<1>1. Compare(<<1, 0>>, Latest) <= 0
  BY EntriesAssumption DEF EntriesAssumption, Compare
<1>2. TypeOK
  BY <1>1, EntriesAssumption DEF EntriesAssumption, Init, TypeOK
<1> QED BY <1>2 DEF Init, Inv, Unbuilt, Unmarked, AllWithin

\* What is left to show of a step below a config that was begun.
LEMMA InvStep ==
  ASSUME Inv, mold' = mold, TypeOK', config'.state # "none",
         checked' # NoVersion =>
           /\ config'.state = "finalized" /\ checked' = version' /\ NoneInvalid(entries')
           /\ \A e \in Elements : Within(e, version', entries'[e])
  PROVE  Inv'
<1>1. \A e \in Elements : Within(e, version, entries[e])' <=> Within(e, version', entries'[e])
  BY SameMold DEF Within, Fits, BoundsOf, Introduced, Refused
<1>2. AllWithin'
  BY <1>1 DEF AllWithin
<1>3. Unbuilt' /\ Unmarked'
  BY DEF Unbuilt, Unmarked, NoneInvalid
<1> QED BY <1>2, <1>3 DEF Inv

LEMMA InvFinalized ==
  ASSUME Inv, NEW v \in AllVersions, Compare(v, Latest) <= 0, mold' = mold, version' = v,
         child' = child, NEW given \in [Elements -> Seq(Entry)], Finalized(v, given)
  PROVE  Inv'
<1>1. mold \in Molds
  BY DEF Inv, TypeOK
<1>2. /\ entries' \in [Elements -> Seq(Entry)]
      /\ config' \in [state : {"finalized"}, invalid : BOOLEAN]
      /\ checked' \in {v, NoVersion}
      /\ checked' # NoVersion =>
           NoneInvalid(entries') /\ \A e \in Elements : Within(e, v, entries'[e])
  BY <1>1, FinalizedFacts
<1>3. TypeOK'
  BY <1>2 DEF Inv, TypeOK
<1> QED BY <1>2, <1>3, InvStep

(* A value is set that is allowed, or in an entry that is marked, or the   *)
(* config does not count as valid any more.                                *)
LEMMA InvSet ==
  ASSUME Inv, NEW e \in Elements, NEW i \in DOMAIN entries[e], NEW x \in Values,
         entries' = [entries EXCEPT ![e][i].value = x],
         checked' = NoVersion \/ (checked' = checked /\ (entries[e][i].invalid \/ ~Refused(e, version, x))),
         UNCHANGED <<mold, config, version, child>>
  PROVE  Inv'
<1>1. /\ mold \in Molds /\ version \in AllVersions /\ checked' \in AllVersions \cup {NoVersion}
      /\ entries \in [Elements -> Seq(Entry)] /\ entries[e] \in Seq(Entry)
      /\ DOMAIN entries[e] = 1..Len(entries[e]) /\ entries[e][i] \in Entry
      /\ entries[e] # <<>>
  <2>1. entries[e] \in Seq(Entry)
    BY DEF Inv, TypeOK
  <2>2. DOMAIN entries[e] = 1..Len(entries[e]) /\ entries[e][i] \in Entry /\ entries[e] # <<>>
    BY <2>1
  <2> QED BY <2>1, <2>2 DEF Inv, TypeOK
<1>2. /\ entries'[e] = [entries[e] EXCEPT ![i].value = x]
      /\ \A f \in Elements : f # e => entries'[f] = entries[f]
  BY <1>1
<1>3. /\ entries'[e] \in Seq(Entry) /\ Len(entries'[e]) = Len(entries[e])
      /\ DOMAIN entries'[e] = DOMAIN entries[e]
      /\ \A j \in DOMAIN entries[e] : j # i => entries'[e][j] = entries[e][j]
      /\ entries'[e][i].value = x /\ entries'[e][i].invalid = entries[e][i].invalid
  <2>1. [entries[e][i] EXCEPT !.value = x] \in Entry
    BY <1>1 DEF Entry
  <2>2. /\ [entries[e][i] EXCEPT !.value = x].value = x
        /\ [entries[e][i] EXCEPT !.value = x].invalid = entries[e][i].invalid
    BY <1>1 DEF Entry
  <2>3. entries'[e] = [entries[e] EXCEPT ![i] = [entries[e][i] EXCEPT !.value = x]]
    BY <1>2
  <2>4. PICK new \in Entry : new = [entries[e][i] EXCEPT !.value = x]
    BY <2>1
  <2>5. entries'[e] = [entries[e] EXCEPT ![i] = new]
    BY <2>3, <2>4
  <2>6. /\ entries'[e] \in Seq(Entry) /\ Len(entries'[e]) = Len(entries[e])
        /\ DOMAIN entries'[e] = DOMAIN entries[e] /\ entries'[e][i] = new
        /\ \A j \in DOMAIN entries[e] : j # i => entries'[e][j] = entries[e][j]
    BY <1>1, <2>5
  <2> QED BY <2>2, <2>4, <2>6
<1>4. TypeOK' /\ config.state # "none"
  <2>1. entries' \in [Elements -> Seq(Entry)]
    BY <1>1, <1>2, <1>3
  <2>2. config.state # "none"
    BY <1>1 DEF Inv, Unbuilt
  <2> QED BY <1>1, <2>1, <2>2 DEF Inv, TypeOK
<1>5. ASSUME checked' # NoVersion
      PROVE  /\ checked # NoVersion /\ NoneInvalid(entries')
             /\ \A f \in Elements : Within(f, version, entries'[f])
  <2>1. /\ checked # NoVersion /\ \A f \in Elements : Within(f, version, entries[f])
        /\ \A f \in Elements : \A j \in DOMAIN entries[f] : ~entries[f][j].invalid
        /\ ~Refused(e, version, x)
    BY <1>5 DEF Inv, Unmarked, AllWithin, NoneInvalid
  <2>2. /\ Within(e, version, entries'[e])
        /\ \A j \in DOMAIN entries'[e] : ~entries'[e][j].invalid
    BY <1>3, <2>1 DEF Within
  <2> QED BY <1>2, <2>1, <2>2 DEF NoneInvalid
<1> QED BY <1>4, <1>5, InvStep DEF Inv, Unmarked

LEMMA InvNext == Inv /\ [Next]_vars => Inv'
<1> SUFFICES ASSUME Inv, [Next]_vars PROVE Inv'
  OBVIOUS
<1>0. /\ mold \in Molds /\ version \in AllVersions /\ Compare(version, Latest) <= 0
      /\ entries \in [Elements -> Seq(Entry)]
      /\ config \in [state : {"none", "constructing", "finalized"}, invalid : BOOLEAN]
      /\ child \in [element : Elements, value : Values] \cup {None}
      /\ checked \in AllVersions \cup {NoVersion}
      /\ \A v \in AllVersions : Compare(Latest, v) >= 0 => Compare(v, Latest) <= 0
      /\ \A e \in Elements : entries[e] \in Seq(Entry) /\ DOMAIN entries[e] = 1..Len(entries[e])
  <2>1. Latest \in Version /\ AllVersions \subseteq Version
    BY EntriesAssumption DEF EntriesAssumption, Version
  <2>2. \A v \in AllVersions : Compare(Latest, v) >= 0 => Compare(v, Latest) <= 0
    BY <2>1 DEF Compare, Version
  <2> QED BY <2>2 DEF Inv, TypeOK
<1>1. CASE ConfigBegin
  <2>1. config' = [state |-> "constructing", invalid |-> FALSE] /\ checked' = NoVersion
        /\ UNCHANGED <<mold, version, entries, child>>
    BY <1>1 DEF ConfigBegin, Inv, Unbuilt
  <2>2. TypeOK'
    BY <1>0, <2>1 DEF TypeOK
  <2> QED BY <2>1, <2>2, InvStep
<1>2. CASE ConfigFinalize
  BY <1>0, <1>2, InvFinalized DEF ConfigFinalize
<1>3. CASE GenerateRoot
  <2>1. /\ entries' = Generated(version, config.state, entries)
        /\ config.state \in {"constructing", "finalized"}
        /\ UNCHANGED <<mold, config, version, child, checked>>
    BY <1>0, <1>3 DEF GenerateRoot
  <2>2. \A e \in Elements : entries'[e] \in Seq(Entry)
    BY <1>0, <2>1, GeneratedFacts
  <2>3. entries' \in [Elements -> Seq(Entry)]
    BY <2>1, <2>2 DEF Generated
  <2>4. TypeOK'
    BY <1>0, <2>1, <2>3 DEF TypeOK
  <2>5. ASSUME checked # NoVersion
        PROVE  NoneInvalid(entries') /\ \A e \in Elements : Within(e, version, entries'[e])
    <3>1. /\ config.state = "finalized"
          /\ \A e \in Elements : Within(e, version, entries[e]) /\ NoneMarked(entries[e])
      BY <2>5 DEF Inv, Unmarked, AllWithin, NoneInvalid, NoneMarked
    <3>2. \A e \in Elements : Within(e, version, entries'[e]) /\ NoneMarked(entries'[e])
      BY <1>0, <2>1, <3>1, GeneratedFacts
    <3> QED BY <3>2 DEF NoneInvalid, NoneMarked
  <2> QED BY <2>1, <2>4, <2>5, InvStep DEF Inv, Unmarked
<1>4. CASE FinalizeChild
  <2> DEFINE e == child.element
             ok == Accepts(child.element, child.value)
             new == [value |-> child.value, invalid |-> ~ok]
  <2>1. /\ child # None /\ (ok \/ config.state = "constructing")
        /\ entries' = [entries EXCEPT ![e] = Append(@, new)] /\ child' = None
        /\ UNCHANGED <<mold, config, version, checked>> /\ config.state # "none"
    BY <1>4 DEF FinalizeChild, Inv, Unbuilt
  <2>2. e \in Elements /\ new \in Entry /\ new.value = child.value /\ new.invalid = ~ok
    <3>1. ok \in BOOLEAN
      BY DEF Accepts
    <3> QED BY <1>0, <2>1, <3>1 DEF Entry
  <2>3. /\ entries'[e] = Append(entries[e], new)
        /\ \A f \in Elements : f # e => entries'[f] = entries[f]
    BY <1>0, <2>1, <2>2
  <2> HIDE DEF new, ok, e
  <2>4. /\ entries'[e] \in Seq(Entry) /\ Len(entries'[e]) = Len(entries[e]) + 1
        /\ \A i \in 1..Len(entries'[e]) :
             \/ i \in 1..Len(entries[e]) /\ entries'[e][i] = entries[e][i]
             \/ entries'[e][i] = new
    BY <1>0, <2>2, <2>3
  <2>5. TypeOK'
    <3>1. entries' \in [Elements -> Seq(Entry)]
      BY <1>0, <2>1, <2>2, <2>3, <2>4
    <3> QED BY <1>0, <2>1, <3>1 DEF TypeOK
  <2>6. ASSUME checked # NoVersion
        PROVE  NoneInvalid(entries') /\ \A f \in Elements : Within(f, version, entries'[f])
    <3>1. /\ config.state = "finalized" /\ \A f \in Elements : Within(f, version, entries[f])
          /\ \A f \in Elements : \A i \in DOMAIN entries[f] : ~entries[f][i].invalid
      BY <2>6 DEF Inv, Unmarked, AllWithin, NoneInvalid
    <3>2. ok /\ ~TooMany(e) /\ ~Refused(e, version, new.value)
      <4>1. ok
        BY <2>1, <3>1
      <4> QED BY <2>2, <3>1, <4>1 DEF ok, Accepts, e
    <3>3. Fits(e, version, Len(entries'[e]))
      <4>1. BoundsOf(e, version).max \in Int /\ BoundsOf(e, version).max >= -1
        BY <1>0, <2>2, BoundsOfFacts
      <4>2. Len(entries[e]) \in Nat
        BY <1>0, <2>2
      <4> QED BY <2>4, <3>2, <4>1, <4>2 DEF Fits, TooMany
    <3>4. ASSUME NEW i \in 1..Len(entries'[e])
          PROVE  ~entries'[e][i].invalid /\ ~Refused(e, version, entries'[e][i].value)
      BY <1>0, <2>2, <2>4, <3>1, <3>2 DEF Within
    <3>5. Within(e, version, entries'[e]) /\ \A i \in DOMAIN entries'[e] : ~entries'[e][i].invalid
      BY <2>4, <3>3, <3>4 DEF Within
    <3> QED BY <2>3, <3>1, <3>5 DEF NoneInvalid
  <2> QED BY <2>1, <2>5, <2>6, InvStep DEF Inv, Unmarked
<1>5. CASE DestroyChild
  <2>1. child # None /\ child' = None /\ UNCHANGED <<mold, config, version, entries, checked>>
    BY <1>5 DEF DestroyChild
  <2>2. TypeOK' /\ config.state # "none"
    BY <1>0, <2>1 DEF TypeOK, Inv, Unbuilt
  <2> QED BY <2>1, <2>2, InvStep DEF Inv, Unmarked, AllWithin
<1>6. ASSUME NEW v \in AllVersions, SetVersion(v) PROVE Inv'
  <2>1. /\ config.state # "none" /\ version' = v /\ Compare(v, Latest) <= 0
        /\ checked' = (IF v = version THEN checked ELSE NoVersion)
        /\ UNCHANGED <<mold, config, entries, child>>
    BY <1>0, <1>6 DEF SetVersion
  <2>2. TypeOK'
    BY <1>0, <2>1 DEF TypeOK
  <2> QED BY <2>1, <2>2, InvStep DEF Inv, Unmarked, AllWithin
<1>7. ASSUME NEW v \in AllVersions, Generate(v) PROVE Inv'
  <2>1. /\ version' = v /\ Compare(v, Latest) <= 0 /\ UNCHANGED <<mold, child>>
        /\ Finalized(v, Generated(v, "constructing", entries))
    BY <1>0, <1>7 DEF Generate
  <2>2. \A e \in Elements : Generated(v, "constructing", entries)[e] \in Seq(Entry)
    BY <1>0, GeneratedFacts
  <2>3. Generated(v, "constructing", entries) \in [Elements -> Seq(Entry)]
    BY <2>2 DEF Generated
  <2> QED BY <2>1, <2>3, InvFinalized
<1>8. ASSUME NEW e \in Elements, NEW x \in Values, BeginChild(e, x) PROVE Inv'
  <2>1. /\ config.state # "none" /\ child' = [element |-> e, value |-> x]
        /\ UNCHANGED <<mold, config, version, entries, checked>>
    BY <1>8 DEF BeginChild
  <2>2. TypeOK'
    BY <1>0, <2>1 DEF TypeOK
  <2> QED BY <2>1, <2>2, InvStep DEF Inv, Unmarked, AllWithin
<1>9. ASSUME NEW e \in Elements, NEW i \in DOMAIN entries[e], RemoveEntry(e, i) PROVE Inv'
  <2>1. /\ entries' = [entries EXCEPT ![e] = RemoveAt(@, i)]
        /\ UNCHANGED <<mold, config, version, child, checked>>
    BY <1>9 DEF RemoveEntry
  <2>2. /\ entries'[e] \in Seq(Entry) /\ Len(entries'[e]) = Len(entries[e]) - 1
        /\ \A j \in 1..Len(entries'[e]) :
             \E k \in 1..Len(entries[e]) : entries'[e][j] = entries[e][k]
        /\ \A f \in Elements : f # e => entries'[f] = entries[f]
    <3>1. entries'[e] = RemoveAt(entries[e], i) /\ \A f \in Elements : f # e => entries'[f] = entries[f]
      BY <1>0, <2>1
    <3>2. entries[e] \in Seq(Entry) /\ i \in 1..Len(entries[e])
      BY <1>0
    <3> DEFINE new == RemoveAt(entries[e], i)
    <3>3. /\ new \in Seq(Entry) /\ Len(new) = Len(entries[e]) - 1
          /\ \A j \in 1..Len(new) : \E k \in 1..Len(entries[e]) : new[j] = entries[e][k]
      BY <3>2, RemoveFacts
    <3> HIDE DEF new
    <3> QED BY <3>1, <3>3 DEF new
  <2>3. TypeOK' /\ config.state # "none"
    <3>1. entries' \in [Elements -> Seq(Entry)]
      BY <1>0, <2>1, <2>2
    <3>2. config.state # "none"
      BY <1>9 DEF Inv, Unbuilt
    <3> QED BY <1>0, <2>1, <3>1, <3>2 DEF TypeOK
  <2>4. ASSUME checked # NoVersion
        PROVE  NoneInvalid(entries') /\ \A f \in Elements : Within(f, version, entries'[f])
    <3>1. /\ \A f \in Elements : Within(f, version, entries[f])
          /\ \A f \in Elements : \A j \in DOMAIN entries[f] : ~entries[f][j].invalid
      BY <2>4 DEF Inv, Unmarked, AllWithin, NoneInvalid
    <3>2. Fits(e, version, Len(entries'[e]))
      <4>1. BoundsOf(e, version).max \in Int /\ Len(entries[e]) \in Nat
        BY <1>0, BoundsOfFacts
      <4>2. Len(entries'[e]) \in Nat /\ Len(entries'[e]) <= Len(entries[e])
        BY <2>2, <4>1
      <4> QED BY <3>1, <4>1, <4>2 DEF Within, Fits
    <3>3. ASSUME NEW j \in 1..Len(entries'[e])
          PROVE  ~entries'[e][j].invalid /\ ~Refused(e, version, entries'[e][j].value)
      BY <1>0, <2>2, <3>1 DEF Within
    <3>4. Within(e, version, entries'[e]) /\ \A j \in DOMAIN entries'[e] : ~entries'[e][j].invalid
      <4>1. DOMAIN entries'[e] = 1..Len(entries'[e])
        BY <2>2
      <4> QED BY <3>2, <3>3, <4>1 DEF Within
    <3> QED BY <2>2, <3>1, <3>4 DEF NoneInvalid
  <2> QED BY <2>1, <2>3, <2>4, InvStep DEF Inv, Unmarked
<1>10. ASSUME NEW e \in Elements, NEW i \in DOMAIN entries[e], NEW x \in Values, SetValue(e, i, x)
       PROVE  Inv'
  <2>1. /\ entries' = [entries EXCEPT ![e][i].value = x]
        /\ entries[e][i].invalid \/ ~Refused(e, version, x)
        /\ UNCHANGED <<mold, config, version, child, checked>>
    BY <1>10 DEF SetValue, Settable
  <2> QED BY <2>1, InvSet
<1>11. ASSUME NEW e \in Elements, NEW i \in DOMAIN entries[e], NEW v \in AllVersions,
              SetDefault(e, i, v)
       PROVE  Inv'
  <2>1. /\ entries' = [entries EXCEPT ![e][i].value = Value(e, v)]
        /\ checked' = (IF Refused(e, version, Value(e, v)) THEN NoVersion ELSE checked)
        /\ UNCHANGED <<mold, config, version, child>>
    BY <1>11 DEF SetDefault
  <2>2. Value(e, v) \in Values
    BY <1>0, ValueFacts
  <2>3. checked' = NoVersion \/ (checked' = checked /\ ~Refused(e, version, Value(e, v)))
    <3>1. CASE Refused(e, version, Value(e, v))
      BY <2>1, <3>1
    <3>2. CASE ~Refused(e, version, Value(e, v))
      BY <2>1, <3>2
    <3> QED BY <3>1, <3>2
  <2> HIDE <1>11
  <2> QED BY <2>1, <2>2, <2>3, InvSet
<1>12. CASE UNCHANGED vars
  BY <1>12, SameMold DEF vars, Inv, TypeOK, Unbuilt, Unmarked, AllWithin, NoneInvalid
<1> QED BY <1>1, <1>2, <1>3, <1>4, <1>5, <1>6, <1>7, <1>8, <1>9, <1>10, <1>11, <1>12 DEF Next
----------------------------------------------------------------------------
(* dc_config_finalize: the marks and the report are of what is there.      *)
LEMMA ReportFacts ==
  ASSUME mold \in Molds, mold' = mold, NEW v \in AllVersions, version' = v,
         NEW given \in [Elements -> Seq(Entry)], Finalized(v, given)
  PROVE  /\ ReportsValid' <=>
              /\ \A e \in Elements : Len(given[e]) >= BoundsOf(e, v).min /\ Fits(e, v, Len(given[e]))
              /\ \A e \in Elements : \A i \in DOMAIN given[e] : ~Refused(e, v, given[e][i].value)
         /\ ReportsValid' <=> Meets(version)'
<1>1. /\ entries' \in [Elements -> Seq(Entry)]
      /\ \A e \in Elements : Len(entries'[e]) = Len(given[e])
      /\ \A e \in Elements : \A i \in DOMAIN entries'[e] :
           entries'[e][i].invalid <=> Refused(e, v, entries'[e][i].value)
  BY FinalizedFacts
<1>2. config'.invalid = ~InclusiveHolds(v, given) /\ entries' = Revalidated(v, given)
  BY DEF Finalized
<1>3. \A e \in Elements : \A i \in DOMAIN given[e] :
        i \in DOMAIN entries'[e] /\ entries'[e][i].value = given[e][i].value
  BY <1>2 DEF Revalidated
<1>4. \A e \in Elements : DOMAIN entries'[e] = DOMAIN given[e]
  BY <1>2 DEF Revalidated
<1>5. NoneInvalid(entries)' <=>
        \A e \in Elements : \A i \in DOMAIN entries'[e] : ~Refused(e, v, entries'[e][i].value)
  BY <1>1 DEF NoneInvalid
<1>6. ReportsValid' <=>
        /\ \A e \in Elements :
             Len(entries'[e]) >= BoundsOf(e, v).min /\ Fits(e, v, Len(entries'[e]))
        /\ \A e \in Elements : \A i \in DOMAIN entries'[e] : ~Refused(e, v, entries'[e][i].value)
  BY <1>1, <1>2, <1>5 DEF ReportsValid, InclusiveHolds
<1>7. ASSUME NEW e \in Elements
      PROVE  Len(entries'[e]) >= BoundsOf(e, v).min /\ Fits(e, v, Len(entries'[e])) <=>
               /\ BoundsOf(e, v).min <= Len(entries'[e])
               /\ BoundsOf(e, v).max = -1 => entries'[e] = <<>>
               /\ BoundsOf(e, v).max > 0 => Len(entries'[e]) <= BoundsOf(e, v).max
  <2>1. entries'[e] \in Seq(Entry) /\ BoundsOf(e, v).max \in Int /\ BoundsOf(e, v).min \in Nat
    BY <1>1, BoundsOfFacts
  <2>2. Len(entries'[e]) \in Nat /\ (Len(entries'[e]) > 0 <=> entries'[e] # <<>>)
    BY <2>1
  <2> QED BY <2>1, <2>2 DEF Fits
<1>8. Meets(version)' <=>
        \A e \in Elements :
          /\ BoundsOf(e, v).min <= Len(entries'[e])
          /\ BoundsOf(e, v).max = -1 => entries'[e] = <<>>
          /\ BoundsOf(e, v).max > 0 => Len(entries'[e]) <= BoundsOf(e, v).max
          /\ \A i \in DOMAIN entries'[e] : ~Refused(e, v, entries'[e][i].value)
  BY DEF Meets, BoundsOf, Introduced, Refused
<1>9. ReportsValid' <=> Meets(version)'
  BY <1>6, <1>7, <1>8
<1>10. ReportsValid' <=>
        /\ \A e \in Elements : Len(given[e]) >= BoundsOf(e, v).min /\ Fits(e, v, Len(given[e]))
        /\ \A e \in Elements : \A i \in DOMAIN given[e] : ~Refused(e, v, given[e][i].value)
  BY <1>1, <1>3, <1>4, <1>6
<1> QED BY <1>9, <1>10

(* A step that finalizes the config is dc_config_finalize or the last one  *)
(* of disir_generate_config_from_mold.                                     *)
LEMMA FinalizingSteps ==
  ASSUME Next, config'.state = "finalized", config.state # "finalized"
  PROVE  \/ ConfigFinalize
         \/ config.state = "none" /\ \E v \in AllVersions : Generate(v)
  BY DEF Next, ConfigBegin, GenerateRoot, FinalizeChild, DestroyChild, SetVersion, Generate,
         BeginChild, RemoveEntry, SetValue, SetDefault

LEMMA GenerateFacts ==
  ASSUME Inv, NEW v \in AllVersions, Generate(v)
  PROVE  LET given == Generated(v, "constructing", entries) IN
         /\ given \in [Elements -> Seq(Entry)] /\ Finalized(v, given)
         /\ mold \in Molds /\ mold' = mold /\ version' = v
         /\ entries \in [Elements -> Seq(Entry)] /\ \A e \in Elements : entries[e] = <<>>
<1>1. /\ mold \in Molds /\ entries \in [Elements -> Seq(Entry)]
      /\ \A e \in Elements : entries[e] = <<>>
  BY DEF Inv, TypeOK, Unbuilt, Generate
<1>2. \A e \in Elements : Generated(v, "constructing", entries)[e] \in Seq(Entry)
  BY <1>1, GeneratedFacts
<1>3. Generated(v, "constructing", entries) \in [Elements -> Seq(Entry)]
  BY <1>2 DEF Generated
<1> QED BY <1>1, <1>3 DEF Generate

(* The default that dx_default_get_active finds for an element the version *)
(* has is the latest, and no other is.                                     *)
LEMMA LatestFacts ==
  ASSUME mold \in Molds, NEW e \in Elements, NEW v \in AllVersions, BoundsOf(e, v).min > 0
  PROVE  ~Refused(e, v, Value(e, v)) <=>
           \E default \in Range(mold[e].defaults) :
             IsLatestDefault(e, v, default) /\ ~Refused(e, v, default.value)
<1> DEFINE defaults == mold[e].defaults
           queue == Introduced(e)
           a == Active(queue, v)
<1>1. /\ queue \in Seq(Version) /\ queue # <<>> /\ v \in Version /\ Len(queue) = Len(defaults)
      /\ Len(queue) \in Nat /\ Len(queue) # 0
      /\ defaults \in Seq([value : Values, introduced : AllVersions])
      /\ \A i \in 1..Len(defaults) : queue[i] = defaults[i].introduced /\ queue[i] \in Version
      /\ DOMAIN defaults = 1..Len(defaults)
  <2>1. /\ queue \in Seq(Version) /\ queue # <<>> /\ v \in Version /\ Len(queue) = Len(defaults)
        /\ defaults \in Seq([value : Values, introduced : AllVersions])
        /\ \A i \in 1..Len(defaults) : queue[i] = defaults[i].introduced
    BY ElementFacts
  <2> HIDE DEF defaults, queue
  <2>2. Len(queue) \in Nat /\ Len(queue) # 0 /\ \A i \in 1..Len(queue) : queue[i] \in Version
    BY <2>1, ListFacts
  <2>3. DOMAIN defaults = 1..Len(defaults)
    BY <2>1
  <2> QED BY <2>1, <2>2, <2>3
<1>2. \A i, j \in 1..Len(queue) : i < j => Compare(queue[i], queue[j]) < 0
  <2>1. IsElement(mold[e])
    BY EntriesAssumption DEF EntriesAssumption
  <2>2. \A i, j \in DOMAIN defaults :
          i < j => Compare(defaults[i].introduced, defaults[j].introduced) < 0
    BY <2>1 DEF IsElement
  <2> HIDE DEF defaults, queue
  <2> QED BY <1>1, <2>2
<1>3. Compare(queue[1], v) <= 0
  <2>1. ~Absent(queue[1], mold[e].deprecated, v)
    BY DEF BoundsOf, Bounds
  <2>2. Compare(queue[1], v) \in Int
    BY <1>1, CompareFacts
  <2> QED BY <2>1, <2>2 DEF Absent
<1>4. Value(e, v) = defaults[a].value
  BY DEF Value
<1> HIDE DEF defaults, queue, a
<1>5. Ascending(queue)
  <2>1. \A i \in 1..Len(queue) : Compare(queue[i], queue[i]) = 0
    BY <1>1, CompareFacts
  <2>2. \A i, j \in 1..Len(queue) : Compare(queue[i], queue[j]) \in Int
    BY <1>1, CompareFacts
  <2> QED BY <1>1, <1>2, <2>1, <2>2 DEF Ascending
<1>6. /\ a \in 1..Len(queue) /\ Compare(queue[a], v) <= 0
      /\ \A i \in 1..Len(queue) : Compare(queue[i], v) <= 0 => i <= a
  <2>1. a \in 1..Len(queue)
    BY <1>1, ActiveFacts DEF a
  <2>2. \E i \in 1..Len(queue) : Compare(queue[i], v) <= 0
    BY <1>1, <1>3
  <2> QED BY <1>1, <1>5, <2>1, <2>2, ActiveFacts DEF a
<1>7. IsLatestDefault(e, v, defaults[a]) /\ defaults[a] \in Range(defaults)
  <2>1. \A i \in 1..Len(defaults) : Compare(queue[i], v) <= 0 => Compare(queue[i], queue[a]) <= 0
    <3>1. Compare(queue[a], queue[a]) = 0 /\ a \in Nat /\ DOMAIN queue = 1..Len(queue)
      BY <1>1, <1>6, CompareFacts
    <3>2. ASSUME NEW i \in 1..Len(queue), Compare(queue[i], v) <= 0
          PROVE  Compare(queue[i], queue[a]) <= 0
      <4>1. i < a \/ i = a
        BY <1>1, <1>6, <3>1, <3>2
      <4> QED BY <1>2, <1>5, <1>6, <3>1, <4>1 DEF Ascending
    <3> QED BY <1>1, <3>2
  <2>2. defaults[a] \in Range(defaults) /\
        \A other \in Range(defaults) : \E i \in 1..Len(defaults) : other = defaults[i]
    BY <1>1, <1>6 DEF Range
  <2>3. \A other \in Range(defaults) : Compare(other.introduced, v) <= 0 =>
          Compare(other.introduced, defaults[a].introduced) <= 0
    BY <1>1, <1>6, <2>1, <2>2
  <2> QED BY <1>1, <1>6, <2>2, <2>3 DEF IsLatestDefault, defaults
<1>8. ASSUME NEW default \in Range(defaults), IsLatestDefault(e, v, default)
      PROVE  default = defaults[a]
  <2>1. PICK i \in 1..Len(defaults) : default = defaults[i]
    BY <1>1 DEF Range
  <2>2. Compare(queue[i], v) <= 0 /\ Compare(queue[a], queue[i]) <= 0
    <3>1. Compare(defaults[i].introduced, v) <= 0
      BY <1>8, <2>1 DEF IsLatestDefault
    <3>2. Compare(defaults[a].introduced, v) <= 0
      BY <1>1, <1>6
    <3>3. Compare(defaults[a].introduced, defaults[i].introduced) <= 0
      BY <1>7, <1>8, <2>1, <3>2 DEF IsLatestDefault, defaults
    <3> QED BY <1>1, <1>6, <2>1, <3>1, <3>3
  <2>3. i <= a
    BY <1>1, <1>6, <2>1, <2>2
  <2>4. ~(i < a)
    <3> SUFFICES ASSUME i < a PROVE FALSE
      OBVIOUS
    <3>1. Compare(queue[i], queue[a]) < 0
      BY <1>1, <1>2, <1>6, <2>1
    <3>2. queue[i] \in Version /\ queue[a] \in Version
      BY <1>1, <1>6, <2>1
    <3>3. /\ Compare(queue[a], queue[i]) \in Int /\ Compare(queue[i], queue[a]) \in Int
          /\ Compare(queue[a], queue[i]) > 0 <=> Compare(queue[i], queue[a]) < 0
      BY <3>2, CompareFacts
    <3> QED BY <2>2, <3>1, <3>3
  <2>5. i = a
    BY <1>1, <1>6, <2>1, <2>3, <2>4
  <2> QED BY <2>1, <2>5
<1> QED BY <1>4, <1>7, <1>8 DEF defaults

(* A generated config is valid if no default it needs is refused: the      *)
(* first that is refused is stored all the same, and marked.               *)
LEMMA GeneratedReports ==
  ASSUME Inv, NEW v \in AllVersions, Generate(v)
  PROVE  ReportsValid' <=>
           \A e \in Elements : BoundsOf(e, v).min > 0 => ~Refused(e, v, Value(e, v))
<1> DEFINE given == Generated(v, "constructing", entries)
           n(e) == Stored(e, v, "constructing", entries)
           wrong(e) == Refused(e, v, Value(e, v))
           stops == {e \in Elements :
                       BoundsOf(e, v).min > 0 /\ (wrong(e) \/ n(e) < BoundsOf(e, v).min)}
<1>1. /\ given \in [Elements -> Seq(Entry)] /\ Finalized(v, given)
      /\ mold \in Molds /\ mold' = mold /\ version' = v
      /\ entries \in [Elements -> Seq(Entry)] /\ \A e \in Elements : entries[e] = <<>>
  BY GenerateFacts
<1>2. ReportsValid' <=>
        /\ \A e \in Elements : Len(given[e]) >= BoundsOf(e, v).min /\ Fits(e, v, Len(given[e]))
        /\ \A e \in Elements : \A i \in DOMAIN given[e] : ~Refused(e, v, given[e][i].value)
  BY <1>1, ReportFacts
<1>3. ASSUME NEW e \in Elements
      PROVE  /\ n(e) \in Nat /\ BoundsOf(e, v).min \in Nat
             /\ n(e) = IF wrong(e) /\ BoundsOf(e, v).min > 0 THEN 1 ELSE BoundsOf(e, v).min
             /\ e \in stops <=> BoundsOf(e, v).min > 0 /\ wrong(e)
  <2>1. PICK b : b = BoundsOf(e, v)
    OBVIOUS
  <2>2. b.min \in Nat
    BY <1>1, <2>1, BoundsOfFacts
  <2>3. n(e) \in Nat /\ n(e) = IF wrong(e) /\ b.min > 0 THEN 1 ELSE b.min
    BY <1>1, <2>1, StoredFacts
  <2> HIDE DEF n, wrong
  <2> QED BY <2>1, <2>2, <2>3
<1>4. ASSUME NEW e \in Elements, \A stop \in stops : e <= stop
      PROVE  /\ Len(given[e]) = n(e)
             /\ \A i \in 1..n(e) : given[e][i].value = Value(e, v)
  <2> DEFINE added == [i \in 1..n(e) |-> [value |-> Value(e, v), invalid |-> wrong(e)]]
  <2>1. given[e] = entries[e] \o added
    BY <1>4 DEF Generated
  <2>2. n(e) \in Nat /\ entries[e] = <<>>
    BY <1>1, <1>3
  <2> HIDE DEF n, wrong, given
  <2>3. Len(added) = n(e) /\ <<>> \o added = added
    BY <2>2
  <2> QED BY <2>1, <2>2, <2>3
<1>5. ASSUME \A e \in Elements : BoundsOf(e, v).min > 0 => ~wrong(e)
      PROVE  ReportsValid'
  <2>1. stops = {}
    BY <1>3, <1>5
  <2>2. ASSUME NEW e \in Elements
        PROVE  /\ Len(given[e]) >= BoundsOf(e, v).min /\ Fits(e, v, Len(given[e]))
               /\ \A i \in DOMAIN given[e] : ~Refused(e, v, given[e][i].value)
    <3>1. n(e) = BoundsOf(e, v).min /\ n(e) \in Nat /\ (n(e) > 0 => ~wrong(e))
      BY <1>3, <1>5
    <3>2. Len(given[e]) = n(e) /\ \A i \in 1..n(e) : given[e][i].value = Value(e, v)
      BY <1>4, <2>1
    <3>3. /\ BoundsOf(e, v).max \in Int
          /\ BoundsOf(e, v).max = -1 => BoundsOf(e, v).min = 0
          /\ BoundsOf(e, v).max >= 1 => BoundsOf(e, v).min <= BoundsOf(e, v).max
      BY <1>1, BoundsOfFacts
    <3>4. DOMAIN given[e] = 1..Len(given[e])
      BY <1>1
    <3> HIDE DEF n, given, stops
    <3>5. Fits(e, v, Len(given[e]))
      BY <3>1, <3>2, <3>3 DEF Fits
    <3>6. ASSUME NEW i \in 1..n(e) PROVE ~Refused(e, v, given[e][i].value)
      BY <3>1, <3>2
    <3> QED BY <3>1, <3>2, <3>4, <3>5, <3>6
  <2> QED BY <1>2, <2>2
<1>6. ASSUME NEW f \in Elements, BoundsOf(f, v).min > 0, wrong(f) PROVE ~ReportsValid'
  <2>1. stops \subseteq Nat /\ stops # {}
    <3>1. Elements \subseteq Nat
      <4>1. Cardinality(Elements) \in Nat
        BY EntriesAssumption, FS_CardinalityType DEF EntriesAssumption
      <4> QED BY <4>1, EntriesAssumption DEF EntriesAssumption
    <3> QED BY <1>3, <1>6, <3>1
  <2>2. PICK e \in stops : \A stop \in stops : e <= stop
    BY <2>1, Least
  <2>3. e \in Elements /\ BoundsOf(e, v).min > 0 /\ wrong(e) /\ n(e) = 1
    BY <1>3, <2>2
  <2>4. Len(given[e]) = 1 /\ \A i \in 1..1 : given[e][i].value = Value(e, v)
    BY <1>4, <2>2, <2>3
  <2>5. 1 \in DOMAIN given[e] /\ given[e][1].value = Value(e, v)
    BY <1>1, <2>3, <2>4
  <2> QED BY <1>2, <2>3, <2>5
<1> QED BY <1>5, <1>6
----------------------------------------------------------------------------
\* The types are right.
THEOREM TypeCorrect == Spec => []TypeOK
<1>1. Inv => TypeOK
  BY DEF Inv
<1> QED BY <1>1, InvInit, InvNext, PTL DEF Spec

(* A config that was valid when finalized, and has kept its version since, *)
(* has at no time more entries than its mold allows, nor one that holds a  *)
(* refused value: dx_restriction_exclusive_value_check is passed by for an *)
(* entry marked invalid only, and in such a config none is.                *)
THEOREM StaysWithin == Spec => []ValidStaysWithinMold
<1>1. Inv => ValidStaysWithinMold
  BY WithinIsAllowed DEF Inv
<1> QED BY <1>1, InvInit, InvNext, PTL DEF Spec

(* Whatever was set, removed, marked or moved to another version before,   *)
(* dc_config_finalize reports valid exactly what meets the mold.           *)
THEOREM FinalizeReports == Spec => FinalizeReportsTruth
<1>1. ASSUME Inv, [Next]_vars
      PROVE  [config'.state = "finalized" /\ config.state # "finalized" =>
                (ReportsValid' <=> Meets(version)')]_vars
  <2> SUFFICES ASSUME Next, config'.state = "finalized", config.state # "finalized"
               PROVE  ReportsValid' <=> Meets(version)'
    BY <1>1
  <2>1. CASE ConfigFinalize
    <3>1. /\ mold \in Molds /\ mold' = mold /\ version \in AllVersions /\ version' = version
          /\ entries \in [Elements -> Seq(Entry)] /\ Finalized(version, entries)
      BY <1>1, <2>1 DEF ConfigFinalize, Inv, TypeOK
    <3> QED BY <3>1, ReportFacts
  <2>2. ASSUME NEW v \in AllVersions, Generate(v) PROVE ReportsValid' <=> Meets(version)'
    BY <1>1, <2>2, GenerateFacts, ReportFacts
  <2> QED BY <2>1, <2>2, FinalizingSteps
<1> QED BY <1>1, InvInit, InvNext, PTL DEF Spec, FinalizeReportsTruth

(* disir_generate_config_from_mold gives a valid config unless the default *)
(* of an element that the version demands is a value the mold refuses.     *)
THEOREM GeneratedValid == Spec => GeneratedIsValid
<1>1. ASSUME Inv, [Next]_vars
      PROVE  [config.state = "none" /\ config'.state = "finalized" =>
                (ReportsValid' <=>
                   \A e \in Elements : BoundsOf(e, version').min > 0 =>
                     \E default \in Range(mold[e].defaults) :
                       /\ IsLatestDefault(e, version', default)
                       /\ ~Refused(e, version', default.value))]_vars
  <2> SUFFICES ASSUME Next, config.state = "none", config'.state = "finalized"
               PROVE  ReportsValid' <=>
                        \A e \in Elements : BoundsOf(e, version').min > 0 =>
                          \E default \in Range(mold[e].defaults) :
                            /\ IsLatestDefault(e, version', default)
                            /\ ~Refused(e, version', default.value)
    BY <1>1
  <2>1. PICK v \in AllVersions : Generate(v)
    BY FinalizingSteps DEF ConfigFinalize
  <2>2. mold \in Molds /\ version' = v
    BY <1>1, <2>1, GenerateFacts
  <2>3. ReportsValid' <=>
          \A e \in Elements : BoundsOf(e, v).min > 0 => ~Refused(e, v, Value(e, v))
    BY <1>1, <2>1, GeneratedReports
  <2> QED BY <2>2, <2>3, LatestFacts
<1> QED BY <1>1, InvInit, InvNext, PTL DEF Spec, GeneratedIsValid
=============================================================================
