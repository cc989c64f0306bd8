---------------------------- MODULE UpdateProofs ----------------------------
(* Theorems about Update and UpdateWithChanges, for every mold, every      *)
(* number of versions and any order of the calls.                          *)
EXTENDS UpdateWithChanges, WellFoundedInduction, TLAPS

\* Every nonempty set of naturals has a least element.
LEMMA Least ==
  ASSUME NEW T, T \subseteq Nat, T # {}
  PROVE  \E m \in T : \A k \in T : m <= k
<1> DEFINE R == OpToRel(<, Nat)
<1>1. IsWellFoundedOn(R, Nat)
  BY NatLessThanWellFounded
<1>2. \A x, y \in Nat : x < y => <<x, y>> \in R
  BY DEF OpToRel
<1> HIDE DEF R
<1>3. PICK m \in T : \A k \in T : ~(<<k, m>> \in R)
  BY <1>1, WFMin
<1>4. \A k \in T : ~(k < m)
  BY <1>2, <1>3
<1>5. \A k \in T : m <= k
  BY <1>4
<1> QED BY <1>5

\* And a greatest one if it is bounded: the least distance from the bound is its.
LEMMA Greatest ==
  ASSUME NEW T, T \subseteq Nat, T # {}, NEW b \in Nat, \A k \in T : k <= b
  PROVE  \E m \in T : \A k \in T : k <= m
<1> DEFINE D == {b - k : k \in T}
<1>1. D \subseteq Nat /\ D # {}
  <2>1. ASSUME NEW k \in T PROVE b - k \in Nat
    <3>1. k \in Nat /\ k <= b
      OBVIOUS
    <3> QED BY <3>1
  <2> QED BY <2>1
<1>2. PICK d \in D : \A e \in D : d <= e
  BY <1>1, Least
<1>3. PICK m \in T : d = b - m
  OBVIOUS
<1>4. ASSUME NEW k \in T PROVE k <= m
  <2>1. b - k \in D
    OBVIOUS
  <2>2. d <= b - k
    BY <1>2, <2>1
  <2>3. b \in Nat /\ k \in Nat /\ m \in Nat
    BY <1>3
  <2> QED BY <1>3, <2>2, <2>3
<1> QED BY <1>4
----------------------------------------------------------------------------

(* A config of keyvals of different names and no sections: what is needed  *)
(* to prove more than that chosen values stay.  With a section, the        *)
(* keyvals after it are not updated; with two keyvals of one name, a       *)
(* resolution reaches the first.                                           *)
FlatAndNamed ==
  /\ \A k \in Keyvals : Section[k] = Root
  /\ \A k, l \in Keyvals : Name[k] = Name[l] => k = l

(* An update that is under way goes up, and one that was successful has    *)
(* nothing left to do.                                                     *)
Phases ==
  target # None => \/ version \in Nat /\ version < target
                   \/ Successful /\ ahead = {} /\ conflict = None

\* The keyvals an update under way has dealt with.
Ahead == {Order[i] : i \in ahead}
Passed == Keyvals \ (Ahead \cup {conflict})

(* Nobody's value is taken for the default of the version, of the old one  *)
(* where the update still has to go and of the new one where it was.       *)
NobodysAreDefault ==
  \A k \in Keyvals \ mine : value[k] # None =>
    IF target = None \/ Successful \/ k \in Ahead
    THEN Untouched(k) ELSE Same(k, value[k], Active(k, target))

\* What the update still has to go to is in the config.
AheadAreHeld == \A i \in ahead : value[Order[i]] # None

\* A conflict is about a value that somebody chose,
ConflictIsChosen == conflict # None => conflict \in mine /\ value[conflict] # None

\* and so is an answer.
AnsweredAreChosen ==
  \A k \in Keyvals : answer[k] # None => target # None /\ k \in mine

(* Of the keyvals an update has passed, those it can tell from a newer     *)
(* default were answered.                                                  *)
PassedAreSettled ==
  target # None /\ ~Successful =>
    \A k \in Passed : value[k] # None /\ Newer(k, target) =>
      Same(k, value[k], Active(k, target)) \/ answer[k] # None

(* The target config has the keyvals that the mold demands.                *)
ResultIsGenerated ==
  target # None => \A k \in Keyvals \ Generated : result[k] = None

Inv ==
  /\ TypeOK /\ Phases /\ NobodysAreDefault /\ AheadAreHeld /\ ConflictIsChosen
  /\ AnsweredAreChosen /\ PassedAreSettled /\ ResultIsGenerated /\ ResolutionsAreStored
----------------------------------------------------------------------------
(* dx_default_get_active finds a default of the mold.                      *)
LEMMA IntroducedFacts ==
  ASSUME mold \in Molds, NEW k \in Keyvals, NEW v \in Nat
  PROVE  /\ Introduced(k, v) \in DOMAIN mold.default[k] /\ Introduced(k, v) \in Nat
         /\ Introduced(k, v) <= v => \A i \in DOMAIN mold.default[k] :
                                       i <= v => i <= Introduced(k, v)
         /\ \A i \in DOMAIN mold.default[k] : i <= v => Introduced(k, v) <= v
<1> DEFINE all == DOMAIN mold.default[k]
           early == {i \in all : i <= v}
<1>1. all \subseteq Nat /\ all # {}
  <2>1. PICK V \in (SUBSET Versions) \ {{}} : mold.default[k] \in [V -> Values]
    BY UpdateAssumption DEF UpdateAssumption, WellFormed
  <2>2. all = V /\ V \subseteq Versions /\ V # {}
    BY <2>1
  <2> QED BY <2>2, UpdateAssumption DEF UpdateAssumption
<1> HIDE DEF all
<1>2. CASE early # {}
  <2>1. early \subseteq Nat /\ \A i \in early : i <= v
    BY <1>1
  <2>2. \E i \in early : \A j \in early : j <= i
    BY <1>2, <2>1, Greatest
  <2>3. Introduced(k, v) = CHOOSE i \in early : \A j \in early : j <= i
    BY <1>2 DEF Introduced, all
  <2>4. Introduced(k, v) \in early /\ \A j \in early : j <= Introduced(k, v)
    BY <2>2, <2>3
  <2> QED BY <1>1, <2>4 DEF all
<1>3. CASE early = {}
  <2>1. \E i \in all : \A j \in all : i <= j
    BY <1>1, Least
  <2>2. Introduced(k, v) = CHOOSE i \in all : \A j \in all : i <= j
    BY <1>3 DEF Introduced, all
  <2>3. Introduced(k, v) \in all
    BY <2>1, <2>2
  <2> QED BY <1>1, <1>3, <2>3 DEF all
<1> QED BY <1>2, <1>3

LEMMA ActiveIsValue ==
  ASSUME mold \in Molds, NEW k \in Keyvals, NEW v \in Nat
  PROVE  Active(k, v) \in Values /\ Active(k, v) # None
<1>1. PICK V \in (SUBSET Versions) \ {{}} : mold.default[k] \in [V -> Values]
  BY UpdateAssumption DEF UpdateAssumption, WellFormed
<1>2. Introduced(k, v) \in V
  BY <1>1, IntroducedFacts
<1> QED BY <1>1, <1>2, UpdateAssumption DEF Active, UpdateAssumption

(* dx_value_compare finds nothing of a keyval that is not there, and every *)
(* value equal to itself.                                                  *)
LEMMA SameFacts ==
  ASSUME NEW k \in Keyvals, NEW v, NEW d, d # None
  PROVE  Same(k, v, v) /\ ~Same(k, None, d)
<1>1. <<None, d>> \notin Close
  <2>1. Close \subseteq Values \X Values /\ None \notin Values
    BY UpdateAssumption DEF UpdateAssumption
  <2> QED BY <2>1
<1> QED BY <1>1 DEF Same

LEMMA RereadIsValue ==
  ASSUME NEW k \in Keyvals, NEW v \in Values
  PROVE  Reread(k, v) \in Values /\ Reread(k, v) # None
BY UpdateAssumption DEF Reread, UpdateAssumption

(* Where the mold did not change its mind, the default stays the same.     *)
LEMMA SameDefault ==
  ASSUME mold \in Molds, version \in Nat, NEW t \in Nat, version < t,
         NEW k \in Keyvals, ~Newer(k, t)
  PROVE  Active(k, version) = Active(k, t)
<1> DEFINE all == DOMAIN mold.default[k]
           i == Introduced(k, t)
           j == Introduced(k, version)
<1>1. i \in all /\ i \in Nat /\ i <= version
  BY IntroducedFacts DEF Newer
<1>2. \A l \in all : l <= t => l <= i
  BY <1>1, IntroducedFacts
<1>3. j \in all /\ j \in Nat /\ j <= version
  BY <1>1, IntroducedFacts
<1>4. \A l \in all : l <= version => l <= j
  BY <1>3, IntroducedFacts
<1>5. i <= j /\ j <= i
  <2> HIDE DEF i, j, all
  <2>1. j <= t
    BY <1>3
  <2> QED BY <1>1, <1>2, <1>3, <1>4, <2>1
<1>6. i = j
  <2> HIDE DEF i, j
  <2> QED BY <1>1, <1>3, <1>5
<1> QED BY <1>6 DEF Active
----------------------------------------------------------------------------
\* disir_update_continue has been over k and had nothing to ask.
Dealt(k, t) ==
  /\ Verdict(k, t) # "ask"
  /\ Verdict(k, t) = "refresh" => value'[k] = Active(k, t)

\* It ends without a conflict, or at the one at this place.
RunsOut(places, t) ==
  /\ version' = t /\ conflict' = None /\ ahead' = {} /\ status' = "OK"
  /\ \A i \in places : Dealt(Order[i], t)

StopsAt(places, t, stop) ==
  /\ version' = version /\ status' = "CONFLICT"
  /\ conflict' = Order[stop] /\ Verdict(Order[stop], t) = "ask"
  /\ ahead' = {i \in places : stop < i}
  /\ \A i \in places : i < stop => Dealt(Order[i], t)
  /\ \A i \in places : stop <= i => value'[Order[i]] = value[Order[i]]

(* What one run of disir_update_continue does.                             *)
LEMMA ProceedFacts ==
  ASSUME TypeOK, NEW places \in SUBSET DOMAIN Order, NEW t \in Versions, Proceed(places, t)
  PROVE  /\ UNCHANGED <<mold, mine>>
         /\ \A k \in Keyvals : value'[k] # value[k] =>
              Verdict(k, t) = "refresh" /\ value'[k] = Active(k, t)
         /\ value' \in [Keyvals -> Values \cup {None}]
         /\ \A k \in Keyvals : value'[k] = None <=> value[k] = None
         /\ RunsOut(places, t) \/ \E stop \in places : StopsAt(places, t, stop)
<1> DEFINE stops == {i \in places : Verdict(Order[i], t) = "ask"}
           stop == CHOOSE i \in stops : \A j \in stops : i <= j
           done == {Order[i] : i \in {j \in places : \A k \in stops : j < k}}
           new == [k \in Keyvals |-> IF k \in done /\ Verdict(k, t) = "refresh"
                                     THEN Active(k, t) ELSE value[k]]
<1>1. /\ value' = new /\ UNCHANGED <<mold, mine>>
      /\ \/ stops = {} /\ version' = t /\ conflict' = None /\ ahead' = {} /\ status' = "OK"
         \/ /\ stops # {} /\ version' = version /\ conflict' = Order[stop]
            /\ ahead' = {i \in places : stop < i} /\ status' = "CONFLICT"
  BY DEF Proceed, Rest
<1>2. /\ places \subseteq Nat /\ t \in Nat /\ mold \in Molds
      /\ \A i \in DOMAIN Order : Order[i] \in Keyvals
      /\ \A i, j \in DOMAIN Order : Order[i] = Order[j] => i = j
  BY UpdateAssumption DEF UpdateAssumption, TypeOK, IsInjective
<1>3. \A k \in Keyvals : Active(k, t) \in Values /\ Active(k, t) # None
  BY <1>2, ActiveIsValue
<1>4. new \in [Keyvals -> Values \cup {None}]
  <2> HIDE DEF done
  <2> QED BY <1>3 DEF TypeOK
<1>5. \A k \in Keyvals : new[k] # value[k] => Verdict(k, t) = "refresh" /\ new[k] = Active(k, t)
  <2> HIDE DEF done
  <2> QED OBVIOUS
<1>6. \A k \in Keyvals : Verdict(k, t) = "refresh" => value[k] # None
  <2>1. \A k \in Keyvals : Active(k, version) # None
    BY <1>2, ActiveIsValue, UpdateAssumption DEF UpdateAssumption, TypeOK
  <2> QED BY <2>1, SameFacts DEF Verdict, Untouched
<1>7. CASE stops = {}
  <2>1. ASSUME NEW i \in places
        PROVE  Order[i] \in done /\ Order[i] \in Keyvals /\ Verdict(Order[i], t) # "ask"
    BY <1>2, <1>7
  <2> HIDE DEF done
  <2>2. \A i \in places : Verdict(Order[i], t) = "refresh" => new[Order[i]] = Active(Order[i], t)
    BY <2>1
  <2> HIDE DEF new
  <2>3. RunsOut(places, t)
    BY <1>1, <1>7, <2>1, <2>2 DEF RunsOut, Dealt
  <2> QED BY <1>1, <1>3, <1>4, <1>5, <1>6, <2>3
<1>8. CASE stops # {}
  <2>1. stop \in stops /\ \A j \in stops : stop <= j
    <3>1. \E i \in stops : \A j \in stops : i <= j
      BY <1>2, <1>8, Least
    <3> QED BY <3>1
  <2> HIDE DEF stop
  <2>2. ASSUME NEW i \in places, i < stop
        PROVE  /\ Order[i] \in done /\ Order[i] \in Keyvals /\ Verdict(Order[i], t) # "ask"
    BY <1>2, <2>1, <2>2
  <2>3. ASSUME NEW i \in places, stop <= i
        PROVE  Order[i] \notin done /\ Order[i] \in Keyvals
    BY <1>2, <2>1, <2>3
  <2> HIDE DEF done
  <2>4. \A i \in places : i < stop /\ Verdict(Order[i], t) = "refresh" =>
          new[Order[i]] = Active(Order[i], t)
    BY <2>2
  <2>5. \A i \in places : stop <= i => new[Order[i]] = value[Order[i]]
    BY <2>3
  <2> HIDE DEF new
  <2>6. stop \in places /\ Verdict(Order[stop], t) = "ask"
    BY <2>1
  <2>7. StopsAt(places, t, stop)
    BY <1>1, <1>8, <2>2, <2>4, <2>5, <2>6 DEF StopsAt, Dealt
  <2> QED BY <1>1, <1>3, <1>4, <1>5, <1>6, <2>6, <2>7
<1> QED BY <1>7, <1>8

(* disir_update_continue goes on: places are those still ahead, the other  *)
(* keyvals are dealt with.                                                 *)
LEMMA ProceedKeeps ==
  ASSUME TypeOK, conflict = None, NEW t \in Versions, version < t,
         NEW places \in SUBSET DOMAIN Order, Proceed(places, t), target' = t,
         NEW here, here = {Order[i] : i \in places},
         \A k \in Keyvals \ mine : value[k] # None =>
           IF k \in here THEN Untouched(k) ELSE Same(k, value[k], Active(k, t)),
         \A k \in Keyvals \ here : value[k] # None /\ Newer(k, t) =>
           Same(k, value[k], Active(k, t)) \/ answer[k] # None,
         \A i \in places : value[Order[i]] # None,
         UNCHANGED answer
  PROVE  /\ Phases' /\ NobodysAreDefault' /\ AheadAreHeld' /\ ConflictIsChosen'
         /\ PassedAreSettled'
         /\ version' # version => \A k \in Keyvals : value[k] # None /\ Newer(k, t) =>
              Same(k, value'[k], Active(k, t)) \/ answer[k] # None
<1>1. /\ mold \in Molds /\ version \in Versions /\ version \in Nat /\ t \in Nat
      /\ t # None /\ version # t /\ places \subseteq Nat
      /\ \A i \in DOMAIN Order : Order[i] \in Keyvals
      /\ \A k \in Keyvals : \E i \in DOMAIN Order : Order[i] = k
      /\ \A i, j \in DOMAIN Order : Order[i] = Order[j] => i = j
  BY UpdateAssumption DEF UpdateAssumption, TypeOK, IsInjective, Range
<1>2. /\ mold' = mold /\ mine' = mine
      /\ \A k \in Keyvals : Active(k, t)' = Active(k, t)
      /\ version' = t => \A k \in Keyvals : Active(k, version)' = Active(k, t)
      /\ version' = version => \A k \in Keyvals : Active(k, version)' = Active(k, version)
  <2>1. mold' = mold /\ mine' = mine
    BY ProceedFacts
  <2>2. \A k \in Keyvals : Active(k, t)' = Active(k, t)
    BY <2>1 DEF Active, Introduced
  <2>3. version' = t => \A k \in Keyvals : Active(k, version)' = Active(k, t)
    BY <2>1 DEF Active, Introduced
  <2>4. version' = version => \A k \in Keyvals : Active(k, version)' = Active(k, version)
    BY <2>1 DEF Active, Introduced
  <2> QED BY <2>1, <2>2, <2>3, <2>4
<1>3. /\ \A k \in Keyvals : value'[k] # value[k] =>
           Verdict(k, t) = "refresh" /\ value'[k] = Active(k, t)
      /\ \A k \in Keyvals : value'[k] = None <=> value[k] = None
  BY ProceedFacts
<1>0. \A k \in Keyvals : Same(k, Active(k, t), Active(k, t))
  BY DEF Same
<1>4. ASSUME NEW k \in Keyvals, Dealt(k, t), value[k] # None
      PROVE  /\ Untouched(k) => Same(k, value'[k], Active(k, t))
             /\ Newer(k, t) => Same(k, value'[k], Active(k, t))
  <2>1. CASE Verdict(k, t) = "refresh"
    BY <1>0, <1>4, <2>1 DEF Dealt
  <2>2. CASE Verdict(k, t) # "refresh"
    <3>1. value'[k] = value[k]
      BY <1>3, <2>2
    <3>2. ~Newer(k, t) \/ Same(k, value[k], Active(k, t))
      BY <1>4, <2>2 DEF Verdict, Dealt
    <3>3. ~Newer(k, t) => Active(k, version) = Active(k, t)
      BY <1>1, SameDefault
    <3> QED BY <3>1, <3>2, <3>3 DEF Untouched
  <2> QED BY <2>1, <2>2
<1>5. ASSUME NEW k \in Keyvals \ here, value[k] # None
      PROVE  /\ k \notin mine => Same(k, value'[k], Active(k, t))
             /\ Newer(k, t) => Same(k, value'[k], Active(k, t)) \/ answer[k] # None
  <2>1. CASE value'[k] = value[k]
    BY <1>5, <2>1
  <2>2. CASE value'[k] # value[k]
    BY <1>0, <1>3, <2>2
  <2> QED BY <2>1, <2>2
<1>6. ASSUME RunsOut(places, t)
      PROVE  /\ Phases' /\ NobodysAreDefault' /\ AheadAreHeld' /\ ConflictIsChosen'
             /\ PassedAreSettled'
             /\ \A k \in Keyvals : value[k] # None /\ Newer(k, t) =>
                  Same(k, value'[k], Active(k, t)) \/ answer[k] # None
  <2>0. /\ version' = t /\ conflict' = None /\ ahead' = {}
        /\ \A i \in places : Dealt(Order[i], t)
    BY <1>6 DEF RunsOut
  <2>1. Successful'
    BY <1>1, <2>0 DEF Successful
  <2>2. \A k \in here : k \in Keyvals /\ Dealt(k, t)
    BY <1>1, <2>0
  <2>3. ASSUME NEW k \in Keyvals \ mine, value[k] # None
        PROVE  Same(k, value'[k], Active(k, t))
    BY <1>4, <1>5, <2>2, <2>3
  <2>4. ASSUME NEW k \in Keyvals, value[k] # None, Newer(k, t)
        PROVE  Same(k, value'[k], Active(k, t)) \/ answer[k] # None
    BY <1>4, <1>5, <2>2, <2>4
  <2>5. NobodysAreDefault'
    BY <1>2, <1>3, <2>0, <2>1, <2>3 DEF NobodysAreDefault, Untouched, Same
  <2> QED BY <2>0, <2>1, <2>4, <2>5
          DEF Phases, AheadAreHeld, ConflictIsChosen, PassedAreSettled
<1>7. ASSUME NEW stop \in places, StopsAt(places, t, stop)
      PROVE  /\ Phases' /\ NobodysAreDefault' /\ AheadAreHeld' /\ ConflictIsChosen'
             /\ PassedAreSettled'
  <2>0. /\ version' = version /\ conflict' = Order[stop]
        /\ Verdict(Order[stop], t) = "ask" /\ ahead' = {i \in places : stop < i}
        /\ \A i \in places : i < stop => Dealt(Order[i], t)
        /\ \A i \in places : stop <= i => value'[Order[i]] = value[Order[i]]
    BY <1>7 DEF StopsAt
  <2>1. ~Successful' /\ Phases'
    BY <1>1, <2>0 DEF Successful, Phases
  <2>2. Order[stop] \in Keyvals /\ ~Untouched(Order[stop]) /\ Order[stop] \in here
    BY <1>1, <2>0 DEF Verdict
  <2>3. Order[stop] \in mine /\ value'[Order[stop]] # None
    BY <1>3, <2>2
  <2>4. \A k \in here : \/ k = Order[stop]
                        \/ k \in Ahead' /\ value'[k] = value[k]
                        \/ Dealt(k, t)
    <3>1. ASSUME NEW i \in places
          PROVE  \/ Order[i] = Order[stop]
                 \/ Order[i] \in Ahead' /\ value'[Order[i]] = value[Order[i]]
                 \/ Dealt(Order[i], t)
      <4>1. i \in Nat /\ stop \in Nat
        BY <1>1
      <4>2. CASE i < stop
        BY <2>0, <4>2
      <4>3. CASE stop < i
        BY <2>0, <4>1, <4>3 DEF Ahead
      <4> QED BY <4>1, <4>2, <4>3
    <3> QED BY <3>1
  <2>5. Ahead' \subseteq here
    BY <2>0 DEF Ahead
  <2>6. ASSUME NEW k \in Keyvals \ mine, value'[k] # None
        PROVE  IF k \in Ahead' THEN Same(k, value'[k], Active(k, version))
               ELSE Same(k, value'[k], Active(k, t))
    <3>1. value[k] # None /\ k # Order[stop]
      BY <1>3, <2>3, <2>6
    <3>2. k \in here => Same(k, value[k], Active(k, version))
      BY <3>1 DEF Untouched
    <3>3. k \in Ahead' => value'[k] = value[k] \/ Dealt(k, t)
      BY <2>4, <2>5, <3>1
    <3>4. CASE k \in Ahead'
      <4>1. \E i \in places : stop < i /\ k = Order[i]
        BY <2>0, <3>4 DEF Ahead
      <4>2. value'[k] = value[k]
        BY <1>1, <2>0, <4>1
      <4> QED BY <2>5, <3>2, <3>4, <4>2
    <3>5. CASE k \notin Ahead'
      BY <1>4, <1>5, <2>4, <3>1, <3>2, <3>5 DEF Untouched
    <3> QED BY <3>4, <3>5
  <2>7. NobodysAreDefault'
    <3>1. \A k \in Keyvals : Active(k, version)' = Active(k, version)
      BY <1>2, <2>0
    <3> QED BY <1>1, <1>2, <2>0, <2>1, <2>6, <3>1 DEF NobodysAreDefault, Untouched, Same
  <2>8. AheadAreHeld'
    <3>1. ASSUME NEW i \in ahead' PROVE value'[Order[i]] # None
      BY <1>1, <1>3, <2>0, <3>1
    <3> QED BY <3>1 DEF AheadAreHeld
  <2>9. PassedAreSettled'
    <3>1. ASSUME NEW k \in Keyvals, k \notin Ahead', k # Order[stop], value'[k] # None,
                 Newer(k, t)
          PROVE  Same(k, value'[k], Active(k, t)) \/ answer[k] # None
      BY <1>3, <1>4, <1>5, <2>4, <3>1
    <3>2. \A k \in Keyvals : Newer(k, t)' <=> Newer(k, t)
      BY <1>2, <2>0 DEF Newer, Introduced
    <3> QED BY <1>2, <2>0, <3>1, <3>2 DEF PassedAreSettled, Passed, Same
  <2> QED BY <1>2, <2>0, <2>1, <2>3, <2>7, <2>8, <2>9 DEF ConflictIsChosen
<1>8. RunsOut(places, t) \/ \E stop \in places : StopsAt(places, t, stop)
  BY ProceedFacts
<1>9. (\E stop \in places : StopsAt(places, t, stop)) => version' = version
  BY DEF StopsAt
<1> QED BY <1>6, <1>7, <1>8, <1>9
----------------------------------------------------------------------------
LEMMA InvInit == Init => Inv
<1> SUFFICES ASSUME Init PROVE Inv
  OBVIOUS
<1>1. \A k \in Keyvals : Active(k, version) \in Values
  BY ActiveIsValue, UpdateAssumption DEF Init, UpdateAssumption
<1>2. TypeOK
  BY <1>1 DEF Init, TypeOK, Statuses
<1>3. NobodysAreDefault
  BY DEF Init, NobodysAreDefault, Untouched, Same
<1> QED BY <1>2, <1>3 DEF Init, Inv, Phases, AheadAreHeld, ConflictIsChosen, AnsweredAreChosen,
                          PassedAreSettled, ResultIsGenerated, ResolutionsAreStored

LEMMA InvSetValue ==
  ASSUME Inv, NEW k \in Keyvals, NEW v \in Values, SetValue(k, v)
  PROVE  Inv'
<1>1. /\ target = None /\ ahead = ahead' /\ conflict = None
      /\ value' = [value EXCEPT ![k] = v] /\ mine' = mine \cup {k}
      /\ UNCHANGED <<mold, version, target, ahead, conflict, result, status, answer>>
  BY DEF SetValue, Inv, TypeOK
<1>2. TypeOK'
  <2>1. value' \in [Keyvals -> Values \cup {None}] /\ mine' \subseteq Keyvals
    BY <1>1 DEF Inv, TypeOK
  <2> QED BY <1>1, <2>1 DEF Inv, TypeOK
<1>3. NobodysAreDefault'
  <2>1. \A l \in Keyvals \ mine' : l \notin mine /\ value'[l] = value[l]
    BY <1>1 DEF Inv, TypeOK
  <2>2. \A l \in Keyvals : Active(l, version)' = Active(l, version)
    BY <1>1 DEF Active, Introduced
  <2>3. \A l \in Keyvals \ mine : value[l] # None => Same(l, value[l], Active(l, version))
    BY <1>1 DEF Inv, NobodysAreDefault, Untouched
  <2> QED BY <1>1, <2>1, <2>2, <2>3 DEF NobodysAreDefault, Untouched, Same
<1>4. AheadAreHeld'
  <2>1. v # None
    BY UpdateAssumption DEF UpdateAssumption
  <2> QED BY <1>1, <2>1 DEF Inv, TypeOK, AheadAreHeld
<1> QED BY <1>1, <1>2, <1>3, <1>4
        DEF Inv, Phases, ConflictIsChosen, AnsweredAreChosen, PassedAreSettled,
            ResultIsGenerated, ResolutionsAreStored

\* What of the invariant is about the config and where the update is in it.
Place == <<mold, version, value, target, ahead, mine>>
LEMMA SamePlace ==
  ASSUME Inv, UNCHANGED Place
  PROVE  /\ NobodysAreDefault' /\ AheadAreHeld' /\ Ahead' = Ahead
         /\ Successful' <=> Successful
         /\ \A k \in Keyvals : Newer(k, target)' <=> Newer(k, target)
         /\ \A k \in Keyvals : Active(k, target)' = Active(k, target)
<1>1. Ahead' = Ahead /\ (Successful' <=> Successful)
  BY DEF Place, Ahead, Successful
<1>2. /\ \A k \in Keyvals : Newer(k, target)' <=> Newer(k, target)
      /\ \A k \in Keyvals : Active(k, target)' = Active(k, target)
      /\ \A k \in Keyvals : Untouched(k)' <=> Untouched(k)
  BY DEF Place, Newer, Untouched, Same, Active, Introduced
<1>3. NobodysAreDefault'
  BY <1>1, <1>2 DEF Place, Inv, NobodysAreDefault, Same
<1>4. AheadAreHeld'
  BY DEF Place, Inv, AheadAreHeld
<1> QED BY <1>1, <1>2, <1>3, <1>4

\* The types after a run of disir_update_continue.
LEMMA ProceedTypes ==
  ASSUME TypeOK, NEW places \in SUBSET DOMAIN Order, NEW t \in Versions, Proceed(places, t),
         target' = t, answer' = answer, result' \in [Keyvals -> Values \cup {None}]
  PROVE  TypeOK'
<1>1. /\ mold' = mold /\ mine' = mine /\ value' \in [Keyvals -> Values \cup {None}]
      /\ RunsOut(places, t) \/ \E stop \in places : StopsAt(places, t, stop)
  BY ProceedFacts
<1>2. /\ \A i \in DOMAIN Order : Order[i] \in Keyvals /\ i \in Nat
      /\ \A i, j \in DOMAIN Order : Order[i] = Order[j] => i = j
      /\ t # None /\ None \notin Keyvals
  BY UpdateAssumption DEF UpdateAssumption, IsInjective
<1>3. CASE RunsOut(places, t)
  BY <1>1, <1>2, <1>3 DEF RunsOut, TypeOK, Statuses
<1>4. ASSUME NEW stop \in places, StopsAt(places, t, stop) PROVE TypeOK'
  <2>1. /\ version' = version /\ status' = "CONFLICT" /\ conflict' = Order[stop]
        /\ ahead' = {i \in places : stop < i}
    BY <1>4 DEF StopsAt
  <2>2. \A i \in ahead' : Order[i] # conflict'
    BY <1>2, <2>1
  <2> QED BY <1>1, <1>2, <2>1, <2>2 DEF TypeOK, Statuses
<1> QED BY <1>1, <1>3, <1>4

LEMMA InvStart ==
  ASSUME FlatAndNamed, Inv, NEW t \in Versions, Start(t)
  PROVE  /\ Inv'
         /\ version' # version => \A k \in Keyvals : value[k] # None /\ Newer(k, t) =>
              Same(k, value'[k], Active(k, t)) \/ answer[k] # None
<1> DEFINE here == {Order[i] : i \in Collected}
<1>1. /\ target = None /\ version < t /\ target' = t /\ result' = GeneratedFromMold(t)
      /\ Proceed(Collected, t) /\ UNCHANGED answer /\ conflict = None
      /\ \A k \in Keyvals : answer[k] = None
  <2>1. version \in Nat /\ t \in Nat
    BY UpdateAssumption DEF UpdateAssumption, Inv, TypeOK
  <2> QED BY <2>1 DEF Start, Inv, TypeOK, AnsweredAreChosen
<1>2. Collected \subseteq DOMAIN Order /\ \A k \in Keyvals : value[k] # None <=> k \in here
  <2>1. \A i \in DOMAIN Order : i \in Collected <=> value[Order[i]] # None
    <3>1. \A i \in DOMAIN Order : \A j \in 1..i : Order[j] \in Keyvals
      BY UpdateAssumption DEF UpdateAssumption
    <3> QED BY <3>1 DEF Collected, FlatAndNamed
  <2>2. \A k \in Keyvals : \E i \in DOMAIN Order : Order[i] = k
    BY UpdateAssumption DEF UpdateAssumption, Range
  <2> QED BY <2>1, <2>2 DEF Collected
<1>3. \A i \in Collected : value[Order[i]] # None
  BY DEF Collected
<1>4. \A k \in Keyvals \ mine : value[k] # None => k \in here /\ Untouched(k)
  BY <1>1, <1>2 DEF Inv, NobodysAreDefault
<1> HIDE DEF here
<1>5. /\ Phases' /\ NobodysAreDefault' /\ AheadAreHeld' /\ ConflictIsChosen'
      /\ PassedAreSettled'
      /\ version' # version => \A k \in Keyvals : value[k] # None /\ Newer(k, t) =>
           Same(k, value'[k], Active(k, t)) \/ answer[k] # None
  BY <1>1, <1>2, <1>3, <1>4, ProceedKeeps DEF here, Inv
<1>6. /\ mold \in Molds /\ t \in Nat /\ mold' = mold /\ mine' = mine
      /\ \A k \in Keyvals : Active(k, t) \in Values
  <2>1. mold' = mold /\ mine' = mine
    BY <1>1, <1>2, ProceedFacts DEF Inv
  <2> QED BY <2>1, ActiveIsValue, UpdateAssumption DEF UpdateAssumption, Inv, TypeOK
<1>7. result' \in [Keyvals -> Values \cup {None}]
  BY <1>1, <1>6 DEF GeneratedFromMold
<1>8. TypeOK'
  BY <1>1, <1>2, <1>7, ProceedTypes DEF Inv
<1>9. AnsweredAreChosen' /\ ResultIsGenerated'
  BY <1>1, UpdateAssumption DEF AnsweredAreChosen, ResultIsGenerated, GeneratedFromMold,
                                UpdateAssumption
<1>10. ResolutionsAreStored'
  <2>1. \A k \in Keyvals : Active(k, t)' = Active(k, t)
    BY <1>6 DEF Active, Introduced
  <2> QED BY <1>1, <2>1, UpdateAssumption
          DEF ResolutionsAreStored, GeneratedFromMold, UpdateAssumption
<1> QED BY <1>5, <1>8, <1>9, <1>10 DEF Inv

LEMMA InvContinue ==
  ASSUME Inv, Continue
  PROVE  /\ Inv'
         /\ version' # version => \A k \in Keyvals : value[k] # None /\ Newer(k, target) =>
              Same(k, value'[k], Active(k, target)) \/ answer[k] # None
<1>1. target # None /\ target \in Versions /\ UNCHANGED <<target, result, answer>>
  BY DEF Continue, Inv, TypeOK
<1>2. CASE conflict # None
  <2>1. status' = "CONFLICT" /\ UNCHANGED <<mold, version, value, ahead, conflict, mine>>
    BY <1>2 DEF Continue
  <2>2. TypeOK'
    BY <1>1, <2>1 DEF Inv, TypeOK, Statuses
  <2>3. UNCHANGED Place
    BY <1>1, <2>1 DEF Place
  <2>4. NobodysAreDefault' /\ AheadAreHeld'
    BY <2>3, SamePlace
  <2>5. Phases' /\ PassedAreSettled' /\ ResolutionsAreStored'
    <3>1. Phases'
      BY <1>1, <2>1, <2>3, SamePlace DEF Inv, Phases
    <3>2. PassedAreSettled'
      <4>1. Passed' = Passed
        BY <2>1, <2>3, SamePlace DEF Passed
      <4> QED BY <1>1, <2>1, <2>3, <4>1, SamePlace DEF Place, Inv, PassedAreSettled, Passed, Same
    <3>3. ResolutionsAreStored'
      BY <1>1, <2>3, UpdateAssumption, SamePlace
         DEF Inv, ResolutionsAreStored, UpdateAssumption
    <3> QED BY <3>1, <3>2, <3>3
  <2> QED BY <1>1, <2>1, <2>2, <2>4, <2>5
          DEF Inv, ConflictIsChosen, AnsweredAreChosen, ResultIsGenerated
<1>3. CASE conflict = None
  <2>1. Proceed(ahead, target) /\ ahead \subseteq DOMAIN Order
    BY <1>2, <1>3 DEF Continue, Inv, TypeOK
  <2>2. TypeOK'
    BY <1>1, <2>1, ProceedTypes DEF Inv, TypeOK
  <2>3. mold' = mold /\ mine' = mine
    BY <1>1, <2>1, ProceedFacts DEF Inv
  <2>4. AnsweredAreChosen' /\ ResultIsGenerated' /\ ResolutionsAreStored'
    BY <1>1, <2>3 DEF Inv, AnsweredAreChosen, ResultIsGenerated, ResolutionsAreStored,
                      Active, Introduced
  <2>5. CASE Successful
    <3>1. ahead = {} /\ version = target
      BY <1>1, <2>5, UpdateAssumption DEF Inv, Phases, Successful, UpdateAssumption
    <3>2. version' = version /\ conflict' = None /\ ahead' = {} /\ value' = value
      <4>1. Proceed({}, target)
        BY <2>1, <3>1
      <4>2. \A k \in Keyvals : value'[k] = value[k]
        BY <4>1 DEF Proceed
      <4>3. value' \in [Keyvals -> Values \cup {None}]
        BY <2>2 DEF TypeOK
      <4>4. version' = target /\ conflict' = None /\ ahead' = {}
        BY <4>1 DEF Proceed
      <4> QED BY <3>1, <4>2, <4>3, <4>4 DEF Inv, TypeOK
    <3>3. UNCHANGED Place
      BY <1>1, <2>3, <3>1, <3>2 DEF Place
    <3>4. Successful' /\ NobodysAreDefault' /\ AheadAreHeld'
      BY <2>5, <3>3, SamePlace
    <3> QED BY <2>2, <2>4, <3>2, <3>4
            DEF Inv, Phases, ConflictIsChosen, PassedAreSettled
  <2>6. CASE ~Successful
    <3>1. version < target
      BY <1>1, <2>6 DEF Inv, Phases
    <3>2. \A k \in Keyvals \ mine : value[k] # None =>
            IF k \in Ahead THEN Untouched(k) ELSE Same(k, value[k], Active(k, target))
      BY <1>1, <2>6 DEF Inv, NobodysAreDefault
    <3>3. \A k \in Keyvals \ Ahead : value[k] # None /\ Newer(k, target) =>
            Same(k, value[k], Active(k, target)) \/ answer[k] # None
      BY <1>1, <1>3, <2>6, UpdateAssumption DEF Inv, PassedAreSettled, Passed, UpdateAssumption
    <3>4. \A i \in ahead : value[Order[i]] # None
      BY DEF Inv, AheadAreHeld
    <3>5. /\ Phases' /\ NobodysAreDefault' /\ AheadAreHeld' /\ ConflictIsChosen'
          /\ PassedAreSettled'
          /\ version' # version => \A k \in Keyvals : value[k] # None /\ Newer(k, target) =>
               Same(k, value'[k], Active(k, target)) \/ answer[k] # None
      BY <1>1, <1>3, <2>1, <3>1, <3>2, <3>3, <3>4, ProceedKeeps DEF Ahead, Inv
    <3> QED BY <2>2, <2>4, <3>5 DEF Inv
  <2> QED BY <2>5, <2>6
<1> QED BY <1>2, <1>3

\* The keyval of the target config is the one in conflict.
LEMMA NamesakeIsItself ==
  ASSUME FlatAndNamed, NEW k \in Keyvals
  PROVE  /\ Namesakes(k) = IF k \in Generated THEN {k} ELSE {}
         /\ k \in Generated => First(Namesakes(k)) = k
<1>1. Generated \subseteq Keyvals
  BY UpdateAssumption DEF UpdateAssumption
<1>2. Namesakes(k) = IF k \in Generated THEN {k} ELSE {}
  BY <1>1 DEF FlatAndNamed, Namesakes
<1>3. ASSUME NEW i \in DOMAIN Order, NEW j \in DOMAIN Order, Order[i] = k, Order[j] = k
      PROVE  i <= j
  <2>1. i = j /\ i \in Nat
    BY <1>3, UpdateAssumption DEF UpdateAssumption, IsInjective
  <2> QED BY <2>1
<1>4. First({k}) = k
  BY <1>3 DEF First
<1> QED BY <1>2, <1>4

LEMMA AllowedIsValue ==
  ASSUME mold \in Molds, NEW k \in Keyvals, NEW t \in Versions
  PROVE  mold.allowed[k][t] \subseteq Values
BY UpdateAssumption DEF UpdateAssumption, WellFormed

LEMMA InvResolve ==
  ASSUME FlatAndNamed, Inv, NEW v \in Values \cup {None}, Resolve(v)
  PROVE  Inv'
<1>1. /\ target # None /\ conflict # None /\ conflict \in Keyvals
      /\ UNCHANGED <<mold, version, value, target, ahead, mine>>
  BY DEF Resolve, Inv, TypeOK
<1>2. UNCHANGED Place
  BY <1>1 DEF Place
<1>3. NobodysAreDefault' /\ AheadAreHeld' /\ Ahead' = Ahead /\ (Successful' <=> Successful)
  BY <1>2, SamePlace
<1>4. ~Successful
  BY <1>1, UpdateAssumption DEF Inv, Phases, Successful, UpdateAssumption, TypeOK
<1>5. Phases'
  BY <1>1, <1>4 DEF Inv, Phases
<1>6. \A k \in Keyvals : Active(k, target)' = Active(k, target)
  BY <1>2, SamePlace
<1>7. CASE UNCHANGED <<result, conflict, answer>>
  <2>1. status' \in Statuses
    BY <1>1, <1>7 DEF Resolve, Store, Refuse, Statuses
  <2>2. TypeOK'
    BY <1>1, <1>7, <2>1 DEF Inv, TypeOK
  <2>3. PassedAreSettled'
    <3>1. Passed' = Passed
      BY <1>3, <1>7 DEF Passed
    <3> QED BY <1>1, <1>2, <1>7, <3>1, SamePlace DEF Inv, PassedAreSettled, Passed, Same
  <2>4. ResolutionsAreStored' /\ ResultIsGenerated'
    BY <1>1, <1>6, <1>7, UpdateAssumption
       DEF Inv, ResolutionsAreStored, ResultIsGenerated, UpdateAssumption
  <2> QED BY <1>1, <1>3, <1>5, <1>7, <2>2, <2>3, <2>4
          DEF Inv, ConflictIsChosen, AnsweredAreChosen
<1>8. CASE ~UNCHANGED <<result, conflict, answer>>
  <2>1. /\ conflict \in Generated /\ status' = "OK" /\ conflict' = None
        /\ result' = [result EXCEPT ![conflict] = v]
        /\ answer' = [answer EXCEPT ![conflict] = v]
        /\ v \in mold.allowed[conflict][target]
    BY <1>1, <1>8, NamesakeIsItself DEF Resolve, Store, Refuse
  <2>0. v \in Values /\ v # None
    BY <1>1, <2>1, AllowedIsValue, UpdateAssumption DEF Inv, TypeOK, UpdateAssumption
  <2>2. TypeOK'
    <3>1. /\ result' \in [Keyvals -> Values \cup {None}]
          /\ answer' \in [Keyvals -> Values \cup {None}]
      BY <2>0, <2>1 DEF Inv, TypeOK
    <3> QED BY <1>1, <2>1, <3>1 DEF Inv, TypeOK, Statuses
  <2>3. PassedAreSettled'
    <3>1. ASSUME NEW k \in Keyvals, k \notin Ahead, value[k] # None, Newer(k, target)
          PROVE  Same(k, value[k], Active(k, target)) \/ answer'[k] # None
      <4>1. CASE k = conflict
        BY <1>1, <2>0, <2>1, <4>1 DEF Inv, TypeOK
      <4>2. CASE k # conflict
        <5>1. answer'[k] = answer[k]
          BY <2>1, <4>2 DEF Inv, TypeOK
        <5> QED BY <1>1, <1>4, <3>1, <4>2, <5>1 DEF Inv, PassedAreSettled, Passed
      <4> QED BY <4>1, <4>2
    <3>2. \A k \in Keyvals : Newer(k, target)' <=> Newer(k, target)
      BY <1>2, SamePlace
    <3> QED BY <1>1, <1>3, <1>6, <2>1, <3>1, <3>2 DEF PassedAreSettled, Passed, Same
  <2>4. ResolutionsAreStored' /\ ResultIsGenerated'
    <3>1. \A k \in Keyvals : \/ k = conflict /\ result'[k] = v /\ answer'[k] = v
                             \/ k # conflict /\ result'[k] = result[k] /\ answer'[k] = answer[k]
      BY <2>1 DEF Inv, TypeOK
    <3>2. ASSUME NEW k \in Generated
          PROVE  result'[k] = IF answer'[k] # None THEN answer'[k] ELSE Active(k, target)
      BY <1>1, <2>0, <3>1, UpdateAssumption DEF Inv, ResolutionsAreStored, UpdateAssumption
    <3>3. ASSUME NEW k \in Keyvals \ Generated PROVE result'[k] = None
      BY <1>1, <2>1, <3>1 DEF Inv, ResultIsGenerated
    <3> QED BY <1>1, <1>6, <3>2, <3>3, UpdateAssumption
            DEF ResolutionsAreStored, ResultIsGenerated, UpdateAssumption
  <2>5. AnsweredAreChosen'
    BY <1>1, <2>1 DEF Inv, TypeOK, AnsweredAreChosen, ConflictIsChosen
  <2> QED BY <1>3, <1>5, <2>1, <2>2, <2>3, <2>4, <2>5 DEF Inv, ConflictIsChosen
<1> QED BY <1>7, <1>8

LEMMA InvFinished ==
  ASSUME Inv, NEW keep \in BOOLEAN, Finished(keep)
  PROVE  Inv'
<1>1. /\ target # None /\ target \in Versions /\ target' = None /\ ahead' = {}
      /\ conflict' = None /\ mold' = mold
      /\ result' = [k \in Keyvals |-> None] /\ answer' = [k \in Keyvals |-> None]
      /\ mine' = MineAfter(keep) /\ UNCHANGED status
  BY DEF Finished, Finish, Inv, TypeOK
<1>2. CASE keep
  <2>1. /\ value' = result /\ version' = target
        /\ mine' = {k \in mine : result[k] # Active(k, target)}
    BY <1>1, <1>2 DEF Finished, Finish, MineAfter
  <2>2. TypeOK'
    BY <1>1, <2>1 DEF Inv, TypeOK
  <2>3. ASSUME NEW k \in Keyvals \ mine', result[k] # None
        PROVE  result[k] = Active(k, target)
    <3>1. k \in Generated
      BY <1>1, <2>3 DEF Inv, ResultIsGenerated
    <3>2. CASE k \in mine
      BY <2>1, <2>3, <3>2
    <3>3. CASE k \notin mine
      <4>1. answer[k] = None
        BY <3>3 DEF Inv, AnsweredAreChosen
      <4> QED BY <1>1, <3>1, <4>1 DEF Inv, ResolutionsAreStored
    <3> QED BY <3>2, <3>3
  <2>4. \A k \in Keyvals : Active(k, version)' = Active(k, target)
    BY <1>1, <2>1 DEF Active, Introduced
  <2>5. NobodysAreDefault'
    BY <1>1, <2>1, <2>3, <2>4 DEF NobodysAreDefault, Untouched, Same
  <2> QED BY <1>1, <2>2, <2>5 DEF Inv, Phases, AheadAreHeld, ConflictIsChosen, AnsweredAreChosen,
             PassedAreSettled, ResultIsGenerated, ResolutionsAreStored
<1>3. CASE ~keep
  <2>1. /\ UNCHANGED <<value, version>>
        /\ mine' = mine \cup {k \in Keyvals : value[k] # None /\ ~Untouched(k)}
    BY <1>1, <1>3 DEF Finished, Finish, MineAfter
  <2>2. TypeOK'
    BY <1>1, <2>1 DEF Inv, TypeOK
  <2>3. \A k \in Keyvals : Untouched(k)' <=> Untouched(k)
    BY <1>1, <2>1 DEF Untouched, Same, Active, Introduced
  <2>4. NobodysAreDefault'
    BY <1>1, <2>1, <2>3 DEF NobodysAreDefault
  <2> QED BY <1>1, <2>2, <2>4 DEF Inv, Phases, AheadAreHeld, ConflictIsChosen, AnsweredAreChosen,
             PassedAreSettled, ResultIsGenerated, ResolutionsAreStored
<1> QED BY <1>2, <1>3

LEMMA InvStutter == Inv /\ UNCHANGED vars => Inv'
<1> SUFFICES ASSUME Inv, UNCHANGED vars PROVE Inv'
  OBVIOUS
<1>1. UNCHANGED Place /\ UNCHANGED <<conflict, result, status, answer>>
  BY DEF vars, Place
<1>2. NobodysAreDefault' /\ AheadAreHeld' /\ Ahead' = Ahead /\ (Successful' <=> Successful)
  BY <1>1, SamePlace
<1>3. TypeOK' /\ Phases' /\ ConflictIsChosen' /\ AnsweredAreChosen' /\ ResultIsGenerated'
  BY <1>1, <1>2 DEF Place, Inv, TypeOK, Phases, ConflictIsChosen, AnsweredAreChosen,
                    ResultIsGenerated
<1>4. PassedAreSettled'
  <2>1. Passed' = Passed
    BY <1>1, <1>2 DEF Passed
  <2> QED BY <1>1, <1>2, <2>1, SamePlace DEF Place, Inv, PassedAreSettled, Passed, Same
<1>5. ResolutionsAreStored'
  BY <1>1, UpdateAssumption, SamePlace DEF Place, Inv, ResolutionsAreStored, UpdateAssumption
<1> QED BY <1>2, <1>3, <1>4, <1>5 DEF Inv

LEMMA InvNext ==
  ASSUME FlatAndNamed
  PROVE  Inv /\ [Next]_vars => Inv'
BY InvSetValue, InvStart, InvContinue, InvResolve, InvFinished, InvStutter DEF Next

(* The invariant holds for every mold and any order of the calls.          *)
THEOREM InvHolds ==
  ASSUME FlatAndNamed
  PROVE  Spec => []Inv
<1>1. Init => Inv
  BY InvInit
<1>2. Inv /\ [Next]_vars => Inv'
  BY InvNext
<1> QED BY <1>1, <1>2, PTL DEF Spec

(* After any number of updates with any conflicts and answers, given up or *)
(* not, a value that nobody chose is one the next update takes for the     *)
(* default of the version of the config, in a config without sections and  *)
(* repeated names; and whichever numbers dx_value_compare takes as equal.  *)
THEOREM UntouchedCurrent ==
  ASSUME FlatAndNamed
  PROVE  Spec => []UntouchedIsCurrent
<1>1. Inv => UntouchedIsCurrent
  BY DEF Inv, NobodysAreDefault, UntouchedIsCurrent
<1> QED BY <1>1, InvHolds, PTL

(* The target config of an update has the resolution of every conflict,    *)
(* and the default of its version where there was none.                    *)
THEOREM ResolutionsStored ==
  ASSUME FlatAndNamed
  PROVE  Spec => []ResolutionsAreStored
<1>1. Inv => ResolutionsAreStored
  BY DEF Inv
<1> QED BY <1>1, InvHolds, PTL

(* No update is successful before every value that dx_value_compare can    *)
(* tell from a newer default was reported and resolved.                    *)
THEOREM Settled ==
  ASSUME FlatAndNamed
  PROVE  Spec => ConflictsAreSettled
<1>1. Inv /\ Inv' /\ [Next]_vars =>
        [version' # version /\ target' # None =>
           \A k \in Keyvals : value[k] # None /\ Newer(k, target') =>
             Same(k, value'[k], Active(k, target')) \/ answer[k] # None]_vars
  <2> SUFFICES ASSUME Inv, Next, version' # version, target' # None
               PROVE  \A k \in Keyvals : value[k] # None /\ Newer(k, target') =>
                        Same(k, value'[k], Active(k, target')) \/ answer[k] # None
    OBVIOUS
  <2>1. ASSUME NEW t \in Versions, Start(t) PROVE target' = t
    BY <2>1 DEF Start
  <2>2. Continue => target' = target
    BY DEF Continue
  <2>3. \A k \in Keyvals, v \in Values : ~SetValue(k, v)
    BY DEF SetValue
  <2>4. \A v \in Values \cup {None} : ~Resolve(v)
    BY DEF Resolve
  <2>5. \A keep \in BOOLEAN : ~Finished(keep)
    BY DEF Finished, Finish
  <2> QED BY <2>1, <2>2, <2>3, <2>4, <2>5, InvStart, InvContinue DEF Next
<1> QED BY <1>1, InvHolds, PTL DEF Spec, ConflictsAreSettled
----------------------------------------------------------------------------
(* What holds of every config, with sections and repeated names too: what  *)
(* the update has a conflict about or still has to go to has a value.      *)
Held ==
  /\ TypeOK
  /\ AheadAreHeld
  /\ conflict # None => value[conflict] # None

LEMMA HeldProceed ==
  ASSUME Held, conflict = None, NEW places \in SUBSET DOMAIN Order, NEW t \in Versions,
         Proceed(places, t), target' = t, answer' = answer,
         result' \in [Keyvals -> Values \cup {None}],
         \A i \in places : value[Order[i]] # None
  PROVE  Held'
<1>1. TypeOK'
  BY ProceedTypes DEF Held
<1>2. /\ \A k \in Keyvals : value'[k] = None <=> value[k] = None
      /\ RunsOut(places, t) \/ \E stop \in places : StopsAt(places, t, stop)
  BY ProceedFacts DEF Held
<1>3. \A i \in DOMAIN Order : Order[i] \in Keyvals
  BY UpdateAssumption DEF UpdateAssumption
<1>4. CASE RunsOut(places, t)
  BY <1>1, <1>4 DEF RunsOut, Held, AheadAreHeld
<1>5. ASSUME NEW stop \in places, StopsAt(places, t, stop) PROVE Held'
  BY <1>1, <1>2, <1>3, <1>5 DEF StopsAt, Held, AheadAreHeld
<1> QED BY <1>2, <1>4, <1>5

LEMMA HeldNext == Held /\ [Next]_vars => Held'
<1> SUFFICES ASSUME Held, [Next]_vars PROVE Held'
  OBVIOUS
<1>1. ASSUME NEW k \in Keyvals, NEW v \in Values, SetValue(k, v) PROVE Held'
  <2>1. /\ value' = [value EXCEPT ![k] = v] /\ mine' = mine \cup {k} /\ v # None
        /\ UNCHANGED <<mold, version, target, ahead, conflict, result, status, answer>>
    BY <1>1, UpdateAssumption DEF SetValue, UpdateAssumption
  <2>2. value' \in [Keyvals -> Values \cup {None}] /\ mine' \subseteq Keyvals
    BY <2>1 DEF Held, TypeOK
  <2>3. TypeOK'
    BY <2>1, <2>2 DEF Held, TypeOK
  <2>4. \A l \in Keyvals : value[l] # None => value'[l] # None
    BY <2>1 DEF Held, TypeOK
  <2>5. \A i \in ahead : Order[i] \in Keyvals
    BY UpdateAssumption DEF UpdateAssumption, Held, TypeOK
  <2> QED BY <2>1, <2>3, <2>4, <2>5 DEF Held, TypeOK, AheadAreHeld
<1>2. ASSUME NEW t \in Versions, Start(t) PROVE Held'
  <2>1. \A k \in Keyvals : mold \in Molds /\ Active(k, t) \in Values
    BY ActiveIsValue, UpdateAssumption DEF UpdateAssumption, Held, TypeOK
  <2>2. result' \in [Keyvals -> Values \cup {None}]
    BY <1>2, <2>1 DEF Start, GeneratedFromMold
  <2>3. Collected \subseteq DOMAIN Order /\ \A i \in Collected : value[Order[i]] # None
    BY DEF Collected
  <2> QED BY <1>2, <2>2, <2>3, HeldProceed DEF Start, Held, TypeOK
<1>3. ASSUME Continue PROVE Held'
  <2>1. /\ target # None /\ target \in Versions /\ UNCHANGED <<target, result, answer>>
        /\ result \in [Keyvals -> Values \cup {None}] /\ ahead \subseteq DOMAIN Order
        /\ \A i \in ahead : value[Order[i]] # None
    BY <1>3 DEF Continue, Held, TypeOK, AheadAreHeld
  <2>2. CASE conflict # None
    <3>1. status' = "CONFLICT" /\ UNCHANGED <<mold, version, value, ahead, conflict, mine>>
      BY <1>3, <2>2 DEF Continue
    <3> QED BY <2>1, <3>1 DEF Held, TypeOK, AheadAreHeld, Statuses
  <2>3. CASE conflict = None
    <3>1. Proceed(ahead, target)
      BY <1>3, <2>3 DEF Continue
    <3> QED BY <2>1, <2>3, <3>1, HeldProceed
  <2> QED BY <2>2, <2>3
<1>4. ASSUME NEW v \in Values \cup {None}, Resolve(v) PROVE Held'
  <2>1. UNCHANGED <<mold, version, value, target, ahead, mine>> /\ conflict' \in {conflict, None}
    BY <1>4 DEF Resolve, Store, Refuse
  <2>2. /\ result' \in [Keyvals -> Values \cup {None}]
        /\ answer' \in [Keyvals -> Values \cup {None}]
        /\ status' \in Statuses
    BY <1>4 DEF Resolve, Store, Refuse, Held, TypeOK, Statuses
  <2> QED BY <2>1, <2>2 DEF Held, TypeOK, AheadAreHeld
<1>5. ASSUME NEW keep \in BOOLEAN, Finished(keep) PROVE Held'
  <2>1. /\ target # None /\ target \in Versions /\ target' = None /\ ahead' = {}
        /\ conflict' = None /\ UNCHANGED <<mold, status>>
        /\ result' = [k \in Keyvals |-> None] /\ answer' = [k \in Keyvals |-> None]
        /\ mine' = MineAfter(keep)
    BY <1>5 DEF Finished, Finish, Held, TypeOK
  <2>2. mine' \subseteq Keyvals
    BY <2>1 DEF MineAfter, Held, TypeOK
  <2>3. value' \in {value, result} /\ version' \in {version, target}
    BY <1>5 DEF Finished, Finish
  <2> QED BY <2>1, <2>2, <2>3 DEF Held, TypeOK, AheadAreHeld
<1>6. CASE UNCHANGED vars
  BY <1>6 DEF vars, Held, TypeOK, AheadAreHeld
<1> QED BY <1>1, <1>2, <1>3, <1>4, <1>5, <1>6 DEF Next

(* The types hold for every config and mold.                               *)
THEOREM TypeCorrect == Spec => []TypeOK
<1>1. Init => Held
  BY InvInit DEF Inv, Held, Init
<1>2. Held => TypeOK
  BY DEF Held
<1> QED BY <1>1, <1>2, HeldNext, PTL DEF Spec

(* A value that dx_value_compare can tell from the default of its version  *)
(* is never changed in the config that is being updated, whatever its      *)
(* sections and names are and whatever it was compared with before.        *)
THEOREM ChosenStay == Spec => ChosenValuesStay
<1>1. TypeOK /\ [Next]_vars =>
        [target' # None =>
           \A k \in Keyvals : value[k] # None /\ ~Untouched(k) => value'[k] = value[k]]_vars
  <2> SUFFICES ASSUME TypeOK, Next, target' # None,
                      NEW k \in Keyvals, value[k] # None, ~Untouched(k)
               PROVE  value'[k] = value[k]
    OBVIOUS
  <2>1. ASSUME NEW places \in SUBSET DOMAIN Order, NEW t \in Versions, Proceed(places, t)
        PROVE  value'[k] = value[k]
    <3>1. Verdict(k, t) # "refresh"
      BY DEF Verdict
    <3> QED BY <2>1, <3>1, ProceedFacts
  <2>2. ASSUME NEW t \in Versions, Start(t) PROVE value'[k] = value[k]
    <3>1. Collected \subseteq DOMAIN Order
      BY DEF Collected
    <3> QED BY <2>1, <2>2, <3>1 DEF Start
  <2>3. ASSUME Continue PROVE value'[k] = value[k]
    BY <2>1, <2>3 DEF Continue, TypeOK
  <2>4. ASSUME NEW v \in Values \cup {None}, Resolve(v) PROVE value'[k] = value[k]
    BY <2>4 DEF Resolve
  <2>5. \A l \in Keyvals, v \in Values : ~SetValue(l, v)
    BY DEF SetValue
  <2>6. \A keep \in BOOLEAN : ~Finished(keep)
    BY DEF Finished, Finish
  <2> QED BY <2>2, <2>3, <2>4, <2>5, <2>6 DEF Next
<1> QED BY <1>1, TypeCorrect, PTL DEF Spec, ChosenValuesStay
----------------------------------------------------------------------------
LEMMA LatestFacts == Latest \in Versions /\ \A v \in Versions : v <= Latest
BY LatestAssumption DEF LatestAssumption, Latest

(* The loop of dx_update_config_with_changes uses the calls of the update  *)
(* as any client may.                                                      *)
LEMMA StepIsNext == Held /\ [ChangesNext]_changesVars => [Next]_vars
<1> SUFFICES ASSUME Held, ChangesNext PROVE [Next]_vars
  BY DEF changesVars, vars
<1>0. \A k \in Keyvals, v \in Values : Reread(k, v) \in Values
  BY RereadIsValue
<1>1. CASE User
  BY <1>1 DEF User
<1>2. ASSUME status # "ABORTED", NEW d \in BOOLEAN, Call(d) PROVE [Next]_vars
  BY <1>2, LatestFacts DEF Call, Next
<1>3. CASE status # "ABORTED" /\ ResolveWithOwn
  <2>1. conflict \in Keyvals /\ value[conflict] \in Values
    BY <1>3 DEF ResolveWithOwn, Resolve, Held, TypeOK
  <2> QED BY <1>0, <1>3, <2>1 DEF ResolveWithOwn, Next
<1>4. CASE status # "ABORTED" /\ ResolveWithMold
  <2>1. mold \in Molds /\ conflict \in Keyvals /\ target \in Nat
    BY <1>4, UpdateAssumption DEF ResolveWithMold, Resolve, Held, TypeOK, UpdateAssumption
  <2>2. Active(conflict, target) \in Values
    BY <2>1, ActiveIsValue
  <2> QED BY <1>0, <1>4, <2>1, <2>2 DEF ResolveWithMold, Next
<1>5. CASE status # "ABORTED" /\ Loop
  BY <1>5 DEF Loop, Next
<1>6. CASE status # "ABORTED" /\ Return
  <2>1. KeepsTarget \in BOOLEAN
    BY DEF KeepsTarget
  <2>2. Finished(KeepsTarget)
    BY <1>6 DEF Return, Finished
  <2> QED BY <1>6, <2>1, <2>2 DEF Next
<1>7. \/ User
      \/ status # "ABORTED" /\ \E d \in BOOLEAN : Call(d)
      \/ status # "ABORTED" /\ (ResolveWithOwn \/ ResolveWithMold \/ Loop \/ Return)
  BY DEF ChangesNext, Body
<1> QED BY <1>1, <1>2, <1>3, <1>4, <1>5, <1>6, <1>7

(* dx_update_config_with_changes, called again and again between whatever  *)
(* its caller does, does nothing that a client of the update could not do: *)
(* every theorem above holds of it as well.                                *)
THEOREM ChangesUpdate == ChangesSpec => Spec
<1>1. ChangesInit => Init /\ Held
  BY InvInit DEF ChangesInit, Inv, Held, Init
<1> QED BY <1>1, HeldNext, StepIsNext, PTL DEF ChangesSpec, Spec
----------------------------------------------------------------------------
(* dx_update_config_with_changes.                                          *)

(* Since the config was last set, calls have changed values only from the  *)
(* default of the old version to that of the new one.                      *)
OnlyRefreshed ==
  \A k \in Keyvals :
    \/ value[k] = before[k]
    \/ Refreshed(k) /\ value[k] = Active(k, Latest)

(* What a call under way has done with the keyvals it has passed.          *)
CallIsFaithful ==
  pc # "idle" =>
    /\ target = Latest /\ began < Latest /\ DefaultsAllowed(Latest) /\ OnlyRefreshed
    /\ \A k \in Keyvals : answer[k] # None => Asked(k) /\ answer[k] = Expected(k)
    /\ \A k \in Passed : Asked(k) => answer[k] # None
    /\ \A k \in Passed : Refreshed(k) => value[k] = Active(k, Latest)
    /\ conflict # None => Asked(conflict)
    /\ version = began \/ Successful

\* What the loop knows at its calls.
LoopIsInStep ==
  /\ pc = "resolve" => conflict # None
  /\ pc = "resolveMold" =>
       /\ conflict \in Generated
       /\ Reread(conflict, before[conflict]) \notin mold.allowed[conflict][Latest]
  /\ pc = "return" => IF status = "OK" THEN Successful ELSE version = began

(* Between calls: the config was just set or is what a call left that      *)
(* failed, or the calls have brought it to the new version.                *)
IdleIsExplained ==
  pc = "idle" =>
    \/ value = before /\ version = began
    \/ target = None /\ version = began /\ OnlyRefreshed
    \/ target = None /\ version = Latest /\ RetriesAgree

HistoryTypes ==
  /\ pc \in Calls /\ discard \in BOOLEAN
  /\ before \in [Keyvals -> Values \cup {None}] /\ began \in Versions

ChangesInv == HistoryTypes /\ CallIsFaithful /\ LoopIsInStep /\ IdleIsExplained

\* The history of a call stays, and what is said in its terms.
LEMMA SameHistory ==
  ASSUME mold' = mold, before' = before, began' = began
  PROVE  \A k \in Keyvals : /\ Asked(k)' <=> Asked(k)
                            /\ Refreshed(k)' <=> Refreshed(k)
                            /\ Expected(k)' = Expected(k)
                            /\ Active(k, Latest)' = Active(k, Latest)
BY DEF Asked, Refreshed, Expected, Same, Reread, Active, Introduced, Latest

\* Where the call asks, the config still has the value it was called with.
LEMMA AskedAreKept ==
  ASSUME OnlyRefreshed, NEW k \in Keyvals, Asked(k)
  PROVE  value[k] = before[k] /\ value[k] # None
BY DEF OnlyRefreshed, Refreshed, Asked

(* The call goes on from the version it was called with: places are those  *)
(* ahead, the other keyvals are as they will be.                           *)
LEMMA CallProceeds ==
  ASSUME TypeOK, HistoryTypes, version = began, began < Latest, OnlyRefreshed, conflict = None,
         NEW places \in SUBSET DOMAIN Order, Proceed(places, Latest), target' = Latest,
         NEW here, here = {Order[i] : i \in places},
         \A k \in Keyvals \ here : Asked(k) => answer[k] # None,
         \A k \in Keyvals \ here : Refreshed(k) => value[k] = Active(k, Latest),
         \A i \in places : value[Order[i]] # None,
         UNCHANGED <<answer, before, began>>
  PROVE  /\ OnlyRefreshed'
         /\ \A k \in Passed' : Asked(k) => answer[k] # None
         /\ \A k \in Passed' : Refreshed(k) => value'[k] = Active(k, Latest)
         /\ \/ status' = "OK" /\ conflict' = None /\ Successful'
            \/ /\ status' = "CONFLICT" /\ conflict' # None /\ Asked(conflict)'
               /\ version' = began
<1>1. /\ mold \in Molds /\ version \in Nat /\ Latest \in Nat /\ Latest # None /\ version < Latest
      /\ \A i \in DOMAIN Order : Order[i] \in Keyvals /\ i \in Nat
      /\ \A i, j \in DOMAIN Order : Order[i] = Order[j] => i = j
      /\ Latest \in Versions /\ None \notin Keyvals
  BY LatestFacts, UpdateAssumption DEF UpdateAssumption, TypeOK, IsInjective
<1>2. /\ mold' = mold
      /\ \A k \in Keyvals : value'[k] # value[k] =>
           Verdict(k, Latest) = "refresh" /\ value'[k] = Active(k, Latest)
      /\ RunsOut(places, Latest) \/ \E stop \in places : StopsAt(places, Latest, stop)
  BY <1>1, ProceedFacts
<1>3. \A k \in Keyvals : Active(k, version) # None
  BY <1>1, ActiveIsValue
<1>4. OnlyRefreshed'
  <2>1. ASSUME NEW k \in Keyvals
        PROVE  \/ value'[k] = before[k]
               \/ Refreshed(k) /\ value'[k] = Active(k, Latest)
    <3>1. CASE value'[k] = value[k]
      BY <3>1 DEF OnlyRefreshed
    <3>2. CASE value'[k] # value[k]
      <4>1. /\ Newer(k, Latest) /\ Untouched(k) /\ ~Same(k, value[k], Active(k, Latest))
            /\ value'[k] = Active(k, Latest)
        BY <1>2, <3>2 DEF Verdict
      <4>2. value[k] = before[k] /\ value[k] # None
        <5>1. Same(k, Active(k, Latest), Active(k, Latest)) /\ ~Same(k, None, Active(k, version))
          BY <1>3, SameFacts DEF Same
        <5> QED BY <4>1, <5>1 DEF OnlyRefreshed, Untouched
      <4> QED BY <4>1, <4>2 DEF Refreshed, Untouched, Newer
    <3> QED BY <3>1, <3>2
  <2> QED BY <1>2, <2>1, SameHistory DEF OnlyRefreshed
<1>5. ASSUME NEW k \in Keyvals, Dealt(k, Latest)
      PROVE  /\ ~Asked(k)
             /\ Refreshed(k) => value'[k] = Active(k, Latest)
  <2>1. ~Asked(k)
    <3> SUFFICES ASSUME Asked(k) PROVE Verdict(k, Latest) = "ask"
      BY <1>5 DEF Dealt
    <3>1. value[k] = before[k]
      BY AskedAreKept
    <3> QED BY <3>1 DEF Asked, Verdict, Newer, Untouched
  <2>2. ASSUME Refreshed(k) PROVE value'[k] = Active(k, Latest)
    <3>1. CASE value[k] = Active(k, Latest)
      BY <1>2, <3>1
    <3>2. CASE value[k] # Active(k, Latest)
      <4>1. value[k] = before[k]
        BY <3>2 DEF OnlyRefreshed
      <4>2. Verdict(k, Latest) = "refresh"
        BY <2>2, <4>1 DEF Refreshed, Verdict, Untouched, Newer
      <4> QED BY <1>5, <4>2 DEF Dealt
    <3> QED BY <3>1, <3>2
  <2> QED BY <2>1, <2>2
<1>6. \A k \in Keyvals \ here : Refreshed(k) => value'[k] = Active(k, Latest)
  BY <1>2
<1>7. CASE RunsOut(places, Latest)
  <2>1. /\ version' = Latest /\ conflict' = None /\ status' = "OK"
        /\ \A k \in here : k \in Keyvals /\ Dealt(k, Latest)
    BY <1>1, <1>7 DEF RunsOut
  <2>2. Successful'
    BY <1>1, <2>1 DEF Successful
  <2> QED BY <1>4, <1>5, <1>6, <2>1, <2>2 DEF Passed
<1>8. ASSUME NEW stop \in places, StopsAt(places, Latest, stop)
      PROVE  /\ \A k \in Passed' : Asked(k) => answer[k] # None
             /\ \A k \in Passed' : Refreshed(k) => value'[k] = Active(k, Latest)
             /\ status' = "CONFLICT" /\ conflict' # None /\ Asked(conflict)'
             /\ version' = began
  <2>1. /\ version' = version /\ status' = "CONFLICT" /\ conflict' = Order[stop]
        /\ Verdict(Order[stop], Latest) = "ask" /\ ahead' = {i \in places : stop < i}
        /\ \A i \in places : i < stop => Dealt(Order[i], Latest)
    BY <1>8 DEF StopsAt
  <2>2. ASSUME NEW k \in Passed', k \in here PROVE k \in Keyvals /\ Dealt(k, Latest)
    <3>1. PICK i \in places : k = Order[i]
      BY <2>2
    <3>2. i # stop /\ ~(stop < i)
      BY <2>1, <2>2, <3>1 DEF Passed, Ahead
    <3>3. i \in Nat /\ stop \in Nat
      BY <1>1
    <3>4. i < stop
      BY <3>2, <3>3
    <3> QED BY <1>1, <2>1, <3>1, <3>4
  <2>3. Passed' \subseteq Keyvals
    BY DEF Passed
  <2>4. Order[stop] \in Keyvals /\ Asked(Order[stop])
    <3>1. Order[stop] \in Keyvals /\ value[Order[stop]] # None
      BY <1>1
    <3>2. /\ Newer(Order[stop], Latest) /\ ~Untouched(Order[stop])
          /\ ~Same(Order[stop], value[Order[stop]], Active(Order[stop], Latest))
      BY <2>1 DEF Verdict
    <3>3. value[Order[stop]] = before[Order[stop]]
      BY <3>1, <3>2 DEF OnlyRefreshed, Same
    <3> QED BY <3>1, <3>2, <3>3 DEF Asked, Newer, Untouched
  <2>5. Asked(conflict)' /\ conflict' # None
    <3>1. Asked(Order[stop])'
      BY <1>2, <2>4, SameHistory
    <3> QED BY <1>1, <2>1, <2>4, <3>1 DEF Asked
  <2> QED BY <1>5, <1>6, <2>1, <2>2, <2>3, <2>5
<1> QED BY <1>2, <1>4, <1>7, <1>8

LEMMA ChangesInitInv == ASSUME ChangesInit, Inv PROVE ChangesInv
<1>1. pc = "idle" /\ discard = FALSE /\ before = value /\ began = version
  BY DEF ChangesInit
<1>2. HistoryTypes
  BY <1>1 DEF HistoryTypes, Calls, Inv, TypeOK
<1> QED BY <1>1, <1>2 DEF ChangesInv, CallIsFaithful, LoopIsInStep, IdleIsExplained

LEMMA UserInv ==
  ASSUME Inv, Inv', ChangesInv, User
  PROVE  ChangesInv'
<1>1. /\ pc = "idle" /\ pc' = "idle" /\ before' = value' /\ began' = version'
      /\ discard' = discard
  BY DEF User
<1>2. HistoryTypes'
  BY <1>1 DEF HistoryTypes, ChangesInv, Inv, TypeOK
<1> QED BY <1>1, <1>2 DEF ChangesInv, CallIsFaithful, LoopIsInStep, IdleIsExplained

LEMMA CallInv ==
  ASSUME FlatAndNamed, Inv, Inv', ChangesInv, NEW d \in BOOLEAN, Call(d)
  PROVE  ChangesInv'
<1> DEFINE here == {Order[i] : i \in Collected}
<1>1. /\ pc = "idle" /\ target = None /\ conflict = None /\ target' = Latest
      /\ version < Latest /\ DefaultsAllowed(Latest) /\ Proceed(Collected, Latest)
      /\ pc' = (IF status' = "CONFLICT" THEN "resolve" ELSE "return") /\ discard' = d
      /\ UNCHANGED <<answer, before, began>> /\ \A k \in Keyvals : answer[k] = None
      /\ mold' = mold
  <2>1. version \in Nat /\ Latest \in Nat
    BY LatestFacts, UpdateAssumption DEF UpdateAssumption, Inv, TypeOK
  <2> QED BY <2>1 DEF Call, Start, Proceed, Inv, TypeOK, AnsweredAreChosen
<1>2. version = began /\ OnlyRefreshed
  <2>1. version # Latest
    BY <1>1, LatestFacts, UpdateAssumption DEF UpdateAssumption, Inv, TypeOK
  <2> QED BY <1>1, <2>1 DEF ChangesInv, IdleIsExplained, OnlyRefreshed
<1>3. Collected \subseteq DOMAIN Order /\ \A i \in Collected : value[Order[i]] # None
  BY DEF Collected
<1>4. \A k \in Keyvals \ here : value[k] = None
  <2>1. \A i \in DOMAIN Order : i \in Collected <=> value[Order[i]] # None
    <3>1. \A i \in DOMAIN Order : \A j \in 1..i : Order[j] \in Keyvals
      BY UpdateAssumption DEF UpdateAssumption
    <3> QED BY <3>1 DEF Collected, FlatAndNamed
  <2>2. \A k \in Keyvals : \E i \in DOMAIN Order : Order[i] = k
    BY UpdateAssumption DEF UpdateAssumption, Range
  <2> QED BY <2>1, <2>2
<1> HIDE DEF here
<1>5. \A k \in Keyvals : Active(k, Latest) # None
  BY ActiveIsValue, LatestFacts, UpdateAssumption DEF UpdateAssumption, Inv, TypeOK
<1>6. \A k \in Keyvals \ here : ~Asked(k) /\ ~Refreshed(k)
  <2>1. \A k \in Keyvals \ here : before[k] = None
    BY <1>2, <1>4, <1>5 DEF OnlyRefreshed
  <2> QED BY <2>1 DEF Asked, Refreshed
<1>7. /\ OnlyRefreshed'
      /\ \A k \in Passed' : Asked(k) => answer[k] # None
      /\ \A k \in Passed' : Refreshed(k) => value'[k] = Active(k, Latest)
      /\ \/ status' = "OK" /\ conflict' = None /\ Successful'
         \/ /\ status' = "CONFLICT" /\ conflict' # None /\ Asked(conflict)'
            /\ version' = began
  BY <1>1, <1>2, <1>3, <1>6, CallProceeds DEF here, Inv, ChangesInv
<1>8. Passed' \subseteq Keyvals /\ (\A k \in Keyvals : Asked(k)' <=> Asked(k))
      /\ (\A k \in Keyvals : (Refreshed(k)' <=> Refreshed(k))
                             /\ Active(k, Latest)' = Active(k, Latest))
  BY <1>1, SameHistory DEF Passed
<1>9. DefaultsAllowed(Latest)'
  BY <1>1 DEF DefaultsAllowed, Active, Introduced
<1>10. CallIsFaithful'
  BY <1>1, <1>2, <1>7, <1>8, <1>9 DEF CallIsFaithful
<1>11. LoopIsInStep'
  BY <1>1, <1>7 DEF LoopIsInStep
<1>12. HistoryTypes' /\ IdleIsExplained'
  BY <1>1 DEF ChangesInv, HistoryTypes, Calls, IdleIsExplained
<1> QED BY <1>10, <1>11, <1>12 DEF ChangesInv

LEMMA LoopInv ==
  ASSUME Inv, Inv', ChangesInv, Loop
  PROVE  ChangesInv'
<1>1. /\ pc = "continue" /\ target = Latest /\ target # None
      /\ UNCHANGED <<target, result, answer, discard, before, began>>
      /\ pc' = (IF status' = "CONFLICT" THEN "resolve" ELSE "return") /\ mold' = mold
      /\ \/ /\ conflict # None /\ status' = "CONFLICT"
            /\ UNCHANGED <<mold, version, value, ahead, conflict, mine>>
         \/ conflict = None /\ Proceed(ahead, Latest)
  BY DEF Loop, Continue, Proceed, ChangesInv, CallIsFaithful, LoopIsInStep
<1>2. /\ began < Latest /\ DefaultsAllowed(Latest) /\ OnlyRefreshed
      /\ \A k \in Keyvals : answer[k] # None => Asked(k) /\ answer[k] = Expected(k)
      /\ \A k \in Passed : Asked(k) => answer[k] # None
      /\ \A k \in Passed : Refreshed(k) => value[k] = Active(k, Latest)
      /\ version = began \/ Successful
      /\ conflict # None => Asked(conflict)
  BY <1>1 DEF ChangesInv, CallIsFaithful
<1>3. conflict = None => Passed = Keyvals \ Ahead
  BY <1>1, UpdateAssumption DEF Passed, UpdateAssumption
<1>4. /\ OnlyRefreshed'
      /\ \A k \in Passed' : Asked(k) => answer[k] # None
      /\ \A k \in Passed' : Refreshed(k) => value'[k] = Active(k, Latest)
      /\ \/ status' = "OK" /\ conflict' = None /\ Successful'
         \/ /\ status' = "CONFLICT" /\ conflict' # None /\ Asked(conflict)'
            /\ version' = began
  <2>0. CASE conflict # None
    <3>1. version = began
      BY <1>1, <1>2, <2>0, LatestFacts, UpdateAssumption
         DEF Inv, Phases, Successful, UpdateAssumption, TypeOK
    <3>2. Passed' = Passed /\ Passed \subseteq Keyvals /\ conflict \in Keyvals
      BY <1>1, <2>0 DEF Passed, Ahead, Inv, TypeOK
    <3>3. OnlyRefreshed' /\ (Asked(conflict)' <=> Asked(conflict))
      <4>1. \A k \in Keyvals : /\ Refreshed(k)' <=> Refreshed(k)
                               /\ Active(k, Latest)' = Active(k, Latest)
        BY <1>1, SameHistory
      <4>2. OnlyRefreshed'
        BY <1>1, <1>2, <2>0, <4>1 DEF OnlyRefreshed
      <4>3. Asked(conflict)' <=> Asked(conflict)
        BY <1>1, <2>0 DEF Asked, Same, Active, Introduced, Latest
      <4> QED BY <4>2, <4>3
    <3> QED BY <1>1, <1>2, <2>0, <3>1, <3>2, <3>3
  <2>1. CASE conflict = None /\ version = began
    <3>1. ahead \subseteq DOMAIN Order /\ \A i \in ahead : value[Order[i]] # None
      BY DEF Inv, TypeOK, AheadAreHeld
    <3> QED BY <1>1, <1>2, <1>3, <2>1, <3>1, CallProceeds DEF Ahead, Inv, ChangesInv
  <2>2. CASE conflict = None /\ version # began
    <3>1. Successful /\ ahead = {} /\ version = Latest
      BY <1>1, <1>2, <2>2, UpdateAssumption
         DEF Inv, Phases, Successful, UpdateAssumption, TypeOK
    <3>2. Proceed({}, Latest)
      BY <1>1, <2>2, <3>1
    <3>3. \A k \in Keyvals : value'[k] = value[k]
      BY <3>2 DEF Proceed
    <3>4. version' = Latest /\ conflict' = None /\ ahead' = {} /\ status' = "OK"
      BY <3>2 DEF Proceed
    <3>5. Passed' = Passed /\ Passed \subseteq Keyvals /\ Successful'
      BY <1>1, <2>2, <3>1, <3>4 DEF Passed, Ahead, Successful
    <3>6. OnlyRefreshed'
      BY <1>1, <1>2, <3>3, SameHistory DEF OnlyRefreshed
    <3> QED BY <1>2, <3>3, <3>4, <3>5, <3>6
  <2> QED BY <2>0, <2>1, <2>2
<1>5. /\ Passed' \subseteq Keyvals
      /\ \A k \in Keyvals : /\ Asked(k)' <=> Asked(k)
                            /\ Expected(k)' = Expected(k)
                            /\ Refreshed(k)' <=> Refreshed(k)
                            /\ Active(k, Latest)' = Active(k, Latest)
  BY <1>1, SameHistory DEF Passed
<1>6. DefaultsAllowed(Latest)'
  BY <1>1, <1>2 DEF DefaultsAllowed, Active, Introduced
<1>7. CallIsFaithful'
  BY <1>1, <1>2, <1>4, <1>5, <1>6 DEF CallIsFaithful
<1>8. LoopIsInStep'
  BY <1>1, <1>4 DEF LoopIsInStep
<1>9. HistoryTypes' /\ IdleIsExplained'
  BY <1>1 DEF ChangesInv, HistoryTypes, Calls, IdleIsExplained
<1> QED BY <1>7, <1>8, <1>9 DEF ChangesInv

(* The loop and the resolutions find the keyval itself in the target       *)
(* config.                                                                 *)
LEMMA ResolvedItself ==
  ASSUME FlatAndNamed, Inv, ChangesInv, pc # "idle", NEW v, Resolve(v)
  PROVE  /\ target = Latest /\ conflict \in Keyvals /\ Asked(conflict)
         /\ value[conflict] = before[conflict]
         /\ UNCHANGED <<mold, version, value, target, ahead>>
         /\ \/ /\ conflict \notin Generated /\ status' = "NOT_EXIST" /\ version = began
               /\ UNCHANGED <<conflict, answer>>
            \/ /\ conflict \in Generated /\ v \in mold.allowed[conflict][Latest]
               /\ status' = "OK" /\ conflict' = None
               /\ answer' = [answer EXCEPT ![conflict] = v]
            \/ /\ conflict \in Generated /\ version = began
               /\ \/ status' \in {"ABORTED", "INVALID_ARGUMENT"}
                  \/ /\ status' = "RESTRICTION_VIOLATED"
                     /\ v \notin mold.allowed[conflict][Latest]
               /\ UNCHANGED <<conflict, answer>>
<1>1. /\ target = Latest /\ conflict # None /\ conflict \in Keyvals /\ Asked(conflict)
      /\ UNCHANGED <<mold, version, value, target, ahead>>
  BY DEF Resolve, Inv, TypeOK, ChangesInv, CallIsFaithful
<1>2. value[conflict] = before[conflict]
  BY <1>1, AskedAreKept DEF ChangesInv, CallIsFaithful
<1>3. version = began
  BY <1>1, LatestFacts, UpdateAssumption
     DEF ChangesInv, CallIsFaithful, Inv, Phases, Successful, UpdateAssumption, TypeOK
<1>4. /\ Namesakes(conflict) = {} <=> conflict \notin Generated
      /\ conflict \in Generated => First(Namesakes(conflict)) = conflict
  BY <1>1, NamesakeIsItself
<1> QED BY <1>1, <1>2, <1>3, <1>4 DEF Resolve, Store, Refuse

\* An answer keeps the call faithful.
LEMMA AnswerIsFaithful ==
  ASSUME FlatAndNamed, Inv, ChangesInv, pc # "idle", NEW v, Resolve(v),
         v # None, v \in mold.allowed[conflict][Latest] => v = Expected(conflict),
         UNCHANGED <<before, began>>
  PROVE  CallIsFaithful'
<1>1. /\ target = Latest /\ conflict \in Keyvals /\ conflict # None /\ Asked(conflict)
      /\ UNCHANGED <<mold, version, value, target, ahead>>
      /\ \/ UNCHANGED <<conflict, answer>>
         \/ /\ v = Expected(conflict) /\ conflict' = None
            /\ answer' = [answer EXCEPT ![conflict] = v]
  <2>1. conflict # None
    BY DEF Resolve
  <2> QED BY <2>1, ResolvedItself
<1>2. /\ began < Latest /\ DefaultsAllowed(Latest) /\ OnlyRefreshed
      /\ \A k \in Keyvals : answer[k] # None => Asked(k) /\ answer[k] = Expected(k)
      /\ \A k \in Passed : Asked(k) => answer[k] # None
      /\ \A k \in Passed : Refreshed(k) => value[k] = Active(k, Latest)
      /\ version = began \/ Successful
  BY DEF ChangesInv, CallIsFaithful
<1>3. \A k \in Keyvals : /\ Asked(k)' <=> Asked(k)
                         /\ Expected(k)' = Expected(k)
                         /\ Refreshed(k)' <=> Refreshed(k)
                         /\ Active(k, Latest)' = Active(k, Latest)
  BY <1>1, SameHistory
<1>4. /\ DefaultsAllowed(Latest)' /\ OnlyRefreshed' /\ (Successful' <=> Successful)
      /\ Ahead' = Ahead
  BY <1>1, <1>2, <1>3 DEF DefaultsAllowed, Active, Introduced, OnlyRefreshed, Successful, Ahead
<1>5. Passed' \subseteq Passed \cup {conflict} /\ Passed \subseteq Keyvals
  BY <1>4 DEF Passed
<1>6. \A k \in Keyvals : \/ answer'[k] = answer[k] /\ (k # conflict \/ conflict' = conflict)
                         \/ answer'[k] = v /\ k = conflict /\ v = Expected(k)
  <2>1. answer \in [Keyvals -> Values \cup {None}]
    BY DEF Inv, TypeOK
  <2>2. ASSUME NEW k \in Keyvals, answer' = [answer EXCEPT ![conflict] = v]
        PROVE  answer'[k] = IF k = conflict THEN v ELSE answer[k]
    BY <2>1, <2>2
  <2>3. CASE UNCHANGED <<conflict, answer>>
    BY <2>3
  <2>4. CASE v = Expected(conflict) /\ answer' = [answer EXCEPT ![conflict] = v]
    <3> HIDE DEF Expected
    <3> QED BY <1>1, <2>2, <2>4
  <2> QED BY <1>1, <2>3, <2>4
<1>7. \A k \in Keyvals : answer'[k] # None => Asked(k) /\ answer'[k] = Expected(k)
  BY <1>1, <1>2, <1>6
<1>8. \A k \in Passed' : Asked(k) => answer'[k] # None
  <2>1. conflict \in Passed' => conflict' # conflict
    BY DEF Passed
  <2> QED BY <1>1, <1>2, <1>5, <1>6, <2>1
<1>9. \A k \in Passed' : Refreshed(k) => value[k] = Active(k, Latest)
  <2>1. ~Refreshed(conflict)
    BY <1>1 DEF Asked, Refreshed
  <2> QED BY <1>1, <1>2, <1>5, <2>1
<1>10. \A k \in Passed' : k \in Keyvals
  BY <1>5, <1>1
<1> QED BY <1>1, <1>2, <1>3, <1>4, <1>7, <1>8, <1>9, <1>10 DEF CallIsFaithful

LEMMA OwnInv ==
  ASSUME FlatAndNamed, Inv, Inv', ChangesInv, ResolveWithOwn
  PROVE  ChangesInv'
<1> DEFINE own == Reread(conflict, value[conflict])
<1>1. /\ pc = "resolve" /\ Resolve(own) /\ pc' = AfterResolve
      /\ UNCHANGED <<discard, before, began>>
  BY DEF ResolveWithOwn
<1>2. /\ value[conflict] = before[conflict] /\ conflict \in Keyvals /\ Asked(conflict)
      /\ UNCHANGED mold
      /\ \/ /\ status' = "NOT_EXIST" /\ version' = began
         \/ status' = "OK"
         \/ status' \in {"ABORTED", "INVALID_ARGUMENT"} /\ version' = began
         \/ /\ conflict \in Generated /\ status' = "RESTRICTION_VIOLATED"
            /\ own \notin mold.allowed[conflict][Latest]
            /\ version' = began /\ conflict' = conflict
  BY <1>1, ResolvedItself
<1>3. own # None
  <2>1. value[conflict] \in Values
    BY <1>2 DEF Asked, Inv, TypeOK
  <2> QED BY <1>2, <2>1, RereadIsValue
<1>4. CallIsFaithful'
  <2>1. own \in mold.allowed[conflict][Latest] => own = Expected(conflict)
    BY <1>2 DEF Expected
  <2> QED BY <1>1, <1>3, <2>1, AnswerIsFaithful
<1>5. pc' \in {"continue", "resolveMold", "return"}
  BY <1>1 DEF AfterResolve
<1>6. LoopIsInStep'
  <2>1. Latest' = Latest
    BY DEF Latest
  <2>2. \A v : Reread(conflict, v)' = Reread(conflict', v')
    BY <1>2 DEF Reread
  <2> QED BY <1>1, <1>2, <1>5, <2>1, <2>2 DEF LoopIsInStep, AfterResolve
<1>7. HistoryTypes' /\ IdleIsExplained'
  BY <1>1, <1>5 DEF ChangesInv, HistoryTypes, Calls, IdleIsExplained
<1> QED BY <1>4, <1>6, <1>7 DEF ChangesInv

LEMMA MoldInv ==
  ASSUME FlatAndNamed, Inv, Inv', ChangesInv, ResolveWithMold
  PROVE  ChangesInv'
<1> DEFINE default == Reread(conflict, Active(conflict, target))
<1>1. /\ pc = "resolveMold" /\ Resolve(default) /\ pc' = "continue"
      /\ UNCHANGED <<discard, before, began>>
  BY DEF ResolveWithMold
<1>2. /\ Reread(conflict, before[conflict]) \notin mold.allowed[conflict][Latest]
      /\ target = Latest /\ conflict \in Keyvals
  BY <1>1, UpdateAssumption DEF ChangesInv, LoopIsInStep, CallIsFaithful, UpdateAssumption
<1>5. default # None /\ default = Expected(conflict)
  <2>1. Active(conflict, target) \in Values
    BY <1>2, ActiveIsValue, LatestFacts, UpdateAssumption DEF UpdateAssumption, Inv, TypeOK
  <2> QED BY <1>2, <2>1, RereadIsValue DEF Expected
<1>6. CallIsFaithful'
  BY <1>1, <1>5, AnswerIsFaithful
<1>7. LoopIsInStep'
  BY <1>1 DEF LoopIsInStep
<1>8. HistoryTypes' /\ IdleIsExplained'
  BY <1>1 DEF ChangesInv, HistoryTypes, Calls, IdleIsExplained
<1> QED BY <1>6, <1>7, <1>8 DEF ChangesInv

(* The call hands the target config out, has updated the config itself, or *)
(* has failed.                                                             *)
LEMMA ReturnInv ==
  ASSUME Inv, Inv', ChangesInv, Return
  PROVE  ChangesInv'
<1>1. /\ pc = "return" /\ pc' = "idle" /\ target' = None
      /\ UNCHANGED <<discard, before, began, mold, status>>
      /\ IF KeepsTarget THEN value' = result /\ version' = target
                        ELSE UNCHANGED <<value, version>>
  BY DEF Return, Finish
<1>2. /\ target = Latest /\ OnlyRefreshed /\ mold \in Molds
      /\ \A k \in Keyvals : answer[k] # None => Asked(k) /\ answer[k] = Expected(k)
      /\ \A k \in Passed : Asked(k) => answer[k] # None
      /\ \A k \in Passed : Refreshed(k) => value[k] = Active(k, Latest)
      /\ IF status = "OK" THEN Successful ELSE version = began
  BY <1>1 DEF ChangesInv, CallIsFaithful, LoopIsInStep, Inv, TypeOK
<1>3. \A k \in Keyvals : /\ Asked(k)' <=> Asked(k)
                         /\ Expected(k)' = Expected(k)
                         /\ Refreshed(k)' <=> Refreshed(k)
                         /\ Active(k, Latest)' = Active(k, Latest)
  BY <1>1, SameHistory
<1>4. \A k \in Keyvals : Expected(k) # None \/ ~Asked(k)
  <2>1. ASSUME NEW k \in Keyvals, Asked(k) PROVE Expected(k) # None
    <3>1. before[k] \in Values /\ Active(k, Latest) \in Values
      BY <1>2, <2>1, ActiveIsValue, LatestFacts, UpdateAssumption
         DEF Asked, UpdateAssumption, ChangesInv, HistoryTypes
    <3> QED BY <3>1, RereadIsValue DEF Expected
  <2> QED BY <2>1
<1>5. HistoryTypes' /\ CallIsFaithful' /\ LoopIsInStep'
  BY <1>1 DEF ChangesInv, HistoryTypes, CallIsFaithful, LoopIsInStep, Calls
<1>6. CASE status # "OK"
  <2>1. version' = began /\ UNCHANGED value
    BY <1>1, <1>2, <1>6 DEF KeepsTarget
  <2>2. OnlyRefreshed'
    BY <1>1, <1>2, <1>3, <2>1 DEF OnlyRefreshed
  <2> QED BY <1>1, <1>5, <2>1, <2>2 DEF ChangesInv, IdleIsExplained
<1>7. CASE status = "OK"
  <2>1. version = Latest /\ Passed = Keyvals
    <3>1. target # None /\ Successful /\ version = target
      BY <1>2, <1>7 DEF Successful
    <3>2. target \in Nat
      BY <3>1, UpdateAssumption DEF Inv, TypeOK, UpdateAssumption
    <3>3. ahead = {} /\ conflict = None
      BY <3>1, <3>2 DEF Inv, Phases
    <3> QED BY <1>2, <3>1, <3>3, UpdateAssumption DEF Passed, Ahead, UpdateAssumption
  <2>2. \A k \in Keyvals : Asked(k) <=> answer[k] # None
    BY <1>2, <2>1
  <2>3. version' = Latest
    BY <1>1, <1>2, <2>1
  <2>4. RetriesAgree'
    <3>1. CASE KeepsTarget
      <4>1. ASSUME NEW k \in Generated
            PROVE  result[k] = IF Asked(k) THEN Expected(k) ELSE Active(k, Latest)
        <5>1. k \in Keyvals
          BY UpdateAssumption DEF UpdateAssumption
        <5>2. target # None
          BY <1>2, <1>7 DEF Successful
        <5>3. result[k] = IF answer[k] # None THEN answer[k] ELSE Active(k, Latest)
          BY <1>2, <5>2 DEF Inv, ResolutionsAreStored
        <5> QED BY <1>2, <2>2, <5>1, <5>3
      <4>2. \E k \in Keyvals : Asked(k)
        BY <2>2, <3>1 DEF KeepsTarget
      <4>3. Generated \subseteq Keyvals /\ Latest' = Latest
        BY UpdateAssumption DEF UpdateAssumption, Latest
      <4> QED BY <1>1, <1>3, <3>1, <4>1, <4>2, <4>3 DEF RetriesAgree
    <3>2. CASE ~KeepsTarget
      <4>1. \A k \in Keyvals : ~Asked(k)
        BY <1>7, <2>2, <3>2 DEF KeepsTarget
      <4>2. ASSUME NEW k \in Keyvals
            PROVE  value[k] = IF Refreshed(k) THEN Active(k, Latest) ELSE before[k]
        BY <1>2, <2>1 DEF OnlyRefreshed
      <4> QED BY <1>1, <1>3, <3>2, <4>1, <4>2 DEF RetriesAgree
    <3> QED BY <3>1, <3>2
  <2> QED BY <1>1, <1>5, <2>3, <2>4 DEF ChangesInv, IdleIsExplained, Latest
<1> QED BY <1>6, <1>7

LEMMA ChangesInvNext ==
  ASSUME FlatAndNamed, Inv, Inv', ChangesInv, [ChangesNext]_changesVars
  PROVE  ChangesInv'
<1>1. CASE UNCHANGED changesVars
  <2>1. UNCHANGED <<mold, version, value, target, ahead, conflict, status, answer,
                    pc, discard, before, began>>
    BY <1>1 DEF changesVars, vars
  <2>2. HistoryTypes' /\ LoopIsInStep'
    BY <2>1 DEF ChangesInv, HistoryTypes, LoopIsInStep, Latest, Successful, Reread
  <2>3. \A k \in Keyvals : /\ Asked(k)' <=> Asked(k)
                           /\ Expected(k)' = Expected(k)
                           /\ Refreshed(k)' <=> Refreshed(k)
                           /\ Active(k, Latest)' = Active(k, Latest)
    BY <2>1, SameHistory
  <2>4. /\ Latest' = Latest /\ Passed' = Passed /\ (Successful' <=> Successful)
        /\ Passed \subseteq Keyvals
        /\ \A k \in Keyvals \cup {None} : k = conflict => (Asked(k)' <=> Asked(k))
    BY <2>1 DEF Latest, Passed, Ahead, Successful, Asked, Same, Active, Introduced
  <2>5. (OnlyRefreshed' <=> OnlyRefreshed) /\ (DefaultsAllowed(Latest)' <=> DefaultsAllowed(Latest))
    BY <2>1, <2>3 DEF OnlyRefreshed, DefaultsAllowed, Active, Introduced, Latest
  <2>6. CallIsFaithful'
    BY <2>1, <2>3, <2>4, <2>5 DEF ChangesInv, CallIsFaithful, Inv, TypeOK
  <2>7. RetriesAgree' <=> RetriesAgree
    BY <2>1, <2>3, <2>4, UpdateAssumption DEF RetriesAgree, UpdateAssumption
  <2>8. IdleIsExplained'
    BY <2>1, <2>4, <2>5, <2>7 DEF ChangesInv, IdleIsExplained
  <2> QED BY <2>2, <2>6, <2>8 DEF ChangesInv
<1>2. CASE User
  BY <1>2, UserInv
<1>3. ASSUME NEW d \in BOOLEAN, Call(d) PROVE ChangesInv'
  BY <1>3, CallInv
<1>4. CASE ResolveWithOwn
  BY <1>4, OwnInv
<1>5. CASE ResolveWithMold
  BY <1>5, MoldInv
<1>6. CASE Loop
  BY <1>6, LoopInv
<1>7. CASE Return
  BY <1>7, ReturnInv
<1> QED BY <1>1, <1>2, <1>3, <1>4, <1>5, <1>6, <1>7 DEF ChangesNext, Body

(* A call of dx_update_config_with_changes that fails leaves a config from *)
(* which the next one gets the same result, after any number of attempts:  *)
(* only what is taken for a default was refreshed, and no value that will  *)
(* be asked about.                                                         *)
THEOREM Retries == ASSUME FlatAndNamed PROVE ChangesSpec => []RetriesAgree
<1>1. ChangesInit => Inv /\ ChangesInv
  BY InvInit, ChangesInitInv DEF ChangesInit
<1>2. Inv /\ ChangesInv /\ [ChangesNext]_changesVars => (Inv /\ ChangesInv)'
  <2> SUFFICES ASSUME Inv, ChangesInv, [ChangesNext]_changesVars PROVE Inv' /\ ChangesInv'
    OBVIOUS
  <2>1. Held
    BY DEF Inv, Held, ConflictIsChosen
  <2>2. [Next]_vars
    BY <2>1, StepIsNext
  <2>3. Inv'
    BY <2>2, InvNext
  <2> QED BY <2>3, ChangesInvNext
<1>3. Inv /\ ChangesInv => RetriesAgree
  <2> SUFFICES ASSUME Inv, ChangesInv, pc = "idle", version = Latest, began < Latest
               PROVE  RetriesAgree
    BY DEF RetriesAgree
  <2>1. version # began
    BY LatestFacts, UpdateAssumption DEF UpdateAssumption, ChangesInv, HistoryTypes
  <2> QED BY <2>1 DEF ChangesInv, IdleIsExplained
<1> QED BY <1>1, <1>2, <1>3, PTL DEF ChangesSpec

\* A conflict that was reported is about a keyval.
LEMMA ConflictIsKeyval ==
  ASSUME TypeOK, NEW places \in SUBSET DOMAIN Order, NEW t \in Versions, Proceed(places, t)
  PROVE  status' = "CONFLICT" => conflict' # None
<1>1. \A i \in DOMAIN Order : Order[i] \in Keyvals
  BY UpdateAssumption DEF UpdateAssumption
<1>2. RunsOut(places, t) \/ \E stop \in places : StopsAt(places, t, stop)
  BY ProceedFacts
<1>3. CASE RunsOut(places, t)
  BY <1>3 DEF RunsOut
<1>4. ASSUME NEW stop \in places, StopsAt(places, t, stop) PROVE conflict' # None
  BY <1>1, <1>4, UpdateAssumption DEF StopsAt, UpdateAssumption
<1> QED BY <1>2, <1>3, <1>4

(* The loop asks only about a conflict that there is, of the update to the *)
(* latest version, whatever the sections and names of the config are.      *)
THEOREM ChangesTypeCorrect == ChangesSpec => []ChangesTypeOK
<1>1. ChangesInit => Held /\ ChangesTypeOK
  <2> SUFFICES ASSUME ChangesInit PROVE Held /\ ChangesTypeOK
    OBVIOUS
  <2>1. Held /\ TypeOK
    <3>1. Init /\ Inv
      BY InvInit DEF ChangesInit
    <3> QED BY <3>1 DEF Inv, Held, ConflictIsChosen
  <2>2. pc = "idle" /\ discard = FALSE /\ before = value /\ began = version
    BY DEF ChangesInit
  <2> QED BY <2>1, <2>2 DEF ChangesTypeOK, TypeOK, Calls
<1>2. Held /\ ChangesTypeOK /\ [ChangesNext]_changesVars => (Held /\ ChangesTypeOK)'
  <2> SUFFICES ASSUME Held, ChangesTypeOK, [ChangesNext]_changesVars
               PROVE  Held' /\ ChangesTypeOK'
    OBVIOUS
  <2>1. Held' /\ TypeOK' /\ TypeOK
    BY HeldNext, StepIsNext DEF Held
  <2>2. Latest' = Latest
    BY DEF Latest
  <2>3. CASE UNCHANGED changesVars
    BY <2>1, <2>2, <2>3 DEF ChangesTypeOK, changesVars, vars
  <2>4. CASE User
    BY <2>1, <2>4 DEF User, ChangesTypeOK, TypeOK
  <2>5. ASSUME NEW d \in BOOLEAN, Call(d) PROVE ChangesTypeOK'
    <3>1. /\ target' = Latest /\ pc' \in {"resolve", "return"} /\ discard' = d
          /\ UNCHANGED <<before, began>>
          /\ pc' = "resolve" => status' = "CONFLICT"
      BY <2>5 DEF Call, Start
    <3>2. status' = "CONFLICT" => conflict' # None
      <4>1. Collected \in SUBSET DOMAIN Order /\ Latest \in Versions /\ Proceed(Collected, Latest)
        BY <2>5, LatestFacts DEF Collected, Call, Start
      <4> QED BY <2>1, <4>1, ConflictIsKeyval
    <3> QED BY <2>1, <2>2, <3>1, <3>2 DEF ChangesTypeOK, Calls
  <2>6. CASE ResolveWithOwn
    <3>1. /\ pc' \in {"continue", "resolveMold", "return"} /\ UNCHANGED <<target, discard, before, began>>
          /\ pc' = "resolveMold" => status' = "RESTRICTION_VIOLATED"
          /\ status' = "RESTRICTION_VIOLATED" => conflict' = conflict
      BY <2>6 DEF ResolveWithOwn, AfterResolve, Resolve, Store, Refuse
    <3> QED BY <2>1, <2>2, <2>6, <3>1 DEF ChangesTypeOK, Calls, ResolveWithOwn
  <2>7. CASE ResolveWithMold
    <3>1. pc' = "continue" /\ UNCHANGED <<target, discard, before, began>>
      BY <2>7 DEF ResolveWithMold, Resolve
    <3> QED BY <2>1, <2>2, <2>7, <3>1 DEF ChangesTypeOK, Calls, ResolveWithMold
  <2>8. CASE Loop
    <3>1. /\ pc' \in {"resolve", "return"} /\ UNCHANGED <<target, discard, before, began>>
          /\ pc' = "resolve" => status' = "CONFLICT"
      BY <2>8 DEF Loop, Continue
    <3>2. status' = "CONFLICT" => conflict' # None
      <4>1. CASE conflict # None
        BY <2>8, <4>1 DEF Loop, Continue
      <4>2. CASE conflict = None
        <5>1. ahead \in SUBSET DOMAIN Order /\ target \in Versions /\ Proceed(ahead, target)
          BY <2>1, <2>8, <4>2 DEF Loop, Continue, TypeOK
        <5> QED BY <2>1, <5>1, ConflictIsKeyval
      <4> QED BY <4>1, <4>2
    <3> QED BY <2>1, <2>2, <2>8, <3>1, <3>2 DEF ChangesTypeOK, Calls, Loop
  <2>9. CASE Return
    BY <2>1, <2>2, <2>9 DEF Return, ChangesTypeOK, Calls
  <2> QED BY <2>1, <2>3, <2>4, <2>5, <2>6, <2>7, <2>8, <2>9 DEF ChangesNext, Body
<1> QED BY <1>1, <1>2, PTL DEF ChangesSpec
=============================================================================
