-------------------------- MODULE ConfigTreeProofs --------------------------
(* Theorems about ConfigTree, for every mold, of any depth and with any    *)
(* number of elements, every query and every file: a set is exact, what is *)
(* not marked holds to the mold, dc_compare tells what differs, and a      *)
(* config survives being written when its values do.                       *)
(*                                                                         *)
(* A tree is compared from its deepest elements upwards, a query goes down *)
(* name by name: both are inductions over a bounded number (DataFacts).    *)
EXTENDS ConfigTree, DataFacts

\* Paths are sequences of names with indexes.
Pairs(X) == Names \X X
Path == Seq(Pairs(Nat))
UnknownPath == <<<<Unknown, 0>>>>

Typed(t) == t \in [DOMAIN t -> [value : Values \cup {Section}, invalid : BOOLEAN]]

\* Each element is below sections of the tree.
Rooted(t) ==
  \A p \in DOMAIN t :
    /\ p \in Path \ {<<>>}
    /\ \A k \in 1..(Len(p) - 1) : Upto(p, k) \in DOMAIN t /\ t[Upto(p, k)].value = Section

\* The entries of a name have the indexes from 0 on.
Consecutive(t) ==
  \A p \in DOMAIN t : \A i \in 0..Last(p)[2] : Entry(Front(p), Last(p)[1], i) \in DOMAIN t

\* There are finitely many levels and indexes.
Limited(t) ==
  \E b \in Nat : \A p \in DOMAIN t : Len(p) <= b /\ \A k \in 1..Len(p) : p[k][2] <= b

\* The shape of a tree.
Tidy(t) == Typed(t) /\ Rooted(t) /\ Consecutive(t) /\ Limited(t)

\* An element is what the mold says it is, or one that somebody put into a file.
OfMold(t) ==
  \A p \in DOMAIN t :
    \/ p = UnknownPath /\ t[p].value # Section
    \/ /\ NamesOf(p) \in DOMAIN mold
       /\ t[p].value = Section <=> mold[NamesOf(p)].kind = "SECTION"

NumberHolds(t, parent, names) ==
  LET n == Count(t, parent, Last(names)) IN
  mold[names].min <= n /\ (mold[names].max # 0 => n <= mold[names].max)

\* The number of entries of each element of the mold below each parent.
InNumber(t) ==
  \A names \in DOMAIN mold : \A parent \in {<<>>} \cup DOMAIN t :
    NamesOf(parent) = Front(names) => NumberHolds(t, parent, names)

\* What the mold refuses is marked.
Marked(t) ==
  \A p \in DOMAIN t : t[p].value # Section /\ ~t[p].invalid => Accepts(NamesOf(p), t[p].value)

\* The elements that are in a text, none marked.
Tree(json) == [p \in DOMAIN Content(json) |-> [value |-> Content(json)[p], invalid |-> FALSE]]

\* No two members of a text become one element.
Distinct(json) == \A r, s \in DOMAIN json : ReadPath(r) = ReadPath(s) => r = s
----------------------------------------------------------------------------
(* Paths.                                                                  *)
\* What Upto cuts off a sequence.
LEMMA UptoFacts ==
  ASSUME NEW X, NEW p \in Seq(X)
  PROVE  /\ Upto(p, Len(p)) = p /\ Upto(p, 0) = <<>>
         /\ p # <<>> => Front(p) = Upto(p, Len(p) - 1) /\ Last(p) = p[Len(p)] /\ Len(p) >= 1
         /\ \A k \in 0..Len(p) :
              /\ Upto(p, k) \in Seq(X) /\ Len(Upto(p, k)) = k
              /\ Upto(p, k) = <<>> <=> k = 0
              /\ \A l \in 1..k : Upto(p, k)[l] = p[l]
              /\ \A l \in 0..k : Upto(Upto(p, k), l) = Upto(p, l)
<1>1. /\ Upto(p, Len(p)) = p /\ Upto(p, 0) = <<>>
      /\ p # <<>> => Front(p) = Upto(p, Len(p) - 1) /\ Last(p) = p[Len(p)] /\ Len(p) >= 1
  BY DEF Upto, Front, Last
<1>2. ASSUME NEW k \in 0..Len(p)
      PROVE  /\ Upto(p, k) \in Seq(X) /\ Len(Upto(p, k)) = k
             /\ Upto(p, k) = <<>> <=> k = 0
             /\ \A l \in 1..k : Upto(p, k)[l] = p[l]
             /\ \A l \in 0..k : Upto(Upto(p, k), l) = Upto(p, l)
  BY DEF Upto
<1> QED BY <1>1, <1>2

\* What is known of the sequence p with the last element x.
LEMMA AppendFacts ==
  ASSUME NEW X, NEW p \in Seq(X), NEW x \in X
  PROVE  /\ Append(p, x) \in Seq(X) \ {<<>>} /\ Len(Append(p, x)) = Len(p) + 1
         /\ Front(Append(p, x)) = p /\ Last(Append(p, x)) = x
         /\ Append(p, x)[Len(p) + 1] = x
         /\ \A k \in 1..Len(p) : Append(p, x)[k] = p[k]
         /\ \A k \in 0..Len(p) : Upto(Append(p, x), k) = Upto(p, k)
  BY DEF Upto, Front, Last

\* A sequence is known by its front and its last element.
LEMMA SameEnds ==
  ASSUME NEW X, NEW s \in Seq(X) \ {<<>>}, NEW u \in Seq(X) \ {<<>>}, Front(s) = Front(u), Last(s) = Last(u)
  PROVE  s = u
<1>1. /\ Len(s) \in Nat /\ Len(s) >= 1 /\ Len(Front(s)) = Len(s) - 1
      /\ \A i \in 1..(Len(s) - 1) : Front(s)[i] = s[i]
  <2>1. Len(s) \in Nat /\ Len(s) >= 1 /\ Len(s) - 1 \in 0..Len(s) /\ Front(s) = Upto(s, Len(s) - 1)
    BY UptoFacts
  <2>2. Len(Upto(s, Len(s) - 1)) = Len(s) - 1 /\ \A i \in 1..(Len(s) - 1) : Upto(s, Len(s) - 1)[i] = s[i]
    BY <2>1, UptoFacts
  <2> QED BY <2>1, <2>2
<1>2. /\ Len(u) \in Nat /\ Len(u) >= 1 /\ Len(Front(u)) = Len(u) - 1
      /\ \A i \in 1..(Len(u) - 1) : Front(u)[i] = u[i]
  <2>1. Len(u) \in Nat /\ Len(u) >= 1 /\ Len(u) - 1 \in 0..Len(u) /\ Front(u) = Upto(u, Len(u) - 1)
    BY UptoFacts
  <2>2. Len(Upto(u, Len(u) - 1)) = Len(u) - 1 /\ \A i \in 1..(Len(u) - 1) : Upto(u, Len(u) - 1)[i] = u[i]
    BY <2>1, UptoFacts
  <2> QED BY <2>1, <2>2
<1>3. Len(s) = Len(u)
  BY <1>1, <1>2
<1>4. \A i \in 1..Len(s) : s[i] = u[i]
  <2> SUFFICES ASSUME NEW i \in 1..Len(s) PROVE s[i] = u[i]
    OBVIOUS
  <2>1. CASE i = Len(s)
    BY <1>3, <2>1 DEF Last
  <2>2. CASE i # Len(s)
    <3>1. i \in 1..(Len(s) - 1)
      BY <1>1, <2>2
    <3> QED BY <1>1, <1>2, <1>3, <3>1
  <2> QED BY <2>1, <2>2
<1> QED BY <1>3, <1>4, SameSequence

\* One element more.
LEMMA UptoNext ==
  ASSUME NEW X, NEW p \in Seq(X), NEW k \in 1..Len(p)
  PROVE  Upto(p, k) = Append(Upto(p, k - 1), p[k]) /\ p[k] \in X
  BY DEF Upto

\* The names of a path.
LEMMA NamesFacts ==
  ASSUME NEW X, NEW p \in Seq(Pairs(X))
  PROVE  /\ NamesOf(p) \in Seq(Names) /\ Len(NamesOf(p)) = Len(p)
         /\ \A k \in 1..Len(p) : NamesOf(p)[k] = p[k][1] /\ p[k][1] \in Names /\ p[k][2] \in X
         /\ \A k \in 0..Len(p) : NamesOf(Upto(p, k)) = SubSeq(NamesOf(p), 1, k)
         /\ p = <<>> <=> NamesOf(p) = <<>>
<1>1. /\ NamesOf(p) \in Seq(Names) /\ Len(NamesOf(p)) = Len(p)
      /\ \A k \in 1..Len(p) : NamesOf(p)[k] = p[k][1] /\ p[k][1] \in Names /\ p[k][2] \in X
  BY DEF NamesOf, Pairs
<1>2. ASSUME NEW k \in 0..Len(p) PROVE NamesOf(Upto(p, k)) = SubSeq(NamesOf(p), 1, k)
  BY DEF NamesOf, Upto, Pairs
<1>3. p = <<>> <=> NamesOf(p) = <<>>
  BY <1>1
<1> QED BY <1>1, <1>2, <1>3

\* An entry below a path.
LEMMA EntryFacts ==
  ASSUME NEW X, NEW p \in Seq(Pairs(X)), NEW name \in Names, NEW i \in X
  PROVE  /\ Entry(p, name, i) \in Seq(Pairs(X)) \ {<<>>} /\ Len(Entry(p, name, i)) = Len(p) + 1
         /\ Front(Entry(p, name, i)) = p /\ Last(Entry(p, name, i)) = <<name, i>>
         /\ Last(Entry(p, name, i))[1] = name /\ Last(Entry(p, name, i))[2] = i
         /\ \A k \in 0..Len(p) : Upto(Entry(p, name, i), k) = Upto(p, k)
         /\ Upto(Entry(p, name, i), Len(p) + 1) = Entry(p, name, i)
         /\ Entry(p, name, i)[Len(p) + 1] = <<name, i>>
         /\ \A k \in 1..Len(p) : Entry(p, name, i)[k] = p[k]
         /\ NamesOf(Entry(p, name, i)) = Append(NamesOf(p), name)
<1> DEFINE Y == Pairs(X)
           x == <<name, i>>
           e == Append(p, x)
<1>1. p \in Seq(Y) /\ x \in Y
  BY DEF Pairs
<1>2. /\ e \in Seq(Y) \ {<<>>} /\ Len(e) = Len(p) + 1
      /\ Front(e) = p /\ Last(e) = x /\ e[Len(p) + 1] = x
      /\ \A k \in 1..Len(p) : e[k] = p[k]
      /\ \A k \in 0..Len(p) : Upto(e, k) = Upto(p, k)
  <2> HIDE DEF Y, x
  <2> QED BY <1>1, AppendFacts
<1>3. Upto(e, Len(p) + 1) = e
  BY <1>2, UptoFacts
<1>4. NamesOf(e) = Append(NamesOf(p), name)
  BY DEF NamesOf, Pairs
<1>5. x[1] = name /\ x[2] = i
  OBVIOUS
<1> HIDE DEF x
<1>6. Last(e)[1] = name /\ Last(e)[2] = i
  BY <1>2, <1>5
<1> QED BY <1>2, <1>3, <1>4, <1>6 DEF Entry, x

\* A path is the entry of its last name below its front.
LEMMA EntryOf ==
  ASSUME NEW X, NEW p \in Seq(Pairs(X)) \ {<<>>}
  PROVE  /\ Front(p) \in Seq(Pairs(X)) /\ Len(p) >= 1 /\ Len(Front(p)) = Len(p) - 1
         /\ Front(p) = Upto(p, Len(p) - 1)
         /\ Last(p) = p[Len(p)] /\ Last(p)[1] \in Names /\ Last(p)[2] \in X
         /\ p = Entry(Front(p), Last(p)[1], Last(p)[2])
         /\ NamesOf(Front(p)) = Front(NamesOf(p)) /\ Last(NamesOf(p)) = Last(p)[1]
         /\ \A k \in 1..Len(p) : Upto(p, k) = Entry(Upto(p, k - 1), p[k][1], p[k][2])
<1> DEFINE Y == Pairs(X)
<1>1. p \in Seq(Y) /\ p # <<>>
  OBVIOUS
<1>2. /\ Front(p) = Upto(p, Len(p) - 1) /\ Last(p) = p[Len(p)] /\ Len(p) >= 1
      /\ \A k \in 0..Len(p) : Upto(p, k) \in Seq(Y) /\ Len(Upto(p, k)) = k
      /\ Upto(p, Len(p)) = p
  <2> HIDE DEF Y
  <2> QED BY <1>1, UptoFacts
<1>3. /\ NamesOf(p) \in Seq(Names) /\ Len(NamesOf(p)) = Len(p)
      /\ \A k \in 1..Len(p) : NamesOf(p)[k] = p[k][1] /\ p[k][1] \in Names /\ p[k][2] \in X
      /\ \A k \in 0..Len(p) : NamesOf(Upto(p, k)) = SubSeq(NamesOf(p), 1, k)
  BY NamesFacts
<1>4. ASSUME NEW k \in 1..Len(p) PROVE Upto(p, k) = Entry(Upto(p, k - 1), p[k][1], p[k][2])
  <2>1. Upto(p, k) = Append(Upto(p, k - 1), p[k]) /\ p[k] \in Y
    <3> HIDE DEF Y
    <3> QED BY <1>1, UptoNext
  <2> QED BY <2>1 DEF Entry, Pairs
<1>5. Len(p) \in 1..Len(p) /\ Len(p) - 1 \in 0..Len(p)
  BY <1>1, <1>2
<1>6. NamesOf(Front(p)) = Front(NamesOf(p)) /\ Last(NamesOf(p)) = Last(p)[1]
  BY <1>2, <1>3, <1>5 DEF Front, Last
<1>7. p = Entry(Front(p), Last(p)[1], Last(p)[2])
  BY <1>2, <1>4, <1>5
<1> QED BY <1>2, <1>3, <1>4, <1>5, <1>6, <1>7

\* The same of the paths that elements have.
LEMMA PathEntry ==
  ASSUME NEW p \in Path, NEW name \in Names, NEW i \in Nat
  PROVE  /\ Entry(p, name, i) \in Path \ {<<>>} /\ Len(Entry(p, name, i)) = Len(p) + 1
         /\ Front(Entry(p, name, i)) = p
         /\ Last(Entry(p, name, i))[1] = name /\ Last(Entry(p, name, i))[2] = i
         /\ Last(Entry(p, name, i)) = Entry(p, name, i)[Len(p) + 1]
         /\ \A k \in 0..Len(p) : Upto(Entry(p, name, i), k) = Upto(p, k)
         /\ Upto(Entry(p, name, i), Len(p) + 1) = Entry(p, name, i)
         /\ \A k \in 1..Len(p) : Entry(p, name, i)[k] = p[k]
         /\ NamesOf(Entry(p, name, i)) = Append(NamesOf(p), name)
         /\ Front(NamesOf(Entry(p, name, i))) = NamesOf(p) /\ Last(NamesOf(Entry(p, name, i))) = name
<1>1. p \in Seq(Pairs(Nat))
  BY DEF Path
<1> DEFINE e == Entry(p, name, i)
<1>2. /\ e \in Seq(Pairs(Nat)) \ {<<>>} /\ Len(e) = Len(p) + 1
      /\ Front(e) = p /\ Last(e) = <<name, i>>
      /\ Last(e)[1] = name /\ Last(e)[2] = i
      /\ \A k \in 0..Len(p) : Upto(e, k) = Upto(p, k)
      /\ Upto(e, Len(p) + 1) = e
      /\ e[Len(p) + 1] = <<name, i>>
      /\ \A k \in 1..Len(p) : e[k] = p[k]
      /\ NamesOf(e) = Append(NamesOf(p), name)
  BY <1>1, EntryFacts
<1>3. NamesOf(p) \in Seq(Names)
  BY <1>1, NamesFacts
<1>4. Front(Append(NamesOf(p), name)) = NamesOf(p) /\ Last(Append(NamesOf(p), name)) = name
  <2> DEFINE names == NamesOf(p)
  <2> HIDE DEF names
  <2>1. names \in Seq(Names)
    BY <1>3 DEF names
  <2>2. Front(Append(names, name)) = names /\ Last(Append(names, name)) = name
    BY <2>1 DEF Front, Last
  <2> QED BY <2>2 DEF names
<1> HIDE DEF e
<1>5. Last(e) = e[Len(p) + 1]
  BY <1>2
<1> QED BY <1>2, <1>4, <1>5 DEF Path, e
----------------------------------------------------------------------------
\* A finite set of sequences has a longest.
LEMMA LengthsLimited ==
  ASSUME NEW D, IsFiniteSet(D), \A d \in D : Len(d) \in Nat
  PROVE  \E b \in Nat : \A d \in D : Len(d) <= b
<1> DEFINE N == Cardinality(D)
<1>1. N \in Nat /\ ExistsBijection(1..N, D)
  BY FS_CardinalityType
<1> HIDE DEF N
<1>2. PICK f \in [1..N -> D] : \A d \in D : \E i \in 1..N : f[i] = d
  BY <1>1 DEF ExistsBijection, Bijection, Surjection, Injection
<1> DEFINE T == {k \in 0..N : \E b \in Nat : \A i \in 1..k : Len(f[i]) <= b}
<1>3. 0 \in T
  BY <1>1
<1>4. ASSUME NEW k \in 0..(N - 1), k \in T PROVE k + 1 \in T
  <2>1. PICK b \in Nat : \A i \in 1..k : Len(f[i]) <= b
    BY <1>4
  <2>2. Len(f[k + 1]) \in Nat
    BY <1>1, <1>2, <1>4
  <2> DEFINE c == b + Len(f[k + 1])
  <2>3. c \in Nat /\ \A i \in 1..(k + 1) : Len(f[i]) <= c
    BY <2>1, <2>2, <1>1, <1>2
  <2>4. k + 1 \in 0..N
    BY <1>1
  <2> HIDE DEF c
  <2> QED BY <2>3, <2>4
<1> HIDE DEF T
<1>5. \A k \in 0..N : k \in T
  BY <1>1, <1>3, <1>4, Induction
<1>6. N \in T
  BY <1>1, <1>5
<1>7. PICK b \in Nat : \A i \in 1..N : Len(f[i]) <= b
  BY <1>6 DEF T
<1> QED BY <1>2, <1>7

\* The entries of a name are those with an index below their number.
LEMMA CountFacts ==
  ASSUME NEW t, Rooted(t), Consecutive(t), Limited(t), NEW parent \in Path, NEW name \in Names
  PROVE  /\ Count(t, parent, name) \in Nat
         /\ \A i \in Nat : Entry(parent, name, i) \in DOMAIN t <=> i < Count(t, parent, name)
         /\ EntriesOf(t, parent, name) = {Entry(parent, name, i) : i \in 0..(Count(t, parent, name) - 1)}
<1> DEFINE e(i) == Entry(parent, name, i)
           free == {i \in Nat : e(i) \notin DOMAIN t}
<1>1. \A i \in Nat : /\ e(i) \in Path \ {<<>>} /\ Len(e(i)) = Len(parent) + 1
                     /\ Front(e(i)) = parent /\ Last(e(i)) = e(i)[Len(parent) + 1]
                     /\ Last(e(i))[1] = name /\ Last(e(i))[2] = i
  BY PathEntry
<1>2. Len(parent) \in Nat
  BY DEF Path
<1> HIDE DEF e
<1>3. free \subseteq Nat /\ free # {}
  <2>1. PICK b \in Nat : \A p \in DOMAIN t : Len(p) <= b /\ \A k \in 1..Len(p) : p[k][2] <= b
    BY DEF Limited
  <2>2. e(b + 1) \notin DOMAIN t
    <3> SUFFICES ASSUME NEW i \in Nat, i = b + 1, e(i) \in DOMAIN t PROVE FALSE
      OBVIOUS
    <3>1. e(i)[Len(parent) + 1][2] = i /\ Len(parent) + 1 \in 1..Len(e(i))
      <4>1. Last(e(i)) = e(i)[Len(parent) + 1] /\ Last(e(i))[2] = i /\ Len(e(i)) = Len(parent) + 1
        BY <1>1
      <4> QED BY <4>1, <1>2
    <3>2. e(i)[Len(parent) + 1][2] <= b
      BY <2>1, <3>1
    <3> QED BY <3>1, <3>2
  <2> QED BY <2>2
<1>4. PICK n \in free : \A i \in free : n <= i
  <2> HIDE DEF free
  <2> QED BY <1>3, Least
<1>5. \A i \in Nat : e(i) \in DOMAIN t <=> i < n
  <2>1. ASSUME NEW i \in Nat, e(i) \in DOMAIN t, i >= n PROVE FALSE
    <3>1. \A j \in 0..Last(e(i))[2] : Entry(Front(e(i)), Last(e(i))[1], j) \in DOMAIN t
      BY <2>1 DEF Consecutive
    <3>2. \A j \in 0..i : e(j) \in DOMAIN t
      BY <1>1, <2>1, <3>1 DEF e
    <3>3. n \in 0..i
      BY <1>4, <2>1
    <3>4. e(n) \in DOMAIN t
      BY <3>2, <3>3
    <3> QED BY <1>4, <3>4
  <2>2. ASSUME NEW i \in Nat, e(i) \notin DOMAIN t, i < n PROVE FALSE
    BY <1>4, <2>2
  <2> QED BY <1>4, <2>1, <2>2
<1> DEFINE S == 0..(n - 1)
           E == EntriesOf(t, parent, name)
           f == [i \in S |-> e(i)]
<1>6. ASSUME NEW p \in E PROVE p[Len(p)][2] \in S /\ e(p[Len(p)][2]) = p
  <2>1. p \in DOMAIN t /\ Len(p) = Len(parent) + 1 /\ Last(p)[1] = name /\ Front(p) = parent
    BY DEF EntriesOf
  <2>2. p \in Path \ {<<>>}
    BY <2>1 DEF Rooted
  <2>3. p = Entry(parent, name, Last(p)[2]) /\ Last(p)[2] \in Nat /\ Last(p) = p[Len(p)]
    BY <2>1, <2>2, EntryOf DEF Path
  <2>4. e(Last(p)[2]) \in DOMAIN t
    BY <2>1, <2>3 DEF e
  <2>5. Last(p)[2] < n /\ n \in Nat
    BY <1>4, <1>5, <2>3, <2>4
  <2>6. Last(p)[2] \in S /\ e(Last(p)[2]) = p
    BY <2>3, <2>5 DEF e
  <2> QED BY <2>3, <2>6
<1>7. \A i \in S : e(i) \in E
  <2> SUFFICES ASSUME NEW i \in S PROVE e(i) \in E
    OBVIOUS
  <2>1. i \in Nat /\ e(i) \in DOMAIN t
    BY <1>4, <1>5
  <2>2. Len(e(i)) = Len(parent) + 1 /\ Front(e(i)) = parent /\ Last(e(i))[1] = name
    BY <1>1, <2>1
  <2> QED BY <2>1, <2>2 DEF EntriesOf
<1>8. E = {e(i) : i \in S}
  <2> HIDE DEF E, S
  <2> QED BY <1>6, <1>7
<1>9. f \in Surjection(S, E) /\ f \in Injection(S, E)
  <2>1. f \in [S -> E] /\ \A p \in E : \E i \in S : f[i] = p
    BY <1>6, <1>7
  <2>2. \A i, j \in S : f[i] = f[j] => i = j
    <3> SUFFICES ASSUME NEW i \in S, NEW j \in S, e(i) = e(j) PROVE i = j
      OBVIOUS
    <3>1. i \in Nat /\ j \in Nat
      BY <1>4
    <3>2. Last(e(i))[2] = i /\ Last(e(j))[2] = j
      BY <1>1, <3>1
    <3> QED BY <3>2
  <2> HIDE DEF f
  <2> QED BY <2>1, <2>2 DEF Surjection, Injection, IsInjective
<1>10. IsFiniteSet(S) /\ Cardinality(S) = n
  BY <1>4, FS_Interval
<1>11. Cardinality(E) = n
  <2> HIDE DEF E, S, f
  <2> QED BY <1>9, <1>10, FS_Surjection
<1>12. Count(t, parent, name) = n
  BY <1>11 DEF Count
<1>13. n \in Nat
  BY <1>4
<1> QED BY <1>5, <1>8, <1>12, <1>13 DEF e
----------------------------------------------------------------------------
(* What a mold demands below an element.                                   *)
LEMMA MoldFacts ==
  ASSUME mold \in Molds, NEW names \in DOMAIN mold
  PROVE  /\ names \in Seq(Names) /\ names # <<>> /\ names # <<Unknown>> /\ Len(names) >= 1
         /\ mold[names].min \in Nat /\ mold[names].min <= MaxIndex + 1 /\ MaxIndex \in Nat
         /\ mold[names].max \in Nat /\ (mold[names].max # 0 => mold[names].min <= mold[names].max)
         /\ mold[names].kind \in {"SECTION", "KEYVAL"}
         /\ mold[names].kind = "KEYVAL" => mold[names].allowed \subseteq Values /\ mold[names].default \in Values
         /\ \A k \in 1..(Len(names) - 1) :
              SubSeq(names, 1, k) \in DOMAIN mold /\ mold[SubSeq(names, 1, k)].kind = "SECTION"
         /\ Last(names) \in Names /\ Front(names) \in Seq(Names)
         /\ names = Append(Front(names), Last(names))
         /\ Front(names) # <<>> => Front(names) \in DOMAIN mold /\ mold[Front(names)].kind = "SECTION"
<1>1. IsMoldElement(mold, names) /\ MaxIndex \in Nat
  BY TreeAssumption
<1>2. names \in Seq(Names) /\ names # <<>> /\ names # <<Unknown>> /\ Len(names) >= 1
  BY <1>1 DEF IsMoldElement
<1>3. /\ mold[names].min \in Nat /\ mold[names].min <= MaxIndex + 1 /\ MaxIndex \in Nat
      /\ mold[names].max \in Nat /\ (mold[names].max # 0 => mold[names].min <= mold[names].max)
      /\ mold[names].kind \in {"SECTION", "KEYVAL"}
      /\ mold[names].kind = "KEYVAL" => mold[names].allowed \subseteq Values /\ mold[names].default \in Values
  BY <1>1 DEF IsMoldElement
<1>4. \A k \in 1..(Len(names) - 1) :
        SubSeq(names, 1, k) \in DOMAIN mold /\ mold[SubSeq(names, 1, k)].kind = "SECTION"
  BY <1>1 DEF IsMoldElement
<1>5. /\ Last(names) \in Names /\ Front(names) \in Seq(Names)
      /\ names = Append(Front(names), Last(names))
  BY <1>2 DEF Last, Front
<1>6. Front(names) # <<>> => Front(names) \in DOMAIN mold /\ mold[Front(names)].kind = "SECTION"
  <2> SUFFICES ASSUME Front(names) # <<>>
               PROVE  Front(names) \in DOMAIN mold /\ mold[Front(names)].kind = "SECTION"
    OBVIOUS
  <2>1. Len(names) - 1 \in 1..(Len(names) - 1)
    BY <1>2 DEF Front
  <2> QED BY <1>4, <2>1 DEF Front
<1> QED BY <1>2, <1>3, <1>4, <1>5, <1>6

\* The same for the paths of elements.
LEMMA PathNames ==
  ASSUME NEW p \in Path
  PROVE  /\ NamesOf(p) \in Seq(Names) /\ Len(NamesOf(p)) = Len(p) /\ Len(p) \in Nat
         /\ \A k \in 1..Len(p) : NamesOf(p)[k] = p[k][1] /\ p[k][1] \in Names /\ p[k][2] \in Nat
         /\ \A k \in 0..Len(p) : NamesOf(Upto(p, k)) = SubSeq(NamesOf(p), 1, k)
         /\ p = <<>> <=> NamesOf(p) = <<>>
  BY NamesFacts DEF Path

\* The paths on the way to a path.
LEMMA PathUpto ==
  ASSUME NEW p \in Path
  PROVE  /\ Upto(p, Len(p)) = p /\ Upto(p, 0) = <<>> /\ Len(p) \in Nat
         /\ \A k \in 0..Len(p) :
              /\ Upto(p, k) \in Path /\ Len(Upto(p, k)) = k
              /\ Upto(p, k) = <<>> <=> k = 0
              /\ \A l \in 1..k : Upto(p, k)[l] = p[l]
              /\ \A l \in 0..k : Upto(Upto(p, k), l) = Upto(p, l)
  BY UptoFacts DEF Path

\* A path is an entry of its parent.
LEMMA PathFront ==
  ASSUME NEW p \in Path, p # <<>>
  PROVE  /\ Front(p) \in Path /\ Len(p) >= 1 /\ Len(Front(p)) = Len(p) - 1
         /\ Front(p) = Upto(p, Len(p) - 1)
         /\ Last(p) = p[Len(p)] /\ Last(p)[1] \in Names /\ Last(p)[2] \in Nat
         /\ p = Entry(Front(p), Last(p)[1], Last(p)[2])
         /\ NamesOf(Front(p)) = Front(NamesOf(p)) /\ Last(NamesOf(p)) = Last(p)[1]
         /\ \A k \in 1..Len(p) : Upto(p, k) = Entry(Upto(p, k - 1), p[k][1], p[k][2])
<1>1. p \in Seq(Pairs(Nat)) \ {<<>>}
  BY DEF Path
<1> QED BY <1>1, EntryOf DEF Path

\* The root.
LEMMA RootPath == <<>> \in Path
  BY DEF Path

\* The required elements below p: no index reaches the minimum of its name.
LEMMA RequiredIs ==
  ASSUME mold \in Molds, NEW p \in Path
  PROVE  \A r : r \in RequiredBelow(mold, p) <=>
                  /\ r \in Path /\ NamesOf(r) \in DOMAIN mold
                  /\ Len(r) > Len(p) /\ Upto(r, Len(p)) = p
                  /\ \A k \in (Len(p) + 1)..Len(r) : r[k][2] < mold[NamesOf(Upto(r, k))].min
<1> SUFFICES ASSUME NEW r
             PROVE  r \in RequiredBelow(mold, p) <=>
                      /\ r \in Path /\ NamesOf(r) \in DOMAIN mold
                      /\ Len(r) > Len(p) /\ Upto(r, Len(p)) = p
                      /\ \A k \in (Len(p) + 1)..Len(r) : r[k][2] < mold[NamesOf(Upto(r, k))].min
  OBVIOUS
<1> DEFINE X == 0..MaxIndex \cup {p[k][2] : k \in DOMAIN p}
<1>1. X \subseteq Nat
  <2>1. \A k \in DOMAIN p : p[k][2] \in Nat
    BY PathNames DEF Path
  <2> QED BY <2>1, TreeAssumption
<1>2. ASSUME NEW names \in DOMAIN mold, NEW at \in [1..Len(names) -> X], r = [k \in 1..Len(names) |-> <<names[k], at[k]>>]
      PROVE  r \in Path /\ NamesOf(r) = names /\ Len(r) = Len(names)
  <2>1. names \in Seq(Names) /\ Len(names) \in Nat
    BY MoldFacts
  <2> HIDE DEF X
  <2>2. \A k \in 1..Len(names) : at[k] \in Nat /\ names[k] \in Names
    <3>1. \A k \in 1..Len(names) : at[k] \in X
      BY <1>2
    <3>2. \A k \in 1..Len(names) : names[k] \in Names
      BY <2>1
    <3> QED BY <1>1, <3>1, <3>2
  <2>3. \A k \in 1..Len(names) : <<names[k], at[k]>> \in Pairs(Nat)
    BY <2>2 DEF Pairs
  <2>4. r \in Path /\ Len(r) = Len(names) /\ DOMAIN r = 1..Len(names)
    BY <1>2, <2>1, <2>3 DEF Path
  <2>5. \A k \in 1..Len(names) : r[k][1] = names[k]
    BY <1>2
  <2>6. NamesOf(r) = [k \in 1..Len(names) |-> names[k]]
    BY <2>4, <2>5 DEF NamesOf
  <2>7. names = [k \in 1..Len(names) |-> names[k]]
    BY <2>1
  <2> QED BY <2>4, <2>6, <2>7
<1>3. ASSUME r \in RequiredBelow(mold, p)
      PROVE  r \in Path /\ NamesOf(r) \in DOMAIN mold /\ Len(r) > Len(p)
  <2>1. PICK names \in DOMAIN mold : Len(names) > Len(p) /\ r \in PathsOf(names, X)
    BY <1>3 DEF RequiredBelow, PathsBelow
  <2>2. PICK at \in [1..Len(names) -> X] : r = [k \in 1..Len(names) |-> <<names[k], at[k]>>]
    BY <2>1 DEF PathsOf
  <2> QED BY <1>2, <2>1, <2>2
<1>4. ASSUME /\ r \in Path /\ NamesOf(r) \in DOMAIN mold
             /\ Len(r) > Len(p) /\ Upto(r, Len(p)) = p
             /\ \A k \in (Len(p) + 1)..Len(r) : r[k][2] < mold[NamesOf(Upto(r, k))].min
      PROVE  Len(NamesOf(r)) > Len(p) /\ r \in PathsOf(NamesOf(r), X)
  <2>1. /\ Len(NamesOf(r)) = Len(r) /\ NamesOf(r) \in Seq(Names) /\ Len(r) \in Nat
        /\ \A k \in 1..Len(r) : NamesOf(r)[k] = r[k][1] /\ r[k][1] \in Names /\ r[k][2] \in Nat
        /\ \A k \in 0..Len(r) : NamesOf(Upto(r, k)) = SubSeq(NamesOf(r), 1, k)
    BY <1>4, PathNames
  <2>2. Len(p) \in Nat
    BY PathUpto
  <2>3. ASSUME NEW k \in 1..Len(r) PROVE r[k][2] \in X
    <3>1. CASE k <= Len(p)
      <4>1. Len(p) \in 0..Len(r) /\ k \in 1..Len(p)
        BY <1>4, <2>1, <2>2, <3>1
      <4>2. Upto(r, Len(p))[k] = r[k]
        BY <1>4, <4>1, PathUpto
      <4>3. r[k] = p[k] /\ k \in DOMAIN p
        BY <1>4, <4>1, <4>2 DEF Path
      <4> QED BY <4>3
    <3>2. CASE k > Len(p)
      <4> DEFINE names == NamesOf(r)
      <4>1. SubSeq(names, 1, k) \in DOMAIN mold
        <5>1. CASE k = Len(r)
          <6>1. SubSeq(names, 1, k) = names
            BY <2>1, <5>1
          <6> QED BY <1>4, <6>1
        <5>2. CASE k < Len(r)
          <6>1. k \in 1..(Len(names) - 1)
            BY <2>1, <5>2
          <6> QED BY <1>4, <6>1, MoldFacts
        <5> QED BY <2>1, <5>1, <5>2
      <4>2. mold[SubSeq(names, 1, k)].min \in Nat /\ mold[SubSeq(names, 1, k)].min <= MaxIndex + 1
            /\ MaxIndex \in Nat
        BY <4>1, MoldFacts
      <4>3. r[k][2] < mold[SubSeq(names, 1, k)].min
        <5>1. k \in (Len(p) + 1)..Len(r) /\ k \in 0..Len(r)
          BY <2>1, <2>2, <3>2
        <5>2. NamesOf(Upto(r, k)) = SubSeq(names, 1, k)
          BY <2>1, <5>1
        <5> QED BY <1>4, <5>1, <5>2
      <4>4. r[k][2] \in 0..MaxIndex
        BY <2>1, <4>2, <4>3
      <4> QED BY <4>4
    <3> QED BY <2>1, <2>2, <3>1, <3>2
  <2> HIDE DEF X
  <2> DEFINE names == NamesOf(r)
             at == [k \in 1..Len(names) |-> r[k][2]]
  <2>4. at \in [1..Len(names) -> X]
    BY <2>1, <2>3
  <2>5. r = [k \in 1..Len(names) |-> <<names[k], at[k]>>]
    <3>1. \A k \in 1..Len(names) : at[k] = r[k][2] /\ names[k] = r[k][1]
      BY <2>1
    <3> HIDE DEF names, at
    <3>2. \A k \in 1..Len(r) : r[k] = <<r[k][1], r[k][2]>>
      BY <1>4 DEF Path, Pairs
    <3>3. r = [k \in 1..Len(r) |-> r[k]]
      BY <1>4 DEF Path
    <3> QED BY <2>1, <3>1, <3>2, <3>3 DEF names
  <2> HIDE DEF at, names
  <2>6. r \in PathsOf(names, X)
    BY <2>4, <2>5 DEF PathsOf
  <2> QED BY <1>4, <2>1, <2>6 DEF names
<1> HIDE DEF X
<1>5. r \in RequiredBelow(mold, p) <=>
        /\ \E names \in DOMAIN mold : Len(names) > Len(p) /\ r \in PathsOf(names, X)
        /\ Upto(r, Len(p)) = p
        /\ \A k \in (Len(p) + 1)..Len(r) : r[k][2] < mold[NamesOf(Upto(r, k))].min
  BY DEF RequiredBelow, PathsBelow, X
<1> QED BY <1>3, <1>4, <1>5

\* The required elements below p are below p or sections among them, each name
\* with as many entries as the mold demands.
LEMMA RequiredFacts ==
  ASSUME mold \in Molds, NEW p \in Path
  PROVE  /\ \A r \in RequiredBelow(mold, p) :
              /\ r \in Path /\ r # <<>> /\ Len(r) > Len(p) /\ Upto(r, Len(p)) = p
              /\ NamesOf(r) \in DOMAIN mold
              /\ Front(r) \in {p} \cup RequiredBelow(mold, p)
              /\ \A k \in (Len(p) + 1)..(Len(r) - 1) :
                   Upto(r, k) \in RequiredBelow(mold, p) /\ mold[NamesOf(Upto(r, k))].kind = "SECTION"
         /\ \A parent \in {p} \cup RequiredBelow(mold, p), names \in DOMAIN mold, i \in Nat :
              Front(names) = NamesOf(parent) =>
                (Entry(parent, Last(names), i) \in RequiredBelow(mold, p) <=> i < mold[names].min)
<1>1. Len(p) \in Nat
  BY PathUpto
<1>2. ASSUME NEW r \in RequiredBelow(mold, p)
      PROVE  /\ r \in Path /\ r # <<>> /\ Len(r) > Len(p) /\ Upto(r, Len(p)) = p
             /\ NamesOf(r) \in DOMAIN mold
             /\ Front(r) \in {p} \cup RequiredBelow(mold, p)
             /\ \A k \in (Len(p) + 1)..(Len(r) - 1) :
                  Upto(r, k) \in RequiredBelow(mold, p) /\ mold[NamesOf(Upto(r, k))].kind = "SECTION"
  <2>1. /\ r \in Path /\ NamesOf(r) \in DOMAIN mold
        /\ Len(r) > Len(p) /\ Upto(r, Len(p)) = p
        /\ \A k \in (Len(p) + 1)..Len(r) : r[k][2] < mold[NamesOf(Upto(r, k))].min
    BY RequiredIs
  <2>2. Len(r) \in Nat /\ r # <<>>
    BY <1>1, <2>1, PathUpto DEF Path
  <2>3. ASSUME NEW k \in (Len(p) + 1)..(Len(r) - 1)
        PROVE  Upto(r, k) \in RequiredBelow(mold, p) /\ mold[NamesOf(Upto(r, k))].kind = "SECTION"
    <3> DEFINE u == Upto(r, k)
    <3>1. k \in 0..Len(r) /\ k \in 1..(Len(r) - 1) /\ Len(p) \in 0..k /\ k > Len(p) /\ k \in Nat
      BY <1>1, <2>2
    <3>2. /\ u \in Path /\ Len(u) = k
          /\ \A l \in 1..k : u[l] = r[l]
          /\ \A l \in 0..k : Upto(u, l) = Upto(r, l)
      BY <2>1, <3>1, PathUpto
    <3>3. NamesOf(u) = SubSeq(NamesOf(r), 1, k) /\ Len(NamesOf(r)) = Len(r)
      BY <2>1, <3>1, PathNames
    <3>4. SubSeq(NamesOf(r), 1, k) \in DOMAIN mold /\ mold[SubSeq(NamesOf(r), 1, k)].kind = "SECTION"
      BY <2>1, <3>1, <3>3, MoldFacts
    <3> HIDE DEF u
    <3>5. \A l \in (Len(p) + 1)..k : u[l][2] < mold[NamesOf(Upto(u, l))].min
      <4> SUFFICES ASSUME NEW l \in (Len(p) + 1)..k PROVE u[l][2] < mold[NamesOf(Upto(u, l))].min
        OBVIOUS
      <4>1. l \in (Len(p) + 1)..Len(r) /\ l \in 1..k /\ l \in 0..k
        BY <1>1, <2>2, <3>1
      <4> QED BY <2>1, <3>2, <4>1
    <3>6. Upto(u, Len(p)) = p
      BY <2>1, <3>1, <3>2
    <3>7. u \in RequiredBelow(mold, p)
      BY <3>1, <3>2, <3>3, <3>4, <3>5, <3>6, RequiredIs
    <3> QED BY <3>3, <3>4, <3>7 DEF u
  <2>4. Front(r) \in {p} \cup RequiredBelow(mold, p)
    <3>1. Front(r) = Upto(r, Len(r) - 1)
      BY <2>1, <2>2, PathFront
    <3>2. Len(r) - 1 = Len(p) \/ Len(r) - 1 \in (Len(p) + 1)..(Len(r) - 1)
      BY <1>1, <2>1, <2>2
    <3> QED BY <2>1, <2>3, <3>1, <3>2
  <2> QED BY <2>1, <2>2, <2>3, <2>4
<1>3. ASSUME NEW parent \in {p} \cup RequiredBelow(mold, p), NEW names \in DOMAIN mold, NEW i \in Nat,
             Front(names) = NamesOf(parent)
      PROVE  Entry(parent, Last(names), i) \in RequiredBelow(mold, p) <=> i < mold[names].min
  <2> DEFINE e == Entry(parent, Last(names), i)
             N == Len(parent)
  <2>1. /\ parent \in Path /\ N >= Len(p) /\ Upto(parent, Len(p)) = p /\ N \in Nat
        /\ \A k \in (Len(p) + 1)..N : parent[k][2] < mold[NamesOf(Upto(parent, k))].min
    <3>1. CASE parent = p
      BY <1>1, <3>1, PathUpto
    <3>2. CASE parent \in RequiredBelow(mold, p)
      <4>1. /\ parent \in Path /\ Len(parent) > Len(p) /\ Upto(parent, Len(p)) = p
            /\ \A k \in (Len(p) + 1)..N : parent[k][2] < mold[NamesOf(Upto(parent, k))].min
        BY <3>2, RequiredIs
      <4>2. N \in Nat
        BY <4>1, PathUpto
      <4> QED BY <1>1, <4>1, <4>2
    <3> QED BY <3>1, <3>2
  <2>2. Last(names) \in Names /\ names = Append(Front(names), Last(names))
    BY MoldFacts
  <2>3. /\ e \in Path \ {<<>>} /\ Len(e) = N + 1
        /\ Last(e) = e[N + 1] /\ Last(e)[2] = i
        /\ \A k \in 0..N : Upto(e, k) = Upto(parent, k)
        /\ Upto(e, N + 1) = e
        /\ \A k \in 1..N : e[k] = parent[k]
        /\ NamesOf(e) = names
    <3> DEFINE name == Last(names)
    <3>1. parent \in Path /\ name \in Names
      BY <2>1, <2>2
    <3> HIDE DEF name
    <3> DEFINE en == Entry(parent, name, i)
    <3>2. /\ en \in Path \ {<<>>} /\ Len(en) = N + 1
          /\ Last(en) = en[N + 1] /\ Last(en)[2] = i
          /\ \A k \in 0..N : Upto(en, k) = Upto(parent, k)
          /\ Upto(en, N + 1) = en
          /\ \A k \in 1..N : en[k] = parent[k]
          /\ Front(NamesOf(en)) = NamesOf(parent) /\ Last(NamesOf(en)) = name
      BY <3>1, PathEntry
    <3>3. NamesOf(en) = names
      <4>1. NamesOf(en) \in Seq(Names) \ {<<>>} /\ names \in Seq(Names) \ {<<>>}
        BY <3>2, PathNames, MoldFacts
      <4>2. Front(NamesOf(en)) = Front(names) /\ Last(NamesOf(en)) = Last(names)
        BY <1>3, <3>2 DEF name
      <4> HIDE DEF en
      <4> QED BY <4>1, <4>2, SameEnds
    <3> HIDE DEF en
    <3>4. e = en
      BY DEF en, name
    <3> QED BY <3>2, <3>3, <3>4
  <2> HIDE DEF e, N
  <2>4. \A k \in (Len(p) + 1)..N : e[k][2] < mold[NamesOf(Upto(e, k))].min
    <3> SUFFICES ASSUME NEW k \in (Len(p) + 1)..N PROVE e[k][2] < mold[NamesOf(Upto(e, k))].min
      OBVIOUS
    <3>1. k \in 0..N /\ k \in 1..N
      BY <1>1, <2>1
    <3> QED BY <2>1, <2>3, <3>1
  <2>5. e[N + 1][2] < mold[NamesOf(Upto(e, N + 1))].min <=> i < mold[names].min
    BY <2>3
  <2>6. (\A k \in (Len(p) + 1)..(N + 1) : e[k][2] < mold[NamesOf(Upto(e, k))].min) <=> i < mold[names].min
    <3>1. N + 1 \in (Len(p) + 1)..(N + 1)
      BY <1>1, <2>1
    <3>2. \A k \in (Len(p) + 1)..(N + 1) : k = N + 1 \/ k \in (Len(p) + 1)..N
      BY <1>1, <2>1
    <3> QED BY <2>4, <2>5, <3>1, <3>2
  <2>7. Upto(e, Len(p)) = p
    <3>1. Len(p) \in 0..N
      BY <1>1, <2>1
    <3> QED BY <2>1, <2>3, <3>1
  <2>8. Len(e) > Len(p)
    BY <1>1, <2>1, <2>3
  <2>9. e \in RequiredBelow(mold, p) <=> i < mold[names].min
    BY <2>3, <2>6, <2>7, <2>8, RequiredIs
  <2> QED BY <2>9 DEF e
<1> QED BY <1>2, <1>3
----------------------------------------------------------------------------
(* Trees that grow.                                                        *)
LEMMA CountIs ==
  ASSUME NEW t, Tidy(t), NEW parent \in Path, NEW name \in Names, NEW n \in Nat,
         \A i \in Nat : Entry(parent, name, i) \in DOMAIN t <=> i < n
  PROVE  Count(t, parent, name) = n
<1> DEFINE c == Count(t, parent, name)
<1>1. c \in Nat /\ \A i \in Nat : Entry(parent, name, i) \in DOMAIN t <=> i < c
  BY CountFacts DEF Tidy
<1> HIDE DEF c
<1>2. \A i \in Nat : i < n <=> i < c
  BY <1>1
<1>3. c = n
  BY <1>1, <1>2
<1> QED BY <1>3 DEF c

\* No element of the tree is below p.
NoneBelow(t, p) == \A e \in DOMAIN t : ~(Len(e) > Len(p) /\ Upto(e, Len(p)) = p)

\* p can be the next element of the tree.
IsNext(t, p) ==
  /\ p \in Path /\ p # <<>>
  /\ Len(p) > 1 => Front(p) \in DOMAIN t /\ t[Front(p)].value = Section
  /\ Last(p)[2] = Count(t, Front(p), Last(p)[1])

\* The tree u is t with a new element at p.
HasNew(t, p, value, u) ==
  /\ p \notin DOMAIN t /\ DOMAIN u = DOMAIN t \cup {p}
  /\ u[p] = [value |-> value, invalid |-> FALSE]
  /\ \A e \in DOMAIN t : u[e] = t[e]
  /\ Tidy(u)
  /\ NoneBelow(u, p)
  /\ \A parent \in Path, name \in Names :
       Count(u, parent, name) =
         IF parent = Front(p) /\ name = Last(p)[1] THEN Count(t, parent, name) + 1
         ELSE Count(t, parent, name)

\* WithValue adds the next entry of a name.
LEMMA NewValue ==
  ASSUME NEW t, Tidy(t), NEW p, IsNext(t, p), NEW value \in Values \cup {Section}
  PROVE  HasNew(t, p, value, WithValue(t, p, value))
<1> DEFINE u == WithValue(t, p, value)
           n == Last(p)[2]
<1>1. p \in Path /\ p # <<>>
  BY DEF IsNext
<1>2. /\ Front(p) \in Path /\ Len(p) >= 1 /\ Len(Front(p)) = Len(p) - 1 /\ Len(p) \in Nat
      /\ Front(p) = Upto(p, Len(p) - 1)
      /\ Last(p) = p[Len(p)] /\ Last(p)[1] \in Names /\ n \in Nat
      /\ p = Entry(Front(p), Last(p)[1], n)
  BY <1>1, PathFront, PathUpto
<1>3. \A i \in Nat : Entry(Front(p), Last(p)[1], i) \in DOMAIN t <=> i < n
  BY <1>2, CountFacts DEF Tidy, IsNext
<1>4. p \notin DOMAIN t
  BY <1>2, <1>3
<1>5. /\ DOMAIN u = DOMAIN t \cup {p}
      /\ u[p] = [value |-> value, invalid |-> FALSE]
      /\ \A e \in DOMAIN t : u[e] = t[e]
      /\ u = [e \in DOMAIN u |-> u[e]]
  BY <1>4 DEF WithValue
<1> HIDE DEF u, n
<1>6. \A k \in 1..(Len(p) - 1) : Upto(p, k) \in DOMAIN t /\ t[Upto(p, k)].value = Section
  <2> SUFFICES ASSUME NEW k \in 1..(Len(p) - 1) PROVE Upto(p, k) \in DOMAIN t /\ t[Upto(p, k)].value = Section
    OBVIOUS
  <2>1. Front(p) \in DOMAIN t /\ t[Front(p)].value = Section /\ Len(p) > 1
    BY <1>2 DEF IsNext
  <2>2. CASE k = Len(p) - 1
    BY <1>2, <2>1, <2>2
  <2>3. CASE k # Len(p) - 1
    <3>1. k \in 1..(Len(Front(p)) - 1) /\ k \in 0..(Len(p) - 1) /\ Len(p) - 1 \in 0..Len(p)
      BY <1>2, <2>3
    <3>2. Upto(Front(p), k) \in DOMAIN t /\ t[Upto(Front(p), k)].value = Section
      BY <2>1, <3>1 DEF Tidy, Rooted
    <3>3. Upto(Front(p), k) = Upto(p, k)
      BY <1>1, <1>2, <3>1, PathUpto
    <3> QED BY <3>2, <3>3
  <2> QED BY <2>2, <2>3
<1>7. Typed(u)
  <2> DEFINE R == [value : Values \cup {Section}, invalid : BOOLEAN]
  <2>1. [value |-> value, invalid |-> FALSE] \in R /\ \A e \in DOMAIN t : t[e] \in R
    BY DEF Tidy, Typed
  <2> HIDE DEF R
  <2>2. \A e \in DOMAIN u : u[e] \in R
    BY <1>5, <2>1
  <2>3. u \in [DOMAIN u -> R]
    BY <1>5, <2>2
  <2> QED BY <2>3 DEF Typed, R
<1>8. Rooted(u)
  <2>1. ASSUME NEW e \in DOMAIN u
        PROVE  e \in Path \ {<<>>} /\ \A k \in 1..(Len(e) - 1) : Upto(e, k) \in DOMAIN t /\ t[Upto(e, k)].value = Section
    BY <1>1, <1>5, <1>6 DEF Tidy, Rooted
  <2> QED BY <1>5, <2>1 DEF Rooted
<1>9. Consecutive(u)
  <2>1. ASSUME NEW e \in DOMAIN t, NEW i \in 0..Last(e)[2] PROVE Entry(Front(e), Last(e)[1], i) \in DOMAIN u
    BY <1>5 DEF Tidy, Consecutive
  <2>2. ASSUME NEW i \in 0..Last(p)[2] PROVE Entry(Front(p), Last(p)[1], i) \in DOMAIN u
    <3>1. i \in Nat /\ (i < n \/ i = n)
      BY <1>2 DEF n
    <3>2. CASE i < n
      BY <1>3, <1>5, <3>1, <3>2
    <3>3. CASE i = n
      BY <1>2, <1>5, <3>3
    <3> QED BY <3>1, <3>2, <3>3
  <2> QED BY <1>5, <2>1, <2>2 DEF Consecutive
<1>10. Limited(u)
  <2>1. PICK b \in Nat : \A e \in DOMAIN t : Len(e) <= b /\ \A k \in 1..Len(e) : e[k][2] <= b
    BY DEF Tidy, Limited
  <2> DEFINE c == b + n + 1
  <2>2. c \in Nat /\ c >= b /\ c >= n /\ c >= 1 /\ c >= b + 1
    BY <1>2, <2>1
  <2> HIDE DEF c
  <2>3. ASSUME NEW e \in DOMAIN t PROVE Len(e) <= c /\ \A k \in 1..Len(e) : e[k][2] <= c
    <3>1. e \in Path /\ Len(e) \in Nat /\ \A k \in 1..Len(e) : e[k][2] \in Nat
      BY PathNames DEF Tidy, Rooted
    <3>2. Len(e) <= c
      BY <2>1, <2>2, <3>1
    <3>3. ASSUME NEW k \in 1..Len(e) PROVE e[k][2] <= c
      <4>1. e[k][2] \in Nat /\ e[k][2] <= b
        BY <2>1, <3>1
      <4> QED BY <2>1, <2>2, <4>1
    <3> QED BY <3>2, <3>3
  <2>4. Len(p) <= c
    <3>1. CASE Len(p) = 1
      BY <2>2, <3>1
    <3>2. CASE Len(p) > 1
      <4>1. Len(Front(p)) <= b
        BY <2>1, <3>2 DEF IsNext
      <4> QED BY <1>2, <2>1, <2>2, <4>1
    <3> QED BY <1>2, <3>1, <3>2
  <2>5. ASSUME NEW k \in 1..Len(p) PROVE p[k][2] <= c
    <3>1. CASE k = Len(p)
      BY <1>2, <2>2, <3>1 DEF n
    <3>2. CASE k # Len(p)
      <4>1. k \in 1..(Len(p) - 1) /\ k \in 0..Len(p) /\ k \in 1..k
        BY <1>2, <3>2
      <4>2. Upto(p, k) \in DOMAIN t /\ Len(Upto(p, k)) = k /\ Upto(p, k)[k] = p[k]
        BY <1>1, <1>6, <4>1, PathUpto
      <4> QED BY <2>3, <4>1, <4>2
    <3> QED BY <3>1, <3>2
  <2> QED BY <1>5, <2>2, <2>3, <2>4, <2>5 DEF Limited
<1>11. Tidy(u)
  BY <1>7, <1>8, <1>9, <1>10 DEF Tidy
<1>12. NoneBelow(u, p)
  <2> SUFFICES ASSUME NEW e \in DOMAIN u, Len(e) > Len(p), Upto(e, Len(p)) = p PROVE FALSE
    BY DEF NoneBelow
  <2>1. e \in DOMAIN t
    BY <1>2, <1>5
  <2>2. Len(e) \in Nat /\ Len(p) \in 1..(Len(e) - 1)
    BY <1>2, <2>1, PathUpto DEF Tidy, Rooted
  <2>3. p \in DOMAIN t
    BY <2>1, <2>2 DEF Tidy, Rooted
  <2> QED BY <1>4, <2>3
<1>13. ASSUME NEW parent \in Path, NEW name \in Names
       PROVE  Count(u, parent, name) =
                IF parent = Front(p) /\ name = Last(p)[1] THEN Count(t, parent, name) + 1
                ELSE Count(t, parent, name)
  <2> DEFINE c == Count(t, parent, name)
  <2>1. c \in Nat /\ \A i \in Nat : Entry(parent, name, i) \in DOMAIN t <=> i < c
    BY CountFacts DEF Tidy
  <2>2. \A i \in Nat : Entry(parent, name, i) = p <=> parent = Front(p) /\ name = Last(p)[1] /\ i = n
    <3> SUFFICES ASSUME NEW i \in Nat
                 PROVE  Entry(parent, name, i) = p <=> parent = Front(p) /\ name = Last(p)[1] /\ i = n
      OBVIOUS
    <3>1. /\ Front(Entry(parent, name, i)) = parent /\ Last(Entry(parent, name, i))[1] = name
          /\ Last(Entry(parent, name, i))[2] = i
      BY PathEntry
    <3> QED BY <1>2, <3>1 DEF n
  <2> HIDE DEF c
  <2>3. CASE parent = Front(p) /\ name = Last(p)[1]
    <3>1. c = n
      BY <2>3 DEF c, n, IsNext
    <3>2. \A i \in Nat : Entry(parent, name, i) \in DOMAIN u <=> i < c + 1
      BY <1>5, <2>1, <2>2, <2>3, <3>1
    <3>3. Count(u, parent, name) = c + 1
      BY <1>11, <2>1, <3>2, CountIs
    <3> QED BY <2>3, <3>3 DEF c
  <2>4. CASE ~(parent = Front(p) /\ name = Last(p)[1])
    <3>1. \A i \in Nat : Entry(parent, name, i) \in DOMAIN u <=> i < c
      BY <1>5, <2>1, <2>2, <2>4
    <3>2. Count(u, parent, name) = c
      BY <1>11, <2>1, <3>1, CountIs
    <3> QED BY <2>4, <3>2 DEF c
  <2> QED BY <2>3, <2>4
<1>14. HasNew(t, p, value, u)
  BY <1>4, <1>5, <1>11, <1>12, <1>13 DEF HasNew
<1> QED BY <1>14 DEF u
\* An element that is of the mold keeps the tree of the mold.
LEMMA NewOfMold ==
  ASSUME NEW t, OfMold(t), NEW p, NEW value, NEW u, HasNew(t, p, value, u),
         NamesOf(p) \in DOMAIN mold, value = Section <=> mold[NamesOf(p)].kind = "SECTION"
  PROVE  OfMold(u)
<1>1. /\ DOMAIN u = DOMAIN t \cup {p}
      /\ u[p] = [value |-> value, invalid |-> FALSE]
      /\ \A e \in DOMAIN t : u[e] = t[e]
  BY DEF HasNew
<1>2. u[p].value = value
  BY <1>1
<1> QED BY <1>1, <1>2 DEF OfMold


\* p was begun in the tree, and nothing is below it yet.
IsBegun(t, p) ==
  /\ p \in Path /\ NoneBelow(t, p)
  /\ p # <<>> => p \in DOMAIN t /\ t[p].value = Section

\* A default is a value, or that of a section.
LEMMA DefaultFacts ==
  ASSUME mold \in Molds, NEW e, NamesOf(e) \in DOMAIN mold
  PROVE  /\ Default(mold, e) \in Values \cup {Section}
         /\ Default(mold, e) = Section <=> mold[NamesOf(e)].kind = "SECTION"
<1>1. Section \notin Values
  BY TreeAssumption
<1>2. /\ mold[NamesOf(e)].kind \in {"SECTION", "KEYVAL"}
      /\ mold[NamesOf(e)].kind = "KEYVAL" => mold[NamesOf(e)].default \in Values
  BY MoldFacts
<1> QED BY <1>1, <1>2 DEF Default

\* The tree u is t with the required elements below p.
HasRequired(t, p, u) ==
  /\ DOMAIN u = DOMAIN t \cup RequiredBelow(mold, p)
  /\ \A e \in DOMAIN t : e \notin RequiredBelow(mold, p) /\ u[e] = t[e]
  /\ \A e \in RequiredBelow(mold, p) : u[e] = [value |-> Default(mold, e), invalid |-> FALSE]
  /\ Tidy(u) /\ OfMold(u)
  /\ \A parent \in {<<>>} \cup DOMAIN t, name \in Names :
       parent # p => Count(u, parent, name) = Count(t, parent, name)
  /\ \A parent \in {p} \cup RequiredBelow(mold, p), names \in DOMAIN mold :
       Front(names) = NamesOf(parent) => Count(u, parent, Last(names)) = mold[names].min

\* WithGenerated adds what the mold requires below an element just begun.
LEMMA GeneratedFacts ==
  ASSUME mold \in Molds, NEW t, Tidy(t), OfMold(t), NEW p, IsBegun(t, p)
  PROVE  HasRequired(t, p, WithGenerated(mold, t, p))
<1> DEFINE u == WithGenerated(mold, t, p)
           Q == RequiredBelow(mold, p)
           N == Len(p)
<1>1. p \in Path /\ N \in Nat
  BY PathUpto DEF IsBegun
<1>2. /\ \A r \in Q :
           /\ r \in Path /\ r # <<>> /\ Len(r) > N /\ Upto(r, N) = p
           /\ NamesOf(r) \in DOMAIN mold
           /\ Front(r) \in {p} \cup Q
           /\ \A k \in (N + 1)..(Len(r) - 1) :
                Upto(r, k) \in Q /\ mold[NamesOf(Upto(r, k))].kind = "SECTION"
      /\ \A parent \in {p} \cup Q, names \in DOMAIN mold, i \in Nat :
           Front(names) = NamesOf(parent) => (Entry(parent, Last(names), i) \in Q <=> i < mold[names].min)
  BY <1>1, RequiredFacts
<1>3. \A r \in Q : r \notin DOMAIN t
  BY <1>2 DEF IsBegun, NoneBelow
<1>4. /\ DOMAIN u = DOMAIN t \cup Q
      /\ \A e \in DOMAIN t : u[e] = t[e]
      /\ \A e \in Q : u[e] = [value |-> Default(mold, e), invalid |-> FALSE]
      /\ u = [e \in DOMAIN u |-> u[e]]
  BY <1>3 DEF WithGenerated
<1>5. \A e \in Q : /\ Default(mold, e) \in Values \cup {Section}
                   /\ Default(mold, e) = Section <=> mold[NamesOf(e)].kind = "SECTION"
  BY <1>2, DefaultFacts
<1> HIDE DEF u, Q, N
<1>6. Typed(u)
  <2> DEFINE R == [value : Values \cup {Section}, invalid : BOOLEAN]
  <2>1. \A e \in DOMAIN t : t[e] \in R
    BY DEF Tidy, Typed
  <2>2. \A e \in Q : [value |-> Default(mold, e), invalid |-> FALSE] \in R
    BY <1>5
  <2> HIDE DEF R
  <2>3. \A e \in DOMAIN u : u[e] \in R
    BY <1>4, <2>1, <2>2
  <2>4. u \in [DOMAIN u -> R]
    BY <1>4, <2>3
  <2> QED BY <2>4 DEF Typed, R
<1>7. \A e \in Q : u[e].value = Default(mold, e)
  BY <1>4
<1>8. Rooted(u)
  <2>1. ASSUME NEW e \in DOMAIN t
        PROVE  /\ e \in Path \ {<<>>}
               /\ \A k \in 1..(Len(e) - 1) : Upto(e, k) \in DOMAIN u /\ u[Upto(e, k)].value = Section
    BY <1>4 DEF Tidy, Rooted
  <2>2. ASSUME NEW e \in Q, NEW k \in 1..(Len(e) - 1)
        PROVE  Upto(e, k) \in DOMAIN u /\ u[Upto(e, k)].value = Section
    <3>1. e \in Path /\ Len(e) > N /\ Upto(e, N) = p /\ Len(e) \in Nat
      BY <1>2, PathUpto
    <3>2. CASE k < N
      <4>1. N \in 0..Len(e) /\ k \in 0..N /\ k \in 1..(N - 1) /\ N # 0
        BY <1>1, <3>1, <3>2
      <4>2. Upto(p, k) = Upto(e, k)
        BY <3>1, <4>1, PathUpto
      <4>3. p \in DOMAIN t
        BY <1>1, <4>1 DEF IsBegun, N
      <4>4. Upto(p, k) \in DOMAIN t /\ t[Upto(p, k)].value = Section
        BY <4>1, <4>3 DEF Tidy, Rooted, N
      <4> QED BY <1>4, <4>2, <4>4
    <3>3. CASE k = N
      <4>1. p # <<>>
        BY <1>1, <3>3 DEF N
      <4>2. p \in DOMAIN t /\ t[p].value = Section
        BY <4>1 DEF IsBegun
      <4> QED BY <1>4, <3>1, <3>3, <4>2
    <3>4. CASE k > N
      <4>1. k \in (N + 1)..(Len(e) - 1)
        BY <1>1, <3>1, <3>4
      <4>2. Upto(e, k) \in Q /\ mold[NamesOf(Upto(e, k))].kind = "SECTION"
        BY <1>2, <4>1
      <4> QED BY <1>4, <1>5, <1>7, <4>2
    <3> QED BY <1>1, <3>2, <3>3, <3>4
  <2>3. \A e \in Q : e \in Path \ {<<>>}
    BY <1>2
  <2> QED BY <1>4, <2>1, <2>2, <2>3 DEF Rooted
<1>9. Consecutive(u)
  <2>1. ASSUME NEW e \in DOMAIN t, NEW i \in 0..Last(e)[2] PROVE Entry(Front(e), Last(e)[1], i) \in DOMAIN u
    BY <1>4 DEF Tidy, Consecutive
  <2>2. ASSUME NEW e \in Q, NEW i \in 0..Last(e)[2] PROVE Entry(Front(e), Last(e)[1], i) \in DOMAIN u
    <3> DEFINE names == NamesOf(e)
    <3>1. e \in Path /\ e # <<>> /\ names \in DOMAIN mold /\ Front(e) \in {p} \cup Q
      BY <1>2
    <3>2. /\ Last(e)[2] \in Nat /\ e = Entry(Front(e), Last(e)[1], Last(e)[2])
          /\ NamesOf(Front(e)) = Front(names) /\ Last(names) = Last(e)[1]
      BY <3>1, PathFront
    <3> HIDE DEF names
    <3>3. Last(e)[2] < mold[names].min /\ mold[names].min \in Nat
      BY <1>2, <3>1, <3>2, MoldFacts
    <3>4. i \in Nat /\ i < mold[names].min
      BY <3>2, <3>3
    <3>5. Entry(Front(e), Last(names), i) \in Q
      BY <1>2, <3>1, <3>2, <3>4
    <3> QED BY <1>4, <3>2, <3>5
  <2> QED BY <1>4, <2>1, <2>2 DEF Consecutive
<1>10. Limited(u)
  <2>1. PICK b \in Nat : \A e \in DOMAIN t : Len(e) <= b /\ \A k \in 1..Len(e) : e[k][2] <= b
    BY DEF Tidy, Limited
  <2>2. PICK l \in Nat : \A names \in DOMAIN mold : Len(names) <= l
    <3>1. IsFiniteSet(DOMAIN mold)
      BY TreeAssumption
    <3>2. \A names \in DOMAIN mold : Len(names) \in Nat
      BY MoldFacts
    <3> QED BY <3>1, <3>2, LengthsLimited
  <2> DEFINE c == b + l + MaxIndex
  <2>3. c \in Nat /\ c >= b /\ c >= l /\ c >= MaxIndex /\ MaxIndex \in Nat
    BY <2>1, <2>2, TreeAssumption
  <2> HIDE DEF c
  <2>4. ASSUME NEW e \in DOMAIN t PROVE Len(e) <= c /\ \A k \in 1..Len(e) : e[k][2] <= c
    <3>1. e \in Path /\ Len(e) \in Nat /\ \A k \in 1..Len(e) : e[k][2] \in Nat
      BY PathNames DEF Tidy, Rooted
    <3>2. Len(e) <= c
      BY <2>1, <2>3, <3>1
    <3>3. ASSUME NEW k \in 1..Len(e) PROVE e[k][2] <= c
      <4>1. e[k][2] \in Nat /\ e[k][2] <= b
        BY <2>1, <3>1
      <4> QED BY <2>1, <2>3, <4>1
    <3> QED BY <3>2, <3>3
  <2>5. ASSUME NEW e \in Q PROVE Len(e) <= c /\ \A k \in 1..Len(e) : e[k][2] <= c
    <3>1. /\ e \in Path /\ Len(e) \in Nat /\ Len(e) > N /\ Upto(e, N) = p /\ NamesOf(e) \in DOMAIN mold
          /\ Len(NamesOf(e)) = Len(e) /\ \A k \in 1..Len(e) : e[k][2] \in Nat
      BY <1>2, PathNames
    <3>2. Len(e) <= c
      BY <2>2, <2>3, <3>1
    <3>3. ASSUME NEW k \in 1..Len(e) PROVE e[k][2] <= c
      <4>1. CASE k <= N
        <5>1. N \in 0..Len(e) /\ k \in 1..N /\ N # 0
          BY <1>1, <3>1, <4>1
        <5>2. e[k] = p[k]
          BY <3>1, <5>1, PathUpto
        <5>3. p \in DOMAIN t
          BY <1>1, <5>1 DEF IsBegun, N
        <5> QED BY <2>4, <5>1, <5>2, <5>3 DEF N
      <4>2. CASE k > N
        <5>1. k \in (N + 1)..Len(e) /\ k \in 0..Len(e)
          BY <1>1, <3>1, <4>2
        <5>2. e[k][2] < mold[NamesOf(Upto(e, k))].min
          BY <1>1, <5>1, RequiredIs DEF Q, N
        <5>3. NamesOf(Upto(e, k)) \in DOMAIN mold
          <6>1. CASE k = Len(e)
            BY <3>1, <6>1, PathUpto
          <6>2. CASE k # Len(e)
            <7>1. k \in (N + 1)..(Len(e) - 1)
              BY <1>1, <3>1, <5>1, <6>2
            <7> QED BY <1>2, <7>1
          <6> QED BY <6>1, <6>2
        <5>4. mold[NamesOf(Upto(e, k))].min \in Nat /\ mold[NamesOf(Upto(e, k))].min <= MaxIndex + 1
          BY <5>3, MoldFacts
        <5> QED BY <2>3, <3>1, <5>2, <5>4
      <4> QED BY <1>1, <4>1, <4>2
    <3> QED BY <3>2, <3>3
  <2> QED BY <1>4, <2>3, <2>4, <2>5 DEF Limited
<1>11. Tidy(u)
  BY <1>6, <1>8, <1>9, <1>10 DEF Tidy
<1>12. OfMold(u)
  BY <1>2, <1>4, <1>5, <1>7 DEF OfMold
<1>13. ASSUME NEW parent \in {<<>>} \cup DOMAIN t, NEW name \in Names, parent # p
       PROVE  Count(u, parent, name) = Count(t, parent, name)
  <2> DEFINE c == Count(t, parent, name)
  <2>1. parent \in Path
    BY RootPath DEF Tidy, Rooted
  <2>2. c \in Nat /\ \A i \in Nat : Entry(parent, name, i) \in DOMAIN t <=> i < c
    BY <2>1, CountFacts DEF Tidy
  <2>3. ASSUME NEW i \in Nat, Entry(parent, name, i) \in Q PROVE FALSE
    <3>1. Front(Entry(parent, name, i)) = parent
      BY <2>1, PathEntry
    <3>2. parent \in Q
      BY <1>2, <1>13, <2>3, <3>1
    <3>3. parent # <<>> /\ parent \notin DOMAIN t
      BY <1>2, <1>3, <3>2
    <3> QED BY <3>3
  <2> HIDE DEF c
  <2>4. \A i \in Nat : Entry(parent, name, i) \in DOMAIN u <=> i < c
    BY <1>4, <2>2, <2>3
  <2>5. Count(u, parent, name) = c
    BY <1>11, <2>1, <2>2, <2>4, CountIs
  <2> QED BY <2>5 DEF c
<1>14. ASSUME NEW parent \in {p} \cup Q, NEW names \in DOMAIN mold, Front(names) = NamesOf(parent)
       PROVE  Count(u, parent, Last(names)) = mold[names].min
  <2> DEFINE name == Last(names)
             n == mold[names].min
  <2>1. parent \in Path /\ name \in Names /\ n \in Nat
    BY <1>1, <1>2, MoldFacts
  <2>2. \A i \in Nat : Entry(parent, name, i) \in Q <=> i < n
    BY <1>2, <1>14
  <2>3. ASSUME NEW i \in Nat, Entry(parent, name, i) \in DOMAIN t PROVE FALSE
    <3> DEFINE e == Entry(parent, name, i)
    <3>1. /\ Len(e) = Len(parent) + 1 /\ e # <<>> /\ e \in Path
          /\ \A k \in 0..Len(parent) : Upto(e, k) = Upto(parent, k)
          /\ Upto(parent, Len(parent)) = parent /\ Len(parent) \in Nat
      BY <2>1, PathEntry, PathUpto
    <3> HIDE DEF e
    <3>2. Len(parent) >= N /\ Upto(parent, N) = p
      <4>1. CASE parent = p
        BY <1>1, <4>1, PathUpto DEF N
      <4>2. CASE parent \in Q
        BY <1>1, <1>2, <3>1, <4>2
      <4> QED BY <4>1, <4>2
    <3>3. Upto(e, N) = p /\ Len(e) > N
      BY <1>1, <3>1, <3>2
    <3> QED BY <2>3, <3>3 DEF IsBegun, NoneBelow, N, e
  <2> HIDE DEF name, n
  <2>4. \A i \in Nat : Entry(parent, name, i) \in DOMAIN u <=> i < n
    BY <1>4, <2>2, <2>3
  <2>5. Count(u, parent, name) = n
    BY <1>11, <2>1, <2>4, CountIs
  <2> QED BY <2>5 DEF name, n
<1>15. HasRequired(t, p, u)
  BY <1>3, <1>4, <1>11, <1>12, <1>13, <1>14 DEF HasRequired, Q
<1> QED BY <1>15 DEF u
----------------------------------------------------------------------------
(* What a set does to a tree that holds to its mold.                       *)

\* A config that holds to the mold, but for what is marked in it.
Whole(t) == Tidy(t) /\ OfMold(t) /\ InNumber(t) /\ Marked(t)

\* The mold has room for an entry at p.
HasRoom(p) ==
  /\ NamesOf(p) \in DOMAIN mold
  /\ mold[NamesOf(p)].max = 0 \/ Last(p)[2] < mold[NamesOf(p)].max

\* Where there is room for one entry more, the numbers stay within the mold.
LEMMA NewNumber ==
  ASSUME mold \in Molds, NEW t, Tidy(t), InNumber(t), NEW p, IsNext(t, p), HasRoom(p),
         NEW value \in Values \cup {Section}
  PROVE  \A names \in DOMAIN mold : \A parent \in {<<>>} \cup DOMAIN t :
           NamesOf(parent) = Front(names) => NumberHolds(WithValue(t, p, value), parent, names)
<1> DEFINE u == WithValue(t, p, value)
<1>1. \A parent \in Path, name \in Names :
        Count(u, parent, name) =
          IF parent = Front(p) /\ name = Last(p)[1] THEN Count(t, parent, name) + 1
          ELSE Count(t, parent, name)
  <2>1. HasNew(t, p, value, u)
    BY NewValue
  <2> QED BY <2>1 DEF HasNew
<1> HIDE DEF u
<1> SUFFICES ASSUME NEW names \in DOMAIN mold, NEW parent \in {<<>>} \cup DOMAIN t,
                    NamesOf(parent) = Front(names)
             PROVE  NumberHolds(u, parent, names)
  BY DEF u
<1> DEFINE name == Last(names)
           n == Count(t, parent, name)
<1>2. parent \in Path
  BY RootPath DEF Tidy, Rooted
<1>3. /\ name \in Names /\ names \in Seq(Names) /\ names # <<>>
      /\ mold[names].min \in Nat /\ mold[names].max \in Nat
  BY MoldFacts
<1>4. n \in Nat
  BY <1>2, <1>3, CountFacts DEF Tidy
<1>5. mold[names].min <= n /\ (mold[names].max # 0 => n <= mold[names].max)
  BY DEF InNumber, NumberHolds
<1>6. CASE parent = Front(p) /\ name = Last(p)[1]
  <2>1. p \in Path /\ p # <<>> /\ Last(p)[2] = n
    BY <1>6 DEF IsNext
  <2>2. NamesOf(p) \in Seq(Names) /\ NamesOf(p) # <<>>
    BY <2>1, PathNames
  <2>3. Front(NamesOf(p)) = Front(names) /\ Last(NamesOf(p)) = Last(names)
    BY <1>6, <2>1, PathFront
  <2>4. names = NamesOf(p)
    BY <1>3, <2>2, <2>3, SameEnds
  <2>5. Count(u, parent, name) = n + 1
    BY <1>1, <1>2, <1>3, <1>6
  <2>6. mold[names].max # 0 => n < mold[names].max
    BY <2>1, <2>4 DEF HasRoom
  <2> HIDE DEF n
  <2>7. mold[names].min <= n + 1 /\ (mold[names].max # 0 => n + 1 <= mold[names].max)
    BY <1>3, <1>4, <1>5, <2>6
  <2> QED BY <2>5, <2>7 DEF NumberHolds
<1>7. CASE ~(parent = Front(p) /\ name = Last(p)[1])
  <2>1. Count(u, parent, name) = n
    BY <1>1, <1>2, <1>3, <1>7
  <2> QED BY <1>5, <2>1 DEF NumberHolds
<1> QED BY <1>6, <1>7

\* The next keyval of its name, where the mold has room for it.
LEMMA NewKeyval ==
  ASSUME mold \in Molds, NEW t, Whole(t), NEW p, IsNext(t, p), HasRoom(p),
         mold[NamesOf(p)].kind = "KEYVAL", NEW value, Accepts(NamesOf(p), value)
  PROVE  /\ Whole(WithValue(t, p, value))
         /\ p \notin DOMAIN t /\ DOMAIN WithValue(t, p, value) = DOMAIN t \cup {p}
         /\ WithValue(t, p, value)[p].value = value /\ value # Section
         /\ \A e \in DOMAIN t : WithValue(t, p, value)[e] = t[e]
<1> DEFINE u == WithValue(t, p, value)
<1>1. NamesOf(p) \in DOMAIN mold /\ value \in Values /\ value # Section
  <2>1. NamesOf(p) \in DOMAIN mold /\ value \in mold[NamesOf(p)].allowed
    BY DEF Accepts
  <2>2. mold[NamesOf(p)].allowed \subseteq Values
    BY <2>1, MoldFacts
  <2> QED BY <2>1, <2>2, TreeAssumption
<1>2. value = Section <=> mold[NamesOf(p)].kind = "SECTION"
  BY <1>1
<1>3. /\ p \notin DOMAIN t /\ DOMAIN u = DOMAIN t \cup {p}
      /\ u[p] = [value |-> value, invalid |-> FALSE]
      /\ \A e \in DOMAIN t : u[e] = t[e]
      /\ Tidy(u) /\ OfMold(u)
  <2>1. HasNew(t, p, value, u)
    BY <1>1, NewValue DEF Whole
  <2>2. OfMold(u)
    BY <1>1, <1>2, <2>1, NewOfMold DEF Whole
  <2> QED BY <2>1, <2>2 DEF HasNew
<1>4. \A names \in DOMAIN mold : \A parent \in {<<>>} \cup DOMAIN t :
        NamesOf(parent) = Front(names) => NumberHolds(u, parent, names)
  BY <1>1, <1>2, NewNumber DEF Whole
<1> HIDE DEF u
<1>5. ASSUME NEW names \in DOMAIN mold, NamesOf(p) = Front(names) PROVE FALSE
  <2>1. NamesOf(p) # <<>>
    BY PathNames DEF IsNext
  <2>2. mold[Front(names)].kind = "SECTION"
    BY <1>5, <2>1, MoldFacts
  <2> QED BY <1>5, <2>2
<1>6. InNumber(u)
  BY <1>3, <1>4, <1>5 DEF InNumber
<1>7. Marked(u)
  BY <1>3 DEF Marked, Whole
<1>8. Whole(u)
  BY <1>3, <1>6, <1>7 DEF Whole
<1>9. u[p].value = value
  BY <1>3
<1> QED BY <1>1, <1>3, <1>8, <1>9 DEF u

\* The tree u is t with the section p and what the mold requires below it.
HasNewSection(t, p, u) ==
  /\ Whole(u) /\ p \notin DOMAIN t
  /\ DOMAIN u = DOMAIN t \cup {p} \cup RequiredBelow(mold, p)
  /\ u[p].value = Section
  /\ \A e \in DOMAIN t : u[e] = t[e]
  /\ \A e \in RequiredBelow(mold, p) : e # p /\ u[e].value = Default(mold, e)

\* A section created with what it requires leaves the tree whole.
LEMMA NewSection ==
  ASSUME mold \in Molds, NEW t, Whole(t), NEW p, IsNext(t, p), HasRoom(p),
         mold[NamesOf(p)].kind = "SECTION", ~GeneratesInvalid(mold, p)
  PROVE  HasNewSection(t, p, WithGenerated(mold, WithValue(t, p, Section), p))
<1> DEFINE v == WithValue(t, p, Section)
           u == WithGenerated(mold, v, p)
           Q == RequiredBelow(mold, p)
<1>1. p \in Path /\ p # <<>> /\ Section \in Values \cup {Section}
  BY DEF IsNext
<1>2. /\ p \notin DOMAIN t /\ DOMAIN v = DOMAIN t \cup {p}
      /\ v[p] = [value |-> Section, invalid |-> FALSE]
      /\ \A e \in DOMAIN t : v[e] = t[e]
      /\ Tidy(v) /\ OfMold(v) /\ NoneBelow(v, p)
  <2>1. HasNew(t, p, Section, v)
    BY <1>1, NewValue DEF Whole
  <2>2. OfMold(v)
    <3>1. NamesOf(p) \in DOMAIN mold
      BY DEF HasRoom
    <3> HIDE DEF v
    <3> QED BY <2>1, <3>1, NewOfMold DEF Whole
  <2> QED BY <2>1, <2>2 DEF HasNew
<1>3. \A names \in DOMAIN mold : \A parent \in {<<>>} \cup DOMAIN t :
        NamesOf(parent) = Front(names) => NumberHolds(v, parent, names)
  BY <1>1, NewNumber DEF Whole
<1>4. u = WithGenerated(mold, v, p)
  OBVIOUS
<1> HIDE DEF v, u
<1>5. IsBegun(v, p)
  BY <1>1, <1>2 DEF IsBegun
<1>6. /\ DOMAIN u = DOMAIN v \cup Q
      /\ \A e \in DOMAIN v : e \notin Q /\ u[e] = v[e]
      /\ \A e \in Q : u[e] = [value |-> Default(mold, e), invalid |-> FALSE]
      /\ Tidy(u) /\ OfMold(u)
      /\ \A parent \in {<<>>} \cup DOMAIN v, name \in Names :
           parent # p => Count(u, parent, name) = Count(v, parent, name)
      /\ \A parent \in {p} \cup Q, names \in DOMAIN mold :
           Front(names) = NamesOf(parent) => Count(u, parent, Last(names)) = mold[names].min
  <2>1. HasRequired(v, p, u)
    BY <1>2, <1>4, <1>5, GeneratedFacts
  <2> QED BY <2>1 DEF HasRequired, Q
<1> HIDE DEF Q
<1>7. InNumber(u)
  <2> SUFFICES ASSUME NEW names \in DOMAIN mold, NEW parent \in {<<>>} \cup DOMAIN u,
                      NamesOf(parent) = Front(names)
               PROVE  NumberHolds(u, parent, names)
    BY DEF InNumber
  <2>1. /\ mold[names].min \in Nat /\ mold[names].max \in Nat /\ Last(names) \in Names
        /\ mold[names].max # 0 => mold[names].min <= mold[names].max
    BY MoldFacts
  <2>2. CASE parent \in {p} \cup Q
    <3>1. Count(u, parent, Last(names)) = mold[names].min
      BY <1>6, <2>2
    <3> QED BY <2>1, <3>1 DEF NumberHolds
  <2>3. CASE parent \in {<<>>} \cup DOMAIN t
    <3>1. parent # p
      BY <1>1, <1>2, <2>3
    <3>2. Count(u, parent, Last(names)) = Count(v, parent, Last(names))
      BY <1>2, <1>6, <2>1, <2>3, <3>1
    <3>3. NumberHolds(v, parent, names)
      BY <1>3, <2>3
    <3> QED BY <3>2, <3>3 DEF NumberHolds
  <2> QED BY <1>2, <1>6, <2>2, <2>3
<1>8. Marked(u)
  <2> SUFFICES ASSUME NEW e \in DOMAIN u, u[e].value # Section, ~u[e].invalid
               PROVE  Accepts(NamesOf(e), u[e].value)
    BY DEF Marked
  <2>1. CASE e \in DOMAIN t
    BY <1>2, <1>6, <2>1 DEF Whole, Marked
  <2>2. CASE e = p
    BY <1>2, <1>6, <2>2
  <2>3. CASE e \in Q
    <3>1. u[e].value = Default(mold, e)
      BY <1>6, <2>3
    <3>2. NamesOf(e) \in DOMAIN mold
      BY <1>1, <2>3, RequiredFacts DEF Q
    <3>3. Default(mold, e) \in mold[NamesOf(e)].allowed
      BY <2>3, <3>1 DEF GeneratesInvalid, Q
    <3> QED BY <3>1, <3>2, <3>3 DEF Accepts
  <2> QED BY <1>2, <1>6, <2>1, <2>2, <2>3
<1>9. Whole(u)
  BY <1>6, <1>7, <1>8 DEF Whole
<1>10. u[p].value = Section /\ \A e \in Q : e # p /\ u[e].value = Default(mold, e)
  BY <1>2, <1>6
<1>11. DOMAIN u = DOMAIN t \cup {p} \cup Q /\ \A e \in DOMAIN t : u[e] = t[e]
  BY <1>2, <1>6
<1>12. HasNewSection(t, p, u)
  BY <1>2, <1>9, <1>10, <1>11 DEF HasNewSection, Q
<1> QED BY <1>12 DEF u, v

\* A keyval takes another value.
LEMMA NewValueOf ==
  ASSUME mold \in Molds, NEW t, Whole(t), NEW p \in DOMAIN t, t[p].value # Section, NEW value \in Values,
         t[p].invalid \/ Accepts(NamesOf(p), value)
  PROVE  /\ Whole(WithValue(t, p, value)) /\ DOMAIN WithValue(t, p, value) = DOMAIN t
         /\ WithValue(t, p, value)[p].value = value /\ value # Section
         /\ \A e \in DOMAIN t : e # p => WithValue(t, p, value)[e] = t[e]
<1> DEFINE u == WithValue(t, p, value)
<1>1. /\ DOMAIN u = DOMAIN t /\ u = [e \in DOMAIN u |-> u[e]]
      /\ u[p] = [value |-> value, invalid |-> t[p].invalid]
      /\ \A e \in DOMAIN t : e # p => u[e] = t[e]
  <2>1. DOMAIN t \cup {p} = DOMAIN t /\ t[p].invalid \in BOOLEAN
    BY DEF Whole, Tidy, Typed
  <2> QED BY <2>1 DEF WithValue
<1>2. value # Section
  BY TreeAssumption
<1> HIDE DEF u
<1>3. u[p].value = value /\ u[p].invalid = t[p].invalid
  BY <1>1
<1>4. Typed(u)
  <2> DEFINE R == [value : Values \cup {Section}, invalid : BOOLEAN]
  <2>1. \A e \in DOMAIN t : t[e] \in R
    BY DEF Whole, Tidy, Typed
  <2>2. [value |-> value, invalid |-> t[p].invalid] \in R
    BY <2>1
  <2> HIDE DEF R
  <2>3. \A e \in DOMAIN u : u[e] \in R
    BY <1>1, <2>1, <2>2
  <2>4. u \in [DOMAIN u -> R]
    BY <1>1, <2>3
  <2> QED BY <2>4 DEF Typed, R
<1>5. Tidy(u)
  BY <1>1, <1>4 DEF Whole, Tidy, Rooted, Consecutive, Limited
<1>6. OfMold(u)
  BY <1>1, <1>2, <1>3 DEF Whole, OfMold
<1>7. \A parent, name : Count(u, parent, name) = Count(t, parent, name)
  BY <1>1 DEF Count, EntriesOf
<1>8. InNumber(u)
  BY <1>1, <1>7 DEF Whole, InNumber, NumberHolds
<1>9. Marked(u)
  BY <1>1, <1>3 DEF Whole, Marked
<1> QED BY <1>1, <1>2, <1>3, <1>5, <1>6, <1>8, <1>9 DEF u, Whole
----------------------------------------------------------------------------
(* The sections that a query ensures.                                      *)
LEMMA QueryFacts ==
  ASSUME NEW q \in Queries
  PROVE  /\ Len(q) \in Nat \ {0} /\ DOMAIN q = 1..Len(q)
         /\ PathOf(q) \in Seq(Pairs(Int)) \ {<<>>} /\ Len(PathOf(q)) = Len(q)
<1>1. q \in Seq(Names \X Int) /\ q # <<>>
  BY TreeAssumption
<1>2. Len(q) \in Nat \ {0} /\ DOMAIN q = 1..Len(q)
  BY <1>1
<1>3. \A k \in 1..Len(q) : q[k][1] \in Names /\ q[k][2] \in Int
  BY <1>1
<1>4. \A index \in Int : AsInt(index) \in Int
  BY TreeAssumption DEF AsInt
<1>5. \A k \in 1..Len(q) : <<q[k][1], AsInt(q[k][2])>> \in Pairs(Int)
  BY <1>3, <1>4 DEF Pairs
<1>6. PathOf(q) \in [1..Len(q) -> Pairs(Int)]
  BY <1>2, <1>5 DEF PathOf
<1>7. PathOf(q) \in Seq(Pairs(Int)) /\ Len(PathOf(q)) = Len(q)
  <2> DEFINE p == PathOf(q)
             X == Pairs(Int)
             n == Len(q)
  <2>1. p \in [1..n -> X] /\ n \in Nat
    BY <1>2, <1>6
  <2> HIDE DEF p, X, n
  <2>2. p \in Seq(X) /\ Len(p) = n
    BY <2>1
  <2> QED BY <2>2 DEF p, X, n
<1>8. PathOf(q) # <<>>
  BY <1>2, <1>7
<1> QED BY <1>2, <1>7, <1>8

\* The names of a query up to the next.
LEMMA NextFacts ==
  ASSUME NEW p \in Seq(Pairs(Int)), NEW j \in 1..Len(p)
  PROVE  /\ Front(Upto(p, j)) = Upto(p, j - 1) /\ Last(Upto(p, j))[1] \in Names
         /\ Len(Upto(p, j)) = j /\ Upto(p, j) # <<>>
         /\ Upto(p, j - 1) = <<>> <=> j = 1
         /\ Upto(p, j - 1) \in Path /\ Last(Upto(p, j))[2] \in Nat => Upto(p, j) \in Path
<1> DEFINE X == Pairs(Int)
           u == Upto(p, j)
<1>1. Len(p) \in Nat /\ j \in 0..Len(p) /\ j - 1 \in 0..Len(p) /\ j - 1 \in 0..j /\ j >= 1
  OBVIOUS
<1>2. /\ u \in Seq(X) /\ Len(u) = j /\ (Upto(p, j - 1) = <<>> <=> j - 1 = 0)
      /\ \A l \in 0..j : Upto(u, l) = Upto(p, l)
      /\ u # <<>>
  <2> HIDE DEF X
  <2>1. p \in Seq(X)
    BY DEF X
  <2> QED BY <1>1, <2>1, UptoFacts
<1> HIDE DEF u
<1>3. /\ Front(u) = Upto(u, Len(u) - 1) /\ Last(u)[1] \in Names
      /\ u = Entry(Front(u), Last(u)[1], Last(u)[2])
  <2>1. u \in Seq(Pairs(Int)) \ {<<>>}
    BY <1>2
  <2> QED BY <2>1, EntryOf
<1>4. Front(u) = Upto(p, j - 1)
  BY <1>1, <1>2, <1>3
<1>5. ASSUME Upto(p, j - 1) \in Path, Last(u)[2] \in Nat PROVE u \in Path
  <2> DEFINE name == Last(u)[1]
             i == Last(u)[2]
             f == Front(u)
  <2>1. f \in Path /\ name \in Names /\ i \in Nat /\ u = Entry(f, name, i)
    BY <1>3, <1>4, <1>5
  <2> HIDE DEF name, i, f
  <2>2. Entry(f, name, i) \in Path
    BY <2>1, PathEntry
  <2> QED BY <2>1, <2>2
<1> QED BY <1>1, <1>2, <1>3, <1>4, <1>5 DEF u

\* What dx_query_ensure_ancestors asks is that the entry is the next, with room for it.
LEMMA CreatableIs ==
  ASSUME mold \in Molds, NEW t, Tidy(t), NEW p \in Seq(Pairs(Int)), NEW j \in 1..Len(p),
         j > 1 => Upto(p, j - 1) \in DOMAIN t /\ t[Upto(p, j - 1)].value = Section,
         NEW kind, Creatable(t, Upto(p, j), kind)
  PROVE  IsNext(t, Upto(p, j)) /\ HasRoom(Upto(p, j)) /\ mold[NamesOf(Upto(p, j))].kind = kind
<1> DEFINE u == Upto(p, j)
<1>1. /\ Front(u) = Upto(p, j - 1) /\ Last(u)[1] \in Names /\ Len(u) = j /\ u # <<>>
      /\ Upto(p, j - 1) = <<>> <=> j = 1
      /\ Upto(p, j - 1) \in Path /\ Last(u)[2] \in Nat => u \in Path
  BY NextFacts
<1>2. /\ Last(u)[2] = Count(t, Front(u), Last(u)[1])
      /\ NamesOf(u) \in DOMAIN mold /\ mold[NamesOf(u)].kind = kind
      /\ mold[NamesOf(u)].max = 0 \/ Last(u)[2] < mold[NamesOf(u)].max
  BY DEF Creatable
<1> HIDE DEF u
<1>3. j = 1 \/ j > 1
  OBVIOUS
<1>4. Front(u) \in Path
  BY <1>1, <1>3, RootPath DEF Tidy, Rooted
<1>5. Last(u)[2] \in Nat
  BY <1>1, <1>2, <1>4, CountFacts DEF Tidy
<1>6. IsNext(t, u)
  BY <1>1, <1>2, <1>4, <1>5 DEF IsNext
<1>7. HasRoom(u) /\ mold[NamesOf(u)].kind = kind
  BY <1>2 DEF HasRoom
<1> QED BY <1>6, <1>7 DEF u

\* An element that a set creates on its way to the path p.
OnTheWay(t, p, e, value) ==
  \/ e \in NewAncestors(t, p)
  \/ \E a \in NewAncestors(t, p) : e \in RequiredBelow(mold, a) /\ value = Default(mold, e)

\* The tree u is what becomes of t on the way to the path p.
Grown(t, p, u) ==
  /\ \A e \in DOMAIN t : e \in DOMAIN u /\ u[e] = t[e]
  /\ \A e \in DOMAIN u \ DOMAIN t : OnTheWay(t, p, e, u[e].value)

IsProgress(r) == r = [ok |-> r.ok, tree |-> r.tree, top |-> r.top, ancestor |-> r.ancestor]

SectionsUpto(u, q, j) ==
  \A k \in 1..j : k < Len(q) =>
    Upto(PathOf(q), k) \in DOMAIN u /\ u[Upto(PathOf(q), k)].value = Section

\* What holds after j names of the query.
Reached(t, q, j, r) ==
  /\ IsProgress(r)
  /\ Whole(r.tree) /\ Grown(t, PathOf(q), r.tree)
  /\ (\A k \in 1..Len(q) : Upto(PathOf(q), k) \in DOMAIN t) => r.tree = t
  /\ r.ok => SectionsUpto(r.tree, q, j)

\* What the next name of a query can do to the tree.
Takes(r, s, q, j, here) ==
  \/ s = r /\ (r.ok /\ j # Len(q) => here \in DOMAIN r.tree /\ r.tree[here].value = Section)
  \/ s.tree = r.tree /\ s.ok = FALSE
  \/ /\ s.tree = WithGenerated(mold, WithValue(r.tree, here, Section), here)
     /\ r.ok /\ j # Len(q) /\ here \notin DOMAIN r.tree
     /\ Creatable(r.tree, here, "SECTION") /\ ~GeneratesInvalid(mold, here)

\* What one name of a query may change.
LEMMA EnsureNextIs ==
  ASSUME NEW r, IsProgress(r), NEW q, NEW j
  PROVE  /\ IsProgress(EnsureNext(r, q, j))
         /\ Takes(r, EnsureNext(r, q, j), q, j, Upto(PathOf(q), j))
<1> DEFINE here == Upto(PathOf(q), j)
           s == EnsureNext(r, q, j)
<1> DEFINE tree == WithGenerated(mold, WithValue(r.tree, here, Section), here)
           fail(ancestor) == [r EXCEPT !.ok = FALSE, !.ancestor = ancestor]
<1> SUFFICES IsProgress(s) /\ Takes(r, s, q, j, here)
  OBVIOUS
<1> HIDE DEF s, here
<1>1. ASSUME NEW ancestor, s = fail(ancestor) PROVE IsProgress(s) /\ s.tree = r.tree /\ s.ok = FALSE
  <2>1. r = [ok |-> r.ok, tree |-> r.tree, top |-> r.top, ancestor |-> r.ancestor]
    BY DEF IsProgress
  <2>2. s = [ok |-> FALSE, tree |-> r.tree, top |-> r.top, ancestor |-> ancestor]
    BY <1>1, <2>1
  <2>3. s.ok = FALSE /\ s.tree = r.tree /\ s.top = r.top /\ s.ancestor = ancestor
    BY <2>2
  <2> QED BY <2>2, <2>3 DEF IsProgress
<1>2. ASSUME NEW top, s = [r EXCEPT !.top = top, !.tree = tree] PROVE IsProgress(s) /\ s.tree = tree
  <2> HIDE DEF tree
  <2>1. r = [ok |-> r.ok, tree |-> r.tree, top |-> r.top, ancestor |-> r.ancestor]
    BY DEF IsProgress
  <2>2. s = [ok |-> r.ok, tree |-> tree, top |-> top, ancestor |-> r.ancestor]
    BY <1>2, <2>1
  <2>3. s.ok = r.ok /\ s.tree = tree /\ s.top = top /\ s.ancestor = r.ancestor
    BY <2>2
  <2> QED BY <2>2, <2>3 DEF IsProgress
<1>3. CASE s = r /\ (r.ok /\ j # Len(q) => here \in DOMAIN r.tree /\ r.tree[here].value = Section)
  BY <1>3 DEF Takes
<1>4. CASE \E ancestor : s = fail(ancestor)
  BY <1>1, <1>4 DEF Takes
<1>5. CASE /\ r.ok /\ j # Len(q) /\ here \notin DOMAIN r.tree
           /\ Creatable(r.tree, here, "SECTION") /\ ~GeneratesInvalid(mold, here)
           /\ \E top : s = [r EXCEPT !.top = top, !.tree = tree]
  <2> HIDE DEF tree
  <2>1. IsProgress(s) /\ s.tree = tree
    BY <1>2, <1>5
  <2> QED BY <1>5, <2>1 DEF tree, Takes
<1> HIDE DEF tree, fail
<1>6. \/ s = r /\ (r.ok /\ j # Len(q) => here \in DOMAIN r.tree /\ r.tree[here].value = Section)
      \/ \E ancestor : s = fail(ancestor)
      \/ /\ r.ok /\ j # Len(q) /\ here \notin DOMAIN r.tree
         /\ Creatable(r.tree, here, "SECTION") /\ ~GeneratesInvalid(mold, here)
         /\ \E top : s = [r EXCEPT !.top = top, !.tree = tree]
  <2>1. CASE ~r.ok
    <3>1. s = r
      BY <2>1 DEF EnsureNext, s, here
    <3> QED BY <2>1, <3>1
  <2>2. CASE r.ok /\ q[j][2] = Malformed
    <3>1. s = fail(Abandoned(r.top, Upto(PathOf(q), j - 1)))
      BY <2>2 DEF EnsureNext, fail, s, here
    <3> QED BY <3>1
  <2>3. CASE r.ok /\ q[j][2] # Malformed /\ j = Len(q)
    <3>1. s = r
      BY <2>3 DEF EnsureNext, s, here
    <3> QED BY <2>3, <3>1
  <2>4. CASE r.ok /\ q[j][2] # Malformed /\ j # Len(q) /\ here \in DOMAIN r.tree
    <3>1. s = IF r.tree[here].value = Section THEN r ELSE fail(Abandoned(r.top, here))
      BY <2>4 DEF EnsureNext, fail, s, here
    <3>2. CASE r.tree[here].value = Section
      BY <2>4, <3>1, <3>2
    <3>3. CASE r.tree[here].value # Section
      BY <3>1, <3>3
    <3> QED BY <3>2, <3>3
  <2>5. CASE /\ r.ok /\ q[j][2] # Malformed /\ j # Len(q) /\ here \notin DOMAIN r.tree
             /\ ~Creatable(r.tree, here, "SECTION")
    <3>1. s = fail(Abandoned(r.top, Upto(PathOf(q), j - 1)))
      BY <2>5 DEF EnsureNext, fail, s, here
    <3> QED BY <3>1
  <2>6. CASE /\ r.ok /\ q[j][2] # Malformed /\ j # Len(q) /\ here \notin DOMAIN r.tree
             /\ Creatable(r.tree, here, "SECTION") /\ GeneratesInvalid(mold, here)
    <3>1. s = fail(IF r.top = <<>> THEN "destroyed twice" ELSE "destroyed")
      BY <2>6 DEF EnsureNext, fail, s, here
    <3> QED BY <3>1
  <2>7. CASE /\ r.ok /\ q[j][2] # Malformed /\ j # Len(q) /\ here \notin DOMAIN r.tree
             /\ Creatable(r.tree, here, "SECTION") /\ ~GeneratesInvalid(mold, here)
    <3>1. s = [r EXCEPT !.top = IF r.top = <<>> THEN here ELSE r.top, !.tree = tree]
      <4>1. s = [r EXCEPT !.top = IF r.top = <<>> THEN here ELSE @,
                          !.tree = WithGenerated(mold, WithValue(@, here, Section), here)]
        BY <2>7 DEF EnsureNext, s, here
      <4> QED BY <4>1 DEF tree, here
    <3> QED BY <2>7, <3>1
  <2> QED BY <2>1, <2>2, <2>3, <2>4, <2>5, <2>6, <2>7
<1> QED BY <1>3, <1>4, <1>5, <1>6
\* ... and that this leaves the tree whole, grown on the way of the query only.
LEMMA EnsureStep ==
  ASSUME mold \in Molds, NEW t, Rooted(t), NEW q \in Queries, NEW j \in 1..Len(q), NEW r, Reached(t, q, j - 1, r)
  PROVE  Reached(t, q, j, EnsureNext(r, q, j))
<1> DEFINE p == PathOf(q)
           here == Upto(PathOf(q), j)
           s == EnsureNext(r, q, j)
<1> SUFFICES Reached(t, q, j, s)
  OBVIOUS
<1>1. p \in Seq(Pairs(Int)) /\ Len(p) = Len(q) /\ Len(q) \in Nat \ {0} /\ j \in 1..Len(p)
  BY QueryFacts
<1>2. IsProgress(s) /\ Takes(r, s, q, j, here)
  BY EnsureNextIs DEF Reached
<1> HIDE DEF s, here
<1>3. /\ Whole(r.tree) /\ Grown(t, p, r.tree)
      /\ (\A k \in 1..Len(q) : Upto(p, k) \in DOMAIN t) => r.tree = t
      /\ r.ok => SectionsUpto(r.tree, q, j - 1)
  BY DEF Reached
<1>4. \A u : /\ SectionsUpto(u, q, j - 1)
             /\ j # Len(q) => here \in DOMAIN u /\ u[here].value = Section
             => SectionsUpto(u, q, j)
  <2> SUFFICES ASSUME NEW u, SectionsUpto(u, q, j - 1),
                      j # Len(q) => here \in DOMAIN u /\ u[here].value = Section,
                      NEW k \in 1..j, k < Len(q)
               PROVE  Upto(p, k) \in DOMAIN u /\ u[Upto(p, k)].value = Section
    BY DEF SectionsUpto
  <2>1. k \in 1..(j - 1) \/ k = j
    OBVIOUS
  <2> QED BY <2>1 DEF SectionsUpto, here
<1>5. CASE s = r /\ (r.ok /\ j # Len(q) => here \in DOMAIN r.tree /\ r.tree[here].value = Section)
  BY <1>2, <1>3, <1>4, <1>5 DEF Reached
<1>6. CASE s.tree = r.tree /\ s.ok = FALSE
  BY <1>2, <1>3, <1>6 DEF Reached
<1>7. CASE /\ s.tree = WithGenerated(mold, WithValue(r.tree, here, Section), here)
           /\ r.ok /\ j # Len(q) /\ here \notin DOMAIN r.tree
           /\ Creatable(r.tree, here, "SECTION") /\ ~GeneratesInvalid(mold, here)
  <2> DEFINE v == r.tree
             u == s.tree
  <2>1. j > 1 => Upto(p, j - 1) \in DOMAIN v /\ v[Upto(p, j - 1)].value = Section
    <3>1. j > 1 => j - 1 \in 1..(j - 1) /\ j - 1 < Len(q)
      BY <1>1
    <3> QED BY <1>3, <1>7, <3>1 DEF SectionsUpto
  <2>2. IsNext(v, here) /\ HasRoom(here) /\ mold[NamesOf(here)].kind = "SECTION"
    <3>1. Tidy(v) /\ Creatable(v, Upto(p, j), "SECTION")
      BY <1>3, <1>7 DEF Whole, here
    <3>2. here = Upto(p, j)
      BY DEF here
    <3> HIDE DEF p, v
    <3>3. IsNext(v, Upto(p, j)) /\ HasRoom(Upto(p, j)) /\ mold[NamesOf(Upto(p, j))].kind = "SECTION"
      BY <1>1, <2>1, <3>1, CreatableIs
    <3> QED BY <3>2, <3>3
  <2>3. /\ Whole(u) /\ DOMAIN u = DOMAIN v \cup {here} \cup RequiredBelow(mold, here)
        /\ u[here].value = Section
        /\ \A e \in DOMAIN v : u[e] = v[e]
        /\ \A e \in RequiredBelow(mold, here) : e # here /\ u[e].value = Default(mold, e)
    <3>1. Whole(v) /\ u = WithGenerated(mold, WithValue(v, here, Section), here) /\ ~GeneratesInvalid(mold, here)
      BY <1>3, <1>7
    <3> HIDE DEF u, v
    <3>2. HasNewSection(v, here, u)
      BY <2>2, <3>1, NewSection
    <3> QED BY <3>2 DEF HasNewSection
  <2> HIDE DEF u, v
  <2>4. \A e \in DOMAIN t : e \in DOMAIN v /\ v[e] = t[e]
    BY <1>3 DEF Grown, v
  <2>5. here \in NewAncestors(t, p)
    <3>1. here \notin DOMAIN t
      BY <1>7, <2>4 DEF v
    <3>2. j \in 1..(Len(p) - 1)
      BY <1>1, <1>7
    <3> QED BY <3>1, <3>2 DEF NewAncestors, here
  <2>6. Grown(t, p, u)
    <3>1. ASSUME NEW e \in DOMAIN u \ DOMAIN t PROVE OnTheWay(t, p, e, u[e].value)
      <4>1. CASE e \in DOMAIN v
        <5>1. OnTheWay(t, p, e, v[e].value)
          BY <1>3, <3>1, <4>1 DEF Grown, v
        <5> QED BY <2>3, <4>1, <5>1
      <4>2. CASE e = here
        BY <2>5, <4>2 DEF OnTheWay
      <4>3. CASE e \in RequiredBelow(mold, here)
        BY <2>3, <2>5, <4>3 DEF OnTheWay
      <4> QED BY <2>3, <3>1, <4>1, <4>2, <4>3
    <3> QED BY <2>3, <2>4, <3>1 DEF Grown
  <2>7. SectionsUpto(u, q, j)
    <3>1. SectionsUpto(u, q, j - 1)
      BY <1>3, <1>7, <2>3 DEF SectionsUpto, v
    <3> QED BY <1>4, <2>3, <3>1
  <2>8. ~(\A k \in 1..Len(q) : Upto(p, k) \in DOMAIN t)
    BY <1>7, <2>4 DEF here, v
  <2> QED BY <1>2, <2>3, <2>6, <2>7, <2>8 DEF Reached, u
<1> QED BY <1>2, <1>5, <1>6, <1>7 DEF Takes

Progress(t) == [ok |-> TRUE, tree |-> t, top |-> <<>>, ancestor |-> "none"]

IsEnsuring(f, t, q, N) ==
  f = [j \in 0..N |-> IF j = 0 THEN Progress(t) ELSE EnsureNext(f[j - 1], q, j)]

\* The names of a query one after the other.
LEMMA EnsuringSteps ==
  ASSUME NEW N \in Nat, NEW t, NEW q, NEW f, IsEnsuring(f, t, q, N)
  PROVE  /\ f[0] = Progress(t)
         /\ \A j \in 1..N : f[j] = EnsureNext(f[j - 1], q, j)
<1>1. \A j \in 0..N : f[j] = IF j = 0 THEN Progress(t) ELSE EnsureNext(f[j - 1], q, j)
  BY DEF IsEnsuring
<1> QED BY <1>1

\* The function that Ensured chooses exists.
LEMMA EnsuringExists ==
  ASSUME NEW N \in Nat, NEW t, NEW q
  PROVE  \E f : IsEnsuring(f, t, q, N)
<1> DEFINE T == {n \in 0..N : \E f : IsEnsuring(f, t, q, n)}
<1>1. 0 \in T
  <2> DEFINE f == [j \in 0..0 |-> Progress(t)]
  <2>1. IsEnsuring(f, t, q, 0)
    BY DEF IsEnsuring
  <2> QED BY <2>1
<1>2. ASSUME NEW n \in 0..(N - 1), n \in T PROVE n + 1 \in T
  <2>1. PICK f : IsEnsuring(f, t, q, n)
    BY <1>2
  <2> DEFINE next == EnsureNext(f[n], q, n + 1)
             h == [j \in 0..(n + 1) |-> IF j <= n THEN f[j] ELSE next]
  <2>2. f[0] = Progress(t) /\ \A j \in 1..n : f[j] = EnsureNext(f[j - 1], q, j)
    BY <2>1, EnsuringSteps
  <2>3. ASSUME NEW j \in 0..(n + 1)
        PROVE  h[j] = IF j = 0 THEN Progress(t) ELSE EnsureNext(h[j - 1], q, j)
    <3>1. CASE j = 0
      BY <2>2, <3>1
    <3>2. CASE j \in 1..n
      <4>1. h[j] = f[j] /\ h[j - 1] = f[j - 1]
        BY <3>2
      <4> HIDE DEF h
      <4> QED BY <2>2, <3>2, <4>1
    <3>3. CASE j = n + 1
      <4>1. h[j] = next /\ h[j - 1] = f[n]
        BY <3>3
      <4> HIDE DEF h
      <4> QED BY <3>3, <4>1
    <3> QED BY <3>1, <3>2, <3>3
  <2>4. IsEnsuring(h, t, q, n + 1)
    BY <2>3 DEF IsEnsuring
  <2> QED BY <2>4
<1> HIDE DEF T
<1>3. N \in T
  BY <1>1, <1>2, Induction
<1> QED BY <1>3 DEF T

\* What a query ensures, down to the parent of the keyval.
LEMMA EnsuredFacts ==
  ASSUME mold \in Molds, NEW t, Whole(t), NEW q \in Queries
  PROVE  Reached(t, q, Len(q), Ensured(t, q))
<1> DEFINE N == Len(q)
           f == CHOOSE f : IsEnsuring(f, t, q, N)
<1>1. N \in Nat /\ N >= 1
  BY QueryFacts
<1>2. IsEnsuring(f, t, q, N)
  BY <1>1, EnsuringExists
<1>3. Ensured(t, q) = f[N]
  BY DEF Ensured, IsEnsuring, Progress
<1> HIDE DEF f
<1>4. f[0] = Progress(t) /\ \A j \in 1..N : f[j] = EnsureNext(f[j - 1], q, j)
  BY <1>1, <1>2, EnsuringSteps
<1> DEFINE T == {j \in 0..N : Reached(t, q, j, f[j])}
<1>5. 0 \in T
  <2> DEFINE r == f[0]
  <2>1. r.tree = t /\ r.ok = TRUE /\ IsProgress(r)
    BY <1>4 DEF Progress, IsProgress
  <2>2. Grown(t, PathOf(q), t) /\ SectionsUpto(t, q, 0)
    BY DEF Grown, SectionsUpto
  <2> HIDE DEF r
  <2>3. Reached(t, q, 0, r)
    BY <2>1, <2>2 DEF Reached
  <2> QED BY <1>1, <2>3 DEF r
<1>6. ASSUME NEW n \in 0..(N - 1), n \in T PROVE n + 1 \in T
  <2>1. n + 1 \in 1..N /\ n + 1 \in 0..N /\ (n + 1) - 1 = n
    BY <1>1
  <2>2. Reached(t, q, (n + 1) - 1, f[n]) /\ f[n + 1] = EnsureNext(f[n], q, n + 1)
    BY <1>4, <1>6, <2>1
  <2>3. Rooted(t)
    BY DEF Whole, Tidy
  <2>4. Reached(t, q, n + 1, f[n + 1])
    BY <2>1, <2>2, <2>3, EnsureStep
  <2> QED BY <2>1, <2>4
<1> HIDE DEF T, N
<1>7. N \in T
  BY <1>1, <1>5, <1>6, Induction
<1> QED BY <1>3, <1>7 DEF T, N
----------------------------------------------------------------------------
(* Setting a keyval.                                                       *)
LEMMA ResolveIs ==
  ASSUME NEW t, NEW q \in Queries
  PROVE  Resolve(t, q) = "OK" <=> \A k \in 1..Len(q) : Upto(PathOf(q), k) \in DOMAIN t
<1>1. DOMAIN q = 1..Len(q)
  BY QueryFacts
<1> DEFINE missing == {k \in DOMAIN q : Upto(PathOf(q), k) \notin DOMAIN t}
<1>2. missing = {} <=> \A k \in 1..Len(q) : Upto(PathOf(q), k) \in DOMAIN t
  BY <1>1
<1>3. CASE missing = {}
  BY <1>2, <1>3 DEF Resolve
<1>4. CASE missing # {}
  <2>1. Resolve(t, q) # "OK"
    BY <1>4 DEF Resolve
  <2> QED BY <1>2, <1>4, <2>1
<1> QED BY <1>3, <1>4

\* The tree u is t with the value of a query, and what had to be created for it.
Sets(t, q, value, u) ==
  /\ Get(u, q) = [ok |-> TRUE, value |-> value]
  /\ \A e \in DOMAIN t : e # PathOf(q) => e \in DOMAIN u /\ u[e] = t[e]
  /\ \A e \in DOMAIN u \ DOMAIN t : e # PathOf(q) => OnTheWay(t, PathOf(q), e, u[e].value)

\* A query that resolves to a keyval gets its value.
LEMMA GetIs ==
  ASSUME NEW t, NEW q \in Queries, \A k \in 1..Len(q) : Upto(PathOf(q), k) \in DOMAIN t,
         NEW value, t[PathOf(q)].value = value, value # Section, Accepts(NamesOf(PathOf(q)), value)
  PROVE  Get(t, q) = [ok |-> TRUE, value |-> value]
<1>1. Resolve(t, q) = "OK"
  BY ResolveIs
<1> QED BY <1>1 DEF Get, Gettable, Accepts

\* What a set makes of a tree.
SetTo(t, q, value, r) ==
  /\ Whole(r.tree)
  /\ IF r.ok THEN Sets(t, q, value, r.tree)
     ELSE r.tree = t \/ (PathOf(q) \in DOMAIN t /\ t[PathOf(q)].invalid)

\* Every set leaves a whole tree whole, and does to it what SetTo says.
LEMMA SetFacts ==
  ASSUME mold \in Molds, NEW t, Whole(t), NEW q \in Queries, NEW value \in Values
  PROVE  SetTo(t, q, value, SetResult(t, q, value))
<1> DEFINE p == PathOf(q)
           e == Ensured(t, q)
           v == e.tree
           n == Len(q)
           stored == WithValue(v, p, value)
           r == SetResult(t, q, value)
<1> SUFFICES SetTo(t, q, value, r)
  OBVIOUS
<1>1. /\ p \in Seq(Pairs(Int)) /\ p # <<>> /\ Len(p) = n /\ n \in Nat \ {0} /\ n \in 1..n
      /\ Upto(p, n) = p
  <2>1. p \in Seq(Pairs(Int)) /\ p # <<>> /\ Len(p) = n /\ n \in Nat \ {0}
    BY QueryFacts
  <2> HIDE DEF p, n
  <2>2. Upto(p, Len(p)) = p
    BY <2>1, UptoFacts
  <2> QED BY <2>1, <2>2
<1>2. /\ Whole(v) /\ Grown(t, p, v)
      /\ (\A k \in 1..n : Upto(p, k) \in DOMAIN t) => v = t
      /\ e.ok => SectionsUpto(v, q, n)
  <2>1. Reached(t, q, n, e)
    BY EnsuredFacts
  <2> QED BY <2>1 DEF Reached
<1>3. Resolve(t, q) = "OK" <=> \A k \in 1..n : Upto(p, k) \in DOMAIN t
  BY ResolveIs
<1>4. \A u, ok, ancestor : LET s == [tree |-> u, ok |-> ok, ancestor |-> ancestor] IN s.tree = u /\ s.ok = ok
  OBVIOUS
<1> HIDE DEF p, v, n, stored, r
<1>5. ASSUME r.tree = t, r.ok = FALSE PROVE SetTo(t, q, value, r)
  BY <1>5 DEF SetTo
<1>6. CASE Resolve(t, q) = "OK"
  <2>1. v = t /\ p \in DOMAIN t
    BY <1>1, <1>2, <1>3, <1>6
  <2>2. t[p].invalid \in BOOLEAN
    BY <2>1 DEF Whole, Tidy, Typed
  <2>3. CASE t[p].value # Section /\ (t[p].invalid \/ Accepts(NamesOf(p), value))
    <3>1. r = [tree |-> stored, ok |-> ~t[p].invalid, ancestor |-> "none"]
      BY <1>6, <2>3 DEF SetResult, r, p, v, stored
    <3>2. r.tree = stored /\ r.ok = ~t[p].invalid
      BY <3>1
    <3>3. /\ Whole(stored) /\ DOMAIN stored = DOMAIN t
          /\ stored[p].value = value /\ value # Section
          /\ \A d \in DOMAIN t : d # p => stored[d] = t[d]
      BY <2>1, <2>3, NewValueOf DEF stored
    <3>4. ~t[p].invalid => Get(stored, q) = [ok |-> TRUE, value |-> value]
      BY <1>3, <1>6, <2>3, <3>3, GetIs DEF p, n
    <3>5. ~t[p].invalid => Sets(t, q, value, stored)
      BY <3>3, <3>4 DEF Sets, p
    <3> QED BY <2>1, <2>2, <3>2, <3>3, <3>5 DEF SetTo, p
  <2>4. CASE ~(t[p].value # Section /\ (t[p].invalid \/ Accepts(NamesOf(p), value)))
    <3>1. r = [tree |-> t, ok |-> FALSE, ancestor |-> "none"]
      BY <1>6, <2>4 DEF SetResult, r, p
    <3> QED BY <1>5, <3>1
  <2> QED BY <2>3, <2>4
<1>7. CASE Resolve(t, q) = "NOT_EXIST"
  <2> DEFINE good == /\ IF p \in DOMAIN v THEN v[p].value # Section ELSE Creatable(v, p, "KEYVAL")
                     /\ Accepts(NamesOf(p), value)
  <2>1. p \notin DOMAIN t
    <3>1. ASSUME p \in DOMAIN t PROVE \A k \in 1..n : Upto(p, k) \in DOMAIN t
      <4>1. \A k \in 1..(n - 1) : Upto(p, k) \in DOMAIN t
        BY <1>1, <3>1 DEF Whole, Tidy, Rooted
      <4>2. \A k \in 1..n : k \in 1..(n - 1) \/ k = n
        BY <1>1
      <4> QED BY <1>1, <3>1, <4>1, <4>2
    <3> QED BY <1>3, <1>7, <3>1
  <2>2. CASE e.ok /\ good
    <3>1. \E ancestor : r = [tree |-> stored, ok |-> TRUE, ancestor |-> ancestor]
      BY <1>7, <2>2 DEF SetResult, r, p, v, stored
    <3>2. r.tree = stored /\ r.ok = TRUE
      BY <3>1
    <3>3. \A k \in 1..(n - 1) : Upto(p, k) \in DOMAIN v /\ v[Upto(p, k)].value = Section
      <4> SUFFICES ASSUME NEW k \in 1..(n - 1)
                   PROVE  Upto(p, k) \in DOMAIN v /\ v[Upto(p, k)].value = Section
        OBVIOUS
      <4>1. k \in 1..n /\ k < n
        BY <1>1
      <4>2. SectionsUpto(v, q, n)
        BY <1>2, <2>2
      <4> QED BY <4>1, <4>2 DEF SectionsUpto, p, n
    <3>4. /\ Whole(stored) /\ DOMAIN stored = DOMAIN v \cup {p}
          /\ stored[p].value = value /\ value # Section
          /\ \A d \in DOMAIN v : d # p => stored[d] = v[d]
      <4>1. CASE p \in DOMAIN v
        <5>1. v[p].value # Section /\ Accepts(NamesOf(p), value)
          BY <2>2, <4>1
        <5>2. /\ Whole(stored) /\ DOMAIN stored = DOMAIN v
              /\ stored[p].value = value /\ value # Section
              /\ \A d \in DOMAIN v : d # p => stored[d] = v[d]
          BY <1>2, <4>1, <5>1, NewValueOf DEF stored
        <5> QED BY <4>1, <5>2
      <4>2. CASE p \notin DOMAIN v
        <5>1. Creatable(v, Upto(p, n), "KEYVAL") /\ Accepts(NamesOf(p), value)
          BY <1>1, <2>2, <4>2
        <5>2. n > 1 => Upto(p, n - 1) \in DOMAIN v /\ v[Upto(p, n - 1)].value = Section
          BY <1>1, <3>3
        <5>3. IsNext(v, Upto(p, n)) /\ HasRoom(Upto(p, n)) /\ mold[NamesOf(Upto(p, n))].kind = "KEYVAL"
          <6>1. Tidy(v) /\ n \in 1..Len(p)
            BY <1>1, <1>2 DEF Whole
          <6> QED BY <1>1, <5>1, <5>2, <6>1, CreatableIs
        <5>4. IsNext(v, p) /\ HasRoom(p) /\ mold[NamesOf(p)].kind = "KEYVAL"
          BY <1>1, <5>3
        <5>5. /\ Whole(stored) /\ DOMAIN stored = DOMAIN v \cup {p}
              /\ stored[p].value = value /\ value # Section
              /\ \A d \in DOMAIN v : stored[d] = v[d]
          BY <1>2, <5>1, <5>4, NewKeyval DEF stored
        <5> QED BY <5>5
      <4> QED BY <4>1, <4>2
    <3>5. \A k \in 1..n : Upto(p, k) \in DOMAIN stored
      <4>1. \A k \in 1..n : k \in 1..(n - 1) \/ k = n
        BY <1>1
      <4> QED BY <1>1, <3>3, <3>4, <4>1
    <3>6. Get(stored, q) = [ok |-> TRUE, value |-> value]
      BY <2>2, <3>4, <3>5, GetIs DEF p, n
    <3>7. \A d \in DOMAIN t : d # p => d \in DOMAIN stored /\ stored[d] = t[d]
      BY <1>2, <3>4 DEF Grown
    <3>8. \A d \in DOMAIN stored \ DOMAIN t : d # p => OnTheWay(t, p, d, stored[d].value)
      BY <1>2, <3>4 DEF Grown
    <3>9. Sets(t, q, value, stored)
      BY <3>6, <3>7, <3>8 DEF Sets, p
    <3> QED BY <3>2, <3>4, <3>9 DEF SetTo
  <2>3. CASE ~(e.ok /\ good)
    <3>1. \E ancestor : r = [tree |-> t, ok |-> FALSE, ancestor |-> ancestor]
      BY <1>7, <2>3 DEF SetResult, LeftBy, r, p, v
    <3> QED BY <1>5, <3>1
  <2> QED BY <2>2, <2>3
<1>8. CASE Resolve(t, q) # "OK" /\ Resolve(t, q) # "NOT_EXIST"
  <2>1. r = [tree |-> t, ok |-> FALSE, ancestor |-> "none"]
    BY <1>8 DEF SetResult, r
  <2> QED BY <1>5, <2>1
<1> QED BY <1>6, <1>7, <1>8
----------------------------------------------------------------------------
(* Writing, editing and reading.                                           *)
LEMMA SameShape ==
  ASSUME NEW t, Tidy(t), NEW u, Typed(u), DOMAIN u = DOMAIN t,
         \A p \in DOMAIN t : u[p].value = Section <=> t[p].value = Section
  PROVE  Tidy(u) /\ (OfMold(t) => OfMold(u)) /\ (InNumber(t) => InNumber(u))
<1>1. Tidy(u)
  BY DEF Tidy, Rooted, Consecutive, Limited
<1>2. ASSUME OfMold(t) PROVE OfMold(u)
  BY <1>2 DEF OfMold
<1>3. \A parent, name : Count(u, parent, name) = Count(t, parent, name)
  BY DEF Count, EntriesOf
<1>4. ASSUME InNumber(t) PROVE InNumber(u)
  BY <1>3, <1>4 DEF InNumber, NumberHolds
<1> QED BY <1>1, <1>2, <1>4

\* The config before anything is generated.
LEMMA EmptyFacts == DOMAIN <<>> = {} /\ Tidy(<<>>) /\ OfMold(<<>>)
<1> DEFINE t == <<>>
<1>1. DOMAIN t = {} /\ t = [e \in DOMAIN t |-> t[e]]
  OBVIOUS
<1> HIDE DEF t
<1>2. Typed(t)
  BY <1>1 DEF Typed
<1>3. Rooted(t) /\ Consecutive(t) /\ OfMold(t)
  BY <1>1 DEF Rooted, Consecutive, OfMold
<1>4. Limited(t)
  <2>1. 0 \in Nat
    OBVIOUS
  <2> QED BY <1>1, <2>1 DEF Limited
<1> QED BY <1>1, <1>2, <1>3, <1>4 DEF Tidy, t

\* A generated config is whole.
LEMMA Generated == TreeInit => Whole(elements)
<1> SUFFICES ASSUME TreeInit PROVE Whole(elements)
  OBVIOUS
<1> DEFINE u == elements
           t == <<>>
           p == <<>>
<1>1. mold \in Molds /\ ~GeneratesInvalid(mold, p) /\ u = WithGenerated(mold, t, p)
  BY DEF TreeInit
<1>2. DOMAIN t = {} /\ Tidy(t) /\ OfMold(t) /\ p \in Path /\ p = <<>>
  BY EmptyFacts, RootPath
<1> HIDE DEF u, t, p
<1>3. IsBegun(t, p)
  BY <1>2 DEF IsBegun, NoneBelow
<1>4. HasRequired(t, p, u)
  BY <1>1, <1>2, <1>3, GeneratedFacts
<1>5. /\ DOMAIN u = RequiredBelow(mold, p)
      /\ \A e \in DOMAIN u : u[e] = [value |-> Default(mold, e), invalid |-> FALSE]
      /\ Tidy(u) /\ OfMold(u)
      /\ \A parent \in {<<>>} \cup DOMAIN u, names \in DOMAIN mold :
           Front(names) = NamesOf(parent) => Count(u, parent, Last(names)) = mold[names].min
  BY <1>2, <1>4 DEF HasRequired
<1>6. InNumber(u)
  <2> SUFFICES ASSUME NEW names \in DOMAIN mold, NEW parent \in {<<>>} \cup DOMAIN u,
                      NamesOf(parent) = Front(names)
               PROVE  NumberHolds(u, parent, names)
    BY DEF InNumber
  <2>1. /\ mold[names].min \in Nat /\ mold[names].max \in Nat
        /\ mold[names].max # 0 => mold[names].min <= mold[names].max
    BY <1>1, MoldFacts
  <2>2. Count(u, parent, Last(names)) = mold[names].min
    BY <1>5
  <2> QED BY <2>1, <2>2 DEF NumberHolds
<1>7. Marked(u)
  <2> SUFFICES ASSUME NEW e \in DOMAIN u, u[e].value # Section PROVE Accepts(NamesOf(e), u[e].value)
    BY DEF Marked
  <2>1. u[e].value = Default(mold, e)
    BY <1>5
  <2>2. NamesOf(e) \in DOMAIN mold
    BY <1>1, <1>2, <1>5, RequiredFacts
  <2>3. Default(mold, e) \in mold[NamesOf(e)].allowed
    BY <1>1, <1>5, <2>1 DEF GeneratesInvalid
  <2> QED BY <2>1, <2>2, <2>3 DEF Accepts
<1> QED BY <1>5, <1>6, <1>7 DEF Whole, u

\* A path is found again in what was written for it.
LEMMA ReadText ==
  ASSUME NEW t, Tidy(t), NEW p \in DOMAIN t
  PROVE  ReadPath(TextPath(t, p)) = p
<1>1. p \in Path /\ p # <<>>
  BY DEF Tidy, Rooted
<1>2. /\ Len(p) \in Nat /\ Len(p) >= 1 /\ DOMAIN p = 1..Len(p) /\ p = [k \in 1..Len(p) |-> p[k]]
      /\ \A k \in 1..Len(p) : /\ p[k][1] \in Names /\ p[k][2] \in Nat
                              /\ p[k] = <<p[k][1], p[k][2]>>
                              /\ p[k - 1 + 1] = p[k]
  BY <1>1 DEF Path, Pairs
<1>3. \A k \in 1..Len(p) : Upto(p, k) = Entry(Upto(p, k - 1), p[k][1], p[k][2])
  BY <1>1, PathFront
<1>4. ASSUME NEW k \in 1..Len(p), Count(t, Upto(p, k - 1), p[k][1]) = 1 PROVE p[k][2] = 0
  <2> DEFINE parent == Upto(p, k - 1)
             name == p[k][1]
             i == p[k][2]
  <2>1. parent \in Path
    <3>1. k - 1 \in 0..Len(p)
      BY <1>2
    <3> QED BY <1>1, <3>1, PathUpto
  <2>2. Upto(p, k) \in DOMAIN t
    <3>1. CASE k = Len(p)
      BY <1>1, <3>1, PathUpto
    <3>2. CASE k # Len(p)
      <4>1. k \in 1..(Len(p) - 1)
        <5>1. Len(p) \in Nat
          BY <1>2
        <5> QED BY <3>2, <5>1
      <4> QED BY <4>1 DEF Tidy, Rooted
    <3> QED BY <3>1, <3>2
  <2>3. Entry(parent, name, i) \in DOMAIN t /\ name \in Names /\ i \in Nat /\ Count(t, parent, name) = 1
    BY <1>2, <1>3, <1>4, <2>2
  <2> HIDE DEF parent, name, i
  <2>4. i < 1
    BY <2>1, <2>3, CountFacts DEF Tidy
  <2>5. i = 0
    BY <2>3, <2>4
  <2> QED BY <2>5 DEF i
<1> DEFINE r == TextPath(t, p)
<1>5. /\ DOMAIN r = 1..Len(p)
      /\ \A k \in 1..Len(p) :
           r[k] = IF Count(t, Upto(p, k - 1), p[k][1]) = 1 THEN <<p[k][1], Plain>> ELSE p[k]
  BY <1>2 DEF TextPath
<1> HIDE DEF r
<1>6. ASSUME NEW k \in 1..Len(p)
      PROVE  (IF r[k][2] = Plain THEN <<r[k][1], 0>> ELSE r[k]) = p[k]
  <2>1. CASE Count(t, Upto(p, k - 1), p[k][1]) = 1
    <3>1. r[k] = <<p[k][1], Plain>> /\ p[k] = <<p[k][1], 0>>
      BY <1>2, <1>4, <1>5, <2>1
    <3>2. r[k][1] = p[k][1] /\ r[k][2] = Plain
      BY <3>1
    <3> QED BY <3>1, <3>2
  <2>2. CASE Count(t, Upto(p, k - 1), p[k][1]) # 1
    <3>1. r[k] = p[k]
      BY <1>5, <2>2
    <3>2. p[k][2] # Plain
      BY <1>2 DEF Plain
    <3> QED BY <3>1, <3>2
  <2> QED BY <2>1, <2>2
<1>7. ReadPath(r) = [k \in 1..Len(p) |-> p[k]]
  BY <1>5, <1>6 DEF ReadPath
<1> QED BY <1>2, <1>7 DEF r

\* What is in a text of the values of t.
Holds(json, t) ==
  /\ DOMAIN json = {TextPath(t, p) : p \in DOMAIN t}
  /\ \A p \in DOMAIN t : json[TextPath(t, p)] = t[p].value

\* A text holds the elements of its config.
LEMMA SerializedHolds ==
  ASSUME NEW t, Tidy(t)
  PROVE  Holds(Serialized(t), t)
<1> DEFINE D == {TextPath(t, p) : p \in DOMAIN t}
           of(r) == CHOOSE p \in DOMAIN t : TextPath(t, p) = r
           json == Serialized(t)
<1>1. json = [r \in D |-> t[of(r)].value]
  BY DEF Serialized
<1>2. ASSUME NEW p \in DOMAIN t PROVE json[TextPath(t, p)] = t[p].value
  <2> DEFINE r == TextPath(t, p)
  <2>1. of(r) \in DOMAIN t /\ TextPath(t, of(r)) = r /\ r \in D
    OBVIOUS
  <2> HIDE DEF of, json, D
  <2>2. ReadPath(TextPath(t, of(r))) = of(r) /\ ReadPath(r) = p
    BY <2>1, ReadText
  <2>3. of(r) = p
    BY <2>1, <2>2
  <2> QED BY <1>1, <2>1, <2>3
<1>3. DOMAIN json = D
  BY <1>1
<1> QED BY <1>2, <1>3 DEF Holds

\* What is read from a text in which no two members become one element.
LEMMA ContentIs ==
  ASSUME NEW json, Distinct(json)
  PROVE  /\ DOMAIN Content(json) = {ReadPath(r) : r \in DOMAIN json}
         /\ \A r \in DOMAIN json : Content(json)[ReadPath(r)] = json[r]
<1> DEFINE of(p) == CHOOSE r \in DOMAIN json : ReadPath(r) = p
           D == {ReadPath(r) : r \in DOMAIN json}
           c == Content(json)
<1>1. c = [p \in D |-> json[of(p)]]
  BY DEF Content
<1>2. ASSUME NEW r \in DOMAIN json PROVE c[ReadPath(r)] = json[r]
  <2>1. of(ReadPath(r)) \in DOMAIN json /\ ReadPath(of(ReadPath(r))) = ReadPath(r) /\ ReadPath(r) \in D
    OBVIOUS
  <2> HIDE DEF of, c, D
  <2>2. of(ReadPath(r)) = r
    BY <2>1 DEF Distinct
  <2> QED BY <1>1, <2>1, <2>2
<1>3. DOMAIN c = D
  BY <1>1
<1> QED BY <1>2, <1>3

\* A text that was written for t has the values of t.
LEMMA HoldsFacts ==
  ASSUME NEW t, Tidy(t), NEW json, Holds(json, t)
  PROVE  /\ Distinct(json)
         /\ DOMAIN Content(json) = DOMAIN t
         /\ \A p \in DOMAIN t : Content(json)[p] = t[p].value
<1>1. \A p \in DOMAIN t : TextPath(t, p) \in DOMAIN json /\ ReadPath(TextPath(t, p)) = p
  BY ReadText DEF Holds
<1>2. \A r \in DOMAIN json : \E p \in DOMAIN t : r = TextPath(t, p) /\ ReadPath(r) = p
  BY <1>1 DEF Holds
<1>3. Distinct(json)
  BY <1>2 DEF Distinct
<1> DEFINE c == Content(json)
<1>4. /\ DOMAIN c = {ReadPath(r) : r \in DOMAIN json}
      /\ \A r \in DOMAIN json : c[ReadPath(r)] = json[r]
  BY <1>3, ContentIs
<1> HIDE DEF c
<1>5. DOMAIN c = DOMAIN t
  BY <1>1, <1>2, <1>4
<1>6. \A p \in DOMAIN t : c[p] = t[p].value
  BY <1>1, <1>4 DEF Holds
<1> QED BY <1>3, <1>5, <1>6 DEF c

\* What is in a text, as a tree.
LEMMA TreeIs ==
  ASSUME NEW json
  PROVE  /\ DOMAIN Tree(json) = DOMAIN Content(json)
         /\ \A p \in DOMAIN Content(json) : Tree(json)[p] = [value |-> Content(json)[p], invalid |-> FALSE]
         /\ \A p \in DOMAIN Content(json) : Tree(json)[p].value = Content(json)[p]
         /\ Tree(json) = [p \in DOMAIN Tree(json) |-> Tree(json)[p]]
<1>1. /\ DOMAIN Tree(json) = DOMAIN Content(json)
      /\ \A p \in DOMAIN Content(json) : Tree(json)[p] = [value |-> Content(json)[p], invalid |-> FALSE]
      /\ Tree(json) = [p \in DOMAIN Tree(json) |-> Tree(json)[p]]
  BY DEF Tree
<1>2. ASSUME NEW p \in DOMAIN Content(json) PROVE Tree(json)[p].value = Content(json)[p]
  <2>1. Tree(json)[p] = [value |-> Content(json)[p], invalid |-> FALSE]
    BY <1>1
  <2> QED BY <2>1
<1> QED BY <1>1, <1>2

\* A text that a whole config was written to, or that was edited since.
TextInv(json) ==
  /\ Tidy(Tree(json)) /\ OfMold(Tree(json)) /\ Distinct(json)
  /\ json # <<>> => InNumber(Tree(json))

\* A text of the shape of a tree that holds to the mold.
LEMMA TextOfShape ==
  ASSUME NEW t, Whole(t), NEW json, Distinct(json), DOMAIN Content(json) = DOMAIN t,
         \A p \in DOMAIN t : /\ Content(json)[p] \in Values \cup {Section}
                             /\ Content(json)[p] = Section <=> t[p].value = Section
  PROVE  TextInv(json) /\ InNumber(Tree(json))
<1> DEFINE u == Tree(json)
<1>1. /\ DOMAIN u = DOMAIN t /\ u = [p \in DOMAIN u |-> u[p]]
      /\ \A p \in DOMAIN t : /\ u[p] = [value |-> Content(json)[p], invalid |-> FALSE]
                             /\ u[p].value = Content(json)[p]
  BY TreeIs
<1> HIDE DEF u
<1>2. Typed(u)
  <2> DEFINE R == [value : Values \cup {Section}, invalid : BOOLEAN]
  <2>1. \A p \in DOMAIN t : [value |-> Content(json)[p], invalid |-> FALSE] \in R
    OBVIOUS
  <2> HIDE DEF R
  <2>2. u \in [DOMAIN u -> R]
    BY <1>1, <2>1
  <2> QED BY <2>2 DEF Typed, R
<1>3. \A p \in DOMAIN t : u[p].value = Section <=> t[p].value = Section
  BY <1>1
<1>4. Tidy(u) /\ OfMold(u) /\ InNumber(u)
  BY <1>1, <1>2, <1>3, SameShape DEF Whole
<1> QED BY <1>4 DEF TextInv, u

\* A written config is a sound text.
LEMMA WrittenText ==
  ASSUME NEW t, Whole(t)
  PROVE  TextInv(Serialized(t)) /\ InNumber(Tree(Serialized(t)))
<1> DEFINE json == Serialized(t)
<1>1. /\ Distinct(json) /\ DOMAIN Content(json) = DOMAIN t
      /\ \A p \in DOMAIN t : Content(json)[p] = t[p].value
  BY SerializedHolds, HoldsFacts DEF Whole
<1>2. \A p \in DOMAIN t : t[p].value \in Values \cup {Section}
  BY DEF Whole, Tidy, Typed
<1> HIDE DEF json
<1>3. TextInv(json) /\ InNumber(Tree(json))
  BY <1>1, <1>2, TextOfShape
<1> QED BY <1>3 DEF json

\* What is read from a sound text is whole: what the mold refuses is marked.
LEMMA ReadTree ==
  ASSUME NEW json, TextInv(json), Readable(json)
  PROVE  Tidy(Unserialized(json)) /\ (json # <<>> => Whole(Unserialized(json)))
<1> DEFINE t == Tree(json)
           c == Content(json)
           u == Unserialized(json)
           read(v) == IF v = Section THEN v ELSE AsRead[v]
<1>1. /\ DOMAIN t = DOMAIN c /\ \A p \in DOMAIN c : t[p].value = c[p]
      /\ Tidy(t) /\ OfMold(t) /\ Distinct(json) /\ (json # <<>> => InNumber(t))
  BY TreeIs DEF TextInv
<1>2. /\ u = [p \in DOMAIN c |-> [value |-> read(c[p]), invalid |-> read(c[p]) # Section /\ ~Accepts(NamesOf(p), read(c[p]))]]
  BY DEF Unserialized
<1>3. \A p \in DOMAIN c : \E r \in DOMAIN json : c[p] = json[r]
  <2>1. DOMAIN c = {ReadPath(r) : r \in DOMAIN json} /\ \A r \in DOMAIN json : c[ReadPath(r)] = json[r]
    BY <1>1, ContentIs
  <2> HIDE DEF c
  <2> QED BY <2>1
<1>4. Section \notin Values /\ AsRead \in [Values -> Values \cup {Unreadable}]
  BY TreeAssumption
<1> HIDE DEF t, c, u
<1>5. ASSUME NEW p \in DOMAIN c
      PROVE  read(c[p]) \in Values \cup {Section} /\ (read(c[p]) = Section <=> c[p] = Section)
  <2>1. c[p] \in Values \cup {Section}
    <3>1. t[p].value \in Values \cup {Section}
      BY <1>1 DEF Tidy, Typed
    <3> QED BY <1>1, <3>1
  <2>2. CASE c[p] = Section
    BY <2>2
  <2>3. CASE c[p] # Section
    <3>1. c[p] \in Values /\ c[p] \in Range(json) \ {Section}
      BY <1>3, <2>1, <2>3 DEF Range
    <3>2. AsRead[c[p]] # Unreadable
      BY <3>1 DEF Readable
    <3>3. AsRead[c[p]] \in Values
      BY <1>4, <3>1, <3>2
    <3> QED BY <1>4, <2>3, <3>3
  <2> QED BY <2>2, <2>3
<1>6. /\ DOMAIN u = DOMAIN c /\ u = [p \in DOMAIN u |-> u[p]]
      /\ \A p \in DOMAIN c :
           u[p] = [value |-> read(c[p]), invalid |-> read(c[p]) # Section /\ ~Accepts(NamesOf(p), read(c[p]))]
  BY <1>2
<1>7. \A p \in DOMAIN c : /\ u[p].value = read(c[p])
                          /\ u[p].invalid = (read(c[p]) # Section /\ ~Accepts(NamesOf(p), read(c[p])))
  BY <1>6
<1> HIDE DEF read
<1>8. Typed(u)
  <2> DEFINE R == [value : Values \cup {Section}, invalid : BOOLEAN]
  <2>1. ASSUME NEW p \in DOMAIN c PROVE u[p] \in R
    <3> DEFINE value == read(c[p])
               invalid == read(c[p]) # Section /\ ~Accepts(NamesOf(p), read(c[p]))
    <3>1. value \in Values \cup {Section} /\ invalid \in BOOLEAN
      BY <1>5
    <3>2. u[p] = [value |-> value, invalid |-> invalid]
      BY <1>6
    <3> HIDE DEF value, invalid
    <3>3. [value |-> value, invalid |-> invalid] \in R
      BY <3>1
    <3> QED BY <3>2, <3>3
  <2> HIDE DEF R
  <2>2. u \in [DOMAIN u -> R]
    BY <1>6, <2>1
  <2> QED BY <2>2 DEF Typed, R
<1>9. \A p \in DOMAIN t : u[p].value = Section <=> t[p].value = Section
  BY <1>1, <1>5, <1>7
<1>10. Tidy(u) /\ OfMold(u) /\ (json # <<>> => InNumber(u))
  BY <1>1, <1>6, <1>8, <1>9, SameShape
<1>11. Marked(u)
  BY <1>6, <1>7 DEF Marked
<1> QED BY <1>10, <1>11 DEF Whole, u

\* The member that nobody's mold knows.
LEMMA UnknownEntry ==
  ASSUME NEW root \in Path, NEW i \in Nat
  PROVE  /\ Entry(root, Unknown, i) \in Path \ {<<>>} /\ Len(Entry(root, Unknown, i)) = Len(root) + 1
         /\ Front(Entry(root, Unknown, i)) = root
         /\ Last(Entry(root, Unknown, i))[1] = Unknown /\ Last(Entry(root, Unknown, i))[2] = i
<1>1. Unknown \in Names
  BY TreeAssumption
<1> QED BY <1>1, PathEntry

\* A keyval that the mold does not know is no entry of anything in the mold.
LEMMA UnknownAdded ==
  ASSUME mold \in Molds, NEW t, Tidy(t), OfMold(t), InNumber(t), UnknownPath \notin DOMAIN t,
         NEW value \in Values
  PROVE  LET u == WithValue(t, UnknownPath, value)
         IN Tidy(u) /\ OfMold(u) /\ InNumber(u)
<1> DEFINE p == UnknownPath
           u == WithValue(t, p, value)
<1>1. /\ p \in Path /\ p # <<>> /\ Len(p) = 1 /\ Front(p) = <<>>
      /\ Last(p)[1] = Unknown /\ Last(p)[2] = 0 /\ Unknown \in Names
      /\ p = Entry(<<>>, Unknown, 0) /\ NamesOf(p) = <<Unknown>>
  <2>1. Unknown \in Names
    BY TreeAssumption
  <2>2. p = Entry(<<>>, Unknown, 0)
    BY DEF Entry, UnknownPath
  <2>3. Len(<<>>) = 0
    OBVIOUS
  <2>4. NamesOf(p) = <<Unknown>>
    BY DEF NamesOf, UnknownPath
  <2> HIDE DEF p
  <2>5. /\ p \in Path \ {<<>>} /\ Len(p) = Len(<<>>) + 1 /\ Front(p) = <<>>
        /\ Last(p)[1] = Unknown /\ Last(p)[2] = 0
    BY <2>1, <2>2, UnknownEntry, RootPath
  <2> QED BY <2>1, <2>2, <2>3, <2>4, <2>5
<1> SUFFICES Tidy(u) /\ OfMold(u) /\ InNumber(u)
  OBVIOUS
<1>2. p \notin DOMAIN t
  OBVIOUS
<1> HIDE DEF p
<1>3. Count(t, <<>>, Unknown) = 0
  <2> DEFINE n == Count(t, <<>>, Unknown)
  <2>1. n \in Nat /\ (Entry(<<>>, Unknown, 0) \in DOMAIN t <=> 0 < n)
    BY <1>1, RootPath, CountFacts DEF Tidy
  <2> HIDE DEF n
  <2>2. n = 0
    BY <1>1, <1>2, <2>1
  <2> QED BY <2>2 DEF n
<1>4. IsNext(t, p)
  BY <1>1, <1>3 DEF IsNext
<1>5. HasNew(t, p, value, u)
  BY <1>4, NewValue
<1> HIDE DEF u
<1>6. /\ DOMAIN u = DOMAIN t \cup {p} /\ Tidy(u)
      /\ u[p] = [value |-> value, invalid |-> FALSE]
      /\ \A e \in DOMAIN t : u[e] = t[e]
      /\ \A parent \in Path, name \in Names :
           ~(parent = <<>> /\ name = Unknown) => Count(u, parent, name) = Count(t, parent, name)
  BY <1>1, <1>5 DEF HasNew
<1>7. value # Section
  BY TreeAssumption
<1>8. u[p].value # Section
  BY <1>6, <1>7
<1>9. OfMold(u)
  BY <1>6, <1>8 DEF OfMold, p
<1>10. InNumber(u)
  <2> SUFFICES ASSUME NEW names \in DOMAIN mold, NEW parent \in {<<>>} \cup DOMAIN u,
                      NamesOf(parent) = Front(names)
               PROVE  NumberHolds(u, parent, names)
    BY DEF InNumber
  <2>1. /\ names \in Seq(Names) \ {<<>>} /\ names # <<Unknown>> /\ Last(names) \in Names
        /\ Front(names) # <<>> => Front(names) \in DOMAIN mold
    BY MoldFacts
  <2>2. parent \in {<<>>} \cup DOMAIN t
    <3>1. ASSUME parent = p PROVE FALSE
      <4>1. Front(names) = <<Unknown>> /\ <<Unknown>> # <<>>
        BY <1>1, <3>1
      <4>2. <<Unknown>> \in DOMAIN mold
        BY <2>1, <4>1
      <4> QED BY <4>2, MoldFacts
    <3> QED BY <1>6, <3>1
  <2>3. ~(parent = <<>> /\ Last(names) = Unknown)
    <3> SUFFICES ASSUME parent = <<>>, Last(names) = Unknown PROVE FALSE
      OBVIOUS
    <3>1. NamesOf(<<>>) = <<>>
      BY RootPath, PathNames
    <3>2. <<Unknown>> \in Seq(Names) \ {<<>>} /\ Front(<<Unknown>>) = <<>> /\ Last(<<Unknown>>) = Unknown
      BY <1>1 DEF Front, Last
    <3>3. names = <<Unknown>>
      BY <2>1, <3>1, <3>2, SameEnds
    <3> QED BY <2>1, <3>3
  <2>4. parent \in Path
    BY <2>2, RootPath DEF Tidy, Rooted
  <2>5. Count(u, parent, Last(names)) = Count(t, parent, Last(names))
    BY <1>6, <2>1, <2>3, <2>4
  <2>6. NumberHolds(t, parent, names)
    BY <2>2 DEF InNumber
  <2> QED BY <2>5, <2>6 DEF NumberHolds
<1> QED BY <1>6, <1>9, <1>10

\* A text with one mistake in it is still sound.
LEMMA EditedText ==
  ASSUME mold \in Molds, NEW t, Whole(t), Unmarked(t), NEW json, json = Serialized(t),
         NEW r \in DOMAIN json \cup {UnknownMember}, r \in DOMAIN json => json[r] # Section,
         NEW value \in Values, NEW new, new = [e \in DOMAIN json \cup {r} |-> IF e = r THEN value ELSE json[e]]
  PROVE  TextInv(new)
<1>1. /\ Distinct(json) /\ DOMAIN Content(json) = DOMAIN t
      /\ \A p \in DOMAIN t : Content(json)[p] = t[p].value
      /\ Holds(json, t)
  BY SerializedHolds, HoldsFacts DEF Whole
<1>2. /\ DOMAIN Content(json) = {ReadPath(e) : e \in DOMAIN json}
      /\ \A e \in DOMAIN json : Content(json)[ReadPath(e)] = json[e]
  BY <1>1, ContentIs
<1>3. value # Section
  BY TreeAssumption
<1>4. /\ DOMAIN new = DOMAIN json \cup {r} /\ new[r] = value
      /\ \A e \in DOMAIN json : e # r => new[e] = json[e]
  OBVIOUS
<1> DEFINE c == Content(new)
<1>5. Distinct(new) => /\ DOMAIN c = {ReadPath(e) : e \in DOMAIN new}
                       /\ \A e \in DOMAIN new : c[ReadPath(e)] = new[e]
  BY ContentIs
<1> HIDE DEF c
<1>6. CASE r \in DOMAIN json
  <2>1. DOMAIN new = DOMAIN json /\ Distinct(new)
    BY <1>1, <1>4, <1>6 DEF Distinct
  <2>2. DOMAIN c = DOMAIN t
    BY <1>1, <1>2, <1>5, <2>1
  <2>3. ASSUME NEW p \in DOMAIN t
        PROVE  c[p] \in Values \cup {Section} /\ (c[p] = Section <=> t[p].value = Section)
    <3>1. PICK e \in DOMAIN json : p = ReadPath(e)
      BY <1>1, <1>2
    <3>2. c[p] = new[e] /\ t[p].value = json[e]
      BY <1>1, <1>2, <1>5, <2>1, <3>1
    <3>3. t[p].value \in Values \cup {Section}
      BY DEF Whole, Tidy, Typed
    <3> QED BY <1>3, <1>4, <3>2, <3>3
  <2> QED BY <2>1, <2>2, <2>3, TextOfShape DEF c
<1>7. CASE r \notin DOMAIN json
  <2>1. r = UnknownMember
    BY <1>7
  <2>2. ReadPath(r) = UnknownPath
    <3>1. DOMAIN UnknownMember = 1..1 /\ UnknownMember[1][1] = Unknown /\ UnknownMember[1][2] = Plain
      BY DEF UnknownMember
    <3>2. ReadPath(UnknownMember) = [k \in 1..1 |-> <<Unknown, 0>>]
      BY <3>1 DEF ReadPath
    <3>3. UnknownPath = [k \in 1..1 |-> <<Unknown, 0>>]
      BY DEF UnknownPath
    <3> QED BY <2>1, <3>2, <3>3
  <2>3. UnknownPath \notin DOMAIN t
    <3> SUFFICES ASSUME UnknownPath \in DOMAIN t PROVE FALSE
      OBVIOUS
    <3>1. NamesOf(UnknownPath) = <<Unknown>>
      BY DEF NamesOf, UnknownPath
    <3>2. <<Unknown>> \notin DOMAIN mold
      BY MoldFacts
    <3>3. t[UnknownPath].value # Section /\ ~t[UnknownPath].invalid
      BY <3>1, <3>2 DEF Whole, OfMold, Unmarked
    <3> QED BY <3>1, <3>2, <3>3 DEF Whole, Marked, Accepts
  <2>4. \A e \in DOMAIN json : ReadPath(e) # ReadPath(r)
    BY <1>1, <1>2, <2>2, <2>3
  <2>5. Distinct(new)
    BY <1>1, <1>4, <2>4 DEF Distinct
  <2>6. /\ DOMAIN c = DOMAIN t \cup {UnknownPath} /\ c[UnknownPath] = value
        /\ \A p \in DOMAIN t : c[p] = t[p].value
    <3>1. DOMAIN c = DOMAIN t \cup {UnknownPath}
      BY <1>1, <1>2, <1>4, <1>5, <2>2, <2>5
    <3>2. c[UnknownPath] = value
      BY <1>4, <1>5, <2>2, <2>5
    <3>3. ASSUME NEW p \in DOMAIN t PROVE c[p] = t[p].value
      <4>1. PICK e \in DOMAIN json : p = ReadPath(e)
        BY <1>1, <1>2
      <4>2. c[p] = new[e] /\ t[p].value = json[e] /\ e # r
        BY <1>1, <1>2, <1>4, <1>5, <1>7, <2>5, <4>1
      <4> QED BY <1>4, <4>2
    <3> QED BY <3>1, <3>2, <3>3
  <2> DEFINE u == Tree(json)
             w == Tree(new)
  <2>7. Tidy(u) /\ OfMold(u) /\ InNumber(u) /\ DOMAIN u = DOMAIN t
    BY <1>1, WrittenText, TreeIs DEF TextInv
  <2>8. w = WithValue(u, UnknownPath, value)
    <3>1. /\ DOMAIN u = DOMAIN t
          /\ \A p \in DOMAIN t : u[p] = [value |-> t[p].value, invalid |-> FALSE]
      BY <1>1, TreeIs
    <3>2. /\ DOMAIN w = DOMAIN c /\ w = [p \in DOMAIN w |-> w[p]]
          /\ \A p \in DOMAIN c : w[p] = [value |-> c[p], invalid |-> FALSE]
      BY TreeIs DEF c
    <3> HIDE DEF u, w
    <3>3. \A p \in DOMAIN u : p # UnknownPath /\ w[p] = u[p]
      BY <2>3, <2>6, <3>1, <3>2
    <3>4. w[UnknownPath] = [value |-> value, invalid |-> FALSE]
      BY <2>6, <3>2
    <3>5. DOMAIN w = DOMAIN u \cup {UnknownPath} /\ UnknownPath \notin DOMAIN u
      BY <2>3, <2>6, <3>1, <3>2
    <3>6. w = [e \in DOMAIN u \cup {UnknownPath} |->
                 IF e = UnknownPath THEN [value |-> value, invalid |-> FALSE] ELSE u[e]]
      BY <3>2, <3>3, <3>4, <3>5
    <3> QED BY <3>5, <3>6 DEF WithValue
  <2>9. Tidy(w) /\ OfMold(w) /\ InNumber(w)
    <3> HIDE DEF u, w
    <3> QED BY <2>3, <2>7, <2>8, UnknownAdded
  <2> QED BY <2>5, <2>9 DEF TextInv
<1> QED BY <1>6, <1>7
\* So is one to which nothing was written.
LEMMA EmptyText == TextInv(<<>>)
<1> DEFINE json == <<>>
           u == Tree(json)
           t == <<>>
<1>1. DOMAIN json = {} /\ json = <<>>
  OBVIOUS
<1>2. DOMAIN t = {} /\ Tidy(t) /\ OfMold(t)
  BY EmptyFacts
<1> HIDE DEF json, t
<1>3. Distinct(json) /\ DOMAIN Content(json) = {}
  BY <1>1 DEF Distinct, Content
<1>4. DOMAIN u = {} /\ u = [p \in DOMAIN u |-> u[p]]
  BY <1>3, TreeIs
<1> HIDE DEF u
<1>5. Typed(u)
  BY <1>4 DEF Typed
<1>6. Tidy(u) /\ OfMold(u)
  BY <1>2, <1>4, <1>5, SameShape
<1>7. TextInv(json)
  BY <1>1, <1>3, <1>6 DEF TextInv, u
<1> QED BY <1>7 DEF json
----------------------------------------------------------------------------
(* The inductive invariant: the config holds to the mold, but for what is  *)
(* marked in it, and so does what the text holds.                          *)
TreeInv == mold \in Molds /\ Whole(elements) /\ TextInv(text)

\* A generated config satisfies the invariant.
LEMMA TreeInvInit == TreeInit => TreeInv
<1> SUFFICES ASSUME TreeInit PROVE TreeInv
  OBVIOUS
<1>1. mold \in Molds /\ Whole(elements) /\ text = <<>>
  BY Generated DEF TreeInit
<1> QED BY <1>1, EmptyText DEF TreeInv

\* Every step keeps it.
LEMMA TreeInvNext == TreeInv /\ [TreeNext]_treeVars => TreeInv'
<1> SUFFICES ASSUME TreeInv, [TreeNext]_treeVars PROVE TreeInv'
  OBVIOUS
<1>1. mold \in Molds /\ Whole(elements) /\ TextInv(text)
  BY DEF TreeInv
<1>2. mold' = mold
  BY DEF TreeNext, Set, Write, Read, Edit, treeVars
<1>3. Whole(elements') /\ TextInv(text')
  <2>1. ASSUME NEW q \in Queries, NEW value \in Values, Set(q, value) PROVE Whole(elements') /\ TextInv(text')
    <3>1. elements' = SetResult(elements, q, value).tree /\ text' = text
      BY <2>1 DEF Set
    <3>2. SetTo(elements, q, value, SetResult(elements, q, value))
      BY <1>1, SetFacts
    <3>3. Whole(SetResult(elements, q, value).tree)
      BY <3>2 DEF SetTo
    <3> QED BY <1>1, <3>1, <3>3
  <2>2. ASSUME Write PROVE Whole(elements') /\ TextInv(text')
    <3>1. elements' = elements /\ (text' = Serialized(elements) \/ text' = <<>>)
      BY <2>2 DEF Write
    <3>2. TextInv(Serialized(elements)) /\ TextInv(<<>>)
      BY <1>1, WrittenText, EmptyText
    <3> QED BY <1>1, <3>1, <3>2
  <2>3. ASSUME Read PROVE Whole(elements') /\ TextInv(text')
    <3>1. elements' = Unserialized(text) /\ text' = text /\ Readable(text) /\ text # <<>>
      BY <2>3 DEF Read
    <3>2. Whole(Unserialized(text))
      BY <1>1, <3>1, ReadTree
    <3> QED BY <1>1, <3>1, <3>2
  <2>4. ASSUME NEW value \in Values, NEW r \in DOMAIN text \cup {UnknownMember}, Edit(r, value)
        PROVE  Whole(elements') /\ TextInv(text')
    <3>1. /\ text = Serialized(elements) /\ Unmarked(elements) /\ (r \in DOMAIN text => text[r] # Section)
          /\ text' = [e \in DOMAIN text \cup {r} |-> IF e = r THEN value ELSE text[e]]
          /\ elements' = elements
      BY <2>4 DEF Edit
    <3>2. TextInv(text')
      BY <1>1, <3>1, EditedText
    <3> QED BY <1>1, <3>1, <3>2
  <2>5. CASE UNCHANGED treeVars
    <3>1. elements' = elements /\ text' = text
      BY <2>5 DEF treeVars
    <3> QED BY <1>1, <3>1
  <2> QED BY <2>1, <2>2, <2>3, <2>4, <2>5 DEF TreeNext
<1> QED BY <1>1, <1>2, <1>3
        DEF TreeInv, Whole, TextInv, Tidy, Typed, Rooted, Consecutive, Limited, OfMold, InNumber, NumberHolds,
            Marked, Accepts, Tree, Distinct, Content

(* The invariant holds throughout: the tree of elements has no holes and   *)
(* holds to its mold, but for what a reader marked in it.                  *)
THEOREM TreeInvHolds == TreeSpec => []TreeInv
  BY TreeInvInit, TreeInvNext, PTL DEF TreeSpec

(* Every element is below sections of the tree, the entries of a name have *)
(* consecutive indexes, and values are values.                             *)
THEOREM TreeTypeCorrect == TreeSpec => []TreeTypeOK
<1>1. TreeInv => TreeTypeOK
  <2> SUFFICES ASSUME TreeInv PROVE TreeTypeOK
    OBVIOUS
  <2>1. mold \in Molds /\ Typed(elements) /\ Rooted(elements) /\ Consecutive(elements)
    BY DEF TreeInv, Whole, Tidy
  <2>2. ASSUME NEW p \in DOMAIN elements, Len(p) > 1
        PROVE  Front(p) \in DOMAIN elements /\ elements[Front(p)].value = Section
    <3>1. p \in Path /\ p # <<>>
      BY <2>1 DEF Rooted
    <3>2. Front(p) = Upto(p, Len(p) - 1) /\ Len(p) \in Nat
      BY <3>1, PathFront, PathUpto
    <3>3. Len(p) - 1 \in 1..(Len(p) - 1)
      BY <2>2, <3>2
    <3> QED BY <2>1, <3>2, <3>3 DEF Rooted
  <2>3. \A p \in DOMAIN elements : elements[p].value \in Values \cup {Section} /\ elements[p].invalid \in BOOLEAN
    BY <2>1 DEF Typed
  <2> QED BY <2>1, <2>2, <2>3 DEF TreeTypeOK, Consecutive
<1> QED BY <1>1, TreeInvHolds, PTL

(* Whatever mold, config and queries: a set that returns OK is read back,  *)
(* leaves everything else as it was and creates nothing but the missing    *)
(* sections with what the mold requires below them                         *)
(* (dx_query_ensure_ancestors); one that fails leaves no trace.            *)
THEOREM TreeSetIsExact == TreeSpec => []SetIsExact
<1>1. TreeInv => SetIsExact
  <2> SUFFICES ASSUME TreeInv, NEW q \in Queries, NEW value \in Values
               PROVE  LET r == SetResult(elements, q, value)  p == PathOf(q) IN
                      IF r.ok
                      THEN /\ Get(r.tree, q) = [ok |-> TRUE, value |-> value]
                           /\ \A e \in DOMAIN elements : e # p => e \in DOMAIN r.tree /\ r.tree[e] = elements[e]
                           /\ \A e \in DOMAIN r.tree \ DOMAIN elements : e # p =>
                                \/ e \in NewAncestors(elements, p)
                                \/ \E a \in NewAncestors(elements, p) :
                                     /\ e \in RequiredBelow(mold, a)
                                     /\ r.tree[e].value = Default(mold, e)
                      ELSE r.tree = elements \/ (p \in DOMAIN elements /\ elements[p].invalid)
    BY DEF SetIsExact
  <2>1. SetTo(elements, q, value, SetResult(elements, q, value))
    BY SetFacts DEF TreeInv
  <2> QED BY <2>1 DEF SetTo, Sets, OnTheWay
<1> QED BY <1>1, TreeInvHolds, PTL

(* A config without marks holds to its mold at every depth, after any      *)
(* sequence of sets, writes, edits and reads (disir_config_valid).         *)
THEOREM TreeValidMeetsMold == TreeSpec => []ValidMeetsMold
<1>1. TreeInv => ValidMeetsMold
  <2> SUFFICES ASSUME TreeInv, Unmarked(elements) PROVE Meets(elements)
    BY DEF ValidMeetsMold
  <2>1. mold \in Molds /\ Whole(elements)
    BY DEF TreeInv
  <2>2. ASSUME NEW names \in DOMAIN mold, NEW p \in DOMAIN elements,
               NamesOf(p) = names, mold[names].kind = "KEYVAL"
        PROVE  elements[p].value \in mold[names].allowed
    <3>1. p # UnknownPath
      <4>1. NamesOf(UnknownPath) = <<Unknown>>
        BY DEF NamesOf, UnknownPath
      <4> QED BY <2>1, <2>2, <4>1, MoldFacts
    <3>2. elements[p].value # Section
      BY <2>1, <2>2, <3>1 DEF Whole, OfMold
    <3>3. ~elements[p].invalid
      BY DEF Unmarked
    <3> QED BY <2>1, <2>2, <3>2, <3>3 DEF Whole, Marked, Accepts
  <2> QED BY <2>1, <2>2 DEF Meets, Whole, InNumber, NumberHolds
<1> QED BY <1>1, TreeInvHolds, PTL
----------------------------------------------------------------------------
(* Comparing.                                                              *)
\* What dx_value_compare does not tell apart: never a value and a section.
LEMMA SameFacts ==
  ASSUME NEW v \in Values \cup {Section}, NEW w \in Values \cup {Section}
  PROVE  /\ Same(v, v) /\ (Same(v, w) <=> Same(w, v))
         /\ Same(v, w) => (v = Section <=> w = Section)
<1>1. /\ Section \notin Values /\ Close \subseteq Values \X Values
      /\ \A c \in Close : <<c[2], c[1]>> \in Close
  BY TreeAssumption
<1>2. <<v, w>> \in Close <=> <<w, v>> \in Close
  BY <1>1
<1> QED BY <1>1, <1>2 DEF Same
Places(t) == {<<>>} \cup DOMAIN t

\* The element e is below p.
Below(e, p) == Len(e) > Len(p) /\ Upto(e, Len(p)) = p

\* The report of two elements at p, from the reports f of those below.
DiffAt(f, lhs, rhs, p) ==
  IF p # <<>> /\ ~Same(lhs[p].value, rhs[p].value) THEN {p}
  ELSE IF p # <<>> /\ lhs[p].value # Section THEN {}
  ELSE NotInLhs(lhs, rhs, p) \cup UNION {DiffOfName(f, lhs, rhs, p, name) : name \in NamesBelow(lhs, p)}

\* The places of a tree are paths.
LEMMA PlacePath ==
  ASSUME NEW t, Tidy(t), NEW p \in Places(t)
  PROVE  p \in Path /\ Len(p) \in Nat
<1>1. p \in Path
  BY RootPath DEF Places, Tidy, Rooted
<1> QED BY <1>1, PathUpto

\* The names below an element, and how often they occur.
LEMMA BelowFacts ==
  ASSUME NEW t, Tidy(t), NEW p \in Path
  PROVE  /\ \A name \in NamesBelow(t, p) : name \in Names
         /\ \A name \in Names :
              /\ Count(t, p, name) \in Nat
              /\ \A i \in Nat : Entry(p, name, i) \in DOMAIN t <=> i < Count(t, p, name)
<1>1. ASSUME NEW name \in NamesBelow(t, p) PROVE name \in Names
  <2>1. PICK r \in DOMAIN t : name = Last(r)[1]
    BY DEF NamesBelow
  <2>2. r \in Path /\ r # <<>>
    BY DEF Tidy, Rooted
  <2> QED BY <2>1, <2>2, PathFront
<1>2. \A name \in Names :
        /\ Count(t, p, name) \in Nat
        /\ \A i \in Nat : Entry(p, name, i) \in DOMAIN t <=> i < Count(t, p, name)
  BY CountFacts DEF Tidy
<1> QED BY <1>1, <1>2

\* The numbers of entries on both sides.
LEMMA BothCounts ==
  ASSUME NEW a \in Nat, NEW b \in Nat
  PROVE  /\ Min({a, b}) \in Nat /\ Max({a, b}) \in Nat
         /\ Min({a, b}) <= a /\ Min({a, b}) <= b /\ Min({a, b}) <= Max({a, b})
         /\ Min({a, b}) = Max({a, b}) <=> a = b
         /\ a = b => Min({a, b}) = a
<1>1. Min({a, b}) = IF a <= b THEN a ELSE b
  BY OfTwo
<1>2. Max({a, b}) = IF a <= b THEN b ELSE a
  BY OfTwo
<1> DEFINE m == Min({a, b})
           n == Max({a, b})
<1>3. (m = IF a <= b THEN a ELSE b) /\ (n = IF a <= b THEN b ELSE a)
  BY <1>1, <1>2
<1> HIDE DEF m, n
<1>4. m \in Nat /\ n \in Nat /\ m <= a /\ m <= b /\ m <= n /\ (m = n <=> a = b) /\ (a = b => m = a)
  BY <1>3
<1> QED BY <1>4 DEF m, n

\* The report of an element depends on the reports of those right below it.
LEMMA DiffDepends ==
  ASSUME NEW lhs, Tidy(lhs), NEW rhs, Tidy(rhs), NEW p \in Path, NEW g, NEW h,
         \A c \in DOMAIN lhs : Front(c) = p => g[c] = h[c]
  PROVE  DiffAt(g, lhs, rhs, p) = DiffAt(h, lhs, rhs, p)
<1>1. ASSUME NEW name \in NamesBelow(lhs, p)
      PROVE  DiffOfName(g, lhs, rhs, p, name) = DiffOfName(h, lhs, rhs, p, name)
  <2> DEFINE left == Count(lhs, p, name)
             right == Count(rhs, p, name)
             S == 0..(Min({left, right}) - 1)
             e(i) == Entry(p, name, i)
  <2>1. name \in Names /\ left \in Nat /\ right \in Nat /\ \A i \in Nat : e(i) \in DOMAIN lhs <=> i < left
    BY BelowFacts
  <2> HIDE DEF left, right
  <2>2. Min({left, right}) \in Nat /\ Min({left, right}) <= left
    BY <2>1, BothCounts
  <2>3. ASSUME NEW i \in S PROVE g[e(i)] = h[e(i)]
    <3>1. i \in Nat /\ i < left
      BY <2>1, <2>2
    <3>2. e(i) \in DOMAIN lhs
      BY <2>1, <3>1
    <3>3. Front(e(i)) = p
      BY <2>1, <3>1, PathEntry
    <3> QED BY <3>2, <3>3
  <2> HIDE DEF S, e
  <2>4. {g[e(i)] : i \in S} = {h[e(i)] : i \in S}
    BY <2>3
  <2> QED BY <2>4 DEF DiffOfName, S, e, left, right
<1>2. UNION {DiffOfName(g, lhs, rhs, p, name) : name \in NamesBelow(lhs, p)} =
      UNION {DiffOfName(h, lhs, rhs, p, name) : name \in NamesBelow(lhs, p)}
  BY <1>1
<1> QED BY <1>2 DEF DiffAt

IsDiff(f, lhs, rhs, S) == f = [p \in S |-> DiffAt(f, lhs, rhs, p)]

\* The places of t that are deeper than b - n.
Deep(t, b, n) == {p \in Places(t) : Len(p) + n > b}

\* Going up from the deepest elements, one level at a time.
LEMMA DeepFacts ==
  ASSUME NEW t, Tidy(t), NEW b \in Nat, \A p \in DOMAIN t : Len(p) <= b
  PROVE  /\ Deep(t, b, 0) = {} /\ Deep(t, b, b + 1) = Places(t)
         /\ \A n \in Nat : /\ Deep(t, b, n) \subseteq Deep(t, b, n + 1)
                           /\ \A c \in DOMAIN t : Front(c) \in Deep(t, b, n + 1) => c \in Deep(t, b, n)
<1>1. \A p \in Places(t) : Len(p) \in Nat /\ Len(p) <= b
  <2>1. Len(<<>>) = 0
    OBVIOUS
  <2> QED BY <2>1, PlacePath DEF Places
<1>2. Deep(t, b, 0) = {} /\ Deep(t, b, b + 1) = Places(t)
  BY <1>1 DEF Deep
<1>3. ASSUME NEW n \in Nat PROVE Deep(t, b, n) \subseteq Deep(t, b, n + 1)
  BY <1>1 DEF Deep
<1>4. ASSUME NEW n \in Nat, NEW c \in DOMAIN t, Front(c) \in Deep(t, b, n + 1) PROVE c \in Deep(t, b, n)
  <2>1. c \in Path /\ c # <<>> /\ c \in Places(t)
    BY DEF Tidy, Rooted, Places
  <2>2. Len(Front(c)) = Len(c) - 1 /\ Len(c) \in Nat
    BY <1>1, <2>1, PathFront
  <2>3. Len(Front(c)) + (n + 1) > b
    BY <1>4 DEF Deep
  <2>4. Len(c) + n > b
    BY <2>2, <2>3
  <2> QED BY <2>1, <2>4 DEF Deep
<1> QED BY <1>2, <1>3, <1>4

\* The recursive report exists, though sections are of any depth.
LEMMA DiffExists ==
  ASSUME NEW lhs, Tidy(lhs), NEW rhs, Tidy(rhs)
  PROVE  \E f : IsDiff(f, lhs, rhs, Places(lhs))
<1>1. PICK b \in Nat : \A p \in DOMAIN lhs : Len(p) <= b
  BY DEF Tidy, Limited
<1> DEFINE D(n) == Deep(lhs, b, n)
           N == b + 1
           T == {n \in 0..N : \E f : IsDiff(f, lhs, rhs, D(n))}
<1>2. /\ D(0) = {} /\ D(N) = Places(lhs)
      /\ \A n \in Nat : D(n) \subseteq D(n + 1) /\ \A c \in DOMAIN lhs : Front(c) \in D(n + 1) => c \in D(n)
  BY <1>1, DeepFacts
<1>3. \A n, p : p \in D(n) => p \in Path
  BY PlacePath DEF Deep
<1>4. N \in Nat /\ N >= 1
  BY <1>1
<1> HIDE DEF D, N
<1>5. 0 \in T
  <2> DEFINE f == [p \in {} |-> {}]
  <2>1. IsDiff(f, lhs, rhs, D(0))
    BY <1>2 DEF IsDiff
  <2> HIDE DEF f
  <2> QED BY <1>4, <2>1
<1>6. ASSUME NEW n \in 0..(N - 1), n \in T PROVE n + 1 \in T
  <2>1. n \in Nat /\ n + 1 \in 0..N
    BY <1>4
  <2>2. PICK f : IsDiff(f, lhs, rhs, D(n))
    BY <1>6
  <2>3. \A p \in D(n) : f[p] = DiffAt(f, lhs, rhs, p)
    BY <2>2 DEF IsDiff
  <2> DEFINE h == [p \in D(n + 1) |-> DiffAt(f, lhs, rhs, p)]
  <2>4. \A p \in D(n + 1) : h[p] = DiffAt(f, lhs, rhs, p)
    OBVIOUS
  <2>5. h = [p \in D(n + 1) |-> h[p]]
    OBVIOUS
  <2> HIDE DEF h
  <2>6. ASSUME NEW p \in D(n + 1) PROVE h[p] = DiffAt(h, lhs, rhs, p)
    <3>1. \A c \in DOMAIN lhs : Front(c) = p => f[c] = h[c]
      BY <1>2, <2>1, <2>3, <2>4
    <3>2. p \in Path
      BY <1>3
    <3>3. DiffAt(f, lhs, rhs, p) = DiffAt(h, lhs, rhs, p)
      BY <3>1, <3>2, DiffDepends
    <3> QED BY <2>4, <3>3
  <2>7. IsDiff(h, lhs, rhs, D(n + 1))
    BY <2>5, <2>6 DEF IsDiff
  <2> QED BY <2>1, <2>7
<1> HIDE DEF T
<1>7. N \in T
  BY <1>4, <1>5, <1>6, Induction
<1> QED BY <1>2, <1>7 DEF T

\* Both sides have the same at e, or nothing.
Agree(lhs, rhs, e) ==
  /\ e \in DOMAIN lhs <=> e \in DOMAIN rhs
  /\ e \in DOMAIN lhs => Same(lhs[e].value, rhs[e].value)

SameBelow(lhs, rhs, p) == \A e \in DOMAIN lhs \cup DOMAIN rhs : Below(e, p) => Agree(lhs, rhs, e)

\* Two elements, or the roots, are the same with everything below them.
SameFrom(lhs, rhs, p) == (p # <<>> => Same(lhs[p].value, rhs[p].value)) /\ SameBelow(lhs, rhs, p)

\* Right below p both sides have the same number of entries of each name, and
\* nothing was reported of them.
NoneReported(f, lhs, rhs, p) ==
  /\ NamesBelow(rhs, p) \subseteq NamesBelow(lhs, p)
  /\ \A name \in NamesBelow(lhs, p) :
       /\ Count(lhs, p, name) = Count(rhs, p, name)
       /\ \A i \in Nat : i < Count(lhs, p, name) => f[Entry(p, name, i)] = {}

\* When nothing is reported of what is right below p.
LEMMA ReportEmpty ==
  ASSUME NEW lhs, Tidy(lhs), NEW rhs, Tidy(rhs), NEW p \in Path, NEW f
  PROVE  NotInLhs(lhs, rhs, p) \cup UNION {DiffOfName(f, lhs, rhs, p, name) : name \in NamesBelow(lhs, p)} = {}
           <=> NoneReported(f, lhs, rhs, p)
<1>1. NotInLhs(lhs, rhs, p) = {} <=> NamesBelow(rhs, p) \subseteq NamesBelow(lhs, p)
  BY DEF NotInLhs
<1>2. ASSUME NEW name \in NamesBelow(lhs, p)
      PROVE  DiffOfName(f, lhs, rhs, p, name) = {}
               <=> /\ Count(lhs, p, name) = Count(rhs, p, name)
                   /\ \A i \in Nat : i < Count(lhs, p, name) => f[Entry(p, name, i)] = {}
  <2> DEFINE left == Count(lhs, p, name)
             right == Count(rhs, p, name)
             m == Min({left, right})
             n == Max({left, right})
             e(i) == Entry(p, name, i)
             A == UNION {f[e(i)] : i \in 0..(m - 1)}
             B == {e(i) : i \in m..(n - 1)}
  <2>0. DiffOfName(f, lhs, rhs, p, name) = A \cup B
    BY DEF DiffOfName
  <2>1. left \in Nat /\ right \in Nat
    BY BelowFacts
  <2> HIDE DEF left, right
  <2>2. m \in Nat /\ n \in Nat /\ m <= n /\ (m = n <=> left = right) /\ (left = right => m = left)
    BY <2>1, BothCounts
  <2> HIDE DEF m, n, e
  <2>3. {e(i) : i \in m..(n - 1)} = {} <=> m = n
    <3>1. m..(n - 1) = {} <=> m = n
      <4>1. m # n => m \in m..(n - 1)
        BY <2>2
      <4>2. m = n => m..(n - 1) = {}
        BY <2>2
      <4> QED BY <4>1, <4>2
    <3> QED BY <3>1
  <2>4. UNION {f[e(i)] : i \in 0..(m - 1)} = {} <=> \A i \in 0..(m - 1) : f[e(i)] = {}
    OBVIOUS
  <2>5. DiffOfName(f, lhs, rhs, p, name) = {} <=> left = right /\ \A i \in 0..(m - 1) : f[e(i)] = {}
    <3>1. DiffOfName(f, lhs, rhs, p, name) = A \cup B
      BY <2>0
    <3>2. A \cup B = {} <=> A = {} /\ B = {}
      <4> HIDE DEF A, B
      <4> QED OBVIOUS
    <3>3. (B = {} <=> m = n) /\ (A = {} <=> \A i \in 0..(m - 1) : f[e(i)] = {})
      BY <2>3, <2>4
    <3> HIDE DEF A, B
    <3> QED BY <2>2, <3>1, <3>2, <3>3
  <2>6. left = right => ((\A i \in 0..(m - 1) : f[e(i)] = {}) <=> \A i \in Nat : i < left => f[e(i)] = {})
    <3>1. left = right => \A i : i \in 0..(m - 1) <=> i \in Nat /\ i < left
      BY <2>1, <2>2
    <3> QED BY <3>1
  <2> QED BY <2>5, <2>6 DEF left, right, e
<1>3. UNION {DiffOfName(f, lhs, rhs, p, name) : name \in NamesBelow(lhs, p)} = {}
        <=> \A name \in NamesBelow(lhs, p) : DiffOfName(f, lhs, rhs, p, name) = {}
  OBVIOUS
<1> QED BY <1>1, <1>2, <1>3 DEF NoneReported

\* The entry right below p on the way to an element below p.
LEMMA ChildOf ==
  ASSUME NEW t, Tidy(t), NEW p \in Path, NEW e \in DOMAIN t, Below(e, p)
  PROVE  \E c \in DOMAIN t, name \in NamesBelow(t, p), i \in Nat :
           /\ c = Entry(p, name, i) /\ Front(c) = p
           /\ e = c \/ Below(e, c)
           /\ p # <<>> => p \in DOMAIN t /\ t[p].value = Section
<1> DEFINE n == Len(p)
           c == Upto(e, n + 1)
<1>1. /\ e \in Path /\ e # <<>> /\ Len(e) \in Nat /\ n \in Nat /\ Len(e) > n /\ Upto(e, n) = p
      /\ Upto(e, Len(e)) = e
  BY PathUpto DEF Tidy, Rooted, Below
<1>2. n + 1 \in 1..Len(e) /\ n + 1 \in 0..Len(e) /\ (n + 1) - 1 = n /\ n + 1 \in 1..(n + 1)
  BY <1>1
<1>3. c \in Path /\ Len(c) = n + 1 /\ c # <<>>
  BY <1>1, <1>2, PathUpto
<1>4. e[n + 1][1] \in Names /\ e[n + 1][2] \in Nat
  BY <1>1, <1>2, PathNames
<1>5. c = Entry(p, e[n + 1][1], e[n + 1][2])
  <2>1. \A k \in 1..Len(e) : Upto(e, k) = Entry(Upto(e, k - 1), e[k][1], e[k][2])
    BY <1>1, PathFront
  <2>2. c = Entry(Upto(e, (n + 1) - 1), e[n + 1][1], e[n + 1][2])
    BY <1>2, <2>1
  <2> QED BY <1>1, <1>2, <2>2
<1>6. Front(c) = p /\ Last(c)[1] = e[n + 1][1]
  <2> DEFINE name == e[n + 1][1]
             i == e[n + 1][2]
  <2> HIDE DEF c, name, i
  <2>1. name \in Names /\ i \in Nat
    BY <1>4 DEF name, i
  <2>2. c = Entry(p, name, i)
    BY <1>5 DEF name, i
  <2>3. Front(Entry(p, name, i)) = p /\ Last(Entry(p, name, i))[1] = name
    BY <2>1, PathEntry
  <2> QED BY <2>2, <2>3 DEF name
<1>7. c \in DOMAIN t
  <2>1. CASE n + 1 = Len(e)
    BY <1>1, <2>1
  <2>2. CASE n + 1 # Len(e)
    <3>1. n + 1 \in 1..(Len(e) - 1)
      BY <1>1, <2>2
    <3> QED BY <3>1 DEF Tidy, Rooted
  <2> QED BY <2>1, <2>2
<1>8. e[n + 1][1] \in NamesBelow(t, p)
  BY <1>3, <1>6, <1>7 DEF NamesBelow
<1>9. e = c \/ Below(e, c)
  <2>1. CASE n + 1 = Len(e)
    BY <1>1, <2>1
  <2>2. CASE n + 1 # Len(e)
    <3>1. Len(e) > n + 1
      BY <1>1, <2>2
    <3> QED BY <1>3, <3>1 DEF Below
  <2> QED BY <2>1, <2>2
<1>10. p # <<>> => p \in DOMAIN t /\ t[p].value = Section
  <2>1. p # <<>> => n \in 1..(Len(e) - 1)
    <3>1. p # <<>> => n # 0
      BY <1>1, PathUpto
    <3> QED BY <1>1, <3>1
  <2> QED BY <1>1, <2>1 DEF Tidy, Rooted
<1> HIDE DEF c
<1> QED BY <1>4, <1>5, <1>6, <1>7, <1>8, <1>9, <1>10

\* What is below an entry of p is below p.
LEMMA BelowChild ==
  ASSUME NEW p \in Path, NEW name \in Names, NEW i \in Nat, NEW e \in Path
  PROVE  /\ Below(Entry(p, name, i), p)
         /\ Below(e, Entry(p, name, i)) => Below(e, p)
<1> DEFINE c == Entry(p, name, i)
           n == Len(p)
<1>1. n \in Nat /\ Len(e) \in Nat /\ Upto(p, n) = p
  BY PathUpto
<1>2. /\ c \in Path /\ Len(c) = n + 1
      /\ \A k \in 0..n : Upto(c, k) = Upto(p, k)
  BY PathEntry
<1> HIDE DEF c, n
<1>3. Upto(c, n) = p
  BY <1>1, <1>2
<1>4. Below(c, p)
  BY <1>1, <1>2, <1>3 DEF Below, n
<1>5. ASSUME Below(e, c) PROVE Below(e, p)
  <2>1. Len(e) > n + 1 /\ Upto(e, n + 1) = c
    BY <1>2, <1>5 DEF Below
  <2>2. n + 1 \in 0..Len(e) /\ n \in 0..(n + 1)
    BY <1>1, <2>1
  <2>3. Upto(c, n) = Upto(e, n)
    <3>1. \A k \in 0..Len(e) : \A l \in 0..k : Upto(Upto(e, k), l) = Upto(e, l)
      BY PathUpto
    <3> QED BY <2>1, <2>2, <3>1
  <2>4. Len(e) > n
    BY <1>1, <2>1
  <2>5. Upto(e, n) = p
    BY <1>3, <2>3
  <2> QED BY <2>4, <2>5 DEF Below, n
<1> QED BY <1>4, <1>5 DEF c

\* Both sides agree below p when they do right below it, and below that.
LEMMA NoneReportedIs ==
  ASSUME NEW lhs, Tidy(lhs), NEW rhs, Tidy(rhs), NEW p \in Path, NEW f,
         \A c \in DOMAIN lhs : c \in DOMAIN rhs /\ Front(c) = p => (f[c] = {} <=> SameFrom(lhs, rhs, c))
  PROVE  NoneReported(f, lhs, rhs, p) <=> SameBelow(lhs, rhs, p)
<1>1. /\ \A name \in NamesBelow(lhs, p) \cup NamesBelow(rhs, p) : name \in Names
      /\ \A name \in Names :
           /\ Count(lhs, p, name) \in Nat /\ Count(rhs, p, name) \in Nat
           /\ \A i \in Nat : /\ Entry(p, name, i) \in DOMAIN lhs <=> i < Count(lhs, p, name)
                             /\ Entry(p, name, i) \in DOMAIN rhs <=> i < Count(rhs, p, name)
  <2>1. /\ \A name \in NamesBelow(lhs, p) : name \in Names
        /\ \A name \in Names :
             /\ Count(lhs, p, name) \in Nat
             /\ \A i \in Nat : Entry(p, name, i) \in DOMAIN lhs <=> i < Count(lhs, p, name)
    BY BelowFacts
  <2>2. /\ \A name \in NamesBelow(rhs, p) : name \in Names
        /\ \A name \in Names :
             /\ Count(rhs, p, name) \in Nat
             /\ \A i \in Nat : Entry(p, name, i) \in DOMAIN rhs <=> i < Count(rhs, p, name)
    BY BelowFacts
  <2> QED BY <2>1, <2>2
<1>2. \A name \in Names, i \in Nat :
        /\ Entry(p, name, i) \in Path \ {<<>>} /\ Front(Entry(p, name, i)) = p
        /\ Below(Entry(p, name, i), p)
        /\ \A e \in Path : Below(e, Entry(p, name, i)) => Below(e, p)
  BY PathEntry, BelowChild
<1>3. \A e \in DOMAIN lhs \cup DOMAIN rhs : e \in Path /\ e # <<>>
  BY DEF Tidy, Rooted
<1>4. ASSUME NoneReported(f, lhs, rhs, p) PROVE SameBelow(lhs, rhs, p)
  <2>1. ASSUME NEW name \in NamesBelow(lhs, p), NEW i \in Nat, i < Count(lhs, p, name)
        PROVE  /\ Agree(lhs, rhs, Entry(p, name, i))
               /\ SameBelow(lhs, rhs, Entry(p, name, i))
    <3> DEFINE c == Entry(p, name, i)
    <3>1. f[c] = {} /\ i < Count(rhs, p, name)
      BY <1>4, <2>1 DEF NoneReported
    <3>2. name \in Names
      BY <1>1
    <3>3. c \in DOMAIN lhs /\ c \in DOMAIN rhs /\ Front(c) = p /\ c # <<>>
      BY <1>1, <1>2, <2>1, <3>1, <3>2
    <3> HIDE DEF c
    <3>4. SameFrom(lhs, rhs, c)
      BY <3>1, <3>3
    <3>5. Agree(lhs, rhs, c) /\ SameBelow(lhs, rhs, c)
      BY <3>3, <3>4 DEF SameFrom, Agree
    <3> QED BY <3>5 DEF c
  <2>2. ASSUME NEW e \in DOMAIN lhs \cup DOMAIN rhs, Below(e, p) PROVE Agree(lhs, rhs, e)
    <3>1. \E name \in NamesBelow(lhs, p), i \in Nat :
            i < Count(lhs, p, name) /\ (e = Entry(p, name, i) \/ Below(e, Entry(p, name, i)))
      <4>1. CASE e \in DOMAIN lhs
        <5>1. PICK c \in DOMAIN lhs, name \in NamesBelow(lhs, p), i \in Nat :
                c = Entry(p, name, i) /\ (e = c \/ Below(e, c))
          BY <2>2, <4>1, ChildOf
        <5>2. i < Count(lhs, p, name)
          BY <1>1, <5>1
        <5> QED BY <5>1, <5>2
      <4>2. CASE e \in DOMAIN rhs
        <5>1. PICK c \in DOMAIN rhs, name \in NamesBelow(rhs, p), i \in Nat :
                c = Entry(p, name, i) /\ (e = c \/ Below(e, c))
          BY <2>2, <4>2, ChildOf
        <5>2. i < Count(rhs, p, name)
          BY <1>1, <5>1
        <5>3. name \in NamesBelow(lhs, p) /\ Count(lhs, p, name) = Count(rhs, p, name)
          BY <1>4 DEF NoneReported
        <5> QED BY <5>1, <5>2, <5>3
      <4> QED BY <4>1, <4>2
    <3>2. PICK name \in NamesBelow(lhs, p), i \in Nat :
            i < Count(lhs, p, name) /\ (e = Entry(p, name, i) \/ Below(e, Entry(p, name, i)))
      BY <3>1
    <3>3. Agree(lhs, rhs, Entry(p, name, i)) /\ SameBelow(lhs, rhs, Entry(p, name, i))
      BY <2>1, <3>2
    <3> QED BY <3>2, <3>3 DEF SameBelow
  <2> QED BY <2>2 DEF SameBelow
<1>5. ASSUME SameBelow(lhs, rhs, p) PROVE NoneReported(f, lhs, rhs, p)
  <2>1. ASSUME NEW name \in NamesBelow(rhs, p) PROVE name \in NamesBelow(lhs, p)
    <3>1. PICK r \in DOMAIN rhs : Len(r) = Len(p) + 1 /\ Front(r) = p /\ Last(r)[1] = name
      BY DEF NamesBelow
    <3>2. Below(r, p)
      <4>1. r \in Path /\ r # <<>>
        BY <1>3
      <4>2. Front(r) = Upto(r, Len(r) - 1)
        BY <4>1, PathFront
      <4>3. Len(p) \in Nat
        BY PathUpto
      <4>4. Len(r) > Len(p) /\ Len(r) - 1 = Len(p)
        BY <3>1, <4>3
      <4> QED BY <3>1, <4>2, <4>4 DEF Below
    <3>3. r \in DOMAIN lhs
      BY <1>5, <3>2 DEF SameBelow, Agree
    <3> QED BY <3>1, <3>3 DEF NamesBelow
  <2>2. ASSUME NEW name \in NamesBelow(lhs, p) PROVE Count(lhs, p, name) = Count(rhs, p, name)
    <3> DEFINE a == Count(lhs, p, name)
               b == Count(rhs, p, name)
    <3>1. name \in Names
      BY <1>1
    <3>2. \A i \in Nat : Entry(p, name, i) \in DOMAIN lhs <=> Entry(p, name, i) \in DOMAIN rhs
      BY <1>2, <1>5, <3>1 DEF SameBelow, Agree
    <3>3. a \in Nat /\ b \in Nat /\ \A i \in Nat : i < a <=> i < b
      BY <1>1, <3>1, <3>2
    <3> HIDE DEF a, b
    <3>4. a = b
      <4>1. (b < a <=> b < b) /\ (a < a <=> a < b)
        BY <3>3
      <4> QED BY <3>3, <4>1
    <3> QED BY <3>4 DEF a, b
  <2>3. ASSUME NEW name \in NamesBelow(lhs, p), NEW i \in Nat, i < Count(lhs, p, name)
        PROVE  f[Entry(p, name, i)] = {}
    <3> DEFINE c == Entry(p, name, i)
    <3>1. name \in Names
      BY <1>1
    <3>2. c \in DOMAIN lhs /\ Front(c) = p /\ Below(c, p) /\ \A e \in Path : Below(e, c) => Below(e, p)
      BY <1>1, <1>2, <2>3, <3>1
    <3> HIDE DEF c
    <3>3. Agree(lhs, rhs, c)
      BY <1>5, <3>2 DEF SameBelow
    <3>4. SameBelow(lhs, rhs, c)
      BY <1>3, <1>5, <3>2 DEF SameBelow
    <3>5. f[c] = {}
      BY <3>2, <3>3, <3>4 DEF SameFrom, Agree
    <3> QED BY <3>5 DEF c
  <2> QED BY <2>1, <2>2, <2>3 DEF NoneReported
<1> QED BY <1>4, <1>5

\* The report at p, when the reports right below it tell what is the same.
LEMMA DiffStep ==
  ASSUME NEW lhs, Tidy(lhs), NEW rhs, Tidy(rhs), NEW p \in Places(lhs), p \in Places(rhs), NEW f,
         f[p] = DiffAt(f, lhs, rhs, p),
         \A c \in DOMAIN lhs : c \in DOMAIN rhs /\ Front(c) = p => (f[c] = {} <=> SameFrom(lhs, rhs, c))
  PROVE  f[p] = {} <=> SameFrom(lhs, rhs, p)
<1>1. p \in Path
  BY PlacePath
<1>2. p # <<>> => /\ lhs[p].value \in Values \cup {Section} /\ rhs[p].value \in Values \cup {Section}
                  /\ Same(lhs[p].value, rhs[p].value) => (lhs[p].value = Section <=> rhs[p].value = Section)
  <2>1. p # <<>> => p \in DOMAIN lhs /\ p \in DOMAIN rhs
    BY DEF Places
  <2>2. p # <<>> => lhs[p].value \in Values \cup {Section} /\ rhs[p].value \in Values \cup {Section}
    BY <2>1 DEF Tidy, Typed
  <2> QED BY <2>2, SameFacts
<1>3. CASE p # <<>> /\ ~Same(lhs[p].value, rhs[p].value)
  BY <1>3 DEF DiffAt, SameFrom
<1>4. CASE p # <<>> /\ Same(lhs[p].value, rhs[p].value) /\ lhs[p].value # Section
  <2>1. f[p] = {}
    BY <1>4 DEF DiffAt
  <2>2. ASSUME NEW e \in DOMAIN lhs \cup DOMAIN rhs, Below(e, p) PROVE FALSE
    <3>1. CASE e \in DOMAIN lhs
      <4>1. lhs[p].value = Section
        BY <1>1, <1>4, <2>2, <3>1, ChildOf
      <4> QED BY <1>4, <4>1
    <3>2. CASE e \in DOMAIN rhs
      <4>1. rhs[p].value = Section
        BY <1>1, <1>4, <2>2, <3>2, ChildOf
      <4> QED BY <1>2, <1>4, <4>1
    <3> QED BY <3>1, <3>2
  <2> QED BY <1>4, <2>1, <2>2 DEF SameFrom, SameBelow
<1>5. CASE p # <<>> => Same(lhs[p].value, rhs[p].value) /\ lhs[p].value = Section
  <2>1. f[p] = NotInLhs(lhs, rhs, p) \cup UNION {DiffOfName(f, lhs, rhs, p, name) : name \in NamesBelow(lhs, p)}
    BY <1>5 DEF DiffAt
  <2>2. f[p] = {} <=> NoneReported(f, lhs, rhs, p)
    BY <1>1, <2>1, ReportEmpty
  <2>3. NoneReported(f, lhs, rhs, p) <=> SameBelow(lhs, rhs, p)
    BY <1>1, NoneReportedIs
  <2> QED BY <1>5, <2>2, <2>3 DEF SameFrom
<1> QED BY <1>3, <1>4, <1>5

\* dc_compare tells whether two trees have the same elements, and values that
\* dx_value_compare does not tell apart.
LEMMA CompareIs ==
  ASSUME NEW lhs, Tidy(lhs), NEW rhs, Tidy(rhs)
  PROVE  ComparesEqual(lhs, rhs) <=> SameAsFarAsCompared(lhs, rhs)
<1> DEFINE f == CHOOSE f : IsDiff(f, lhs, rhs, Places(lhs))
<1>1. IsDiff(f, lhs, rhs, Places(lhs))
  BY DiffExists
<1>2. DiffReport(lhs, rhs) = f[<<>>]
  <2>1. DOMAIN lhs \cup {<<>>} = Places(lhs)
    BY DEF Places
  <2> QED BY <2>1 DEF DiffReport, IsDiff, DiffAt
<1>3. \A p \in Places(lhs) : f[p] = DiffAt(f, lhs, rhs, p)
  BY <1>1 DEF IsDiff
<1> HIDE DEF f
<1>4. PICK b \in Nat : \A p \in DOMAIN lhs : Len(p) <= b
  BY DEF Tidy, Limited
<1> DEFINE D(n) == Deep(lhs, b, n)
           N == b + 1
           T == {n \in 0..N : \A p \in D(n) : p \in Places(rhs) => (f[p] = {} <=> SameFrom(lhs, rhs, p))}
<1>5. /\ D(0) = {} /\ D(N) = Places(lhs)
      /\ \A n \in Nat : \A c \in DOMAIN lhs : Front(c) \in D(n + 1) => c \in D(n)
  BY <1>4, DeepFacts
<1>6. \A n : D(n) \subseteq Places(lhs)
  BY DEF Deep
<1>7. N \in Nat /\ 0 \in 0..N /\ N \in 0..N
  BY <1>4
<1> HIDE DEF D, N
<1>8. 0 \in T
  BY <1>5, <1>7
<1>9. ASSUME NEW n \in 0..(N - 1), n \in T PROVE n + 1 \in T
  <2>1. n \in Nat /\ n + 1 \in 0..N
    BY <1>7
  <2>2. ASSUME NEW p \in D(n + 1), p \in Places(rhs) PROVE f[p] = {} <=> SameFrom(lhs, rhs, p)
    <3>1. ASSUME NEW c \in DOMAIN lhs, c \in DOMAIN rhs, Front(c) = p
          PROVE  f[c] = {} <=> SameFrom(lhs, rhs, c)
      <4>1. c \in D(n) /\ c \in Places(rhs)
        BY <1>5, <2>1, <3>1 DEF Places
      <4> QED BY <1>9, <4>1
    <3>2. p \in Places(lhs) /\ f[p] = DiffAt(f, lhs, rhs, p)
      BY <1>3, <1>6
    <3> QED BY <2>2, <3>1, <3>2, DiffStep
  <2> QED BY <2>1, <2>2
<1>10. N \in T
  <2> HIDE DEF T
  <2> QED BY <1>7, <1>8, <1>9, Induction
<1>11. f[<<>>] = {} <=> SameFrom(lhs, rhs, <<>>)
  <2>1. <<>> \in D(N) /\ <<>> \in Places(rhs)
    BY <1>5 DEF Places
  <2> QED BY <1>10, <2>1
<1>12. \A e \in DOMAIN lhs \cup DOMAIN rhs : Below(e, <<>>)
  <2> SUFFICES ASSUME NEW e \in DOMAIN lhs \cup DOMAIN rhs PROVE Below(e, <<>>)
    OBVIOUS
  <2>1. e \in Path /\ e # <<>>
    BY DEF Tidy, Rooted
  <2>2. Upto(e, 0) = <<>> /\ Len(e) \in Nat /\ Len(e) # 0 /\ Len(<<>>) = 0
    BY <2>1, PathUpto
  <2> QED BY <2>2 DEF Below
<1>13. SameFrom(lhs, rhs, <<>>) <=> \A e \in DOMAIN lhs \cup DOMAIN rhs : Agree(lhs, rhs, e)
  BY <1>12 DEF SameFrom, SameBelow
<1>14. (\A e \in DOMAIN lhs \cup DOMAIN rhs : Agree(lhs, rhs, e)) <=> SameAsFarAsCompared(lhs, rhs)
  <2>1. (\A e \in DOMAIN lhs \cup DOMAIN rhs : e \in DOMAIN lhs <=> e \in DOMAIN rhs)
          <=> DOMAIN lhs = DOMAIN rhs
    OBVIOUS
  <2> QED BY <2>1 DEF Agree, SameAsFarAsCompared
<1> QED BY <1>2, <1>11, <1>13, <1>14 DEF ComparesEqual

\* What a reader makes of a text, value by value.
AsValue(v) == IF v = Section THEN v ELSE AsRead[v]

\* The values that are read from a text.
LEMMA UnserializedIs ==
  ASSUME NEW json
  PROVE  /\ DOMAIN Unserialized(json) = DOMAIN Content(json)
         /\ \A p \in DOMAIN Content(json) : Unserialized(json)[p].value = AsValue(Content(json)[p])
<1> DEFINE c == Content(json)
           u == Unserialized(json)
           marked(p) == AsValue(c[p]) # Section /\ ~Accepts(NamesOf(p), AsValue(c[p]))
<1>1. u = [p \in DOMAIN c |-> [value |-> AsValue(c[p]), invalid |-> marked(p)]]
  BY DEF Unserialized, AsValue
<1> HIDE DEF c, u, marked
<1>2. DOMAIN u = DOMAIN c /\ \A p \in DOMAIN c : u[p] = [value |-> AsValue(c[p]), invalid |-> marked(p)]
  BY <1>1
<1>3. \A p \in DOMAIN c : u[p].value = AsValue(c[p])
  BY <1>2
<1> QED BY <1>2, <1>3 DEF c, u

(* For all molds, edits and values: dc_compare returns OK exactly for      *)
(* configs with the same elements, and values that dx_value_compare does   *)
(* not tell apart, from either side (diff_compare_contexts_with_report,    *)
(* compare_all_elements).                                                  *)
THEOREM TreeCompareTellsDifference == TreeSpec => []CompareTellsDifference
<1>1. TreeInv => CompareTellsDifference
  <2> SUFFICES ASSUME TreeInv PROVE CompareTellsDifference
    OBVIOUS
  <2> DEFINE other == Other
  <2>1. Tidy(elements) /\ TextInv(text)
    BY DEF TreeInv, Whole
  <2>2. Tidy(other)
    BY <2>1, ReadTree DEF Other
  <2> HIDE DEF other
  <2>3. /\ ComparesEqual(elements, other) <=> SameAsFarAsCompared(elements, other)
        /\ ComparesEqual(other, elements) <=> SameAsFarAsCompared(other, elements)
    BY <2>1, <2>2, CompareIs
  <2>4. SameAsFarAsCompared(other, elements) <=> SameAsFarAsCompared(elements, other)
    <3>1. \A p : p \in DOMAIN elements /\ p \in DOMAIN other =>
            (Same(elements[p].value, other[p].value) <=> Same(other[p].value, elements[p].value))
      <4>1. \A p : p \in DOMAIN elements /\ p \in DOMAIN other =>
              elements[p].value \in Values \cup {Section} /\ other[p].value \in Values \cup {Section}
        BY <2>1, <2>2 DEF Tidy, Typed
      <4> QED BY <4>1, SameFacts
    <3> QED BY <3>1 DEF SameAsFarAsCompared
  <2> QED BY <2>3, <2>4 DEF CompareTellsDifference, other
<1> QED BY <1>1, TreeInvHolds, PTL

\* The reader makes of each value in the config what it was.
ReadsBack ==
  \A p \in DOMAIN elements :
    elements[p].value # Section => AsRead[elements[p].value] = elements[p].value /\ elements[p].value # Unreadable

(* A config whose write succeeds is read back as it was exactly when the   *)
(* reader makes of each of its values what it was: nothing is lost in the  *)
(* shape of the text (serialize_duplicate_entries,                         *)
(* ConfigReader::_unserialize_node), and every write succeeds but of what  *)
(* the mold lacks and is no string (ConfigWriter::set_keyval).             *)
THEOREM TreeRoundTrip == TreeSpec => [](RoundTrip <=> (Writable(elements) => ReadsBack))
<1>1. TreeInv => (RoundTrip <=> (Writable(elements) => ReadsBack))
  <2> SUFFICES ASSUME TreeInv PROVE RoundTrip <=> (Writable(elements) => ReadsBack)
    OBVIOUS
  <2> DEFINE t == elements
             json == Serialized(t)
             u == Unserialized(json)
  <2>1. Whole(t) /\ Tidy(t)
    BY DEF TreeInv, Whole
  <2>2. /\ Distinct(json) /\ DOMAIN Content(json) = DOMAIN t
        /\ \A p \in DOMAIN t : Content(json)[p] = t[p].value
    BY <2>1, SerializedHolds, HoldsFacts
  <2>3. DOMAIN u = DOMAIN t /\ \A p \in DOMAIN t : u[p].value = AsValue(t[p].value)
    BY <2>2, UnserializedIs
  <2> HIDE DEF json, u
  <2>4. Range(json) = {t[p].value : p \in DOMAIN t}
    <3>1. /\ DOMAIN t = {ReadPath(r) : r \in DOMAIN json}
          /\ \A r \in DOMAIN json : Content(json)[ReadPath(r)] = json[r]
      BY <2>2, ContentIs
    <3>2. \A r \in DOMAIN json : ReadPath(r) \in DOMAIN t /\ json[r] = t[ReadPath(r)].value
      BY <2>2, <3>1
    <3>3. ASSUME NEW p \in DOMAIN t PROVE \E r \in DOMAIN json : json[r] = t[p].value
      BY <3>1, <3>2
    <3> QED BY <3>2, <3>3 DEF Range
  <2>5. Readable(json) <=> \A p \in DOMAIN t : t[p].value # Section => AsRead[t[p].value] # Unreadable
    <3> HIDE DEF t
    <3> QED BY <2>4 DEF Readable
  <2>6. [p \in DOMAIN t |-> t[p].value] = [p \in DOMAIN u |-> u[p].value]
          <=> \A p \in DOMAIN t : t[p].value = AsValue(t[p].value)
    <3> DEFINE v == [p \in DOMAIN t |-> t[p].value]
               w == [p \in DOMAIN t |-> AsValue(t[p].value)]
    <3>1. [p \in DOMAIN u |-> u[p].value] = w
      BY <2>3
    <3>2. v = w <=> \A p \in DOMAIN t : v[p] = w[p]
      OBVIOUS
    <3>3. \A p \in DOMAIN t : v[p] = t[p].value /\ w[p] = AsValue(t[p].value)
      OBVIOUS
    <3> HIDE DEF v, w
    <3>4. v = w <=> \A p \in DOMAIN t : t[p].value = AsValue(t[p].value)
      BY <3>2, <3>3
    <3> QED BY <3>1, <3>4 DEF v
  <2>7. RoundTrip <=> (Writable(t) => Readable(json) /\ \A p \in DOMAIN t : t[p].value = AsValue(t[p].value))
    <3>1. RoundTrip <=> (Writable(t) => Readable(json) /\ ValuesOf(u) = ValuesOf(t))
      BY DEF RoundTrip, json, u
    <3>2. ValuesOf(t) = [p \in DOMAIN t |-> t[p].value] /\ ValuesOf(u) = [p \in DOMAIN u |-> u[p].value]
      BY DEF ValuesOf
    <3> HIDE DEF t
    <3> QED BY <2>6, <3>1, <3>2
  <2>8. (Readable(json) /\ \A p \in DOMAIN t : t[p].value = AsValue(t[p].value)) <=> ReadsBack
    BY <2>5 DEF ReadsBack, AsValue
  <2> QED BY <2>7, <2>8
<1> QED BY <1>1, TreeInvHolds, PTL
=============================================================================
